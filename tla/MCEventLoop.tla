----------------------------- MODULE MCEventLoop -----------------------------
EXTENDS EventLoop, TLC

CONSTANTS a1, a2, v1, p1, p2

MCAppender == {a1, a2}

=============================================================================

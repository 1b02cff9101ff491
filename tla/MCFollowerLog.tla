---------------------------- MODULE MCFollowerLog ----------------------------
(* One command that cannot be parsed: the second one of term 1.            *)
EXTENDS FollowerLog

MCBadCommand == {<<1, 2>>}

=============================================================================

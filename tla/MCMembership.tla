----------------------------- MODULE MCMembership -----------------------------
(* Two followers, two calls at a time, one restart of the master.          *)
EXTENDS Membership

CONSTANTS h1, h2, c1, c2

============================================================================

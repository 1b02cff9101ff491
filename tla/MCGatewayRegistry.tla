--------------------------- MODULE MCGatewayRegistry ---------------------------
EXTENDS GatewayRegistry, TLC

CONSTANTS s1, s2, s3, h1, h2

(* Two processes on one host, both started as master (one of them may be   *)
(* the other started again), and a follower on another host.               *)
MCHostOf == (s1 :> h1) @@ (s2 :> h2) @@ (s3 :> h1)

MCSymmetry == Permutations({s1, s3})

=============================================================================

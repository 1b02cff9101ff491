------------------------------- MODULE Commands -------------------------------
(***************************************************************************)
(* The commands that Set and Delete write to the log (kv_impl.go) and that *)
(* ApplyLogToStateMachine reads back (state_machine.go).                   *)
(*                                                                         *)
(* A string is the sequence of the parts that strings.Split(s, ":") gives, *)
(* so that joining with ':' is concatenation: the key a:b is <<"a", "b">>. *)
(***************************************************************************)
EXTENDS Naturals, Sequences

CONSTANT None   \* no value: what a Delete leaves

(* "set:%s:%s" and "delete:%s" *)
Command(key, val) ==
  IF val = None THEN <<"delete">> \o key ELSE <<"set">> \o key \o val

(* A set must have three parts; a delete may have more than it needs. *)
Parses(cmd) == Len(cmd) >= 2 /\ (cmd[1] = "set" => Len(cmd) = 3)

(* Key and value are the second and third part. *)
KeyIn(cmd) == <<cmd[2]>>
ValueIn(cmd) == IF cmd[1] = "set" THEN <<cmd[3]>> ELSE None

===============================================================================

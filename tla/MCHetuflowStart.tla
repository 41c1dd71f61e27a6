-------------------------- MODULE MCHetuflowStart --------------------------
(***************************************************************************)
(* Instances of HetuflowStart for TLC.                                     *)
(***************************************************************************)
EXTENDS HetuflowStart, TLC

CONSTANTS c1, c2, c3

\* Two callers start the same key, a third another one where there is one.
TwoKeys == (c1 :> "leave" @@ c2 :> "leave" @@ c3 :> "order")
OneKey  == [c \in Caller |-> "leave"]

Keys == {"leave", "order"}

============================================================================

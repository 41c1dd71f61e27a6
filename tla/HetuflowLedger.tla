--------------------------- MODULE HetuflowLedger ---------------------------
(***************************************************************************)
(* What the outbox promises of a side-effect intent (hetuflow.md, sections *)
(* 4 and 10): it is recorded before it is delivered, it may be delivered   *)
(* more than once and even after it is settled, and it is settled once,    *)
(* with success only after the receiver accepted it.  Settling runs the    *)
(* workflow's follow-up, so each intent advances its workflow once.        *)
(***************************************************************************)
CONSTANT Record

VARIABLES
  intent,     \* record -> "absent", "waiting", "succeeded" or "dead"
  accepted    \* records some delivery of which the receiver accepted

vars == <<intent, accepted>>

Init ==
  /\ intent = [r \in Record |-> "absent"]
  /\ accepted = {}

Note(r) ==
  /\ intent[r] = "absent"
  /\ intent' = [intent EXCEPT ![r] = "waiting"]
  /\ UNCHANGED accepted

Accept(r) ==
  /\ intent[r] # "absent"
  /\ accepted' = accepted \cup {r}
  /\ UNCHANGED intent

Succeed(r) ==
  /\ intent[r] = "waiting"
  /\ r \in accepted
  /\ intent' = [intent EXCEPT ![r] = "succeeded"]
  /\ UNCHANGED accepted

GiveUp(r) ==
  /\ intent[r] = "waiting"
  /\ intent' = [intent EXCEPT ![r] = "dead"]
  /\ UNCHANGED accepted

Next == \E r \in Record : Note(r) \/ Accept(r) \/ Succeed(r) \/ GiveUp(r)

Spec == Init /\ [][Next]_vars

=============================================================================

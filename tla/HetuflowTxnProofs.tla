-------------------------- MODULE HetuflowTxnProofs --------------------------
(***************************************************************************)
(* Proofs about HetuflowTxn, for any sessions, requests and bound, and for *)
(* any instance that waits at one activity or at the branches of a split:  *)
(* a key is in the log once, the instance advances once unless a delivery  *)
(* overlooked its activity, and a join under the unique index is not       *)
(* missed.                                                                 *)
(***************************************************************************)
EXTENDS HetuflowTxn, FiniteSetTheorems, SequenceTheorems, TLAPS

----------------------------------------------------------------------------
(* Where a transaction is.                                                 *)

Kind == {"signal", "claim", "timer", "delivery"}

Stmt ==
  {"lock", "seen", "target", "assign", "mark", "instance", "activity", "seq", "insert", "decide", "cancel",
   "route", "sweepTimers", "sweepActs", "advance", "clear", "commit"}

Value == {"none", "pending", "active", "completed", "skipped", "done", "cancelled"}

\* The statement a session executes next.
Pc(t) == IF Running(t) THEN Head(txn[t].todo) ELSE "idle"

\* The statement after that one.
NextPc(t) == IF Tail(txn[t].todo) = <<>> THEN "idle" ELSE Head(Tail(txn[t].todo))

\* The list s is what is left of the list p.
RestOf(s, p) ==
  /\ Len(s) <= Len(p)
  /\ \A i \in 1..Len(s) : s[i] = p[Len(p) - Len(s) + i]

Aside == <<"clear", "commit">>

\* What is left to do is the rest of the program of its kind, or of an outcome.
Planned(k, s) ==
  \/ s = <<>>
  \/ k \in Kind /\ RestOf(s, Program[k])
  \/ k \in Kind \ {"claim"} /\ (RestOf(s, Outcome) \/ RestOf(s, Aside))

TxnType ==
  [kind : Kind \cup {"none"}, todo : Seq(Stmt), act : Act \cup {""}, key : Key \cup {""}, seq : Nat,
   logs : BOOLEAN, moves : BOOLEAN, misses : BOOLEAN]

Shape(t) ==
  /\ Planned(txn[t].kind, txn[t].todo)
  /\ Running(t) <=> txn[t].kind # "none"
  /\ Running(t) => txn[t].act \in Act
  /\ txn[t].kind \in {"signal", "claim"} => txn[t].key \in Key
  /\ txn[t].kind \notin {"signal", "claim"} => txn[t].key = ""

Typed ==
  /\ TypeOK
  /\ val \in [Row -> Value] /\ new \in [Row -> Value]
  /\ txn \in [Session -> TxnType]
  /\ \A t \in Session : Shape(t)

\* Which statement follows which, by the kind of transaction.
Follows(k, s, n) ==
  /\ s = "lock" => k \in {"signal", "claim"} /\ n = "seen"
  /\ s = "seen" => k \in {"signal", "claim"} /\ n = "target"
  /\ s = "target" => \/ k = "signal" /\ n = "seq"
                     \/ k = "claim" /\ n = "assign"
  /\ s = "assign" => k = "claim" /\ n = "seq"
  /\ s = "mark" => k \in {"timer", "delivery"} /\ n = "instance"
  /\ s = "instance" => k \in {"timer", "delivery"} /\ n = "activity"
  /\ s = "activity" => \/ k = "timer" /\ n = "seq"
                       \/ k = "delivery" /\ n = "decide"
  /\ s = "seq" => n = "insert"
  /\ s = "insert" => \/ k = "claim" /\ n = "commit"
                     \/ k \in {"signal", "timer"} /\ n = "decide"
                     \/ k = "delivery" /\ n = "route"
  /\ s = "decide" => k # "claim" /\ n = "cancel"
  /\ s = "cancel" => \/ k \in {"signal", "timer"} /\ n = "route"
                     \/ k = "delivery" /\ n = "seq"
  /\ s = "route" => k # "claim"
  /\ s = "sweepTimers" => k # "claim" /\ n = "sweepActs"
  /\ s = "sweepActs" => k # "claim" /\ n = "advance"
  /\ s = "advance" => k # "claim" /\ n = "commit"
  /\ s = "clear" => k # "claim" /\ n = "commit"

\* A list that is left keeps being one when its first statement is done.
LEMMA RestTail ==
  ASSUME NEW s \in Seq(Stmt), NEW p \in Seq(Stmt), s # <<>>, RestOf(s, p)
  PROVE  RestOf(Tail(s), p)
<1>1. Len(s) \in Nat \ {0} /\ Len(p) \in Nat /\ Len(Tail(s)) = Len(s) - 1
  OBVIOUS
<1>2. ASSUME NEW i \in 1..Len(Tail(s)) PROVE Tail(s)[i] = p[Len(p) - Len(Tail(s)) + i]
  <2>1. Tail(s)[i] = s[i + 1] /\ i + 1 \in 1..Len(s)
    BY <1>1
  <2>2. Len(p) - Len(s) + (i + 1) = Len(p) - Len(Tail(s)) + i
    BY <1>1
  <2> QED BY <2>1, <2>2 DEF RestOf
<1> QED BY <1>1, <1>2 DEF RestOf

\* Its first statement is one of the program, and the next one follows it there.
LEMMA RestHead ==
  ASSUME NEW s \in Seq(Stmt), NEW p \in Seq(Stmt), s # <<>>, RestOf(s, p)
  PROVE  \E i \in 1..Len(p) :
           /\ Head(s) = p[i]
           /\ i < Len(p) => Tail(s) # <<>> /\ Head(Tail(s)) = p[i + 1]
<1> DEFINE i == Len(p) - Len(s) + 1
<1>1. Len(s) \in Nat \ {0} /\ Len(p) \in Nat /\ Len(Tail(s)) = Len(s) - 1 /\ Head(s) = s[1]
  OBVIOUS
<1>2. i \in 1..Len(p) /\ Head(s) = p[i]
  BY <1>1 DEF RestOf
<1>3. ASSUME i < Len(p) PROVE Tail(s) # <<>> /\ Head(Tail(s)) = p[i + 1]
  <2>1. Len(s) > 1
    BY <1>1, <1>3
  <2>2. Len(Tail(s)) # 0 /\ Tail(s) \in Seq(Stmt)
    BY <2>1, <1>1
  <2>3. Tail(s) # <<>>
    BY <2>2, EmptySeq
  <2>4. Head(Tail(s)) = Tail(s)[1]
    BY <2>2, <2>3
  <2>5. Tail(s)[1] = s[1 + 1]
    BY <2>1, <1>1
  <2>6. s[2] = p[Len(p) - Len(s) + 2] /\ Len(p) - Len(s) + 2 = i + 1
    BY <2>1, <1>1 DEF RestOf
  <2> QED BY <2>3, <2>4, <2>5, <2>6
<1> QED BY <1>2, <1>3

\* The programs are sequences of statements.
LEMMA Programs ==
  /\ \A k \in Kind : Program[k] \in Seq(Stmt)
  /\ Outcome \in Seq(Stmt) /\ Aside \in Seq(Stmt) /\ <<"advance", "commit">> \in Seq(Stmt)
  /\ <<"commit">> \in Seq(Stmt) /\ <<>> \in Seq(Stmt)
<1>1. Program["signal"] \in Seq(Stmt)
  BY DEF Program, Stmt
<1>2. Program["claim"] \in Seq(Stmt)
  BY DEF Program, Stmt
<1>3. Program["timer"] \in Seq(Stmt)
  BY DEF Program, Stmt
<1>4. Program["delivery"] \in Seq(Stmt)
  BY DEF Program, Stmt
<1>5. Outcome \in Seq(Stmt) /\ Aside \in Seq(Stmt) /\ <<"advance", "commit">> \in Seq(Stmt)
  BY DEF Outcome, Aside, Stmt
<1>6. <<"commit">> \in Seq(Stmt) /\ <<>> \in Seq(Stmt)
  BY DEF Stmt
<1> QED BY <1>1, <1>2, <1>3, <1>4, <1>5, <1>6 DEF Kind

\* What follows a statement in a signal's transaction.
LEMMA SignalOrder ==
  ASSUME NEW p, p = Program["signal"], NEW i \in 1..Len(p), NEW n, i < Len(p) => n = p[i + 1]
  PROVE  Follows("signal", p[i], n)
<1>1. /\ Len(p) = 8 /\ p[1] = "lock" /\ p[2] = "seen" /\ p[3] = "target" /\ p[4] = "seq"
      /\ p[5] = "insert" /\ p[6] = "decide" /\ p[7] = "cancel" /\ p[8] = "route"
  BY DEF Program
<1> QED BY <1>1 DEF Follows

\* The same for update_activity_assignee's transaction.
LEMMA ClaimOrder ==
  ASSUME NEW p, p = Program["claim"], NEW i \in 1..Len(p), NEW n, i < Len(p) => n = p[i + 1]
  PROVE  Follows("claim", p[i], n)
<1>1. /\ Len(p) = 7 /\ p[1] = "lock" /\ p[2] = "seen" /\ p[3] = "target" /\ p[4] = "assign"
      /\ p[5] = "seq" /\ p[6] = "insert" /\ p[7] = "commit"
  BY DEF Program
<1> QED BY <1>1 DEF Follows

\* fire_timer.
LEMMA TimerOrder ==
  ASSUME NEW p, p = Program["timer"], NEW i \in 1..Len(p), NEW n, i < Len(p) => n = p[i + 1]
  PROVE  Follows("timer", p[i], n)
<1>1. /\ Len(p) = 8 /\ p[1] = "mark" /\ p[2] = "instance" /\ p[3] = "activity" /\ p[4] = "seq"
      /\ p[5] = "insert" /\ p[6] = "decide" /\ p[7] = "cancel" /\ p[8] = "route"
  BY DEF Program
<1> QED BY <1>1 DEF Follows

\* on_notification_delivered, which decides before it appends.
LEMMA DeliveryOrder ==
  ASSUME NEW p, p = Program["delivery"], NEW i \in 1..Len(p), NEW n, i < Len(p) => n = p[i + 1]
  PROVE  Follows("delivery", p[i], n)
<1>1. /\ Len(p) = 8 /\ p[1] = "mark" /\ p[2] = "instance" /\ p[3] = "activity" /\ p[4] = "decide"
      /\ p[5] = "cancel" /\ p[6] = "seq" /\ p[7] = "insert" /\ p[8] = "route"
  BY DEF Program
<1> QED BY <1>1 DEF Follows

\* A wait_any join that is satisfied, and every advance.
LEMMA OutcomeOrder ==
  ASSUME NEW k \in Kind \ {"claim"}, NEW p, p = Outcome, NEW i \in 1..Len(p), NEW n,
          i < Len(p) => n = p[i + 1]
  PROVE  Follows(k, p[i], n)
<1>1. /\ Len(p) = 4 /\ p[1] = "sweepTimers" /\ p[2] = "sweepActs" /\ p[3] = "advance" /\ p[4] = "commit"
  BY DEF Outcome
<1> QED BY <1>1 DEF Follows, Kind

\* A branch that leaves its join to the others.
LEMMA AsideOrder ==
  ASSUME NEW k \in Kind \ {"claim"}, NEW p, p = Aside, NEW i \in 1..Len(p), NEW n,
          i < Len(p) => n = p[i + 1]
  PROVE  Follows(k, p[i], n)
<1>1. /\ Len(p) = 2 /\ p[1] = "clear" /\ p[2] = "commit"
  BY DEF Aside
<1> QED BY <1>1 DEF Follows, Kind

\* So for any rest of a program the statement that comes next follows from the first one.
LEMMA FollowsInProgram ==
  ASSUME NEW k \in Kind, NEW s \in Seq(Stmt), s # <<>>, RestOf(s, Program[k]),
         NEW n, n = (IF Tail(s) = <<>> THEN "idle" ELSE Head(Tail(s)))
  PROVE  Follows(k, Head(s), n)
<1>1. Program[k] \in Seq(Stmt)
  BY Programs
<1>2. PICK i \in 1..Len(Program[k]) :
        Head(s) = Program[k][i] /\ (i < Len(Program[k]) => n = Program[k][i + 1])
  BY <1>1, RestHead
<1>3. k = "signal" => Follows(k, Program[k][i], n)
  BY <1>2, SignalOrder
<1>4. k = "claim" => Follows(k, Program[k][i], n)
  BY <1>2, ClaimOrder
<1>5. k = "timer" => Follows(k, Program[k][i], n)
  BY <1>2, TimerOrder
<1>6. k = "delivery" => Follows(k, Program[k][i], n)
  BY <1>2, DeliveryOrder
<1> QED BY <1>2, <1>3, <1>4, <1>5, <1>6 DEF Kind

\* The same for the rest of an outcome.
LEMMA FollowsInOutcome ==
  ASSUME NEW k \in Kind \ {"claim"}, NEW s \in Seq(Stmt), s # <<>>, RestOf(s, Outcome) \/ RestOf(s, Aside),
         NEW n, n = (IF Tail(s) = <<>> THEN "idle" ELSE Head(Tail(s)))
  PROVE  Follows(k, Head(s), n)
<1>1. CASE RestOf(s, Outcome)
  <2>1. PICK i \in 1..Len(Outcome) : Head(s) = Outcome[i] /\ (i < Len(Outcome) => n = Outcome[i + 1])
    BY <1>1, Programs, RestHead
  <2> QED BY <2>1, OutcomeOrder
<1>2. CASE RestOf(s, Aside)
  <2>1. PICK i \in 1..Len(Aside) : Head(s) = Aside[i] /\ (i < Len(Aside) => n = Aside[i + 1])
    BY <1>2, Programs, RestHead
  <2> QED BY <2>1, AsideOrder
<1> QED BY <1>1, <1>2

\* So a running transaction's next statement follows from its kind and the one before it.
LEMMA StatementOrder ==
  ASSUME Typed, NEW t \in Session, Running(t)
  PROVE  Follows(txn[t].kind, Pc(t), NextPc(t))
<1>1. txn[t].todo \in Seq(Stmt) /\ txn[t].todo # <<>> /\ Shape(t)
  BY DEF Typed, TxnType, Running
<1> QED BY <1>1, FollowsInProgram, FollowsInOutcome DEF Shape, Planned, Pc, NextPc

\* What is left after a statement is still what is left of a program.
LEMMA PlanTail ==
  ASSUME NEW k, NEW s \in Seq(Stmt), s # <<>>, Planned(k, s)
  PROVE  Planned(k, Tail(s))
BY Programs, RestTail DEF Planned

\* The last statement alone is what is left of every program.
LEMMA PlanCommit == ASSUME NEW k \in Kind PROVE Planned(k, <<"commit">>)
<1>1. RestOf(<<"commit">>, Outcome)
  BY DEF RestOf, Outcome
<1>2. RestOf(<<"commit">>, Program["claim"])
  BY DEF RestOf, Program
<1> QED BY <1>1, <1>2 DEF Planned

\* What Route may choose.
LEMMA PlanRoute ==
  ASSUME NEW k \in Kind \ {"claim"}
  PROVE  Planned(k, Outcome) /\ Planned(k, Aside) /\ Planned(k, <<"advance", "commit">>)
<1>1. RestOf(Outcome, Outcome) /\ RestOf(Aside, Aside) /\ RestOf(<<"advance", "commit">>, Outcome)
  BY DEF RestOf, Outcome, Aside
<1> QED BY <1>1 DEF Planned

----------------------------------------------------------------------------
(* What a step changes.                                                    *)

\* The rows that a step of t leaves to the others, and their transactions.
Frame(t) ==
  /\ UNCHANGED <<case, unique, val>>
  /\ \A r \in Row : \/ owner'[r] = owner[r] /\ new'[r] = new[r]
                    \/ {owner[r], owner'[r]} \subseteq {t, Nobody}
  /\ \A u \in Session \ {t} : txn'[u] = txn[u]

\* t goes on with the list s; its flags become q, l, m and z.
Goes(t, s, q, l, m, z) ==
  /\ txn' \in [Session -> TxnType]
  /\ txn'[t].todo = s
  /\ txn'[t].kind = txn[t].kind /\ txn'[t].act = txn[t].act /\ txn'[t].key = txn[t].key
  /\ txn'[t].seq = q /\ txn'[t].logs = l /\ txn'[t].moves = m /\ txn'[t].misses = z
  /\ \A u \in Session \ {t} : txn'[u] = txn[u]

\* The rows have their types after the step.
RowsTyped ==
  /\ owner' \in [Row -> Session \cup {Nobody}]
  /\ val' \in [Row -> Value] /\ new' \in [Row -> Value]

\* The branches' rows are as they were, and t keeps the instance's.
ActsKept(t) ==
  /\ \A a \in Act : owner'[ActRow(a)] = owner[ActRow(a)] /\ new'[ActRow(a)] = new[ActRow(a)]
  /\ owner[Instance] = t => owner'[Instance] = t

\* The rows of an instance are different ones.
LEMMA RowNames ==
  /\ Instance \in Row
  /\ \A a \in Act : /\ ActRow(a) \in Row /\ Timer(a) \in Row /\ Intent(a) \in Row
                    /\ ActRow(a) # Instance
                    /\ \A b \in Act : ActRow(a) # Timer(b) /\ ActRow(a) # Intent(b)
                    /\ \A b \in Act : ActRow(a) = ActRow(b) => a = b
BY DEF Row, Instance, ActRow, Timer, Intent

\* The fields of a transaction.
LEMMA TxnFields ==
  ASSUME Typed, NEW t \in Session
  PROVE  /\ txn[t] \in TxnType
         /\ txn[t].kind \in Kind \cup {"none"} /\ txn[t].todo \in Seq(Stmt)
         /\ txn[t].act \in Act \cup {""} /\ txn[t].key \in Key \cup {""} /\ txn[t].seq \in Nat
         /\ txn[t].logs \in BOOLEAN /\ txn[t].moves \in BOOLEAN /\ txn[t].misses \in BOOLEAN
         /\ Shape(t)
BY DEF Typed, TxnType

\* A statement that is the next one.
LEMMA AtPc ==
  ASSUME Typed, NEW t \in Session, NEW s, At(t, s)
  PROVE  Running(t) /\ Pc(t) = s /\ txn[t].kind \in Kind
BY TxnFields DEF At, Running, Pc, Shape

\* What is left of a running transaction after its next statement.
LEMMA TodoTail ==
  ASSUME Typed, NEW t \in Session, Running(t)
  PROVE  txn[t].todo \in Seq(Stmt) /\ txn[t].todo # <<>> /\ Tail(txn[t].todo) \in Seq(Stmt)
<1>1. txn[t].todo \in Seq(Stmt) /\ txn[t].todo # <<>>
  BY TxnFields DEF Running
<1> QED BY <1>1, HeadTailProperties

\* Go moves one statement on and leaves the flags.
LEMMA GoesOn ==
  ASSUME Typed, NEW t \in Session, Running(t), Go(t, <<>>)
  PROVE  Goes(t, Tail(txn[t].todo), txn[t].seq, txn[t].logs, txn[t].moves, txn[t].misses)
<1>1. txn[t].todo \in Seq(Stmt) /\ txn[t].todo # <<>> /\ Tail(txn[t].todo) \in Seq(Stmt)
  BY TodoTail
<1>2. <<>> \o Tail(txn[t].todo) = Tail(txn[t].todo)
  BY <1>1, ConcatEmptySeq
<1>3. txn' = [txn EXCEPT ![t].todo = Tail(txn[t].todo)]
  BY <1>2 DEF Go
<1> QED BY <1>1, <1>3 DEF Goes, Typed, TxnType

\* GoCommit leaves the flags too.
LEMMA GoesToCommit ==
  ASSUME Typed, NEW t \in Session, GoCommit(t)
  PROVE  Goes(t, <<"commit">>, txn[t].seq, txn[t].logs, txn[t].moves, txn[t].misses)
BY Programs DEF GoCommit, Goes, Typed, TxnType

\* Shape and statement after t went on.
LEMMA ShapeAfter ==
  ASSUME Typed, UNCHANGED case, NEW t \in Session, Running(t),
         NEW s \in Seq(Stmt), s # <<>>, Planned(txn[t].kind, s), NEW q, NEW l, NEW m, NEW z,
         Goes(t, s, q, l, m, z)
  PROVE  /\ txn' \in [Session -> TxnType'] /\ \A u \in Session : Shape(u)'
         /\ Pc(t)' = Head(s)
<1>1. txn' \in [Session -> TxnType']
  BY DEF Goes, TxnType, Act
<1>2. Running(t)' /\ Pc(t)' = Head(s)
  BY DEF Goes, Running, Pc
<1>3. Shape(t)'
  BY <1>2, TxnFields DEF Shape, Goes, Running, Act
<1>4. ASSUME NEW u \in Session \ {t} PROVE Shape(u)'
  BY TxnFields DEF Shape, Goes, Running, Act
<1> QED BY <1>1, <1>2, <1>3, <1>4

\* After a statement that is not the last.
LEMMA NextAfter ==
  ASSUME Typed, UNCHANGED case, NEW t \in Session, Running(t), NextPc(t) # "idle",
         NEW q, NEW l, NEW m, NEW z, Goes(t, Tail(txn[t].todo), q, l, m, z)
  PROVE  /\ txn' \in [Session -> TxnType'] /\ \A u \in Session : Shape(u)'
         /\ Pc(t)' = NextPc(t)
<1>1. txn[t].todo \in Seq(Stmt) /\ txn[t].todo # <<>> /\ Tail(txn[t].todo) \in Seq(Stmt) /\ Shape(t)
  BY TodoTail, TxnFields
<1>2. Tail(txn[t].todo) # <<>> /\ NextPc(t) = Head(Tail(txn[t].todo))
  BY DEF NextPc
<1>3. Planned(txn[t].kind, Tail(txn[t].todo))
  BY <1>1, PlanTail DEF Shape
<1> QED BY <1>1, <1>2, <1>3, ShapeAfter

\* After a transaction went on to its commit.
LEMMA CommitAfter ==
  ASSUME Typed, UNCHANGED case, NEW t \in Session, Running(t),
         NEW q, NEW l, NEW m, NEW z, Goes(t, <<"commit">>, q, l, m, z)
  PROVE  /\ txn' \in [Session -> TxnType'] /\ \A u \in Session : Shape(u)'
         /\ Pc(t)' = "commit"
<1>1. txn[t].kind \in Kind
  BY TxnFields DEF Shape
<1>2. <<"commit">> \in Seq(Stmt) /\ <<"commit">> # <<>> /\ Head(<<"commit">>) = "commit"
  BY Programs
<1> QED BY <1>1, <1>2, PlanCommit, ShapeAfter

\* What Write does to the rows a statement wants and to the others.
LEMMA WriteRows ==
  ASSUME Typed, UNCHANGED case, NEW t \in Session, Blockers(t) = {}, NEW v \in Value, Write(t, v)
  PROVE  /\ RowsTyped
         /\ \A r \in Row \cap Wanted(t) : owner[r] \in {t, Nobody} /\ owner'[r] = t /\ new'[r] = v
         /\ \A r \in Row \ Wanted(t) : owner'[r] = owner[r] /\ new'[r] = new[r]
<1>1. RowsTyped
  BY DEF Typed, TypeOK, RowsTyped, Write
<1>2. \A r \in Wanted(t) : owner[r] \in {t, Nobody}
  BY DEF Blockers
<1> QED BY <1>1, <1>2 DEF Write

\* A decision and a claim want the row of their activity, when it is active.
LEMMA WantedOne ==
  ASSUME NEW t \in Session, At(t, "decide") \/ At(t, "assign")
  PROVE  Wanted(t) = {r \in {ActRow(txn[t].act)} : Read(t, r) = "active"}
BY DEF Wanted, At, Running

\* The sweep of a join wants the other activities that are active.
LEMMA WantedOthers ==
  ASSUME NEW t \in Session, At(t, "sweepActs")
  PROVE  Wanted(t) = {r \in {ActRow(b) : b \in Act \ {txn[t].act}} : Read(t, r) = "active"}
BY DEF Wanted, At, Running

\* No other statement wants an activity.
LEMMA WantedNone ==
  ASSUME NEW t \in Session, NEW s, At(t, s), s \notin {"decide", "assign", "sweepActs"}, NEW a \in Act
  PROVE  ActRow(a) \notin Wanted(t)
BY RowNames DEF Wanted, At, Running, ActRow, Timer, Intent, Instance

----------------------------------------------------------------------------
(* The inductive invariant.                                                *)

Routing == {"sweepTimers", "sweepActs", "advance", "clear"}

\* t is past complete_activity_cas or skip_activity_for_timeout, and goes on from it.
Decided(t) ==
  /\ txn[t].kind \in Kind \ {"claim"}
  /\ \/ Pc(t) \in Routing \cup {"cancel", "route"}
     \/ txn[t].kind = "delivery" /\ Pc(t) \in {"seq", "insert"}
     \/ Pc(t) = "commit" /\ txn[t].logs

\* Where its marks are set: a signal and a timer append before they decide, a delivery after.
Placed(t) ==
  /\ txn[t].logs =>
       \/ Pc(t) \in Routing \cup {"route", "commit"}
       \/ txn[t].kind # "delivery" /\ Pc(t) \in {"decide", "cancel"}
  /\ Pc(t) \in Routing \cup {"route"} => txn[t].logs
  /\ txn[t].kind # "delivery" /\ Pc(t) \in {"decide", "cancel"} => txn[t].logs
  /\ txn[t].moves => Pc(t) = "commit" /\ Decided(t)
  /\ txn[t].misses => Decided(t)

\* Whoever holds an activity's row found it active, and has changed that only by deciding.
HoldsActive(t) ==
  \A a \in Act :
    owner[ActRow(a)] = t => val[ActRow(a)] = "active" /\ (new[ActRow(a)] # "active" => Decided(t))

\* Whoever decided, and did not miss its row, holds it.
HoldsDecision(t) ==
  Decided(t) /\ ~ txn[t].misses =>
    /\ owner[ActRow(txn[t].act)] = t
    /\ new[ActRow(txn[t].act)] \in {"completed", "skipped"}

\* Whoever moves the instance on leaves no activity behind that is active.
LeavesNone(t) ==
  Decided(t) /\ ~ txn[t].misses /\ (Pc(t) = "advance" \/ txn[t].moves) =>
    \A a \in Act : Read(t, ActRow(a)) # "active"

\* Whoever does not has seen an activity that is not completed, and under the unique index
\* nobody completes one meanwhile.
StaysBehind(t) ==
  unique /\ Decided(t) /\ ~ txn[t].moves /\ Pc(t) \in {"clear", "commit"} =>
    \E a \in Act : Read(t, ActRow(a)) # "completed"

\* A request holds the instance's row from its lock on; so what it saw of its key stays true.
HoldsKey(t) ==
  txn[t].kind \in {"signal", "claim"} =>
    /\ Pc(t) # "lock" => owner[Instance] = t
    /\ Pc(t) \in {"target", "assign", "seq", "insert"} \/ txn[t].logs => logged[txn[t].key] = 0

Mine(t) ==
  /\ Placed(t) /\ HoldsActive(t) /\ HoldsDecision(t) /\ LeavesNone(t) /\ StaysBehind(t) /\ HoldsKey(t)

\* The instance has moved on: nobody overlooked his activity, so no activity is active.
MovedOn == advanced > 0 /\ ~ overlooked => \A a \in Act : val[ActRow(a)] # "active"

\* The unique numbers let one transaction at a time be in the log uncommitted.
OneAppends ==
  /\ \A t \in Session : txn[t].seq <= top + 1
  /\ unique => \A t \in Session : txn[t].logs => txn[t].seq = top + 1
  /\ unique => \A t, u \in Session : txn[t].logs /\ txn[u].logs => t = u

\* JoinNotMissed, whoever is at work.
JoinFired == unique /\ (\A a \in Act : val[ActRow(a)] = "completed") => advanced > 0

Safe ==
  /\ Typed /\ \A t \in Session : Mine(t)
  /\ MovedOn /\ OneAppends /\ JoinFired /\ AdvancesOnce /\ KeyLoggedOnce

\* A step of t keeps what the others rely on.
LEMMA OthersKeep ==
  ASSUME Typed, NEW t \in Session, NEW u \in Session \ {t}, Mine(u), Frame(t), UNCHANGED logged
  PROVE  Mine(u)'
<1>1. txn'[u] = txn[u] /\ Pc(u)' = Pc(u)
  BY DEF Frame, Pc, Running
<1>2. Decided(u)' <=> Decided(u)
  BY <1>1 DEF Decided
<1>3. u # Nobody
  BY TxnAssumption DEF Session
<1>4. \A r \in Row : /\ owner'[r] = u <=> owner[r] = u
                     /\ owner[r] = u => new'[r] = new[r]
  BY <1>3 DEF Frame
<1>5. \A r \in Row : Read(u, r)' = Read(u, r)
  BY <1>4 DEF Read, Frame
<1>6. Act' = Act /\ unique' = unique /\ val' = val
  BY DEF Frame, Act
<1>7. \A a \in Act : ActRow(a)' = ActRow(a) /\ ActRow(a) \in Row
  BY RowNames DEF ActRow
<1>8. Placed(u)'
  BY <1>1, <1>2 DEF Mine, Placed
<1>9. HoldsActive(u)'
  BY <1>2, <1>4, <1>6, <1>7 DEF Mine, HoldsActive, ActRow
<1>10. HoldsDecision(u)'
  <2>1. Decided(u) => txn[u].act \in Act
    BY TxnFields DEF Decided, Shape, Kind
  <2> QED BY <1>1, <1>2, <1>4, <1>7, <2>1 DEF Mine, HoldsDecision, ActRow
<1>11. LeavesNone(u)'
  BY <1>1, <1>2, <1>5, <1>6, <1>7 DEF Mine, LeavesNone, ActRow
<1>12. StaysBehind(u)'
  BY <1>1, <1>2, <1>5, <1>6, <1>7 DEF Mine, StaysBehind, ActRow
<1>13. HoldsKey(u)'
  BY <1>1, <1>4, RowNames DEF Mine, HoldsKey, Instance
<1> QED BY <1>8, <1>9, <1>10, <1>11, <1>12, <1>13 DEF Mine

\* So a step of t that leaves the committed rows, the log and the counts keeps the invariant
\* when t's part and the order of the log hold after it.
LEMMA StepSafe ==
  ASSUME Safe, NEW t \in Session, Frame(t), UNCHANGED <<top, logged, advanced, overlooked>>,
         Typed', Mine(t)', OneAppends'
  PROVE  Safe'
<1>1. \A u \in Session : Mine(u)'
  BY OthersKeep DEF Safe
<1>2. Act' = Act /\ unique' = unique /\ val' = val
  BY DEF Frame, Act
<1>3. MovedOn' /\ JoinFired'
  BY <1>2 DEF Safe, MovedOn, JoinFired, ActRow
<1>4. AdvancesOnce' /\ KeyLoggedOnce'
  BY DEF Safe, AdvancesOnce, KeyLoggedOnce
<1> QED BY <1>1, <1>3, <1>4 DEF Safe

----------------------------------------------------------------------------
(* Steps that leave the activities' rows alone.                            *)

LEMMA TypedAfter ==
  ASSUME Typed, UNCHANGED <<case, unique, top, history>>, RowsTyped,
         txn' \in [Session -> TxnType'], \A u \in Session : Shape(u)'
  PROVE  Typed'
<1>1. Act' = Act /\ Row' = Row
  BY DEF Act, Row, Instance, ActRow, Timer, Intent
<1>2. TypeOK'
  BY <1>1 DEF Typed, TypeOK, RowsTyped, Value, history
<1> QED BY <1>1, <1>2 DEF Typed, RowsTyped

\* Rows that nobody writes have their types.
LEMMA SameRows ==
  ASSUME Typed, UNCHANGED <<rows, case, unique>>, NEW t \in Session,
         \A u \in Session \ {t} : txn'[u] = txn[u]
  PROVE  RowsTyped /\ Frame(t) /\ ActsKept(t)
<1>1. val' = val /\ new' = new /\ owner' = owner
  BY DEF rows
<1>2. RowsTyped
  BY <1>1 DEF Typed, TypeOK, RowsTyped
<1> QED BY <1>1, <1>2 DEF Frame, ActsKept

\* The order of the log when t appends nothing.
LEMMA AppendsKept ==
  ASSUME Typed, OneAppends, UNCHANGED <<top, unique>>, NEW t \in Session, NEW s, NEW m, NEW z,
         Goes(t, s, txn[t].seq, txn[t].logs, m, z)
  PROVE  OneAppends'
<1>1. \A u \in Session : txn'[u].seq = txn[u].seq /\ txn'[u].logs = txn[u].logs
  BY DEF Goes
<1> QED BY <1>1 DEF OneAppends

\* What t holds when its activities' rows stay as they are.
LEMMA HoldingKept ==
  ASSUME Typed, NEW t \in Session, Mine(t), Frame(t), ActsKept(t),
         NEW s, NEW q, NEW l, NEW m, Goes(t, s, q, l, m, txn[t].misses), Decided(t)' <=> Decided(t)
  PROVE  /\ HoldsActive(t)' /\ HoldsDecision(t)'
         /\ \A a \in Act : Read(t, ActRow(a))' = Read(t, ActRow(a))
<1>1. Act' = Act /\ val' = val
  BY DEF Frame, Act
<1>2. HoldsActive(t)'
  BY <1>1 DEF ActsKept, Mine, HoldsActive, ActRow
<1>3. HoldsDecision(t)'
  <2>1. Decided(t) => txn[t].act \in Act
    BY TxnFields DEF Decided, Shape, Kind
  <2> QED BY <2>1 DEF ActsKept, Mine, HoldsDecision, ActRow, Goes
<1>4. \A a \in Act : Read(t, ActRow(a))' = Read(t, ActRow(a))
  BY <1>1 DEF ActsKept, Read, ActRow
<1> QED BY <1>2, <1>3, <1>4

\* A statement that writes no activity's row and sets no mark.
LEMMA QuietSafe ==
  ASSUME Safe, NEW t \in Session, Running(t), Frame(t), ActsKept(t), RowsTyped, UNCHANGED <<top, history>>,
         Pc(t) \in {"lock", "seen", "target", "mark", "instance", "activity", "cancel", "sweepTimers", "clear"},
         Goes(t, Tail(txn[t].todo), txn[t].seq, txn[t].logs, txn[t].moves, txn[t].misses),
         Pc(t) = "lock" => owner'[Instance] = t,
         Pc(t) = "seen" => logged[txn[t].key] = 0
  PROVE  Safe'
<1>1. Typed /\ Mine(t) /\ OneAppends
  BY DEF Safe
<1>2. Follows(txn[t].kind, Pc(t), NextPc(t)) /\ txn[t].kind \in Kind
  BY <1>1, StatementOrder, TxnFields DEF Shape
<1>3. NextPc(t) # "idle"
  BY <1>2 DEF Follows
<1>4. UNCHANGED <<case, unique, val>> /\ UNCHANGED <<logged, advanced, overlooked>>
  BY DEF Frame, history
<1>5. txn' \in [Session -> TxnType'] /\ (\A u \in Session : Shape(u)') /\ Pc(t)' = NextPc(t)
  BY <1>1, <1>3, <1>4, NextAfter
<1>6. Typed'
  BY <1>1, <1>4, <1>5, TypedAfter
<1>7. OneAppends'
  BY <1>1, <1>4, AppendsKept
<1>8. /\ txn'[t].kind = txn[t].kind /\ txn'[t].logs = txn[t].logs
      /\ txn'[t].moves = txn[t].moves /\ txn'[t].misses = txn[t].misses /\ txn'[t].key = txn[t].key
  BY DEF Goes
<1>9. Decided(t)' <=> Decided(t)
  BY <1>1, <1>2, <1>5, <1>8 DEF Decided, Follows, Mine, Placed, Routing, Kind
<1>10. Placed(t)'
  BY <1>1, <1>2, <1>5, <1>8, <1>9 DEF Decided, Follows, Mine, Placed, Routing, Kind
<1>11. ~ txn[t].moves
  BY <1>1 DEF Mine, Placed
<1>12. /\ HoldsActive(t)' /\ HoldsDecision(t)'
       /\ \A a \in Act : Read(t, ActRow(a))' = Read(t, ActRow(a))
  BY <1>1, HoldingKept, <1>9
<1>13. LeavesNone(t)'
  BY <1>2, <1>5, <1>8, <1>11 DEF LeavesNone, Follows
<1>14. StaysBehind(t)'
  <2>1. Pc(t)' \in {"clear", "commit"} => Pc(t) = "clear"
    BY <1>2, <1>5 DEF Follows
  <2> QED BY <2>1, <1>1, <1>4, <1>8, <1>9, <1>12 DEF Mine, StaysBehind, Act, ActRow
<1>15. HoldsKey(t)'
  <2>1. Pc(t)' \in {"target", "assign", "seq", "insert"} /\ txn[t].kind \in {"signal", "claim"} =>
          Pc(t) \in {"seen", "target"}
    BY <1>2, <1>5 DEF Follows
  <2>2. owner[Instance] = t => owner'[Instance] = t
    BY DEF ActsKept
  <2>3. Instance' = Instance /\ logged' = logged
    BY <1>4 DEF Instance
  <2>4. Pc(t) = "lock" => ~ txn[t].logs
    BY <1>1 DEF Mine, Placed, Routing
  <2> QED BY <1>1, <1>5, <1>8, <2>1, <2>2, <2>3, <2>4 DEF Mine, HoldsKey
<1>16. Mine(t)'
  BY <1>10, <1>12, <1>13, <1>14, <1>15 DEF Mine
<1> QED BY <1>4, <1>6, <1>7, <1>16, StepSafe

\* A transaction that stops and commits what it has: a request seen before, a lost mark, a
\* terminal instance, an activity that is no longer active.
LEMMA StopSafe ==
  ASSUME Safe, NEW t \in Session, Running(t), Frame(t), ActsKept(t), RowsTyped, UNCHANGED <<top, history>>,
         Pc(t) \in {"seen", "mark", "instance", "activity"},
         Goes(t, <<"commit">>, txn[t].seq, txn[t].logs, txn[t].moves, txn[t].misses)
  PROVE  Safe'
<1>1. Typed /\ Mine(t) /\ OneAppends
  BY DEF Safe
<1>2. UNCHANGED <<case, unique, val>> /\ UNCHANGED <<logged, advanced, overlooked>>
  BY DEF Frame, history
<1>3. txn' \in [Session -> TxnType'] /\ (\A u \in Session : Shape(u)') /\ Pc(t)' = "commit"
  BY <1>1, <1>2, CommitAfter
<1>4. Typed'
  BY <1>1, <1>2, <1>3, TypedAfter
<1>5. OneAppends'
  BY <1>1, <1>2, AppendsKept
<1>6. /\ txn'[t].kind = txn[t].kind /\ txn'[t].logs = txn[t].logs
      /\ txn'[t].moves = txn[t].moves /\ txn'[t].misses = txn[t].misses /\ txn'[t].key = txn[t].key
  BY DEF Goes
<1>7. ~ txn[t].logs /\ ~ txn[t].moves /\ ~ Decided(t) /\ ~ txn[t].misses
  BY <1>1 DEF Decided, Mine, Placed, Routing
<1>8. ~ Decided(t)'
  BY <1>3, <1>6, <1>7 DEF Decided, Routing
<1>9. Placed(t)'
  BY <1>3, <1>6, <1>7 DEF Placed, Routing
<1>10. HoldsActive(t)' /\ HoldsDecision(t)'
  BY <1>1, <1>7, <1>8, HoldingKept
<1>11. LeavesNone(t)' /\ StaysBehind(t)'
  BY <1>8 DEF LeavesNone, StaysBehind
<1>12. HoldsKey(t)'
  <2>1. owner[Instance] = t => owner'[Instance] = t
    BY DEF ActsKept
  <2>2. Instance' = Instance
    BY DEF Instance
  <2> QED BY <1>1, <1>3, <1>6, <1>7, <2>1, <2>2 DEF Mine, HoldsKey
<1>13. Mine(t)'
  BY <1>9, <1>10, <1>11, <1>12 DEF Mine
<1> QED BY <1>2, <1>4, <1>5, <1>13, StepSafe

\* The record of a session without a transaction.
LEMMA NoTxnFields ==
  /\ NoTxn \in TxnType
  /\ NoTxn.todo = <<>> /\ NoTxn.kind = "none" /\ NoTxn.key = "" /\ NoTxn.seq = 0
  /\ ~ NoTxn.logs /\ ~ NoTxn.moves /\ ~ NoTxn.misses
<1>1. NoTxn \in TxnType
  BY Programs DEF NoTxn, TxnType
<1>2. NoTxn.todo = <<>> /\ NoTxn.kind = "none" /\ NoTxn.key = "" /\ NoTxn.seq = 0
  BY DEF NoTxn
<1>3. ~ NoTxn.logs /\ ~ NoTxn.moves /\ ~ NoTxn.misses
  BY DEF NoTxn
<1> QED BY <1>1, <1>2, <1>3

\* A rollback: the rows t held are as they were committed.
LEMMA FailSafe ==
  ASSUME Safe, NEW t \in Session, Fail(t), Keeps
  PROVE  Safe'
<1>1. Typed /\ OneAppends
  BY DEF Safe
<1>2. UNCHANGED <<case, unique, val, top, logged, sends, advanced, overlooked>> /\ UNCHANGED history
  BY DEF Fail, Keeps, history
<1>3. txn' = [txn EXCEPT ![t] = NoTxn]
  BY DEF Fail, Ends
<1>4. NoTxn \in TxnType
  BY NoTxnFields
<1>5. txn' \in [Session -> TxnType] /\ txn'[t] = NoTxn /\ \A u \in Session \ {t} : txn'[u] = txn[u]
  BY <1>1, <1>3, <1>4 DEF Typed
<1>6. Frame(t)
  BY <1>1, <1>2, <1>5 DEF Frame, Fail, Release
<1>7. RowsTyped
  BY <1>1, <1>2 DEF RowsTyped, Fail, Release, Typed, TypeOK
<1>8. Act' = Act /\ TxnType' = TxnType
  BY <1>2 DEF Act, TxnType
<1>9. ~ Running(t)' /\ Pc(t)' = "idle"
  BY <1>5, NoTxnFields DEF Running, Pc
<1>10. \A u \in Session : Shape(u)'
  <2>1. Shape(t)'
    BY <1>5, <1>9, NoTxnFields DEF Shape, Planned
  <2>2. ASSUME NEW u \in Session \ {t} PROVE Shape(u)'
    BY <1>1, <1>5, <1>8, TxnFields DEF Shape, Running
  <2> QED BY <2>1, <2>2
<1>11. Typed'
  BY <1>1, <1>2, <1>5, <1>7, <1>8, <1>10, TypedAfter
<1>12. OneAppends'
  <2>1. txn'[t].seq = 0 /\ ~ txn'[t].logs
    BY <1>5, NoTxnFields
  <2> QED BY <1>1, <1>2, <1>5, <2>1 DEF OneAppends, Typed, TypeOK
<1>13. ~ Decided(t)'
  BY <1>5, NoTxnFields DEF Decided, Kind
<1>14. Placed(t)'
  BY <1>5, <1>9, NoTxnFields DEF Placed, Routing
<1>15. HoldsActive(t)'
  <2>1. t # Nobody
    BY TxnAssumption DEF Session
  <2>2. \A r \in Row : owner'[r] # t
    BY <2>1 DEF Fail, Release
  <2> QED BY <2>2, <1>8, RowNames DEF HoldsActive, ActRow
<1>16. HoldsDecision(t)' /\ LeavesNone(t)' /\ StaysBehind(t)'
  BY <1>13 DEF HoldsDecision, LeavesNone, StaysBehind
<1>17. HoldsKey(t)'
  BY <1>5, NoTxnFields DEF HoldsKey
<1>18. Mine(t)'
  BY <1>14, <1>15, <1>16, <1>17 DEF Mine
<1> QED BY <1>2, <1>6, <1>11, <1>12, <1>18, StepSafe

\* load_instance_for_update_scoped.
LEMMA LockSafe == ASSUME Safe, NEW t \in Session, Lock(t), Keeps PROVE Safe'
<1>1. Typed /\ At(t, "lock") /\ Blockers(t) = {} /\ Go(t, <<>>)
  BY DEF Safe, Lock, Statement
<1>2. Running(t) /\ Pc(t) = "lock"
  BY <1>1, AtPc
<1>3. Goes(t, Tail(txn[t].todo), txn[t].seq, txn[t].logs, txn[t].moves, txn[t].misses)
  BY <1>1, <1>2, GoesOn
<1>4. owner[Instance] \in {t, Nobody}
  <2>1. Instance \in Wanted(t)
    BY <1>1, <1>2 DEF Wanted, At
  <2> QED BY <1>1, <2>1 DEF Blockers
<1>5. RowsTyped /\ owner'[Instance] = t
  BY <1>1, RowNames DEF Lock, RowsTyped, Typed, TypeOK
<1>6. Frame(t) /\ ActsKept(t)
  BY <1>1, <1>3, <1>4, <1>5, RowNames DEF Lock, Keeps, Frame, ActsKept, Goes, Typed, TypeOK
<1>7. UNCHANGED <<top, history>>
  BY DEF Lock
<1> QED BY <1>2, <1>3, <1>5, <1>6, <1>7, QuietSafe

\* A statement that only reads, and goes on.
LEMMA ReadsOn ==
  ASSUME Safe, NEW t \in Session, Keeps, UNCHANGED <<rows, top, history>>, Go(t, <<>>), Running(t),
         Pc(t) \in {"seen", "target", "instance", "activity"},
         Pc(t) = "seen" => logged[txn[t].key] = 0
  PROVE  Safe'
<1>1. Typed
  BY DEF Safe
<1>2. Goes(t, Tail(txn[t].todo), txn[t].seq, txn[t].logs, txn[t].moves, txn[t].misses)
  BY <1>1, GoesOn
<1>3. RowsTyped /\ Frame(t) /\ ActsKept(t)
  BY <1>1, <1>2, SameRows DEF Keeps, Goes
<1> QED BY <1>2, <1>3, QuietSafe

\* A statement that only reads, and stops.
LEMMA ReadsStop ==
  ASSUME Safe, NEW t \in Session, Keeps, UNCHANGED <<rows, top, history>>, GoCommit(t), Running(t),
         Pc(t) \in {"seen", "instance", "activity"}
  PROVE  Safe'
<1>1. Typed
  BY DEF Safe
<1>2. Goes(t, <<"commit">>, txn[t].seq, txn[t].logs, txn[t].moves, txn[t].misses)
  BY <1>1, GoesToCommit
<1>3. RowsTyped /\ Frame(t) /\ ActsKept(t)
  BY <1>1, <1>2, SameRows DEF Keeps, Goes
<1> QED BY <1>2, <1>3, StopSafe

\* idempotency_seen: a key that is in the log stops the request, under the lock.
LEMMA SeenSafe == ASSUME Safe, NEW t \in Session, Seen(t), Keeps PROVE Safe'
<1>1. Typed /\ At(t, "seen")
  BY DEF Safe, Seen, Statement
<1>2. Running(t) /\ Pc(t) = "seen"
  BY <1>1, AtPc
<1>3. txn[t].key \in Key
  BY <1>1, <1>2, StatementOrder, TxnFields DEF Follows, Shape
<1>4. CASE logged[txn[t].key] > 0
  BY <1>2, <1>4, ReadsStop DEF Seen
<1>5. CASE ~ (logged[txn[t].key] > 0) /\ Read(t, Instance) # "active"
  BY <1>5, FailSafe DEF Seen
<1>6. CASE ~ (logged[txn[t].key] > 0) /\ Read(t, Instance) = "active"
  <2>1. logged[txn[t].key] = 0
    BY <1>1, <1>3, <1>6 DEF Typed, TypeOK
  <2> QED BY <1>2, <1>6, <2>1, ReadsOn DEF Seen
<1> QED BY <1>4, <1>5, <1>6

\* resolve_target_activity and check_signal_against_node.
LEMMA TargetSafe == ASSUME Safe, NEW t \in Session, Target(t), Keeps PROVE Safe'
<1>1. Typed /\ At(t, "target")
  BY DEF Safe, Target, Statement
<1>2. Running(t) /\ Pc(t) = "target"
  BY <1>1, AtPc
<1>3. Fail(t) \/ (Go(t, <<>>) /\ UNCHANGED <<rows, top, history>>)
  BY Zenon DEF Target
<1> QED BY <1>2, <1>3, FailSafe, ReadsOn

\* load_instance and load_activity, without a lock.
LEMMA LoadSafe == ASSUME Safe, NEW t \in Session, LoadInstance(t) \/ LoadActivity(t), Keeps PROVE Safe'
<1>1. Typed /\ (At(t, "instance") \/ At(t, "activity")) /\ UNCHANGED <<rows, top, history>>
  BY DEF Safe, LoadInstance, LoadActivity, Statement
<1>2. Running(t) /\ Pc(t) \in {"instance", "activity"}
  BY <1>1, AtPc
<1>3. Go(t, <<>>) \/ GoCommit(t)
  BY Zenon DEF LoadInstance, LoadActivity
<1> QED BY <1>1, <1>2, <1>3, ReadsOn, ReadsStop

\* A write that no activity's row is wanted for.
LEMMA WritesElsewhere ==
  ASSUME Safe, NEW t \in Session, NEW s, At(t, s), s \notin {"decide", "assign", "sweepActs"},
         Blockers(t) = {}, NEW v \in Value, Write(t, v), Keeps, \A u \in Session \ {t} : txn'[u] = txn[u]
  PROVE  RowsTyped /\ Frame(t) /\ ActsKept(t)
<1>1. Typed /\ UNCHANGED <<case, unique, val>>
  BY DEF Safe, Keeps, Write
<1>2. /\ RowsTyped
      /\ \A r \in Row \cap Wanted(t) : owner[r] \in {t, Nobody} /\ owner'[r] = t /\ new'[r] = v
      /\ \A r \in Row \ Wanted(t) : owner'[r] = owner[r] /\ new'[r] = new[r]
  BY <1>1, WriteRows
<1>3. \A a \in Act : ActRow(a) \in Row \ Wanted(t)
  BY WantedNone, RowNames
<1>4. Frame(t)
  BY <1>1, <1>2 DEF Frame
<1>5. ActsKept(t)
  BY <1>2, <1>3, RowNames DEF ActsKept
<1> QED BY <1>2, <1>4, <1>5

\* mark_timer_fired or mark_outbox_succeeded.
LEMMA MarkSafe == ASSUME Safe, NEW t \in Session, Mark(t), Keeps PROVE Safe'
<1>1. Typed /\ At(t, "mark") /\ Blockers(t) = {} /\ Write(t, "done") /\ "done" \in Value
      /\ UNCHANGED <<top, history>>
  BY DEF Safe, Mark, Statement, Value
<1>2. Running(t) /\ Pc(t) = "mark"
  BY <1>1, AtPc
<1>3. Go(t, <<>>) \/ GoCommit(t)
  BY Zenon DEF Mark
<1>4. \/ Goes(t, Tail(txn[t].todo), txn[t].seq, txn[t].logs, txn[t].moves, txn[t].misses)
      \/ Goes(t, <<"commit">>, txn[t].seq, txn[t].logs, txn[t].moves, txn[t].misses)
  BY <1>1, <1>2, <1>3, GoesOn, GoesToCommit
<1>5. \A u \in Session \ {t} : txn'[u] = txn[u]
  BY <1>4 DEF Goes
<1>6. RowsTyped /\ Frame(t) /\ ActsKept(t)
  BY <1>1, <1>5, WritesElsewhere
<1> QED BY <1>1, <1>2, <1>4, <1>6, QuietSafe, StopSafe

\* cancel_timers_for_activity, the first half of skip_other_active_activities, and
\* clear_current_activity.
LEMMA QuietWriteSafe ==
  ASSUME Safe, NEW t \in Session, CancelTimers(t) \/ SweepTimers(t) \/ ClearCurrent(t), Keeps
  PROVE  Safe'
<1>1. PICK s \in {"cancel", "sweepTimers", "clear"}, v \in Value :
        At(t, s) /\ Blockers(t) = {} /\ Write(t, v) /\ Go(t, <<>>) /\ UNCHANGED <<top, history>>
  <2>1. CASE CancelTimers(t)
    BY <2>1 DEF CancelTimers, Statement, Value
  <2>2. CASE SweepTimers(t)
    BY <2>2 DEF SweepTimers, Statement, Value
  <2>3. CASE ClearCurrent(t)
    <3>1. Read(t, Instance) \in Value
      BY RowNames DEF Safe, Typed, Read
    <3> QED BY <2>3, <3>1 DEF ClearCurrent, Statement
  <2> QED BY <2>1, <2>2, <2>3
<1>2. Typed /\ Running(t) /\ Pc(t) = s
  BY <1>1, AtPc DEF Safe
<1>3. Goes(t, Tail(txn[t].todo), txn[t].seq, txn[t].logs, txn[t].moves, txn[t].misses)
  BY <1>1, <1>2, GoesOn
<1>4. \A u \in Session \ {t} : txn'[u] = txn[u]
  BY <1>3 DEF Goes
<1>5. RowsTyped /\ Frame(t) /\ ActsKept(t)
  BY <1>1, <1>4, WritesElsewhere
<1> QED BY <1>1, <1>2, <1>3, <1>5, QuietSafe

----------------------------------------------------------------------------
(* The log, the activities' rows and the outcome.                          *)

\* What every statement of t can use.
LEMMA AtStatement ==
  ASSUME Safe, NEW t \in Session, NEW s, At(t, s)
  PROVE  /\ Typed /\ Mine(t) /\ OneAppends
         /\ Running(t) /\ Pc(t) = s /\ txn[t].kind \in Kind
         /\ Follows(txn[t].kind, s, NextPc(t)) /\ txn[t].act \in Act
<1>1. Typed /\ Mine(t) /\ OneAppends
  BY DEF Safe
<1>2. Running(t) /\ Pc(t) = s /\ txn[t].kind \in Kind
  BY <1>1, AtPc
<1>3. txn[t].act \in Act
  BY <1>1, <1>2, TxnFields DEF Shape
<1> QED BY <1>1, <1>2, <1>3, StatementOrder

\* next_seq.
LEMMA NextSeqSafe == ASSUME Safe, NEW t \in Session, NextSeq(t), Keeps PROVE Safe'
<1>1. At(t, "seq") /\ UNCHANGED <<rows, top, history, case, unique>>
  BY DEF NextSeq, Statement, Keeps
<1>2. /\ Typed /\ Mine(t) /\ OneAppends /\ Running(t) /\ Pc(t) = "seq" /\ txn[t].kind \in Kind
      /\ NextPc(t) = "insert"
  BY <1>1, AtStatement DEF Follows
<1>3. Goes(t, Tail(txn[t].todo), top + 1, txn[t].logs, txn[t].moves, txn[t].misses)
  <2>1. txn' = [txn EXCEPT ![t].seq = top + 1, ![t].todo = Tail(txn[t].todo)]
    BY DEF NextSeq
  <2>2. top + 1 \in Nat
    BY <1>2 DEF Typed, TypeOK
  <2> QED BY <1>2, <2>1, <2>2, TodoTail DEF Goes, Typed, TxnType
<1>4. txn' \in [Session -> TxnType'] /\ (\A u \in Session : Shape(u)') /\ Pc(t)' = "insert"
  BY <1>1, <1>2, <1>3, NextAfter
<1>5. RowsTyped /\ Frame(t) /\ ActsKept(t)
  BY <1>1, <1>2, <1>3, SameRows DEF Goes
<1>6. Typed'
  BY <1>1, <1>2, <1>4, <1>5, TypedAfter
<1>7. /\ txn'[t].kind = txn[t].kind /\ txn'[t].logs = txn[t].logs
      /\ txn'[t].moves = txn[t].moves /\ txn'[t].misses = txn[t].misses /\ txn'[t].key = txn[t].key
      /\ txn'[t].seq = top + 1 /\ \A u \in Session \ {t} : txn'[u] = txn[u]
  BY <1>3 DEF Goes
<1>8. ~ txn[t].logs /\ ~ txn[t].moves
  BY <1>2 DEF Mine, Placed, Routing
<1>9. OneAppends'
  BY <1>1, <1>2, <1>7, <1>8 DEF OneAppends, Typed, TypeOK
<1>10. Decided(t)' <=> Decided(t)
  BY <1>2, <1>4, <1>7 DEF Decided, Routing
<1>11. Placed(t)'
  BY <1>2, <1>4, <1>7, <1>8, <1>10 DEF Mine, Placed, Routing
<1>12. HoldsActive(t)' /\ HoldsDecision(t)'
  BY <1>2, <1>3, <1>5, <1>10, HoldingKept
<1>13. LeavesNone(t)' /\ StaysBehind(t)'
  BY <1>4, <1>7, <1>8 DEF LeavesNone, StaysBehind
<1>14. HoldsKey(t)'
  <2>1. owner' = owner /\ logged' = logged /\ Instance' = Instance
    BY <1>1 DEF rows, history, Instance
  <2> QED BY <1>2, <1>4, <1>7, <2>1 DEF Mine, HoldsKey
<1>15. Mine(t)'
  BY <1>11, <1>12, <1>13, <1>14 DEF Mine
<1> QED BY <1>1, <1>5, <1>6, <1>9, <1>15, StepSafe DEF history

\* append_event: under the unique index it waits for whoever has the number, and fails when
\* the number is taken; so at most one transaction is in the log uncommitted.
LEMMA AppendEventSafe == ASSUME Safe, NEW t \in Session, AppendEvent(t), Keeps PROVE Safe'
<1> SUFFICES ASSUME ~ (unique /\ txn[t].seq <= top) PROVE Safe'
  BY FailSafe DEF AppendEvent
<1>1. At(t, "insert") /\ Blockers(t) = {} /\ UNCHANGED <<rows, top, history, case, unique>>
  BY DEF AppendEvent, Statement, Keeps
<1>2. /\ Typed /\ Mine(t) /\ OneAppends /\ Running(t) /\ Pc(t) = "insert" /\ txn[t].kind \in Kind
      /\ Follows(txn[t].kind, "insert", NextPc(t))
  BY <1>1, AtStatement
<1>3. Goes(t, Tail(txn[t].todo), txn[t].seq, TRUE, txn[t].moves, txn[t].misses)
  <2>1. txn' = [txn EXCEPT ![t].logs = TRUE, ![t].todo = Tail(txn[t].todo)]
    BY DEF AppendEvent
  <2> QED BY <1>2, <2>1, TodoTail DEF Goes, Typed, TxnType
<1>4. txn' \in [Session -> TxnType'] /\ (\A u \in Session : Shape(u)') /\ Pc(t)' = NextPc(t)
  <2>1. NextPc(t) # "idle"
    BY <1>2 DEF Follows
  <2> QED BY <1>1, <1>2, <1>3, <2>1, NextAfter
<1>5. RowsTyped /\ Frame(t) /\ ActsKept(t)
  BY <1>1, <1>2, <1>3, SameRows DEF Goes
<1>6. Typed'
  BY <1>1, <1>2, <1>4, <1>5, TypedAfter
<1>7. /\ txn'[t].kind = txn[t].kind /\ txn'[t].logs = TRUE
      /\ txn'[t].moves = txn[t].moves /\ txn'[t].misses = txn[t].misses /\ txn'[t].key = txn[t].key
      /\ txn'[t].seq = txn[t].seq /\ \A u \in Session \ {t} : txn'[u] = txn[u]
  BY <1>3 DEF Goes
<1>8. ~ txn[t].moves
  BY <1>2 DEF Mine, Placed
<1>9. OneAppends'
  <2>0. txn[t].seq \in Nat /\ top \in Nat /\ txn[t].seq <= top + 1
    BY <1>2, TxnFields DEF OneAppends, Typed, TypeOK
  <2>1. ASSUME unique PROVE txn[t].seq = top + 1
    <3>1. ~ (txn[t].seq <= top)
      BY <2>1
    <3> QED BY <2>0, <3>1
  <2>2. ASSUME unique, NEW u \in Session \ {t}, txn[u].logs PROVE FALSE
    <3>1. txn[u].seq = txn[t].seq
      BY <1>2, <2>1, <2>2 DEF OneAppends
    <3>2. u \in Blockers(t)
      BY <1>1, <2>2, <3>1 DEF Blockers
    <3> QED BY <1>1, <3>2
  <2> QED BY <1>1, <1>2, <1>7, <2>1, <2>2 DEF OneAppends
<1>10. Decided(t)' <=> Decided(t)
  BY <1>2, <1>4, <1>7 DEF Decided, Routing, Follows, Kind
<1>11. Placed(t)'
  BY <1>2, <1>4, <1>7, <1>8, <1>10 DEF Mine, Placed, Routing, Follows, Kind
<1>12. HoldsActive(t)' /\ HoldsDecision(t)'
  BY <1>2, <1>3, <1>5, <1>10, HoldingKept
<1>13. LeavesNone(t)' /\ StaysBehind(t)'
  BY <1>2, <1>4, <1>7, <1>8, <1>10 DEF LeavesNone, StaysBehind, Follows, Decided
<1>14. HoldsKey(t)'
  <2>1. owner' = owner /\ logged' = logged /\ Instance' = Instance
    BY <1>1 DEF rows, history, Instance
  <2> QED BY <1>2, <1>4, <1>7, <2>1 DEF Mine, HoldsKey
<1>15. Mine(t)'
  BY <1>11, <1>12, <1>13, <1>14 DEF Mine
<1> QED BY <1>1, <1>5, <1>6, <1>9, <1>15, StepSafe DEF history

\* What a join sees of its branches.
LEMMA JoinSees ==
  ASSUME Typed, NEW t \in Session
  PROVE  /\ case.join = "wait_all" /\ Satisfied(t) => \A a \in Act : Read(t, ActRow(a)) = "completed"
         /\ case.join # "none" /\ ~ Satisfied(t) => \E a \in Act : Read(t, ActRow(a)) # "completed"
<1> DEFINE C == {a \in Act : Read(t, ActRow(a)) = "completed"}
<1>1. IsFiniteSet(Act) /\ Act # {} /\ case.join \in {"none", "wait_any", "wait_all"}
  BY TxnAssumption DEF Typed, TypeOK, Act
<1>2. Arrived(t) = Cardinality(C)
  BY DEF Arrived
<1>3. ASSUME case.join = "wait_all", Satisfied(t) PROVE C = Act
  <2>1. Cardinality(C) = Cardinality(Act)
    BY <1>2, <1>3 DEF Satisfied
  <2> QED BY <1>1, <2>1, FS_Subset
<1>4. ASSUME case.join # "none", C = Act PROVE Satisfied(t)
  <2>1. Cardinality(C) \in Nat /\ Cardinality(C) # 0
    BY <1>1, <1>4, FS_CardinalityType, FS_EmptySet
  <2>2. Arrived(t) = Cardinality(Act) /\ Arrived(t) > 0
    BY <1>2, <1>4, <2>1
  <2> QED BY <1>1, <1>4, <2>2 DEF Satisfied
<1> QED BY <1>3, <1>4

\* apply_outcome decides under its own row, and under the unique index as the only one that
\* appends.
LEMMA RouteSafe == ASSUME Safe, NEW t \in Session, Route(t), Keeps PROVE Safe'
<1>1. At(t, "route") /\ UNCHANGED <<rows, top, history, case, unique>>
  BY DEF Route, Statement, Keeps
<1>2. /\ Typed /\ Mine(t) /\ OneAppends /\ Running(t) /\ Pc(t) = "route" /\ txn[t].kind \in Kind \ {"claim"}
      /\ txn[t].act \in Act
  BY <1>1, AtStatement DEF Follows
<1>3. PICK s \in {Outcome, Aside, <<"advance", "commit">>} :
        /\ txn' = [txn EXCEPT ![t].todo = s]
        /\ s = <<"advance", "commit">> =>
             case.join = "none" \/ (case.join \notin {"none", "wait_any"} /\ Satisfied(t))
        /\ s = Aside => case.join # "none" /\ ~ Satisfied(t)
  <2> DEFINE s == CASE case.join = "none" -> <<"advance", "commit">>
                 [] case.join # "none" /\ Satisfied(t) ->
                      IF case.join = "wait_any" THEN Outcome ELSE <<"advance", "commit">>
                 [] OTHER -> <<"clear", "commit">>
  <2>1. txn' = [txn EXCEPT ![t].todo = s]
    BY DEF Route
  <2>2. CASE case.join = "none"
    <3>1. s = <<"advance", "commit">>
      BY <2>2
    <3>2. <<"advance", "commit">> # Aside
      BY DEF Aside
    <3> QED BY <2>1, <2>2, <3>1, <3>2
  <2>3. CASE case.join # "none" /\ Satisfied(t) /\ case.join = "wait_any"
    <3>1. s = Outcome
      BY <2>3
    <3>2. Outcome # Aside /\ Outcome # <<"advance", "commit">>
      BY DEF Aside, Outcome
    <3> QED BY <2>1, <2>3, <3>1, <3>2
  <2>4. CASE case.join # "none" /\ Satisfied(t) /\ case.join # "wait_any"
    <3>1. s = <<"advance", "commit">>
      BY <2>4
    <3>2. <<"advance", "commit">> # Aside
      BY DEF Aside
    <3> QED BY <2>1, <2>4, <3>1, <3>2
  <2>5. CASE case.join # "none" /\ ~ Satisfied(t)
    <3>1. s = Aside
      BY <2>5 DEF Aside
    <3>2. <<"advance", "commit">> # Aside
      BY DEF Aside
    <3> QED BY <2>1, <2>5, <3>1, <3>2
  <2> QED BY <2>2, <2>3, <2>4, <2>5
<1>4. Goes(t, s, txn[t].seq, txn[t].logs, txn[t].moves, txn[t].misses)
  <2>1. s \in Seq(Stmt)
    BY Programs
  <2> QED BY <1>2, <1>3, <2>1 DEF Goes, Typed, TxnType
<1>5. txn' \in [Session -> TxnType'] /\ (\A u \in Session : Shape(u)') /\ Pc(t)' = Head(s)
  <2>1. s \in Seq(Stmt) /\ Planned(txn[t].kind, s)
    BY <1>2, Programs, PlanRoute
  <2>2. s # <<>>
    BY DEF Outcome, Aside
  <2> QED BY <1>1, <1>2, <1>4, <2>1, <2>2, ShapeAfter
<1>6. /\ s = Outcome => Head(s) = "sweepTimers"
      /\ s = Aside => Head(s) = "clear"
      /\ s = <<"advance", "commit">> => Head(s) = "advance"
  BY DEF Outcome, Aside
<1>7. Pc(t)' \in {"sweepTimers", "clear", "advance"}
  BY <1>5, <1>6
<1>8. RowsTyped /\ Frame(t) /\ ActsKept(t)
  BY <1>1, <1>2, <1>4, SameRows DEF Goes
<1>9. Typed'
  BY <1>1, <1>2, <1>5, <1>8, TypedAfter
<1>10. OneAppends'
  BY <1>1, <1>2, <1>4, AppendsKept
<1>11. /\ txn'[t].kind = txn[t].kind /\ txn'[t].logs = txn[t].logs
       /\ txn'[t].moves = txn[t].moves /\ txn'[t].misses = txn[t].misses /\ txn'[t].key = txn[t].key
  BY <1>4 DEF Goes
<1>12. txn[t].logs /\ ~ txn[t].moves /\ Decided(t)
  BY <1>2 DEF Mine, Placed, Routing, Decided
<1>13. Decided(t)'
  BY <1>2, <1>7, <1>11 DEF Decided, Routing
<1>14. Placed(t)'
  BY <1>7, <1>11, <1>12, <1>13 DEF Placed, Routing
<1>15. /\ HoldsActive(t)' /\ HoldsDecision(t)'
       /\ \A a \in Act : Read(t, ActRow(a))' = Read(t, ActRow(a))
  BY <1>2, <1>4, <1>8, <1>12, <1>13, HoldingKept
<1>16. Act' = Act /\ \A a \in Act : ActRow(a)' = ActRow(a)
  BY <1>1 DEF Act, ActRow
<1>17. LeavesNone(t)'
  <2> SUFFICES ASSUME ~ txn[t].misses, s = <<"advance", "commit">>
               PROVE  \A a \in Act : Read(t, ActRow(a)) # "active"
    <3>1. Pc(t)' = "advance" => s = <<"advance", "commit">>
      BY <1>5, <1>6
    <3> QED BY <3>1, <1>11, <1>12, <1>15, <1>16 DEF LeavesNone
  <2>1. CASE case.join = "none"
    <3>1. \A a \in Act : a = txn[t].act
      BY <1>2, <2>1, TxnAssumption DEF Typed, TypeOK, Act
    <3>2. Read(t, ActRow(txn[t].act)) \in {"completed", "skipped"}
      BY <1>2, <1>12 DEF Mine, HoldsDecision, Read
    <3> QED BY <3>1, <3>2
  <2>2. CASE case.join # "none"
    <3>1. case.join = "wait_all" /\ Satisfied(t)
      BY <1>2, <1>3, <2>2, TxnAssumption DEF Typed, TypeOK
    <3> QED BY <1>2, <3>1, JoinSees
  <2> QED BY <2>1, <2>2
<1>18. StaysBehind(t)'
  <2>1. Pc(t)' \in {"clear", "commit"} => s = Aside
    BY <1>5, <1>6
  <2>2. s = Aside => \E a \in Act : Read(t, ActRow(a)) # "completed"
    BY <1>2, <1>3, JoinSees
  <2> QED BY <2>1, <2>2, <1>15, <1>16 DEF StaysBehind
<1>19. HoldsKey(t)'
  <2>1. owner' = owner /\ logged' = logged /\ Instance' = Instance
    BY <1>1 DEF rows, history, Instance
  <2> QED BY <1>2, <1>7, <1>11, <1>12, <2>1 DEF Mine, HoldsKey
<1>20. Mine(t)'
  BY <1>14, <1>15, <1>17, <1>18, <1>19 DEF Mine
<1> QED BY <1>1, <1>8, <1>9, <1>10, <1>20, StepSafe DEF history

\* A row that t may write and reads as active is active for everybody.
LEMMA FoundActive ==
  ASSUME Typed, NEW t \in Session, HoldsActive(t), Blockers(t) = {}, NEW a \in Act,
         ActRow(a) \in Wanted(t), Read(t, ActRow(a)) = "active"
  PROVE  val[ActRow(a)] = "active"
<1>1. owner[ActRow(a)] \in {t, Nobody}
  BY DEF Blockers
<1>2. CASE owner[ActRow(a)] = t
  BY <1>2 DEF HoldsActive
<1>3. CASE owner[ActRow(a)] # t
  BY <1>3 DEF Read
<1> QED BY <1>2, <1>3

\* The rows after a write of activities.
LEMMA WritesActs ==
  ASSUME Safe, NEW t \in Session, NEW s \in {"decide", "assign", "sweepActs"}, At(t, s),
         Blockers(t) = {}, NEW v \in Value, Write(t, v), Keeps, \A u \in Session \ {t} : txn'[u] = txn[u]
  PROVE  /\ RowsTyped /\ Frame(t) /\ owner'[Instance] = owner[Instance]
         /\ Wanted(t) \subseteq {ActRow(a) : a \in Act}
         /\ \A r \in Wanted(t) : Read(t, r) = "active" /\ owner'[r] = t /\ new'[r] = v
         /\ \A a \in Act : ActRow(a) \notin Wanted(t) =>
              owner'[ActRow(a)] = owner[ActRow(a)] /\ new'[ActRow(a)] = new[ActRow(a)]
<1>1. Typed /\ UNCHANGED <<case, unique, val>> /\ txn[t].act \in Act
  BY AtStatement DEF Safe, Keeps, Write
<1>2. /\ RowsTyped
      /\ \A r \in Row \cap Wanted(t) : owner[r] \in {t, Nobody} /\ owner'[r] = t /\ new'[r] = v
      /\ \A r \in Row \ Wanted(t) : owner'[r] = owner[r] /\ new'[r] = new[r]
  BY <1>1, WriteRows
<1>3. Wanted(t) \subseteq {ActRow(a) : a \in Act} /\ \A r \in Wanted(t) : Read(t, r) = "active"
  <2>1. CASE s = "sweepActs"
    BY <2>1, WantedOthers
  <2>2. CASE s # "sweepActs"
    BY <1>1, <2>2, WantedOne
  <2> QED BY <2>1, <2>2
<1>4. Wanted(t) \subseteq Row /\ Instance \in Row \ Wanted(t)
  BY <1>3, RowNames
<1>5. Frame(t)
  BY <1>1, <1>2 DEF Frame
<1>6. \A a \in Act : ActRow(a) \in Row
  BY RowNames
<1> QED BY <1>2, <1>3, <1>4, <1>5, <1>6

\* update_activity_assignee leaves the activity active.
LEMMA AssignSafe == ASSUME Safe, NEW t \in Session, Assign(t), Keeps PROVE Safe'
<1>1. At(t, "assign") /\ Blockers(t) = {} /\ Write(t, "active") /\ "active" \in Value /\ Go(t, <<>>)
      /\ UNCHANGED <<top, history, case, unique>>
  BY DEF Assign, Statement, Value, Keeps
<1>2. /\ Typed /\ Mine(t) /\ OneAppends /\ Running(t) /\ Pc(t) = "assign"
      /\ txn[t].kind = "claim" /\ NextPc(t) = "seq"
  BY <1>1, AtStatement DEF Follows
<1>3. Goes(t, Tail(txn[t].todo), txn[t].seq, txn[t].logs, txn[t].moves, txn[t].misses)
  BY <1>1, <1>2, GoesOn
<1>4. txn' \in [Session -> TxnType'] /\ (\A u \in Session : Shape(u)') /\ Pc(t)' = "seq"
  BY <1>1, <1>2, <1>3, NextAfter
<1>5. /\ txn'[t].kind = "claim" /\ txn'[t].logs = txn[t].logs
      /\ txn'[t].moves = txn[t].moves /\ txn'[t].misses = txn[t].misses /\ txn'[t].key = txn[t].key
      /\ \A u \in Session \ {t} : txn'[u] = txn[u]
  BY <1>2, <1>3 DEF Goes
<1>6. /\ RowsTyped /\ Frame(t) /\ owner'[Instance] = owner[Instance]
      /\ \A r \in Wanted(t) : Read(t, r) = "active" /\ owner'[r] = t /\ new'[r] = "active"
      /\ \A a \in Act : ActRow(a) \notin Wanted(t) =>
           owner'[ActRow(a)] = owner[ActRow(a)] /\ new'[ActRow(a)] = new[ActRow(a)]
  BY <1>1, <1>5, WritesActs
<1>7. Typed'
  BY <1>1, <1>2, <1>4, <1>6, TypedAfter
<1>8. OneAppends'
  BY <1>1, <1>2, <1>3, AppendsKept
<1>9. ~ txn[t].logs /\ ~ txn[t].moves /\ ~ txn[t].misses /\ ~ Decided(t)
  BY <1>2 DEF Mine, Placed, Decided, Routing, Kind
<1>10. ~ Decided(t)'
  BY <1>5 DEF Decided
<1>11. Placed(t)'
  BY <1>4, <1>5, <1>9 DEF Placed, Routing
<1>12. HoldsActive(t)'
  <2>1. ASSUME NEW a \in Act, owner'[ActRow(a)] = t PROVE val[ActRow(a)] = "active" /\ new'[ActRow(a)] = "active"
    <3>1. CASE ActRow(a) \in Wanted(t)
      BY <1>1, <1>2, <1>6, <3>1, FoundActive DEF Mine
    <3>2. CASE ActRow(a) \notin Wanted(t)
      BY <1>2, <1>6, <1>9, <2>1, <3>2 DEF Mine, HoldsActive
    <3> QED BY <3>1, <3>2
  <2> QED BY <1>6, <2>1 DEF HoldsActive, Frame, Act, ActRow
<1>13. HoldsDecision(t)' /\ LeavesNone(t)' /\ StaysBehind(t)'
  BY <1>10 DEF HoldsDecision, LeavesNone, StaysBehind
<1>14. HoldsKey(t)'
  <2>1. logged' = logged /\ Instance' = Instance
    BY <1>1 DEF history, Instance
  <2> QED BY <1>2, <1>4, <1>5, <1>6, <2>1 DEF Mine, HoldsKey
<1>15. Mine(t)'
  BY <1>11, <1>12, <1>13, <1>14 DEF Mine
<1> QED BY <1>1, <1>6, <1>7, <1>8, <1>15, StepSafe DEF history

\* complete_activity_cas and skip_activity_for_timeout: the UPDATE finds an active row or
\* none, and what it found is in misses.
LEMMA DecideSafe == ASSUME Safe, NEW t \in Session, Decide(t), Keeps PROVE Safe'
<1> SUFFICES ASSUME ~ (Wanted(t) = {} /\ txn[t].kind = "signal") PROVE Safe'
  BY FailSafe DEF Decide
<1>1. At(t, "decide") /\ Blockers(t) = {} /\ UNCHANGED <<top, history, case, unique>>
  BY DEF Decide, Statement, Keeps
<1>2. /\ Typed /\ Mine(t) /\ OneAppends /\ Running(t) /\ Pc(t) = "decide"
      /\ txn[t].kind \in Kind \ {"claim"} /\ NextPc(t) = "cancel" /\ txn[t].act \in Act
  BY <1>1, AtStatement DEF Follows
<1>3. PICK v \in {"skipped", "completed"} : Write(t, v)
  BY DEF Decide
<1>4. v \in Value
  BY DEF Value
<1> DEFINE missed == Wanted(t) = {}
<1>5. Goes(t, Tail(txn[t].todo), txn[t].seq, txn[t].logs, txn[t].moves, missed)
  <2>1. txn' = [txn EXCEPT ![t].todo = Tail(txn[t].todo), ![t].misses = missed]
    BY DEF Decide
  <2>2. missed \in BOOLEAN
    OBVIOUS
  <2> HIDE DEF missed
  <2> QED BY <1>2, <2>1, <2>2, TodoTail DEF Goes, Typed, TxnType
<1>6. txn' \in [Session -> TxnType'] /\ (\A u \in Session : Shape(u)') /\ Pc(t)' = "cancel"
  BY <1>1, <1>2, <1>5, NextAfter
<1>7. /\ txn'[t].kind = txn[t].kind /\ txn'[t].logs = txn[t].logs /\ txn'[t].act = txn[t].act
      /\ txn'[t].moves = txn[t].moves /\ txn'[t].misses = missed /\ txn'[t].key = txn[t].key
      /\ txn'[t].seq = txn[t].seq /\ \A u \in Session \ {t} : txn'[u] = txn[u]
  BY <1>5 DEF Goes
<1>8. /\ RowsTyped /\ Frame(t) /\ owner'[Instance] = owner[Instance]
      /\ \A r \in Wanted(t) : Read(t, r) = "active" /\ owner'[r] = t /\ new'[r] = v
      /\ \A a \in Act : ActRow(a) \notin Wanted(t) =>
           owner'[ActRow(a)] = owner[ActRow(a)] /\ new'[ActRow(a)] = new[ActRow(a)]
  BY <1>1, <1>3, <1>4, <1>7, WritesActs
<1>9. Typed'
  BY <1>1, <1>2, <1>6, <1>8, TypedAfter
<1>10. OneAppends'
  BY <1>1, <1>2, <1>5, AppendsKept
<1>11. ~ txn[t].moves /\ ~ Decided(t) /\ (txn[t].kind # "delivery" <=> txn[t].logs)
  BY <1>2 DEF Mine, Placed, Decided, Routing, Kind
<1>12. Decided(t)'
  BY <1>2, <1>6, <1>7 DEF Decided
<1>13. Placed(t)'
  BY <1>6, <1>7, <1>11, <1>12 DEF Placed, Routing
<1>14. HoldsActive(t)'
  <2>1. ASSUME NEW a \in Act, owner'[ActRow(a)] = t PROVE val[ActRow(a)] = "active"
    <3>1. CASE ActRow(a) \in Wanted(t)
      BY <1>1, <1>2, <1>8, <3>1, FoundActive DEF Mine
    <3>2. CASE ActRow(a) \notin Wanted(t)
      BY <1>2, <1>8, <2>1, <3>2 DEF Mine, HoldsActive
    <3> QED BY <3>1, <3>2
  <2> QED BY <1>8, <1>12, <2>1 DEF HoldsActive, Frame, Act, ActRow
<1>15. HoldsDecision(t)'
  <2>1. ~ missed => ActRow(txn[t].act) \in Wanted(t)
    BY <1>1, WantedOne
  <2> QED BY <1>3, <1>7, <1>8, <2>1 DEF HoldsDecision, ActRow
<1>16. LeavesNone(t)' /\ StaysBehind(t)'
  BY <1>6, <1>7, <1>11 DEF LeavesNone, StaysBehind
<1>17. HoldsKey(t)'
  <2>1. logged' = logged /\ Instance' = Instance
    BY <1>1 DEF history, Instance
  <2> QED BY <1>2, <1>6, <1>7, <1>8, <2>1 DEF Mine, HoldsKey
<1>18. Mine(t)'
  BY <1>13, <1>14, <1>15, <1>16, <1>17 DEF Mine
<1> QED BY <1>1, <1>8, <1>9, <1>10, <1>18, StepSafe DEF history

\* skip_other_active_activities: after it no activity is active.
LEMMA SweepSafe == ASSUME Safe, NEW t \in Session, SweepActivities(t), Keeps PROVE Safe'
<1>1. At(t, "sweepActs") /\ Blockers(t) = {} /\ Write(t, "skipped") /\ "skipped" \in Value /\ Go(t, <<>>)
      /\ UNCHANGED <<top, history, case, unique>>
  BY DEF SweepActivities, Statement, Value, Keeps
<1>2. /\ Typed /\ Mine(t) /\ OneAppends /\ Running(t) /\ Pc(t) = "sweepActs"
      /\ txn[t].kind \in Kind \ {"claim"} /\ NextPc(t) = "advance" /\ txn[t].act \in Act
  BY <1>1, AtStatement DEF Follows
<1>3. Goes(t, Tail(txn[t].todo), txn[t].seq, txn[t].logs, txn[t].moves, txn[t].misses)
  BY <1>1, <1>2, GoesOn
<1>4. txn' \in [Session -> TxnType'] /\ (\A u \in Session : Shape(u)') /\ Pc(t)' = "advance"
  BY <1>1, <1>2, <1>3, NextAfter
<1>5. /\ txn'[t].kind = txn[t].kind /\ txn'[t].logs = txn[t].logs /\ txn'[t].act = txn[t].act
      /\ txn'[t].moves = txn[t].moves /\ txn'[t].misses = txn[t].misses /\ txn'[t].key = txn[t].key
      /\ \A u \in Session \ {t} : txn'[u] = txn[u]
  BY <1>3 DEF Goes
<1>6. /\ RowsTyped /\ Frame(t) /\ owner'[Instance] = owner[Instance]
      /\ \A r \in Wanted(t) : Read(t, r) = "active" /\ owner'[r] = t /\ new'[r] = "skipped"
      /\ \A a \in Act : ActRow(a) \notin Wanted(t) =>
           owner'[ActRow(a)] = owner[ActRow(a)] /\ new'[ActRow(a)] = new[ActRow(a)]
  BY <1>1, <1>5, WritesActs
<1>7. Typed'
  BY <1>1, <1>2, <1>4, <1>6, TypedAfter
<1>8. OneAppends'
  BY <1>1, <1>2, <1>3, AppendsKept
<1>9. txn[t].logs /\ ~ txn[t].moves /\ Decided(t)
  BY <1>2 DEF Mine, Placed, Decided, Routing
<1>10. Decided(t)'
  BY <1>2, <1>4, <1>5 DEF Decided, Routing
<1>11. Placed(t)'
  BY <1>4, <1>5, <1>9, <1>10 DEF Placed, Routing
<1>12. HoldsActive(t)'
  <2>1. ASSUME NEW a \in Act, owner'[ActRow(a)] = t PROVE val[ActRow(a)] = "active"
    <3>1. CASE ActRow(a) \in Wanted(t)
      BY <1>1, <1>2, <1>6, <3>1, FoundActive DEF Mine
    <3>2. CASE ActRow(a) \notin Wanted(t)
      BY <1>2, <1>6, <2>1, <3>2 DEF Mine, HoldsActive
    <3> QED BY <3>1, <3>2
  <2> QED BY <1>6, <1>10, <2>1 DEF HoldsActive, Frame, Act, ActRow
<1>13. ActRow(txn[t].act) \notin Wanted(t)
  BY <1>1, <1>2, WantedOthers, RowNames
<1>14. HoldsDecision(t)'
  BY <1>2, <1>5, <1>6, <1>9, <1>13 DEF Mine, HoldsDecision, ActRow
<1>15. LeavesNone(t)'
  <2> SUFFICES ASSUME ~ txn[t].misses, NEW a \in Act PROVE Read(t, ActRow(a))' # "active"
    BY <1>1, <1>5 DEF LeavesNone, Act
  <2>1. CASE a = txn[t].act
    BY <1>2, <1>6, <1>9, <1>13, <2>1 DEF Mine, HoldsDecision, Read, ActRow
  <2>2. CASE a # txn[t].act /\ ActRow(a) \in Wanted(t)
    BY <1>6, <2>2 DEF Read, ActRow
  <2>3. CASE a # txn[t].act /\ ActRow(a) \notin Wanted(t)
    <3>1. Read(t, ActRow(a)) # "active"
      BY <1>1, <2>3, WantedOthers
    <3> QED BY <1>6, <2>3, <3>1 DEF Read, ActRow, Frame
  <2> QED BY <2>1, <2>2, <2>3
<1>16. StaysBehind(t)'
  BY <1>4 DEF StaysBehind
<1>17. HoldsKey(t)'
  <2>1. logged' = logged /\ Instance' = Instance
    BY <1>1 DEF history, Instance
  <2> QED BY <1>2, <1>4, <1>5, <1>6, <1>9, <2>1 DEF Mine, HoldsKey
<1>18. Mine(t)'
  BY <1>11, <1>12, <1>14, <1>15, <1>16, <1>17 DEF Mine
<1> QED BY <1>1, <1>6, <1>7, <1>8, <1>18, StepSafe DEF history

\* schedule_activity and update_current_activity, or complete_workflow_cas.
LEMMA AdvanceSafe == ASSUME Safe, NEW t \in Session, Advance(t), Keeps PROVE Safe'
<1> SUFFICES ASSUME ~ (case.ends /\ Wanted(t) = {}) PROVE Safe'
  BY FailSafe DEF Advance
<1>1. At(t, "advance") /\ Blockers(t) = {} /\ UNCHANGED <<top, history, case, unique>>
  BY DEF Advance, Statement, Keeps
<1>2. /\ Typed /\ Mine(t) /\ OneAppends /\ Running(t) /\ Pc(t) = "advance"
      /\ txn[t].kind \in Kind \ {"claim"} /\ NextPc(t) = "commit"
  BY <1>1, AtStatement DEF Follows
<1>3. PICK v \in {"completed", "active"} : Write(t, v)
  BY DEF Advance
<1>4. v \in Value
  BY DEF Value
<1>5. Goes(t, Tail(txn[t].todo), txn[t].seq, txn[t].logs, TRUE, txn[t].misses)
  <2>1. txn' = [txn EXCEPT ![t].todo = Tail(txn[t].todo), ![t].moves = TRUE]
    BY DEF Advance
  <2> QED BY <1>2, <2>1, TodoTail DEF Goes, Typed, TxnType
<1>6. txn' \in [Session -> TxnType'] /\ (\A u \in Session : Shape(u)') /\ Pc(t)' = "commit"
  BY <1>1, <1>2, <1>5, NextAfter
<1>7. /\ txn'[t].kind = txn[t].kind /\ txn'[t].logs = txn[t].logs
      /\ txn'[t].moves = TRUE /\ txn'[t].misses = txn[t].misses /\ txn'[t].key = txn[t].key
      /\ \A u \in Session \ {t} : txn'[u] = txn[u]
  BY <1>5 DEF Goes
<1>8. RowsTyped /\ Frame(t) /\ ActsKept(t)
  BY <1>1, <1>3, <1>4, <1>7, WritesElsewhere
<1>9. Typed'
  BY <1>1, <1>2, <1>6, <1>8, TypedAfter
<1>10. OneAppends'
  BY <1>1, <1>2, <1>5, AppendsKept
<1>11. txn[t].logs /\ Decided(t)
  BY <1>2 DEF Mine, Placed, Decided, Routing
<1>12. Decided(t)'
  BY <1>2, <1>6, <1>7, <1>11 DEF Decided
<1>13. Placed(t)'
  BY <1>6, <1>7, <1>11, <1>12 DEF Placed, Routing
<1>14. /\ HoldsActive(t)' /\ HoldsDecision(t)'
       /\ \A a \in Act : Read(t, ActRow(a))' = Read(t, ActRow(a))
  BY <1>2, <1>5, <1>8, <1>11, <1>12, HoldingKept
<1>15. LeavesNone(t)'
  BY <1>1, <1>2, <1>7, <1>11, <1>14 DEF Mine, LeavesNone, Act, ActRow
<1>16. StaysBehind(t)'
  BY <1>7 DEF StaysBehind
<1>17. HoldsKey(t)'
  <2>1. logged' = logged /\ Instance' = Instance
    BY <1>1 DEF history, Instance
  <2> QED BY <1>2, <1>6, <1>7, <1>8, <1>11, <2>1 DEF Mine, HoldsKey, ActsKept
<1>18. Mine(t)'
  BY <1>13, <1>14, <1>15, <1>16, <1>17 DEF Mine
<1> QED BY <1>1, <1>8, <1>9, <1>10, <1>18, StepSafe DEF history

----------------------------------------------------------------------------
(* Commit.                                                                 *)

\* What a commit changes: the rows of t become the committed ones.
LEMMA CommitRows ==
  ASSUME Typed, NEW t \in Session, Commit(t)
  PROVE  /\ RowsTyped /\ txn' \in [Session -> TxnType] /\ txn'[t] = NoTxn
         /\ \A u \in Session \ {t} : txn'[u] = txn[u]
         /\ UNCHANGED <<case, unique, new>>
         /\ \A r \in Row : /\ val'[r] = Read(t, r)
                           /\ owner'[r] # t
                           /\ \A u \in Session \ {t} : owner'[r] = u <=> owner[r] = u
<1>1. UNCHANGED <<case, unique, new>>
  BY DEF Commit, Keeps
<1>2. txn' = [txn EXCEPT ![t] = NoTxn]
  BY DEF Commit, Ends
<1>3. txn' \in [Session -> TxnType] /\ txn'[t] = NoTxn /\ \A u \in Session \ {t} : txn'[u] = txn[u]
  BY <1>2, NoTxnFields DEF Typed
<1>4. t # Nobody /\ \A u \in Session : u # Nobody
  BY TxnAssumption DEF Session
<1>5. RowsTyped
  BY <1>1 DEF RowsTyped, Commit, Release, Typed, TypeOK
<1>6. \A r \in Row : val'[r] = Read(t, r)
  BY DEF Commit, Read
<1>7. \A r \in Row : owner'[r] = IF owner[r] = t THEN Nobody ELSE owner[r]
  BY DEF Commit, Release
<1> QED BY <1>1, <1>3, <1>4, <1>5, <1>6, <1>7

\* The types after a commit.
LEMMA CommitTyped == ASSUME Typed, NEW t \in Session, Commit(t) PROVE Typed'
<1>1. /\ RowsTyped /\ txn' \in [Session -> TxnType] /\ txn'[t] = NoTxn
      /\ \A u \in Session \ {t} : txn'[u] = txn[u]
      /\ UNCHANGED <<case, unique, new>>
  BY CommitRows
<1>2. Act' = Act /\ Row' = Row /\ TxnType' = TxnType
  BY <1>1 DEF Act, Row, Instance, ActRow, Timer, Intent, TxnType
<1>3. \A u \in Session : Shape(u)'
  <2>1. Shape(t)'
    BY <1>1, NoTxnFields DEF Shape, Planned, Running
  <2>2. ASSUME NEW u \in Session \ {t} PROVE Shape(u)'
    BY <1>1, <1>2, TxnFields DEF Shape, Running
  <2> QED BY <2>1, <2>2
<1>4. top' \in Nat /\ advanced' \in Nat /\ sends' = sends
  <2>1. top \in Nat /\ advanced \in Nat
    BY DEF Typed, TypeOK
  <2>2. top + 1 \in Nat /\ advanced + 1 \in Nat
    BY <2>1
  <2>3. top' \in {top, top + 1} /\ advanced' \in {advanced, advanced + 1} /\ sends' = sends
    BY Zenon DEF Commit
  <2> QED BY <2>1, <2>2, <2>3
<1>5. overlooked' \in BOOLEAN
  BY Zenon, TxnFields DEF Commit, Typed, TypeOK
<1>6. logged' \in [Key -> Nat]
  <2>1. logged \in [Key -> Nat]
    BY DEF Typed, TypeOK
  <2>2. CASE txn[t].logs /\ txn[t].key # ""
    <3>1. logged' = [logged EXCEPT ![txn[t].key] = logged[txn[t].key] + 1]
      BY <2>2 DEF Commit
    <3>2. txn[t].key \in Key
      BY <2>2, TxnFields
    <3>3. logged[txn[t].key] + 1 \in Nat
      BY <2>1, <3>2
    <3> QED BY <2>1, <3>1, <3>2, <3>3
  <2>3. CASE ~ (txn[t].logs /\ txn[t].key # "")
    <3>1. logged' = logged
      BY <2>3 DEF Commit
    <3> QED BY <2>1, <3>1
  <2> QED BY <2>2, <2>3
<1>7. TypeOK'
  BY <1>1, <1>2, <1>4, <1>5, <1>6 DEF Typed, TypeOK, RowsTyped, Value
<1> QED BY <1>1, <1>2, <1>3, <1>7 DEF Typed, RowsTyped

\* What the committing transaction is left with.
LEMMA CommitOwn == ASSUME Typed, NEW t \in Session, Commit(t) PROVE Mine(t)'
<1>1. txn'[t] = NoTxn /\ (\A r \in Row : owner'[r] # t) /\ Act' = Act
  BY CommitRows DEF Act
<1>2. Pc(t)' = "idle" /\ ~ Decided(t)'
  BY <1>1, NoTxnFields DEF Pc, Running, Decided, Kind
<1>3. Placed(t)'
  BY <1>1, <1>2, NoTxnFields DEF Placed, Routing
<1>4. HoldsActive(t)'
  BY <1>1, RowNames DEF HoldsActive, ActRow
<1>5. HoldsDecision(t)' /\ LeavesNone(t)' /\ StaysBehind(t)'
  BY <1>2 DEF HoldsDecision, LeavesNone, StaysBehind
<1>6. HoldsKey(t)'
  BY <1>1, NoTxnFields DEF HoldsKey
<1> QED BY <1>3, <1>4, <1>5, <1>6 DEF Mine

\* What a commit of t leaves to the others.  It changes rows that they have seen active only;
\* under the unique index, whoever is in the log has seen no branch that t completes; and a
\* request that is past its lock is not one of the same instance's that commits.
LEMMA CommitOthers ==
  ASSUME Safe, NEW t \in Session, Commit(t), NEW u \in Session \ {t}
  PROVE  Mine(u)'
<1>1. Typed /\ Mine(t) /\ Mine(u) /\ OneAppends
  BY DEF Safe
<1>2. /\ txn'[u] = txn[u] /\ UNCHANGED <<case, unique, new>>
      /\ \A r \in Row : val'[r] = Read(t, r) /\ (owner'[r] = u <=> owner[r] = u)
  BY <1>1, CommitRows
<1>3. Act' = Act /\ Instance' = Instance /\ \A a \in Act : ActRow(a)' = ActRow(a) /\ ActRow(a) \in Row
  BY <1>2, RowNames DEF Act, Instance, ActRow
<1>4. Pc(u)' = Pc(u) /\ (Decided(u)' <=> Decided(u))
  BY <1>2 DEF Pc, Running, Decided
<1>5. Pc(t) = "commit" /\ Running(t)
  BY <1>1, AtPc DEF Commit
<1>6. \A r \in Row : owner[r] = u => val'[r] = val[r]
  BY <1>2 DEF Read
<1>7. \A r \in Row : owner[r] # t => Read(u, r)' = Read(u, r)
  BY <1>2 DEF Read
<1>8. \A r \in Row : owner[r] = t => Read(u, r) = val[r] /\ Read(u, r)' = new[r]
  BY <1>2 DEF Read
<1>9. Placed(u)'
  BY <1>1, <1>2, <1>4 DEF Mine, Placed
<1>10. HoldsActive(u)'
  BY <1>1, <1>2, <1>3, <1>4, <1>6 DEF Mine, HoldsActive
<1>11. HoldsDecision(u)'
  <2>1. Decided(u) => txn[u].act \in Act
    BY <1>1, TxnFields DEF Decided, Shape, Kind
  <2> QED BY <1>1, <1>2, <1>3, <1>4, <2>1 DEF Mine, HoldsDecision, ActRow
<1>12. LeavesNone(u)'
  <2> SUFFICES ASSUME Decided(u), ~ txn[u].misses, Pc(u) = "advance" \/ txn[u].moves, NEW a \in Act
               PROVE  Read(u, ActRow(a))' # "active"
    BY <1>2, <1>3, <1>4 DEF LeavesNone, ActRow
  <2>1. Read(u, ActRow(a)) # "active"
    BY <1>1 DEF Mine, LeavesNone
  <2>2. owner[ActRow(a)] # t
    BY <1>1, <1>3, <1>8, <2>1 DEF Mine, HoldsActive
  <2> QED BY <1>3, <1>7, <2>1, <2>2
<1>13. StaysBehind(u)'
  <2> SUFFICES ASSUME unique, Decided(u), ~ txn[u].moves, Pc(u) \in {"clear", "commit"}
               PROVE  \E a \in Act : Read(u, ActRow(a))' # "completed"
    BY <1>2, <1>3, <1>4 DEF StaysBehind, ActRow
  <2>1. txn[u].logs
    BY <1>1 DEF Mine, Placed, Decided, Routing
  <2>2. ~ txn[t].logs
    BY <1>1, <2>1 DEF OneAppends
  <2>3. ~ Decided(t)
    BY <1>5, <2>2 DEF Decided, Routing
  <2>4. PICK a \in Act : Read(u, ActRow(a)) # "completed"
    BY <1>1 DEF Mine, StaysBehind
  <2>5. CASE owner[ActRow(a)] = t
    <3>1. new[ActRow(a)] = "active"
      BY <1>1, <2>3, <2>5 DEF Mine, HoldsActive
    <3>2. Read(u, ActRow(a))' = "active"
      BY <1>3, <1>8, <2>5, <3>1
    <3> QED BY <3>2
  <2>6. CASE owner[ActRow(a)] # t
    <3>1. Read(u, ActRow(a))' = Read(u, ActRow(a))
      BY <1>3, <1>7, <2>6
    <3> QED BY <2>4, <3>1
  <2> QED BY <2>5, <2>6
<1>14. HoldsKey(u)'
  <2> SUFFICES ASSUME txn[u].kind \in {"signal", "claim"}
               PROVE  /\ Pc(u) # "lock" => owner'[Instance] = u
                      /\ Pc(u) \in {"target", "assign", "seq", "insert"} \/ txn[u].logs => logged'[txn[u].key] = 0
    BY <1>2, <1>3, <1>4 DEF HoldsKey
  <2>1. Pc(u) # "lock" => owner[Instance] = u
    BY <1>1 DEF Mine, HoldsKey
  <2>2. Pc(u) # "lock" => owner'[Instance] = u
    BY <1>2, <2>1, RowNames
  <2>3. ASSUME Pc(u) \in {"target", "assign", "seq", "insert"} \/ txn[u].logs
        PROVE  logged'[txn[u].key] = 0
    <3>1. Pc(u) # "lock"
      BY <1>1, <2>3 DEF Mine, Placed, Routing
    <3>2. txn[t].kind \notin {"signal", "claim"}
      BY <1>1, <1>5, <2>1, <3>1 DEF Mine, HoldsKey
    <3>3. txn[t].key = ""
      BY <1>1, <3>2, TxnFields DEF Shape
    <3>4. logged' = logged
      BY <3>3 DEF Commit
    <3>5. logged[txn[u].key] = 0
      BY <1>1, <2>3 DEF Mine, HoldsKey
    <3> QED BY <3>4, <3>5
  <2> QED BY <2>2, <2>3
<1> QED BY <1>9, <1>10, <1>11, <1>12, <1>13, <1>14 DEF Mine

\* A commit: the instance moves on when no other had, every arrival but the last stays
\* behind, and a key enters the log that was not there.
LEMMA CommitSafe == ASSUME Safe, NEW t \in Session, Commit(t) PROVE Safe'
<1>1. Typed /\ Mine(t) /\ OneAppends /\ MovedOn /\ JoinFired /\ AdvancesOnce /\ KeyLoggedOnce
  BY DEF Safe
<1>2. Typed'
  BY <1>1, CommitTyped
<1>3. \A u \in Session : Mine(u)'
  BY <1>1, CommitOwn, CommitOthers
<1>4. /\ txn'[t] = NoTxn /\ \A u \in Session \ {t} : txn'[u] = txn[u]
      /\ UNCHANGED <<case, unique, new>>
      /\ \A r \in Row : val'[r] = Read(t, r)
  BY <1>1, CommitRows
<1>5. Act' = Act /\ \A a \in Act : ActRow(a)' = ActRow(a) /\ ActRow(a) \in Row
  BY <1>4, RowNames DEF Act, ActRow
<1>6. Pc(t) = "commit" /\ Running(t) /\ txn[t].kind \in Kind /\ txn[t].act \in Act
  <2>1. At(t, "commit")
    BY DEF Commit
  <2> QED BY <2>1, AtStatement
<1>7. /\ txn[t].moves => advanced' = advanced + 1
      /\ ~ txn[t].moves => advanced' = advanced
      /\ advanced \in Nat
  BY <1>1 DEF Commit, Typed, TypeOK
<1>8. overlooked' <=> overlooked \/ txn[t].misses
  BY Zenon DEF Commit
<1>9. OneAppends'
  <2>1. NoTxn.seq = 0 /\ ~ NoTxn.logs /\ top \in Nat
    BY <1>1, NoTxnFields DEF Typed, TypeOK
  <2>2. CASE txn[t].logs
    <3>1. top' = top + 1
      BY <2>2 DEF Commit
    <3>2. ASSUME NEW u \in Session PROVE txn'[u].seq <= top + 1 /\ txn'[u].seq \in Nat
      <4>1. CASE u = t
        BY <1>4, <2>1, <4>1
      <4>2. CASE u # t
        BY <1>1, <1>4, <4>2, TxnFields DEF OneAppends
      <4> QED BY <4>1, <4>2
    <3>3. unique => \A u \in Session : ~ txn'[u].logs
      BY <1>1, <1>4, <2>1, <2>2 DEF OneAppends
    <3> QED BY <1>4, <2>1, <3>1, <3>2, <3>3 DEF OneAppends
  <2>3. CASE ~ txn[t].logs
    <3>1. top' = top
      BY <2>3 DEF Commit
    <3> QED BY <1>1, <1>4, <2>1, <3>1 DEF OneAppends
  <2> QED BY <2>2, <2>3
<1>10. txn[t].moves => Decided(t)
  BY <1>1 DEF Mine, Placed
<1>11. ASSUME NEW a \in Act, owner[ActRow(a)] = t
       PROVE  val[ActRow(a)] = "active" /\ (new[ActRow(a)] # "active" => Decided(t))
  BY <1>1, <1>11 DEF Mine, HoldsActive
<1>12. MovedOn'
  <2> SUFFICES ASSUME advanced' > 0, ~ overlooked', NEW a \in Act PROVE val'[ActRow(a)] # "active"
    BY <1>5 DEF MovedOn
  <2>1. ~ overlooked /\ ~ txn[t].misses
    BY <1>8
  <2>2. CASE txn[t].moves
    <3>1. Read(t, ActRow(a)) # "active"
      BY <1>1, <1>10, <2>1, <2>2 DEF Mine, LeavesNone
    <3> QED BY <1>4, <1>5, <3>1
  <2>3. CASE ~ txn[t].moves
    <3>1. val[ActRow(a)] # "active"
      BY <1>1, <1>7, <2>1, <2>3 DEF MovedOn
    <3>2. Read(t, ActRow(a)) = val[ActRow(a)]
      BY <1>11, <3>1 DEF Read
    <3> QED BY <1>4, <1>5, <3>1, <3>2
  <2> QED BY <2>2, <2>3
<1>13. AdvancesOnce'
  <2> SUFFICES ASSUME ~ overlooked' PROVE advanced' <= 1
    BY DEF AdvancesOnce
  <2>1. ~ overlooked /\ ~ txn[t].misses
    BY <1>8
  <2>2. CASE txn[t].moves
    <3>1. owner[ActRow(txn[t].act)] = t
      BY <1>1, <1>10, <2>1, <2>2 DEF Mine, HoldsDecision
    <3>2. val[ActRow(txn[t].act)] = "active"
      BY <1>6, <1>11, <3>1
    <3>3. ~ (advanced > 0)
      BY <1>1, <1>6, <2>1, <3>2 DEF MovedOn
    <3> QED BY <1>7, <2>2, <3>3
  <2>3. CASE ~ txn[t].moves
    BY <1>1, <1>7, <2>1, <2>3 DEF AdvancesOnce
  <2> QED BY <2>2, <2>3
<1>14. JoinFired'
  <2> SUFFICES ASSUME unique, \A a \in Act : val'[ActRow(a)] = "completed" PROVE advanced' > 0
    BY <1>4, <1>5 DEF JoinFired
  <2>1. CASE advanced > 0
    BY <1>7, <2>1
  <2>2. CASE txn[t].moves
    BY <1>7, <2>2
  <2>3. CASE ~ (advanced > 0) /\ ~ txn[t].moves
    <3>1. PICK a \in Act : val[ActRow(a)] # "completed"
      BY <1>1, <2>3 DEF JoinFired
    <3>2. Read(t, ActRow(a)) = "completed"
      BY <1>4, <1>5
    <3>3. owner[ActRow(a)] = t /\ new[ActRow(a)] = "completed"
      BY <3>1, <3>2 DEF Read
    <3>4. Decided(t)
      BY <1>11, <3>3
    <3>5. PICK b \in Act : Read(t, ActRow(b)) # "completed"
      BY <1>1, <1>6, <2>3, <3>4 DEF Mine, StaysBehind
    <3> QED BY <1>4, <1>5, <3>5
  <2> QED BY <2>1, <2>2, <2>3
<1>15. KeyLoggedOnce'
  <2>1. logged \in [Key -> Nat]
    BY <1>1 DEF Typed, TypeOK
  <2>2. CASE txn[t].logs /\ txn[t].key # ""
    <3>1. txn[t].kind \in {"signal", "claim"} /\ txn[t].key \in Key
      BY <1>1, <2>2, TxnFields DEF Shape
    <3>2. logged[txn[t].key] = 0
      BY <1>1, <2>2, <3>1 DEF Mine, HoldsKey
    <3>3. logged' = [logged EXCEPT ![txn[t].key] = @ + 1]
      BY <2>2 DEF Commit
    <3> QED BY <1>1, <2>1, <3>1, <3>2, <3>3 DEF KeyLoggedOnce
  <2>3. CASE ~ (txn[t].logs /\ txn[t].key # "")
    BY <1>1, <2>3 DEF KeyLoggedOnce, Commit
  <2> QED BY <2>2, <2>3
<1> QED BY <1>2, <1>3, <1>9, <1>12, <1>13, <1>14, <1>15 DEF Safe

----------------------------------------------------------------------------
(* Begin, and the theorems.                                                *)

\* The number of a transaction that has none yet is below the next.
LEMMA ZeroBelow == \A n \in Nat : 0 <= n + 1
OBVIOUS

\* A list is what is left of itself.
LEMMA RestAll == ASSUME NEW p \in Seq(Stmt) PROVE RestOf(p, p)
<1>1. Len(p) \in Nat
  OBVIOUS
<1>2. \A i \in 1..Len(p) : Len(p) - Len(p) + i = i
  BY <1>1
<1> QED BY <1>1, <1>2 DEF RestOf

\* The first statement of a program.
LEMMA FirstStatement ==
  ASSUME NEW k \in Kind
  PROVE  Program[k] # <<>> /\ Head(Program[k]) = IF k \in {"signal", "claim"} THEN "lock" ELSE "mark"
<1>1. ASSUME NEW p, p = Program["signal"] PROVE p # <<>> /\ Head(p) = "lock"
  <2>1. Len(p) = 8 /\ p[1] = "lock"
    BY <1>1 DEF Program
  <2> QED BY <2>1
<1>2. ASSUME NEW p, p = Program["claim"] PROVE p # <<>> /\ Head(p) = "lock"
  <2>1. Len(p) = 7 /\ p[1] = "lock"
    BY <1>2 DEF Program
  <2> QED BY <2>1
<1>3. ASSUME NEW p, p = Program["timer"] PROVE p # <<>> /\ Head(p) = "mark"
  <2>1. Len(p) = 8 /\ p[1] = "mark"
    BY <1>3 DEF Program
  <2> QED BY <2>1
<1>4. ASSUME NEW p, p = Program["delivery"] PROVE p # <<>> /\ Head(p) = "mark"
  <2>1. Len(p) = 8 /\ p[1] = "mark"
    BY <1>4 DEF Program
  <2> QED BY <2>1
<1> QED BY <1>1, <1>2, <1>3, <1>4 DEF Kind

\* A transaction that begins holds nothing.
LEMMA BeginSafe ==
  ASSUME Safe, NEW t \in Session, NEW k \in Kind, NEW a \in Act, NEW i \in Key \cup {""},
         k \in {"signal", "claim"} => i \in Key,
         k \notin {"signal", "claim"} => i = "",
         Begin(t, k, a, i), sends' \in [Key -> 0..MaxSends]
  PROVE  Safe'
<1>1. Typed /\ Mine(t) /\ OneAppends
  BY DEF Safe
<1>2. /\ UNCHANGED <<case, unique, val, new, owner, top, logged, advanced, overlooked>>
      /\ UNCHANGED rows /\ ~ Running(t)
  BY DEF Begin, Keeps, rows
<1>3. PICK x : /\ x = [NoTxn EXCEPT !.kind = k, !.todo = Program[k], !.act = a, !.key = i]
               /\ txn' = [txn EXCEPT ![t] = x]
  BY DEF Begin
<1>4. /\ x \in TxnType /\ x.kind = k /\ x.todo = Program[k] /\ x.act = a /\ x.key = i /\ x.seq = 0
      /\ ~ x.logs /\ ~ x.moves /\ ~ x.misses
  <2>1. ASSUME NEW p \in Seq(Stmt), p = Program[k]
        PROVE  /\ x \in TxnType /\ x.kind = k /\ x.todo = p /\ x.act = a /\ x.key = i
               /\ x.seq = NoTxn.seq /\ x.logs = NoTxn.logs /\ x.moves = NoTxn.moves /\ x.misses = NoTxn.misses
    <3>1. x = [NoTxn EXCEPT !.kind = k, !.todo = p, !.act = a, !.key = i]
      BY <1>3, <2>1
    <3>2. NoTxn \in TxnType /\ i \in Key \cup {""}
      BY NoTxnFields
    <3> QED BY <3>1, <3>2 DEF TxnType
  <2> QED BY <2>1, Programs, NoTxnFields
<1>5. txn' \in [Session -> TxnType] /\ txn'[t] = x /\ \A u \in Session \ {t} : txn'[u] = txn[u]
  BY <1>1, <1>3, <1>4 DEF Typed
<1>6. RowsTyped /\ Frame(t) /\ ActsKept(t)
  BY <1>1, <1>2, <1>5, SameRows
<1>7. Program[k] # <<>> /\ Head(Program[k]) = IF k \in {"signal", "claim"} THEN "lock" ELSE "mark"
  BY FirstStatement
<1>8. Running(t)' /\ Pc(t)' \in {"lock", "mark"} /\ (k \in {"signal", "claim"} => Pc(t)' = "lock")
  BY <1>4, <1>5, <1>7 DEF Running, Pc
<1>9. Act' = Act /\ Row' = Row /\ TxnType' = TxnType
  BY <1>2 DEF Act, Row, Instance, ActRow, Timer, Intent, TxnType
<1>10. \A u \in Session : Shape(u)'
  <2>1. Shape(t)'
    <3>1. RestOf(Program[k], Program[k])
      BY Programs, RestAll
    <3>2. Planned(k, Program[k])
      BY <3>1 DEF Planned
    <3> QED BY <1>4, <1>5, <1>8, <1>9, <3>2 DEF Shape, Kind
  <2>2. ASSUME NEW u \in Session \ {t} PROVE Shape(u)'
    BY <1>1, <1>5, <1>9, TxnFields DEF Shape, Running
  <2> QED BY <2>1, <2>2
<1>11. Typed'
  <2>1. TypeOK'
    BY <1>1, <1>2, <1>5, <1>9 DEF Typed, TypeOK
  <2> QED BY <1>2, <1>5, <1>6, <1>9, <1>10, <2>1 DEF Typed, RowsTyped
<1>12. OneAppends'
  <2>0. top \in Nat
    BY <1>1 DEF Typed, TypeOK
  <2>1. txn'[t].seq = 0 /\ ~ txn'[t].logs
    BY <1>4, <1>5
  <2>2. \A u \in Session : txn[u].seq <= top + 1
    BY <1>1 DEF OneAppends
  <2>3. txn'[t].seq <= top + 1
    <3>1. 0 <= top + 1
      BY <2>0, ZeroBelow, Zenon
    <3> QED BY <2>1, <3>1
  <2>4. \A u \in Session : txn'[u].seq <= top + 1
    BY <1>5, <2>2, <2>3
  <2>5. \A u \in Session : txn'[u].logs => txn[u].logs /\ txn'[u] = txn[u]
    BY <1>5, <2>1
  <2> QED BY <1>1, <1>2, <2>4, <2>5 DEF OneAppends
<1>13. ~ Decided(t)'
  BY <1>4, <1>5, <1>8 DEF Decided, Routing
<1>14. Placed(t)'
  BY <1>4, <1>5, <1>8 DEF Placed, Routing
<1>15. ~ Decided(t)
  BY <1>1, <1>2, TxnFields DEF Decided, Shape, Kind
<1>16. HoldsActive(t)'
  BY <1>1, <1>2, <1>9, <1>15 DEF Mine, HoldsActive, ActRow
<1>17. HoldsDecision(t)' /\ LeavesNone(t)' /\ StaysBehind(t)'
  BY <1>13 DEF HoldsDecision, LeavesNone, StaysBehind
<1>18. HoldsKey(t)'
  BY <1>4, <1>5, <1>8 DEF HoldsKey
<1>19. Mine(t)'
  BY <1>14, <1>16, <1>17, <1>18 DEF Mine
<1> QED BY <1>2, <1>6, <1>11, <1>12, <1>19, StepSafe

\* All activities are active, nobody is at work and nothing is in the log.
LEMMA InitSafe == Init => Safe
<1> SUFFICES ASSUME Init PROVE Safe
  OBVIOUS
<1>1. case \in Case /\ unique \in BOOLEAN /\ val = Initially(case) /\ new = val
      /\ owner = [r \in DOMAIN val |-> Nobody] /\ txn = [t \in Session |-> NoTxn]
      /\ top = 0 /\ logged = [k \in Key |-> 0] /\ sends = [k \in Key |-> 0] /\ advanced = 0 /\ overlooked = FALSE
  BY DEF Init
<1>2. {Instance} \cup ({"activity", "timer", "intent"} \X Act) = Row
  <2>1. ASSUME NEW r \in {"activity", "timer", "intent"} \X Act PROVE r \in Row
    <3>1. PICK x \in {"activity", "timer", "intent"}, a \in Act : r = <<x, a>>
      OBVIOUS
    <3> QED BY <3>1 DEF Row, ActRow, Timer, Intent
  <2>2. ASSUME NEW r \in Row PROVE r = Instance \/ r \in {"activity", "timer", "intent"} \X Act
    BY DEF Row, ActRow, Timer, Intent
  <2> QED BY <2>1, <2>2, RowNames
<1>3. /\ val \in [Row -> {"none", "pending", "active"}]
      /\ \A a \in Act : val[ActRow(a)] = "active"
  <2> DEFINE has(a, kind) == IF case.kind[a] = kind THEN "pending" ELSE "none"
             v(r) == CASE r[1] = "timer"  -> has(r[2], "event_wait")
                       [] r[1] = "intent" -> has(r[2], "notification")
                       [] OTHER           -> "active"
  <2>1. val = [r \in Row |-> v(r)]
    BY <1>1, <1>2 DEF Initially, Instance, Act
  <2>2. \A r \in Row : v(r) \in {"none", "pending", "active"}
    OBVIOUS
  <2>3. \A a \in Act : v(ActRow(a)) = "active"
    BY DEF ActRow
  <2> HIDE DEF v
  <2> QED BY <2>1, <2>2, <2>3, RowNames
<1>4. owner = [r \in Row |-> Nobody]
  BY <1>1, <1>3
<1>5. \A t \in Session : txn[t] = NoTxn
  BY <1>1
<1>6. Typed
  <2>1. \A t \in Session : Shape(t)
    BY <1>5, NoTxnFields DEF Shape, Planned, Running
  <2>2. TypeOK
    <3>1. DOMAIN val = Row /\ DOMAIN new = Row /\ owner \in [Row -> Session \cup {Nobody}]
      BY <1>1, <1>3, <1>4
    <3>2. \A r \in Row : {val[r], new[r]} \subseteq
             {"none", "pending", "active", "completed", "skipped", "done", "cancelled"}
      BY <1>1, <1>3
    <3>3. DOMAIN txn = Session /\ top \in Nat /\ advanced \in Nat /\ logged \in [Key -> Nat]
      BY <1>1
    <3>4. sends \in [Key -> 0..MaxSends]
      BY <1>1, TxnAssumption
    <3>5. overlooked \in BOOLEAN
      BY <1>1
    <3> QED BY <1>1, <3>1, <3>2, <3>3, <3>4, <3>5 DEF TypeOK
  <2>3. val \in [Row -> Value] /\ new \in [Row -> Value]
    BY <1>1, <1>3 DEF Value
  <2> QED BY <1>1, <2>1, <2>2, <2>3, NoTxnFields DEF Typed
<1>7. ASSUME NEW t \in Session PROVE Mine(t)
  <2>1. Pc(t) = "idle" /\ ~ Decided(t)
    BY <1>5, NoTxnFields DEF Pc, Running, Decided, Kind
  <2>2. Placed(t)
    BY <1>5, <2>1, NoTxnFields DEF Placed, Routing
  <2>3. HoldsActive(t)
    <3>1. t # Nobody
      BY TxnAssumption DEF Session
    <3> QED BY <1>4, <3>1, RowNames DEF HoldsActive
  <2>4. HoldsDecision(t) /\ LeavesNone(t) /\ StaysBehind(t)
    BY <2>1 DEF HoldsDecision, LeavesNone, StaysBehind
  <2>5. HoldsKey(t)
    BY <1>5, NoTxnFields DEF HoldsKey
  <2> QED BY <2>2, <2>3, <2>4, <2>5 DEF Mine
<1>8. MovedOn /\ AdvancesOnce /\ KeyLoggedOnce
  BY <1>1 DEF MovedOn, AdvancesOnce, KeyLoggedOnce
<1>9. JoinFired
  <2>1. Act # {}
    BY <1>1, TxnAssumption DEF Act
  <2> QED BY <1>3, <2>1 DEF JoinFired
<1>10. OneAppends
  <2>1. \A t \in Session : txn[t].seq = 0 /\ ~ txn[t].logs
    BY <1>5, NoTxnFields
  <2> QED BY <1>1, <2>1 DEF OneAppends
<1> QED BY <1>6, <1>7, <1>8, <1>9, <1>10 DEF Safe

\* A step that changes nothing keeps the invariant.
LEMMA StutterSafe == Safe /\ UNCHANGED vars => Safe'
<1> SUFFICES ASSUME Safe, UNCHANGED vars PROVE Safe'
  OBVIOUS
<1>1. UNCHANGED <<case, unique, val, new, owner, txn, top, logged, sends, advanced, overlooked>>
  BY DEF vars, rows, history
<1>2. /\ Act' = Act /\ Row' = Row /\ Instance' = Instance /\ (\A a : ActRow(a)' = ActRow(a))
      /\ TxnType' = TxnType
  BY <1>1 DEF Act, Row, Instance, ActRow, Timer, Intent, TxnType
<1>3. Typed'
  BY <1>1, <1>2 DEF Safe, Typed, TypeOK, Shape, Running
<1>4. ASSUME NEW t \in Session PROVE Mine(t)'
  <2>1. Pc(t)' = Pc(t) /\ (Decided(t)' <=> Decided(t))
    BY <1>1 DEF Pc, Running, Decided
  <2>2. \A a \in Act : Read(t, ActRow(a))' = Read(t, ActRow(a))
    BY <1>1, <1>2 DEF Read, ActRow
  <2>3. Placed(t)' /\ HoldsActive(t)' /\ HoldsDecision(t)'
    BY <1>1, <1>2, <2>1 DEF Safe, Mine, Placed, HoldsActive, HoldsDecision, ActRow
  <2>4. LeavesNone(t)' /\ StaysBehind(t)' /\ HoldsKey(t)'
    BY <1>1, <1>2, <2>1, <2>2 DEF Safe, Mine, LeavesNone, StaysBehind, HoldsKey, ActRow
  <2> QED BY <2>3, <2>4 DEF Mine
<1>5. MovedOn' /\ OneAppends' /\ JoinFired' /\ AdvancesOnce' /\ KeyLoggedOnce'
  BY <1>1, <1>2 DEF Safe, MovedOn, OneAppends, JoinFired, AdvancesOnce, KeyLoggedOnce, ActRow
<1> QED BY <1>3, <1>4, <1>5 DEF Safe

\* Every step keeps it.
LEMMA NextSafe == Safe /\ [Next]_vars => Safe'
<1> SUFFICES ASSUME Safe, [Next]_vars PROVE Safe'
  OBVIOUS
<1>1. ASSUME NEW t \in Client, NEW k \in Key, Signal(t, k) PROVE Safe'
  <2>1. t \in Session /\ RequestOf[k].act \in Act
    BY <1>1 DEF Session, Signal
  <2>2. PICK kind \in {"signal", "claim"} : Begin(t, kind, RequestOf[k].act, k)
    BY <1>1 DEF Signal
  <2>3. sends' \in [Key -> 0..MaxSends]
    BY <1>1, TxnAssumption DEF Safe, Typed, TypeOK, Signal
  <2> QED BY <2>1, <2>2, <2>3, BeginSafe DEF Kind
<1>2. ASSUME NEW t \in Worker, NEW a \in Act, FireTimer(t, a) \/ Delivered(t, a) PROVE Safe'
  <2>1. t \in Session
    BY DEF Session
  <2>2. PICK kind \in {"timer", "delivery"} : Begin(t, kind, a, "")
    BY <1>2 DEF FireTimer, Delivered
  <2>3. sends' \in [Key -> 0..MaxSends]
    BY <1>2 DEF Safe, Typed, TypeOK, FireTimer, Delivered
  <2> QED BY <2>1, <2>2, <2>3, BeginSafe DEF Kind
<1>3. ASSUME NEW t \in Session, Execute(t) PROVE Safe'
  <2>1. Keeps
    BY <1>3 DEF Execute
  <2>2. CASE Lock(t) \/ Seen(t) \/ Target(t) \/ Assign(t) \/ Mark(t) \/ LoadInstance(t) \/ LoadActivity(t)
    BY <2>1, <2>2, LockSafe, SeenSafe, TargetSafe, AssignSafe, MarkSafe, LoadSafe
  <2>3. CASE NextSeq(t) \/ AppendEvent(t) \/ Decide(t) \/ CancelTimers(t) \/ Route(t)
    BY <2>1, <2>3, NextSeqSafe, AppendEventSafe, DecideSafe, QuietWriteSafe, RouteSafe
  <2>4. CASE SweepTimers(t) \/ SweepActivities(t) \/ ClearCurrent(t) \/ Advance(t)
    BY <2>1, <2>4, QuietWriteSafe, SweepSafe, AdvanceSafe
  <2> QED BY <1>3, <2>2, <2>3, <2>4 DEF Execute
<1>4. ASSUME NEW t \in Session, Commit(t) PROVE Safe'
  BY <1>4, CommitSafe
<1>5. ASSUME NEW t \in Session, DeadlockAbort(t) PROVE Safe'
  BY <1>5, FailSafe DEF DeadlockAbort
<1>6. CASE UNCHANGED vars
  BY <1>6, StutterSafe
<1> QED BY <1>1, <1>2, <1>3, <1>4, <1>5, <1>6 DEF Next

\* The inductive invariant holds of every behaviour.
THEOREM SafeIsInvariant == Spec => []Safe
<1>1. Init => Safe
  BY InitSafe
<1>2. Safe /\ [Next]_vars => Safe'
  BY NextSafe
<1> QED BY <1>1, <1>2, PTL DEF Spec

\* The types of the rows, the counts and the transactions.
THEOREM TypeIsInvariant == Spec => []TypeOK
<1>1. Safe => TypeOK
  BY DEF Safe, Typed
<1> QED BY <1>1, SafeIsInvariant, PTL

\* Signals, retries, timers, deliveries and the sweep of a join move an instance on once,
\* with or without the unique index, unless on_notification_delivered went on although its
\* UPDATE found the activity no longer active.
THEOREM InstanceAdvancesOnce == Spec => []AdvancesOnce
<1>1. Safe => AdvancesOnce
  BY DEF Safe
<1> QED BY <1>1, SafeIsInvariant, PTL

\* Under the unique index on (instance, seq), branches that arrive at a join at the same time
\* do not each miss the other.
THEOREM NoJoinIsMissed == Spec => []JoinNotMissed
<1>1. Safe => JoinNotMissed
  BY DEF Safe, JoinFired, JoinNotMissed
<1> QED BY <1>1, SafeIsInvariant, PTL

\* A request that is sent again, even while the first is at work, is in the log once: the
\* key is looked up and inserted under the lock of the instance.
THEOREM RequestLoggedOnce == Spec => []KeyLoggedOnce
<1>1. Safe => KeyLoggedOnce
  BY DEF Safe
<1> QED BY <1>1, SafeIsInvariant, PTL

=============================================================================

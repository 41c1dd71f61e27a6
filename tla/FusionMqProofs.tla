--------------------------- MODULE FusionMqProofs ---------------------------
(***************************************************************************)
(* Proofs about FusionMq, for any set of workers, events and budgets and   *)
(* any bound on batches, faults and stalls.                                *)
(***************************************************************************)
EXTENDS FusionMq, TLAPS

\* The row of an event that was not published yet.
Fresh ==
  \A e \in Event : status[e] = "absent" =>
    /\ retries[e] = 0 /\ attempts[e] = 0
    /\ \A w \in Worker : e \notin claims[w]

\* A claim is a retry, a reap, or the one that is not answered yet.
AttemptsCounted ==
  \A e \in Event :
    attempts[e] <= retries[e] + reaps[e] + (IF status[e] \in {"processing", "completed"} THEN 1 ELSE 0)

\* Locks are exclusive, and what is handled in time is processing.
Exclusive ==
  /\ \A v, w \in Worker : v # w => locked[v] \cap locked[w] = {}
  /\ \A w \in Worker : \A e \in claims[w] : e \in contested \/ status[e] = "processing"

Safe ==
  /\ TypeOK
  /\ Fresh
  /\ AttemptsCounted
  /\ AttemptsWithinBudget
  /\ OpenHasBudget
  /\ Exclusive
  /\ SharedOnlyIfContested

\* The empty table satisfies the inductive invariant.
LEMMA InitSafe == Init => Safe
BY DEF Init, Safe, TypeOK, Status, Fresh, AttemptsCounted, AttemptsWithinBudget, OpenHasBudget,
       Exclusive, SharedOnlyIfContested

\* A step that changes nothing keeps it.
LEMMA StutterSafe == Safe /\ UNCHANGED vars => Safe'
BY DEF vars, columns, history, bounds, Safe, TypeOK, Fresh, AttemptsCounted, AttemptsWithinBudget,
       OpenHasBudget, Exclusive, SharedOnlyIfContested

\* A published event starts with its whole budget.
LEMMA PublishSafe == ASSUME Safe, NEW e \in Event, NEW m \in Budget, Publish(e, m) PROVE Safe'
<1>1. TypeOK'
  BY MqAssumption DEF MqAssumption, Safe, TypeOK, Status, Publish, history, bounds
<1>2. Fresh' /\ Exclusive' /\ SharedOnlyIfContested'
  BY DEF Safe, TypeOK, Fresh, Exclusive, SharedOnlyIfContested, Publish, history
<1>3. AttemptsCounted' /\ AttemptsWithinBudget' /\ OpenHasBudget'
  BY MqAssumption
  DEF MqAssumption, Safe, TypeOK, Fresh, AttemptsCounted, AttemptsWithinBudget, OpenHasBudget, Publish, history
<1> QED BY <1>1, <1>2, <1>3 DEF Safe

\* A claim locks rows that are pending and that no other claim has locked.
LEMMA ClaimSelectSafe ==
  ASSUME Safe, NEW w \in Worker, NEW S \in SUBSET Event, ClaimSelect(w, S) PROVE Safe'
<1> USE DEF ClaimSelect, columns, history, bounds
<1>1. S \subseteq Free
  BY DEF Oldest
<1>2. TypeOK'
  BY <1>1 DEF Safe, TypeOK, Free, Claimable
<1>3. Fresh' /\ AttemptsCounted' /\ AttemptsWithinBudget' /\ OpenHasBudget'
  BY DEF Safe, TypeOK, Fresh, AttemptsCounted, AttemptsWithinBudget, OpenHasBudget
<1>4. Exclusive'
  BY <1>1 DEF Safe, TypeOK, Exclusive, Free, Locked
<1>5. SharedOnlyIfContested'
  BY <1>1 DEF Safe, TypeOK, Exclusive, SharedOnlyIfContested, Free, Claimable
<1> QED BY <1>2, <1>3, <1>4, <1>5 DEF Safe

\* The UPDATE of a claim, whether the worker learns of it or not.
LEMMA ClaimedSafe ==
  ASSUME Safe, NEW w \in Worker, Claimed(w),
         claims' = claims \/ claims' = [claims EXCEPT ![w] = locked[w]],
         faults' \in Nat, stalls' = stalls
  PROVE  Safe'
<1> USE DEF Claimed
<1>1. \A e \in locked[w] : status[e] = "pending" /\ e \in Event
  BY DEF Safe, TypeOK
<1>2. \A v \in Worker : v # w => locked'[v] = locked[v] /\ locked[v] \cap locked[w] = {}
  BY DEF Safe, TypeOK, Exclusive
<1>3. locked'[w] = {}
  BY DEF Safe, TypeOK
<1>4. \A v \in Worker : claims'[v] = claims[v] \/ (v = w /\ claims'[v] = locked[w])
  BY DEF Safe, TypeOK
<1>5. TypeOK'
  <2>1. \A v \in Worker : \A e \in locked'[v] : status'[e] = "pending"
    BY <1>2, <1>3 DEF Safe, TypeOK
  <2>2. status' \in [Event -> Status] /\ attempts' \in [Event -> Nat]
    BY DEF Safe, TypeOK, Status
  <2>3. locked' \in [Worker -> SUBSET Event] /\ claims' \in [Worker -> SUBSET Event]
    BY DEF Safe, TypeOK
  <2> QED BY <2>1, <2>2, <2>3 DEF Safe, TypeOK
<1>6. Fresh'
  BY <1>1, <1>4 DEF Safe, TypeOK, Fresh
<1>7. AttemptsCounted' /\ OpenHasBudget'
  BY <1>1 DEF Safe, TypeOK, AttemptsCounted, OpenHasBudget
<1>8. AttemptsWithinBudget'
  BY <1>1 DEF Safe, TypeOK, AttemptsCounted, AttemptsWithinBudget, OpenHasBudget
<1>9. Exclusive'
  BY <1>1, <1>2, <1>3, <1>4 DEF Safe, TypeOK, Exclusive
<1>10. SharedOnlyIfContested'
  BY <1>1, <1>2, <1>3, <1>4 DEF Safe, TypeOK, Exclusive, SharedOnlyIfContested
<1> QED BY <1>5, <1>6, <1>7, <1>8, <1>9, <1>10 DEF Safe

\* A claim that is rolled back only gives its locks up.
LEMMA ClaimLostSafe == ASSUME Safe, NEW w \in Worker, ClaimLost(w) PROVE Safe'
<1>1. CASE Claimed(w)
  BY <1>1, ClaimedSafe DEF ClaimLost, Safe, TypeOK
<1>2. CASE locked' = [locked EXCEPT ![w] = {}] /\ UNCHANGED <<columns, history>>
  BY <1>2
  DEF ClaimLost, columns, history, Safe, TypeOK, Fresh, AttemptsCounted, AttemptsWithinBudget,
      OpenHasBudget, Exclusive, SharedOnlyIfContested
<1> QED BY <1>1, <1>2 DEF ClaimLost

\* A mark of a worker in time finds its row processing.
LEMMA MarkProcessedSafe ==
  ASSUME Safe, NEW w \in Worker, NEW e \in Event, MarkProcessed(w, e) PROVE Safe'
<1> USE DEF MarkProcessed, Answered, bounds
<1>1. TypeOK'
  BY DEF Safe, TypeOK, Status, Locked
<1>2. Fresh' /\ AttemptsCounted' /\ AttemptsWithinBudget' /\ OpenHasBudget'
  BY DEF Safe, TypeOK, Fresh, AttemptsCounted, AttemptsWithinBudget, OpenHasBudget
<1>3. Exclusive'
  BY DEF Safe, TypeOK, Exclusive, SharedOnlyIfContested
<1>4. SharedOnlyIfContested'
  BY DEF Safe, TypeOK, SharedOnlyIfContested
<1> QED BY <1>1, <1>2, <1>3, <1>4 DEF Safe

\* A failed event is open again only with retries left.
LEMMA MarkFailedSafe ==
  ASSUME Safe, NEW w \in Worker, NEW e \in Event, NEW d \in {"retry", "dead"}, MarkFailed(w, e, d)
  PROVE  Safe'
<1> USE DEF MarkFailed, Answered, NextStatus, bounds
<1>1. TypeOK'
  BY DEF Safe, TypeOK, Status, Locked
<1>2. Fresh' /\ AttemptsCounted' /\ AttemptsWithinBudget' /\ OpenHasBudget'
  BY DEF Safe, TypeOK, Fresh, AttemptsCounted, AttemptsWithinBudget, OpenHasBudget
<1>3. Exclusive'
  BY DEF Safe, TypeOK, Exclusive, SharedOnlyIfContested
<1>4. SharedOnlyIfContested'
  BY DEF Safe, TypeOK, SharedOnlyIfContested
<1> QED BY <1>1, <1>2, <1>3, <1>4 DEF Safe

\* A worker that dies leaves its events to reap_zombie.
LEMMA AbandonSafe == ASSUME Safe, NEW w \in Worker, Abandon(w) PROVE Safe'
BY DEF Abandon, columns, Safe, TypeOK, Fresh, AttemptsCounted, AttemptsWithinBudget, OpenHasBudget,
       Exclusive, SharedOnlyIfContested

\* A processing row has retries left: reap_zombie gives it back.
LEMMA ReapSafe == ASSUME Safe, NEW e \in Event, Reap(e), stalls' \in Nat PROVE Safe'
<1> USE DEF Reap, Reaped
<1>1. TypeOK'
  BY DEF Safe, TypeOK, Status
<1>2. Fresh' /\ AttemptsCounted' /\ AttemptsWithinBudget' /\ OpenHasBudget'
  BY DEF Safe, TypeOK, Fresh, AttemptsCounted, AttemptsWithinBudget, OpenHasBudget
<1>3. Exclusive' /\ SharedOnlyIfContested'
  BY DEF Safe, TypeOK, Exclusive, SharedOnlyIfContested, Handlers
<1> QED BY <1>1, <1>2, <1>3 DEF Safe

\* Every step keeps the inductive invariant.
LEMMA NextSafe == Safe /\ [Next]_vars => Safe'
<1> SUFFICES ASSUME Safe, [Next]_vars PROVE Safe'
  OBVIOUS
<1>1. ASSUME NEW e \in Event, NEW m \in Budget, Publish(e, m) PROVE Safe'
  BY <1>1, PublishSafe
<1>2. ASSUME NEW e \in Event, ReapAbandoned(e) \/ ReapHandled(e) PROVE Safe'
  BY <1>2, ReapSafe DEF ReapAbandoned, ReapHandled, Safe, TypeOK
<1>3. ASSUME NEW w \in Worker, NEW S \in SUBSET Event, ClaimSelect(w, S) PROVE Safe'
  BY <1>3, ClaimSelectSafe
<1>4. ASSUME NEW w \in Worker, ClaimCommit(w) PROVE Safe'
  BY <1>4, ClaimedSafe DEF ClaimCommit, bounds, Safe, TypeOK
<1>5. ASSUME NEW w \in Worker, ClaimLost(w) \/ Abandon(w) PROVE Safe'
  BY <1>5, ClaimLostSafe, AbandonSafe
<1>6. ASSUME NEW w \in Worker, NEW e \in Event, Answer(w, e) PROVE Safe'
  BY <1>6, MarkProcessedSafe, MarkFailedSafe DEF Answer
<1>7. CASE UNCHANGED vars
  BY <1>7, StutterSafe
<1> QED BY <1>1, <1>2, <1>3, <1>4, <1>5, <1>6, <1>7 DEF Next

\* The columns of a row have their types, and only pending rows are locked by a claim.
THEOREM MqTypes == Spec => []TypeOK
<1>1. Safe => TypeOK
  BY DEF Safe
<1> QED BY InitSafe, NextSafe, <1>1, PTL DEF Spec

\* The budget of claims: no sequence of retries, reaps and marks of reaped workers hands an
\* event out more than max_retries times plus once per reap.
THEOREM Attempts == Spec => []AttemptsWithinBudget
<1>1. Safe => AttemptsWithinBudget
  BY DEF Safe
<1> QED BY InitSafe, NextSafe, <1>1, PTL DEF Spec

\* Every open row can be claimed, now or after its lease is reaped.
THEOREM Claimability == Spec => []OpenHasBudget
<1>1. Safe => OpenHasBudget
  BY DEF Safe
<1> QED BY InitSafe, NextSafe, <1>1, PTL DEF Spec

\* SKIP LOCKED and the status keep an event with one worker until it is reaped from it.
THEOREM Exclusion == Spec => []SharedOnlyIfContested
<1>1. Safe => SharedOnlyIfContested
  BY DEF Safe
<1> QED BY InitSafe, NextSafe, <1>1, PTL DEF Spec

\* Only the mark of a worker whose claim was reaped can undo a settlement.
THEOREM Settlement == Spec => SettledUnlessContested
<1>1. ASSUME Safe, [Next]_vars
      PROVE  [\A e \in Event : Settled(e) /\ status'[e] # status[e] => e \in contested]_vars
  <2> SUFFICES ASSUME NEW e \in Event, Settled(e), status'[e] # status[e] PROVE e \in contested
    BY <1>1
  <2>1. ASSUME NEW d \in Event, NEW m \in Budget, Publish(d, m) PROVE FALSE
    BY <1>1, <2>1 DEF Publish, Settled, Safe, TypeOK
  <2>2. ASSUME NEW d \in Event, Reap(d) PROVE FALSE
    BY <1>1, <2>2 DEF Reap, Settled, Safe, TypeOK
  <2>3. ASSUME NEW w \in Worker, Claimed(w) PROVE FALSE
    <3>1. e \notin locked[w]
      BY <1>1 DEF Settled, Safe, TypeOK
    <3>2. status'[e] = IF e \in locked[w] THEN "processing" ELSE status[e]
      BY <2>3 DEF Claimed
    <3> QED BY <3>1, <3>2
  <2>4. ASSUME NEW w \in Worker, NEW d \in Event, Answer(w, d) PROVE e \in contested
    BY <1>1, <2>4 DEF Answer, MarkProcessed, MarkFailed, Settled, Safe, TypeOK, Exclusive
  <2> QED
    BY <1>1, <2>1, <2>2, <2>3, <2>4
    DEF Next, ReapAbandoned, ReapHandled, ClaimSelect, ClaimCommit, ClaimLost, Abandon, vars, columns
<1> QED BY InitSafe, NextSafe, <1>1, PTL DEF Spec, SettledUnlessContested

=============================================================================

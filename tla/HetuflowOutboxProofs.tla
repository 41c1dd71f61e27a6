------------------------ MODULE HetuflowOutboxProofs ------------------------
(***************************************************************************)
(* Proofs about the two tables that keep hetuflow's promises to others:    *)
(* HetuflowOutbox, for any set of workers and rows, any batch, attempt and *)
(* fault bound, provided that no two processes share a worker_id; and      *)
(* HetuflowStart, for any callers, keys and rows.                          *)
(***************************************************************************)
EXTENDS HetuflowOutbox, HetuflowStart, TLAPS

----------------------------------------------------------------------------
(* HetuflowOutbox.                                                         *)

\* The empty table satisfies the inductive invariant.
LEMMA InitSafe == Init => Safe
BY OutboxAssumption
DEF OutboxAssumption, Init, Safe, TypeOK, LeaseInv, SeenIsCurrent, SettledForCause, FollowedOnce,
    WithinBudget, InHand, Owns, Settled, Status, Verdict

\* A step that changes nothing keeps it.
LEMMA StutterSafe == Safe /\ UNCHANGED vars => Safe'
BY DEF vars, rows, locals, Safe, TypeOK, LeaseInv, SeenIsCurrent, SettledForCause, FollowedOnce,
       WithinBudget, InHand, Owns, Settled

----------------------------------------------------------------------------
(* The table and the clock: Enqueue, Expire, BecomeDue.                    *)

\* A row written by a workflow transaction has all its attempts left.
LEMMA EnqueueSafe == ASSUME Safe, NEW r \in Record, Enqueue(r) PROVE Safe'
<1>1. TypeOK'
  BY DEF Safe, TypeOK, Enqueue, locals, Status
<1>2. LeaseInv'
  BY OutboxAssumption DEF OutboxAssumption, Safe, TypeOK, Enqueue, locals, LeaseInv, InHand, Settled
<1>3. SeenIsCurrent'
  BY DEF Safe, TypeOK, Enqueue, locals, SeenIsCurrent, InHand, Owns
<1>4. SettledForCause' /\ FollowedOnce' /\ WithinBudget'
  BY DEF Safe, TypeOK, Enqueue, locals, SettledForCause, FollowedOnce, WithinBudget, Settled
<1> QED BY <1>1, <1>2, <1>3, <1>4 DEF Safe

\* A lease that runs out keeps its owner until another poll takes the row.
LEMMA ExpireSafe == ASSUME Safe, NEW r \in Record, Expire(r) PROVE Safe'
<1>1. TypeOK'
  BY OutboxAssumption DEF OutboxAssumption, Safe, TypeOK, Expire, locals, Fault
<1>2. LeaseInv' /\ SeenIsCurrent'
  BY DEF Safe, TypeOK, Expire, locals, LeaseInv, SeenIsCurrent, InHand, Owns, Settled
<1>3. SettledForCause' /\ FollowedOnce' /\ WithinBudget'
  BY DEF Safe, Expire, locals, SettledForCause, FollowedOnce, WithinBudget, Settled
<1> QED BY <1>1, <1>2, <1>3 DEF Safe

\* The end of a backoff changes nothing that the invariant reads.
LEMMA BecomeDueSafe == ASSUME Safe, NEW r \in Record, BecomeDue(r) PROVE Safe'
<1>1. TypeOK'
  BY DEF Safe, TypeOK, BecomeDue, locals
<1>2. LeaseInv' /\ SeenIsCurrent'
  BY DEF Safe, TypeOK, BecomeDue, locals, LeaseInv, SeenIsCurrent, InHand, Owns, Settled
<1>3. SettledForCause' /\ FollowedOnce' /\ WithinBudget'
  BY DEF Safe, BecomeDue, locals, SettledForCause, FollowedOnce, WithinBudget, Settled
<1> QED BY <1>1, <1>2, <1>3 DEF Safe

----------------------------------------------------------------------------
(* A pass.                                                                 *)

\* Taking a lease over leaves no other worker the owner of what it has in hand:
\* the ids are distinct.
LEMMA PollSafe ==
  ASSUME DistinctIds, Safe, NEW w \in Worker, NEW S \in SUBSET Record, Poll(w, S)
  PROVE  Safe'
<1>1. TypeOK'
  BY OutboxAssumption DEF OutboxAssumption, Safe, TypeOK, Poll, Status
<1>2. LeaseInv'
  <2>1. \A r \in Record : status'[r] = "leased" => holder'[r] \in Worker /\ owner'[r] = IdOf[holder'[r]]
    BY DEF Safe, TypeOK, LeaseInv, Poll
  <2>2. \A r \in Record : (~ Settled(r))' => attempts'[r] < MaxAttempts
    BY DEF Safe, TypeOK, LeaseInv, Poll, Leasable, Settled
  <2>3. \A v \in Worker, r \in Record : InHand(v, r)' => status'[r] # "absent"
    BY OutboxAssumption DEF OutboxAssumption, Safe, TypeOK, LeaseInv, Poll, Idle, InHand
  <2>4. \A v \in Worker : current'[v] # NoRecord => verdict'[v] \in told'[current'[v]]
    BY DEF Safe, LeaseInv, Poll
  <2> QED BY <2>1, <2>2, <2>3, <2>4 DEF LeaseInv
<1>3. SeenIsCurrent'
  <2> SUFFICES ASSUME NEW v \in Worker, NEW r \in Record, InHand(v, r)', Owns(v, r)'
               PROVE  seen'[v][r] = attempts'[r]
    BY DEF SeenIsCurrent
  <2>1. CASE v = w
    BY <2>1 DEF Safe, TypeOK, Poll
  <2>2. CASE v # w
    <3>1. r \notin S
      BY <2>2 DEF Safe, TypeOK, Poll, Owns, DistinctIds
    <3>2. InHand(v, r) /\ Owns(v, r)
      BY <2>2, <3>1 DEF Safe, TypeOK, Poll, InHand, Owns
    <3> QED BY <2>2, <3>2 DEF Safe, TypeOK, SeenIsCurrent, Poll
  <2> QED BY <2>1, <2>2
<1>4. SettledForCause' /\ FollowedOnce' /\ WithinBudget'
  BY DEF Safe, TypeOK, Poll, Leasable, SettledForCause, FollowedOnce, WithinBudget, Settled
<1> QED BY <1>1, <1>2, <1>3, <1>4 DEF Safe

\* deliver moves a row from the batch to the row in hand and notes the answer.
LEMMA DeliverSafe ==
  ASSUME Safe, NEW w \in Worker, NEW r \in Record, NEW v \in Verdict, Deliver(w, r, v)
  PROVE  Safe'
<1>1. TypeOK'
  BY DEF Safe, TypeOK, Deliver, rows
<1>2. LeaseInv'
  <2>1. \A s \in Record : told[s] \subseteq told'[s]
    BY DEF Safe, TypeOK, Deliver
  <2>2. \A u \in Worker, s \in Record : InHand(u, s)' => InHand(u, s)
    BY DEF Safe, TypeOK, Deliver, InHand
  <2>3. \A u \in Worker : current'[u] # NoRecord => verdict'[u] \in told'[current'[u]]
    <3> SUFFICES ASSUME NEW u \in Worker, current'[u] # NoRecord
                 PROVE  verdict'[u] \in told'[current'[u]]
      OBVIOUS
    <3>1. CASE u = w
      BY <3>1 DEF Safe, TypeOK, Deliver
    <3>2. CASE u # w
      BY <2>1, <3>2 DEF Safe, TypeOK, LeaseInv, Deliver
    <3> QED BY <3>1, <3>2
  <2> QED BY <2>2, <2>3 DEF Safe, LeaseInv, Deliver, rows, Settled
<1>3. SeenIsCurrent'
  BY DEF Safe, TypeOK, Deliver, rows, SeenIsCurrent, InHand, Owns
<1>4. SettledForCause' /\ FollowedOnce' /\ WithinBudget'
  BY DEF Safe, TypeOK, Deliver, rows, SettledForCause, FollowedOnce, WithinBudget, Settled
<1> QED BY <1>1, <1>2, <1>3, <1>4 DEF Safe

\* A crash or a rolled back settle forgets the pass and leaves the rows as they are.
LEMMA EndPassSafe == ASSUME Safe, NEW w \in Worker, Fault, EndPass(w) PROVE Safe'
<1>1. TypeOK'
  BY OutboxAssumption DEF OutboxAssumption, Safe, TypeOK, EndPass, Fault, rows
<1>2. LeaseInv' /\ SeenIsCurrent'
  BY OutboxAssumption
  DEF OutboxAssumption, Safe, TypeOK, EndPass, rows, LeaseInv, SeenIsCurrent, InHand, Owns, Settled
<1>3. SettledForCause' /\ FollowedOnce' /\ WithinBudget'
  BY DEF Safe, EndPass, rows, SettledForCause, FollowedOnce, WithinBudget, Settled
<1> QED BY <1>1, <1>2, <1>3 DEF Safe

\* A settle on a row that is no longer owned changes only what the worker holds.
LEMMA LostLeaseSafe ==
  ASSUME Safe, NEW w \in Worker, Settle(w), UNCHANGED <<rows, followed>>
  PROVE  Safe'
<1>1. TypeOK'
  BY OutboxAssumption DEF OutboxAssumption, Safe, TypeOK, Settle, rows
<1>2. LeaseInv' /\ SeenIsCurrent'
  BY OutboxAssumption
  DEF OutboxAssumption, Safe, TypeOK, Settle, rows, LeaseInv, SeenIsCurrent, InHand, Owns, Settled
<1>3. SettledForCause' /\ FollowedOnce' /\ WithinBudget'
  BY DEF Safe, Settle, rows, SettledForCause, FollowedOnce, WithinBudget, Settled
<1> QED BY <1>1, <1>2, <1>3 DEF Safe

\* A settle on an owned row: the count it judges by is the row's own.
LEMMA OwnedSettleSafe ==
  ASSUME Safe, NEW w \in Worker, Settle(w), Owns(w, current[w])
  PROVE  Safe'
<1> DEFINE r == current[w]
<1>1. /\ r \in Record /\ status[r] = "leased" /\ attempts[r] \in Nat
      /\ seen[w][r] = attempts[r] /\ attempts[r] < MaxAttempts /\ verdict[w] \in told[r]
  BY DEF Safe, TypeOK, LeaseInv, SeenIsCurrent, Settle, Owns, InHand, Settled
<1>2. /\ current' = [current EXCEPT ![w] = NoRecord]
      /\ SettleRow(w, r)
      /\ followed' = IF FollowsUp(w, r) THEN [followed EXCEPT ![r] = @ + 1] ELSE followed
      /\ UNCHANGED <<batch, seen, verdict, faults, holder, told>>
  BY DEF Settle
<1>3. /\ owner' = [owner EXCEPT ![r] = NoId]
      /\ expired' = expired \ {r}
  BY <1>2 DEF SettleRow, MarkSucceeded, MarkRetry, MarkDeadLetter, Release
<1>4. \/ /\ verdict[w] = "ok"
         /\ status' = [status EXCEPT ![r] = "succeeded"]
         /\ attempts' = attempts /\ due' = due
         /\ followed' = [followed EXCEPT ![r] = @ + 1]
      \/ /\ verdict[w] = "deterministic" \/ attempts[r] + 1 = MaxAttempts
         /\ status' = [status EXCEPT ![r] = "dead"]
         /\ attempts' = [attempts EXCEPT ![r] = @ + 1] /\ due' = due
         /\ followed' = [followed EXCEPT ![r] = @ + 1]
      \/ /\ attempts[r] + 1 < MaxAttempts
         /\ status' = [status EXCEPT ![r] = "pending"]
         /\ attempts' = [attempts EXCEPT ![r] = @ + 1] /\ due' = due \ {r}
         /\ followed' = followed
  BY <1>1, <1>2, OutboxAssumption
  DEF OutboxAssumption, SettleRow, FollowsUp, GivesUp, Exhausted, MarkSucceeded, MarkRetry,
      MarkDeadLetter, Release
<1> HIDE DEF r
<1>5. TypeOK'
  <2>1. status' \in [Record -> Status]
    BY <1>4 DEF Safe, TypeOK, Status
  <2>2. owner' \in [Record -> Id \cup {NoId}]
    BY <1>3 DEF Safe, TypeOK
  <2>3. attempts' \in [Record -> Nat] /\ followed' \in [Record -> Nat]
    BY <1>4 DEF Safe, TypeOK
  <2>4. due' \subseteq Record /\ expired' \subseteq Record
    BY <1>3, <1>4 DEF Safe, TypeOK
  <2>5. current' \in [Worker -> Record \cup {NoRecord}]
    BY <1>2 DEF Safe, TypeOK
  <2> QED BY <1>2, <2>1, <2>2, <2>3, <2>4, <2>5 DEF Safe, TypeOK
<1>6. \A s \in Record : s # r =>
        status'[s] = status[s] /\ attempts'[s] = attempts[s] /\ followed'[s] = followed[s] /\ owner'[s] = owner[s]
  BY <1>1, <1>3, <1>4 DEF Safe, TypeOK
<1>7. status'[r] # "leased" /\ status'[r] # "absent" /\ attempts'[r] <= MaxAttempts
  BY <1>1, <1>4, OutboxAssumption DEF OutboxAssumption, Safe, TypeOK
<1>8. \A v \in Worker, s \in Record : InHand(v, s)' => InHand(v, s)
  BY <1>2, OutboxAssumption DEF OutboxAssumption, Safe, TypeOK, InHand
<1>9. LeaseInv'
  <2>1. \A s \in Record : status'[s] = "leased" => holder'[s] \in Worker /\ owner'[s] = IdOf[holder'[s]]
    BY <1>2, <1>6, <1>7 DEF Safe, LeaseInv
  <2>2. \A s \in Record : (~ Settled(s))' => attempts'[s] < MaxAttempts
    <3> SUFFICES ASSUME NEW s \in Record, (~ Settled(s))' PROVE attempts'[s] < MaxAttempts
      OBVIOUS
    <3>1. CASE s # r
      BY <1>6, <3>1 DEF Safe, LeaseInv, Settled
    <3>2. CASE s = r
      BY <1>1, <1>4, <3>2, OutboxAssumption DEF OutboxAssumption, Safe, TypeOK, Settled
    <3> QED BY <3>1, <3>2
  <2>3. \A v \in Worker, s \in Record : InHand(v, s)' => status'[s] # "absent"
    BY <1>6, <1>7, <1>8 DEF Safe, LeaseInv
  <2>4. \A v \in Worker : current'[v] # NoRecord => verdict'[v] \in told'[current'[v]]
    BY <1>2 DEF Safe, TypeOK, LeaseInv
  <2> QED BY <2>1, <2>2, <2>3, <2>4 DEF LeaseInv
<1>10. SeenIsCurrent'
  BY <1>2, <1>6, <1>7, <1>8 DEF Safe, SeenIsCurrent, Owns
<1>11. SettledForCause'
  <2> SUFFICES ASSUME NEW s \in Record
               PROVE  /\ status'[s] = "succeeded" => "ok" \in told'[s]
                      /\ status'[s] = "dead" => "deterministic" \in told'[s] \/ attempts'[s] = MaxAttempts
    BY DEF SettledForCause
  <2>1. CASE s # r
    BY <1>2, <1>6, <2>1 DEF Safe, SettledForCause
  <2>2. CASE s = r
    BY <1>1, <1>2, <1>4, <2>2 DEF Safe, TypeOK
  <2> QED BY <2>1, <2>2
<1>12. FollowedOnce'
  <2> SUFFICES ASSUME NEW s \in Record PROVE followed'[s] = IF Settled(s)' THEN 1 ELSE 0
    BY DEF FollowedOnce
  <2>1. CASE s # r
    BY <1>6, <2>1 DEF Safe, FollowedOnce, Settled
  <2>2. CASE s = r
    BY <1>1, <1>4, <2>2 DEF Safe, TypeOK, FollowedOnce, Settled
  <2> QED BY <2>1, <2>2
<1>13. WithinBudget'
  BY <1>6, <1>7 DEF Safe, WithinBudget
<1> QED BY <1>5, <1>9, <1>10, <1>11, <1>12, <1>13 DEF Safe

\* settle_success and settle_failure, whether the row is still owned or not.
LEMMA SettleSafe == ASSUME Safe, NEW w \in Worker, Settle(w) PROVE Safe'
<1>1. CASE Owns(w, current[w])
  BY <1>1, OwnedSettleSafe
<1>2. CASE ~ Owns(w, current[w])
  BY <1>2, LostLeaseSafe DEF Settle
<1> QED BY <1>1, <1>2

----------------------------------------------------------------------------
(* Theorems.                                                               *)

\* Every step of the dispatchers, the table and the clock keeps the invariant.
LEMMA NextSafe == DistinctIds /\ Safe /\ [Next]_vars => Safe'
<1> SUFFICES ASSUME DistinctIds, Safe, [Next]_vars PROVE Safe'
  OBVIOUS
<1>1. ASSUME NEW r \in Record, Enqueue(r) \/ Expire(r) \/ BecomeDue(r) PROVE Safe'
  BY <1>1, EnqueueSafe, ExpireSafe, BecomeDueSafe
<1>2. ASSUME NEW w \in Worker, NEW S \in SUBSET Record, Poll(w, S) PROVE Safe'
  BY <1>2, PollSafe
<1>3. ASSUME NEW w \in Worker, NEW r \in Record, NEW v \in Verdict, Deliver(w, r, v) PROVE Safe'
  BY <1>3, DeliverSafe
<1>4. ASSUME NEW w \in Worker, Settle(w) PROVE Safe'
  BY <1>4, SettleSafe
<1>5. ASSUME NEW w \in Worker, SettleRolledBack(w) \/ Crash(w) PROVE Safe'
  BY <1>5, EndPassSafe DEF SettleRolledBack, Crash
<1>6. CASE UNCHANGED vars
  BY <1>6, StutterSafe
<1> QED BY <1>1, <1>2, <1>3, <1>4, <1>5, <1>6 DEF Next

\* The inductive invariant holds of every behaviour: types, leases, and that an
\* owner knows the attempt_count of the row it settles.
THEOREM Safety == DistinctIds => (Spec => []Safe)
<1> SUFFICES ASSUME DistinctIds PROVE Spec => []Safe
  OBVIOUS
<1>1. Init => Safe
  BY InitSafe
<1>2. Safe /\ [Next]_vars => Safe'
  BY NextSafe
<1> QED BY <1>1, <1>2, PTL DEF Spec

\* Every property that the runs check as an invariant.
COROLLARY OutboxInvariants ==
  DistinctIds =>
    (Spec => []TypeOK /\ []SettledForCause /\ []FollowedOnce /\ []WithinBudget /\ []SeenIsCurrent)
<1>1. Safe => TypeOK /\ SettledForCause /\ FollowedOnce /\ WithinBudget /\ SeenIsCurrent
  BY DEF Safe
<1> QED BY <1>1, Safety, PTL

\* mark_outbox_failed counts every failure against max_attempts: whichever owner settles a
\* row, after whatever takeovers and retries, the column never passes the budget.
THEOREM AttemptsBounded == DistinctIds => (Spec => []WithinBudget)
BY OutboxInvariants, PTL

\* A worker whose lease was taken over settles nothing: the step that ends a lease is
\* its holder's.
LEMMA HolderStep ==
  ASSUME DistinctIds, Safe, [Next]_vars, NEW r \in Record, status[r] = "leased", status'[r] # "leased"
  PROVE  current[holder[r]] = r
<1>1. PICK w \in Worker : Settle(w) /\ Owns(w, current[w]) /\ current[w] = r
  <2>1. ~ UNCHANGED vars
    BY DEF vars, rows
  <2>2. ASSUME NEW s \in Record, Enqueue(s) \/ Expire(s) \/ BecomeDue(s) PROVE FALSE
    BY <2>2 DEF Safe, TypeOK, Enqueue, Expire, BecomeDue
  <2>3. ASSUME NEW w \in Worker, NEW S \in SUBSET Record, Poll(w, S) PROVE FALSE
    BY <2>3 DEF Safe, TypeOK, Poll
  <2>4. ASSUME NEW w \in Worker, NEW s \in Record, NEW v \in Verdict, Deliver(w, s, v) PROVE FALSE
    BY <2>4 DEF Deliver, rows
  <2>5. ASSUME NEW w \in Worker, SettleRolledBack(w) \/ Crash(w) PROVE FALSE
    BY <2>5 DEF SettleRolledBack, Crash, EndPass, rows
  <2>6. PICK w \in Worker : Settle(w)
    BY <2>1, <2>2, <2>3, <2>4, <2>5 DEF Next
  <2>7. Owns(w, current[w]) /\ SettleRow(w, current[w])
    BY <2>6 DEF Settle, rows
  <2>8. current[w] = r
    BY <2>6, <2>7
    DEF Safe, TypeOK, Settle, SettleRow, MarkSucceeded, MarkRetry, MarkDeadLetter, Release
  <2> QED BY <2>6, <2>7, <2>8
<1>2. holder[r] = w
  BY <1>1 DEF Safe, LeaseInv, Owns, DistinctIds
<1> QED BY <1>1, <1>2

THEOREM HolderSettles == DistinctIds => (Spec => OnlyHolderSettles)
<1> SUFFICES ASSUME DistinctIds PROVE Spec => OnlyHolderSettles
  OBVIOUS
<1> DEFINE Step == \A r \in Record : status[r] = "leased" /\ status'[r] # "leased" => current[holder[r]] = r
<1>1. Safe /\ [Next]_vars => [Step]_vars
  BY HolderStep
<1> QED BY <1>1, Safety, PTL DEF Spec, OnlyHolderSettles

----------------------------------------------------------------------------
(* The outbox implements the ledger.                                       *)

\* Only an owned settle changes the ledger's view of a row after it was recorded.
LEMMA LedgerStep == ASSUME Safe, [Next]_vars PROVE [Ledger!Next]_(Ledger!vars)
<1> DEFINE intent(r)  == IF status[r] \in {"pending", "leased"} THEN "waiting" ELSE status[r]
           accepted   == {r \in Record : "ok" \in told[r]}
<1>1. ASSUME NEW r \in Record, Enqueue(r) PROVE Ledger!Note(r)
  BY <1>1 DEF Safe, TypeOK, Enqueue, Ledger!Note
<1>2. ASSUME NEW r \in Record, Expire(r) \/ BecomeDue(r) PROVE UNCHANGED Ledger!vars
  BY <1>2 DEF Expire, BecomeDue, Ledger!vars
<1>3. ASSUME NEW w \in Worker, NEW S \in SUBSET Record, Poll(w, S) PROVE UNCHANGED Ledger!vars
  <2>1. \A r \in Record : (intent(r))' = intent(r)
    BY <1>3 DEF Safe, TypeOK, Poll, Leasable
  <2>2. UNCHANGED told
    BY <1>3 DEF Poll
  <2> QED BY <2>1, <2>2 DEF Ledger!vars
<1>4. ASSUME NEW w \in Worker, NEW r \in Record, NEW v \in Verdict, Deliver(w, r, v)
      PROVE  Ledger!Accept(r) \/ UNCHANGED Ledger!vars
  <2>1. status[r] # "absent" /\ UNCHANGED status
    BY <1>4 DEF Safe, LeaseInv, Deliver, InHand, rows
  <2>2. CASE v = "ok"
    <3>1. accepted' = accepted \cup {r}
      BY <1>4, <2>2 DEF Safe, TypeOK, Deliver
    <3> QED BY <2>1, <3>1 DEF Ledger!Accept
  <2>3. CASE v # "ok"
    <3>1. accepted' = accepted
      BY <1>4, <2>3 DEF Safe, TypeOK, Deliver
    <3> QED BY <2>1, <3>1 DEF Ledger!vars
  <2> QED BY <2>2, <2>3
<1>5. ASSUME NEW w \in Worker, NEW r \in Record, Settle(w), current[w] = r
      PROVE  Ledger!Succeed(r) \/ Ledger!GiveUp(r) \/ UNCHANGED Ledger!vars
  <2>1. CASE ~ Owns(w, r)
    BY <1>5, <2>1 DEF Settle, rows, Ledger!vars
  <2>2. CASE Owns(w, r)
    <3>1. /\ r \in Record /\ status[r] = "leased" /\ UNCHANGED told
          /\ verdict[w] \in told[r]
      BY <1>5, <2>2 DEF Safe, TypeOK, LeaseInv, Settle, Owns
    <3>2. \/ verdict[w] = "ok" /\ status' = [status EXCEPT ![r] = "succeeded"]
          \/ status' = [status EXCEPT ![r] = "dead"]
          \/ status' = [status EXCEPT ![r] = "pending"]
      BY <1>5, <2>2 DEF Settle, SettleRow, MarkSucceeded, MarkRetry, MarkDeadLetter, Release
    <3>3. CASE verdict[w] = "ok" /\ status' = [status EXCEPT ![r] = "succeeded"]
      BY <3>1, <3>3 DEF Safe, TypeOK, Ledger!Succeed
    <3>4. CASE status' = [status EXCEPT ![r] = "dead"]
      BY <3>1, <3>4 DEF Safe, TypeOK, Ledger!GiveUp
    <3>5. CASE status' = [status EXCEPT ![r] = "pending"]
      <4>1. \A s \in Record : (intent(s))' = intent(s)
        BY <3>1, <3>5 DEF Safe, TypeOK
      <4> QED BY <3>1, <4>1 DEF Ledger!vars
    <3> QED BY <3>2, <3>3, <3>4, <3>5
  <2> QED BY <2>1, <2>2
<1>6. ASSUME NEW w \in Worker, SettleRolledBack(w) \/ Crash(w) PROVE UNCHANGED Ledger!vars
  BY <1>6 DEF SettleRolledBack, Crash, EndPass, rows, Ledger!vars
<1>7. CASE UNCHANGED vars
  BY <1>7 DEF vars, rows, Ledger!vars
<1>8. \A w \in Worker : Settle(w) => current[w] \in Record
  BY DEF Safe, TypeOK, Settle
<1> HIDE DEF intent, accepted
<1>9. \A r \in Record : Ledger!Note(r) \/ Ledger!Accept(r) \/ Ledger!Succeed(r) \/ Ledger!GiveUp(r)
                        => Ledger!Next
  BY DEF Ledger!Next
<1>10. ASSUME NEW w \in Worker, Settle(w) PROVE Ledger!Next \/ UNCHANGED Ledger!vars
  BY <1>5, <1>8, <1>9, <1>10
<1>11. ASSUME NEW w \in Worker, NEW r \in Record, NEW v \in Verdict, Deliver(w, r, v)
       PROVE  Ledger!Next \/ UNCHANGED Ledger!vars
  BY <1>4, <1>9, <1>11
<1>12. ASSUME NEW r \in Record, Enqueue(r) PROVE Ledger!Next
  BY <1>1, <1>9, <1>12
<1>13. Ledger!Next \/ UNCHANGED Ledger!vars
  BY <1>2, <1>3, <1>6, <1>7, <1>10, <1>11, <1>12 DEF Next
<1> QED BY <1>13

\* Each intent advances its workflow once, and with success only after an accepted
\* delivery, whatever the workers do.
THEOREM Implementation == DistinctIds => (Spec => KeepsPromise)
<1> SUFFICES ASSUME DistinctIds PROVE Spec => KeepsPromise
  OBVIOUS
<1>1. Init => Ledger!Init
  BY DEF Init, Ledger!Init
<1>2. Safe /\ [Next]_vars => [Ledger!Next]_(Ledger!vars)
  BY LedgerStep
<1> QED BY <1>1, <1>2, Safety, PTL DEF Spec, KeepsPromise, Ledger!Spec

----------------------------------------------------------------------------
(* HetuflowStart.                                                          *)

\* An insert finds the index free of its key, and no insert of the key in flight.
LEMMA InsertIndex ==
  ASSUME IndexInv, NEW c \in Caller, NEW i \in Instance, Insert(c, i)
  PROVE  IndexInv'
<1>1. StartTypeOK'
  BY StartAssumption DEF StartAssumption, IndexInv, StartTypeOK, Insert, SetStatus, Goto, State, Phase
<1>2. \A j \in Instance \ {i} : Entered(j)' => Entered(j) /\ key'[j] = key[j] /\ key[j] # KeyOf[c]
  BY DEF IndexInv, StartTypeOK, Insert, SetStatus, Entered, InFlight, Indexed
<1>3. key'[i] = KeyOf[c] /\ state'[i] = "inserting" /\ state[i] = "absent"
  BY DEF IndexInv, StartTypeOK, Insert, SetStatus
<1>4. \A h, j \in Instance : Entered(h)' /\ Entered(j)' /\ key'[h] = key'[j] => h = j
  BY <1>2, <1>3 DEF IndexInv
<1>5. \A d \in Caller : pc'[d] = "inserted" => at'[d] \in Instance /\ state'[at'[d]] = "inserting"
  BY <1>3 DEF IndexInv, StartTypeOK, Insert, SetStatus, Goto
<1>6. \A d, e \in Caller : pc'[d] = "inserted" /\ pc'[e] = "inserted" /\ at'[d] = at'[e] => d = e
  BY <1>3 DEF IndexInv, StartTypeOK, Insert, Goto
<1>7. \A d \in Caller : pc'[d] = "blocked" =>
       at'[d] \in Instance /\ state'[at'[d]] \notin {"absent", "inserting"} /\ key'[at'[d]] = KeyOf[d]
  BY <1>3 DEF IndexInv, StartTypeOK, Insert, SetStatus, Goto
<1> QED BY <1>1, <1>4, <1>5, <1>6, <1>7 DEF IndexInv

\* A blocked insert and the read after it leave the rows alone.
LEMMA AnswerIndex ==
  ASSUME IndexInv, NEW c \in Caller, ReadExisting(c) \/ \E i \in Instance : Blocked(c, i)
  PROVE  IndexInv'
<1> USE DEF IndexInv, StartTypeOK
<1>1. CASE ReadExisting(c)
  BY <1>1 DEF ReadExisting, Indexed, Goto, Entered, Phase
<1>2. ASSUME NEW i \in Instance, Blocked(c, i) PROVE IndexInv'
  BY <1>2 DEF Blocked, Indexed, Goto, Entered, Phase
<1> QED BY <1>1, <1>2

\* A commit keeps the row under the index; a rollback takes it out.
LEMMA EndIndex == ASSUME IndexInv, NEW c \in Caller, End(c) PROVE IndexInv'
<1>1. at[c] \in Instance /\ state[at[c]] = "inserting"
  BY DEF IndexInv, End
<1>2. StartTypeOK'
  BY <1>1 DEF IndexInv, StartTypeOK, End, SetStatus, Goto, State, Phase
<1>3. \A i \in Instance : Entered(i)' => Entered(i) /\ key'[i] = key[i]
  BY <1>1 DEF IndexInv, StartTypeOK, End, SetStatus, Entered
<1>4. \A d \in Caller : pc'[d] = "inserted" => d # c /\ pc[d] = "inserted" /\ at'[d] = at[d] /\ at[d] # at[c]
  BY DEF IndexInv, StartTypeOK, End, Goto
<1>5. \A d \in Caller : pc'[d] = "inserted" => at'[d] \in Instance /\ state'[at'[d]] = "inserting"
  BY <1>1, <1>4 DEF IndexInv, StartTypeOK, End, SetStatus
<1>6. \A d, e \in Caller : pc'[d] = "inserted" /\ pc'[e] = "inserted" /\ at'[d] = at'[e] => d = e
  BY <1>4 DEF IndexInv
<1>7. \A d \in Caller : pc'[d] = "blocked" =>
       at'[d] \in Instance /\ state'[at'[d]] \notin {"absent", "inserting"} /\ key'[at'[d]] = KeyOf[d]
  BY <1>1 DEF IndexInv, StartTypeOK, End, SetStatus, Goto
<1> QED BY <1>2, <1>3, <1>5, <1>6, <1>7 DEF IndexInv

\* A row that re-enters the index finds it free of its key.
LEMMA MoveIndex ==
  ASSUME IndexInv, NEW i \in Instance, NEW to \in State, Move(i, to)
  PROVE  IndexInv'
<1>1. to \in {"active", "returned_waiting", "returned", "closed"} /\ state[i] \notin {"absent", "inserting"}
  BY DEF Move, Moves
<1>2. StartTypeOK'
  BY StartAssumption DEF StartAssumption, IndexInv, StartTypeOK, Move, SetStatus
<1>3. \A j \in Instance \ {i} : Entered(j)' => Entered(j) /\ (to = "active" => key[j] # key[i])
  BY DEF IndexInv, StartTypeOK, Move, SetStatus, Entered, InFlight, Indexed
<1>4. Entered(i)' => to = "active"
  BY <1>1 DEF IndexInv, StartTypeOK, Move, SetStatus, Entered
<1>5. \A h, j \in Instance : Entered(h)' /\ Entered(j)' /\ key'[h] = key'[j] => h = j
  BY <1>3, <1>4 DEF IndexInv, Move
<1>6. \A d \in Caller : pc'[d] = "inserted" => at'[d] \in Instance /\ state'[at'[d]] = "inserting"
  BY <1>1 DEF IndexInv, StartTypeOK, Move, SetStatus
<1>7. \A d \in Caller : pc'[d] = "blocked" =>
       at'[d] \in Instance /\ state'[at'[d]] \notin {"absent", "inserting"} /\ key'[at'[d]] = KeyOf[d]
  BY <1>1 DEF IndexInv, StartTypeOK, Move, SetStatus
<1> QED BY <1>2, <1>5, <1>6, <1>7 DEF IndexInv, Move

\* Starts, commits, rollbacks, resumptions and resubmissions keep the index unique.
THEOREM IndexSafety == StartSpec => []IndexInv
<1>1. StartInit => IndexInv
  BY StartAssumption DEF StartAssumption, StartInit, IndexInv, StartTypeOK, Entered, State, Phase
<1>2. IndexInv /\ [StartNext]_startVars => IndexInv'
  <2> SUFFICES ASSUME IndexInv, [StartNext]_startVars PROVE IndexInv'
    OBVIOUS
  <2>1. CASE UNCHANGED startVars
    BY <2>1 DEF startVars, IndexInv, StartTypeOK, Entered
  <2>2. CASE StartNext
    BY <2>2, InsertIndex, AnswerIndex, EndIndex, MoveIndex DEF StartNext
  <2> QED BY <2>1, <2>2
<1> QED BY <1>1, <1>2, PTL DEF StartSpec

\* At most one active instance per business key.
COROLLARY OneActive == StartSpec => []OneActivePerKey
<1>1. IndexInv => OneActivePerKey
  BY DEF IndexInv, OneActivePerKey, Entered
<1> QED BY <1>1, IndexSafety, PTL

\* A start never answers with an instance that is not active or not of its key, and a
\* blocked start fails only after its blocker has left the index.
THEOREM AnswersAreHonest == StartSpec => HonestAnswer
<1> DEFINE Honest ==
      \A c \in Caller :
        /\ pc[c] # "existing" /\ pc'[c] = "existing" => key[at'[c]] = KeyOf[c] /\ state[at'[c]] = "active"
        /\ pc[c] = "blocked" /\ pc'[c] = "failed" => state[at[c]] # "active"
<1>1. IndexInv /\ [StartNext]_startVars => [Honest]_startVars
  <2> SUFFICES ASSUME IndexInv, StartNext PROVE Honest
    OBVIOUS
  <2> USE DEF IndexInv, StartTypeOK
  <2>1. ASSUME NEW d \in Caller, ReadExisting(d) PROVE Honest
    BY <2>1 DEF ReadExisting, Indexed, Goto
  <2>2. ASSUME NEW d \in Caller, NEW i \in Instance, Insert(d, i) \/ Blocked(d, i) PROVE Honest
    BY <2>2 DEF Insert, Blocked, Goto
  <2>3. ASSUME NEW d \in Caller, End(d) PROVE Honest
    BY <2>3 DEF End, Goto
  <2>4. ASSUME NEW i \in Instance, NEW to \in State, Move(i, to) PROVE Honest
    BY <2>4 DEF Move
  <2> QED BY <2>1, <2>2, <2>3, <2>4 DEF StartNext
<1> QED BY <1>1, IndexSafety, PTL DEF StartSpec, HonestAnswer

=============================================================================

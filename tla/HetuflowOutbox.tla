--------------------------- MODULE HetuflowOutbox ---------------------------
(***************************************************************************)
(* The outbox dispatcher of hetuflow-service over the outbox table of      *)
(* hetuflow-sqlx.  A pass leases due rows in one transaction, delivers     *)
(* them outside any transaction, one at a time, and settles each in a      *)
(* transaction of its own, whose updates apply only where the row is still *)
(* leased by this worker's id.  Workers run concurrently, stall past the   *)
(* lease, crash and restart; the follow-up that a settle runs in its       *)
(* transaction may fail and roll it back, which ends the pass.             *)
(***************************************************************************)
EXTENDS Naturals, FiniteSets

CONSTANTS
  Worker,        \* dispatcher processes
  Record,        \* outbox rows
  Id,            \* worker_id strings
  IdOf,          \* the worker_id a process is configured with
  MaxAttempts,   \* max_attempts of a row
  Batch,         \* batch_size
  MaxFaults      \* bound: stalls past the lease, crashes and rolled back settles, together

NoId     == "-"
NoWorker == "-"
NoRecord == "-"

ASSUME OutboxAssumption ==
  /\ NoWorker \notin Worker /\ NoRecord \notin Record /\ NoId \notin Id
  /\ IdOf \in [Worker -> Id]
  /\ MaxAttempts \in Nat \ {0}
  /\ Batch \in Nat \ {0}
  /\ MaxFaults \in Nat

\* What "stable id of this worker process" asks of a deployment.
DistinctIds == \A v, w \in Worker : IdOf[v] = IdOf[w] => v = w

VARIABLES
  status,     \* row -> "absent", "pending", "leased", "succeeded" or "dead"
  owner,      \* row -> lease_owner
  attempts,   \* row -> attempt_count
  due,        \* rows with next_attempt_at <= now
  expired,    \* leased rows with lease_expires_at < now
  batch,      \* worker -> leased rows its pass has still to deliver
  seen,       \* worker -> row -> the attempt_count its poll returned
  current,    \* worker -> the row it delivered and has to settle
  verdict,    \* worker -> what the port answered for that row
  faults,     \* faults so far
  holder,     \* history: row -> the process whose poll leased it last
  told,       \* history: row -> the answers of the port so far
  followed    \* history: row -> committed settles that ran the follow-up

rows   == <<status, owner, attempts, due, expired>>
locals == <<batch, seen, current, verdict>>
vars   == <<rows, locals, faults, holder, told, followed>>

Verdict == {"ok", "transient", "deterministic"}
Status  == {"absent", "pending", "leased", "succeeded", "dead"}

\* Rows, passes and histories have the shapes that the table and run_once give them.
TypeOK ==
  /\ status \in [Record -> Status]
  /\ owner \in [Record -> Id \cup {NoId}]
  /\ attempts \in [Record -> Nat]
  /\ due \subseteq Record
  /\ expired \subseteq Record
  /\ batch \in [Worker -> SUBSET Record]
  /\ seen \in [Worker -> [Record -> Nat]]
  /\ current \in [Worker -> Record \cup {NoRecord}]
  /\ verdict \in [Worker -> Verdict]
  /\ faults \in 0..MaxFaults
  /\ holder \in [Record -> Worker \cup {NoWorker}]
  /\ told \in [Record -> SUBSET Verdict]
  /\ followed \in [Record -> Nat]

Init ==
  /\ status = [r \in Record |-> "absent"]
  /\ owner = [r \in Record |-> NoId]
  /\ attempts = [r \in Record |-> 0]
  /\ due = {}
  /\ expired = {}
  /\ batch = [w \in Worker |-> {}]
  /\ seen = [w \in Worker |-> [r \in Record |-> 0]]
  /\ current = [w \in Worker |-> NoRecord]
  /\ verdict = [w \in Worker |-> "ok"]
  /\ faults = 0
  /\ holder = [r \in Record |-> NoWorker]
  /\ told = [r \in Record |-> {}]
  /\ followed = [r \in Record |-> 0]

----------------------------------------------------------------------------
(* The table.                                                              *)

\* enqueue_outbox: the intent is written, due at once, by a workflow transaction.
Enqueue(r) ==
  /\ status[r] = "absent"
  /\ status' = [status EXCEPT ![r] = "pending"]
  /\ due' = due \cup {r}
  /\ UNCHANGED <<owner, attempts, expired, locals, faults, holder, told, followed>>

\* Mutant of Leasable: the poll forgets the filter on the status.
LeasableWhateverStatus == {r \in Record : status[r] # "absent" /\ (r \in due \/ r \in expired)}

\* Mutant of Leasable: no lease is ever taken over.
LeasableOnlyPending == {r \in Record : status[r] = "pending" /\ r \in due}

\* Rows poll_due_outbox may lease.
Leasable == {r \in Record : \/ status[r] = "pending" /\ r \in due
                            \/ status[r] = "leased" /\ r \in expired}

\* Mutant of Owns: the settling UPDATE does not compare lease_owner.
OwnsAnyLease(w, r) == status[r] = "leased"

\* The guard of every settling UPDATE: still leased, and by this worker_id.
Owns(w, r) == status[r] = "leased" /\ owner[r] = IdOf[w]

\* A row leaves the lease for st.
Release(r, st) ==
  /\ status' = [status EXCEPT ![r] = st]
  /\ owner' = [owner EXCEPT ![r] = NoId]
  /\ expired' = expired \ {r}

MarkSucceeded(r) ==
  /\ Release(r, "succeeded")
  /\ UNCHANGED <<attempts, due>>

MarkRetry(r) ==
  /\ Release(r, "pending")
  /\ attempts' = [attempts EXCEPT ![r] = @ + 1]
  /\ due' = due \ {r}

MarkDeadLetter(r) ==
  /\ Release(r, "dead")
  /\ attempts' = [attempts EXCEPT ![r] = @ + 1]
  /\ UNCHANGED due

----------------------------------------------------------------------------
(* A dispatcher pass.                                                      *)

Idle(w) == batch[w] = {} /\ current[w] = NoRecord

\* poll_due_outbox.  SKIP LOCKED passes over rows another transaction holds, so a
\* poll may return any of the leasable rows.
Poll(w, S) ==
  /\ Idle(w)
  /\ S # {} /\ S \subseteq Leasable /\ Cardinality(S) <= Batch
  /\ status' = [r \in Record |-> IF r \in S THEN "leased" ELSE status[r]]
  /\ owner' = [r \in Record |-> IF r \in S THEN IdOf[w] ELSE owner[r]]
  /\ expired' = expired \ S
  /\ holder' = [r \in Record |-> IF r \in S THEN w ELSE holder[r]]
  /\ batch' = [batch EXCEPT ![w] = S]
  /\ seen' = [seen EXCEPT ![w] = attempts]
  /\ UNCHANGED <<attempts, due, current, verdict, faults, told, followed>>

\* deliver: no transaction is open and the row is not read again.
Deliver(w, r, v) ==
  /\ current[w] = NoRecord
  /\ r \in batch[w]
  /\ batch' = [batch EXCEPT ![w] = @ \ {r}]
  /\ current' = [current EXCEPT ![w] = r]
  /\ verdict' = [verdict EXCEPT ![w] = v]
  /\ told' = [told EXCEPT ![r] = @ \cup {v}]
  /\ UNCHANGED <<rows, seen, faults, holder, followed>>

\* Mutant of Exhausted: off by one.
ExhaustedLate(w, r) == seen[w][r] + 1 > MaxAttempts

\* The attempt budget is judged by the count the poll returned.
Exhausted(w, r) == seen[w][r] + 1 >= MaxAttempts

GivesUp(w, r) == verdict[w] = "deterministic" \/ Exhausted(w, r)

\* The settling transaction's own change when the row is still owned.
SettleRow(w, r) ==
  \/ verdict[w] = "ok" /\ MarkSucceeded(r)
  \/ verdict[w] # "ok" /\ GivesUp(w, r) /\ MarkDeadLetter(r)
  \/ verdict[w] # "ok" /\ ~ GivesUp(w, r) /\ MarkRetry(r)

\* A success and a dead letter run the workflow's follow-up in the same transaction.
FollowsUp(w, r) == verdict[w] = "ok" \/ GivesUp(w, r)

\* Mutant of Settle: the follow-up runs although the UPDATE changed no row.
SettleUnchecked(w) ==
  LET r == current[w] IN
  /\ r # NoRecord
  /\ current' = [current EXCEPT ![w] = NoRecord]
  /\ \/ Owns(w, r) /\ SettleRow(w, r)
     \/ ~ Owns(w, r) /\ UNCHANGED rows
  /\ followed' = IF FollowsUp(w, r) THEN [followed EXCEPT ![r] = @ + 1] ELSE followed
  /\ UNCHANGED <<batch, seen, verdict, faults, holder, told>>

\* settle_success and settle_failure, committed.
Settle(w) ==
  LET r == current[w] IN
  /\ r # NoRecord
  /\ current' = [current EXCEPT ![w] = NoRecord]
  /\ \/ /\ Owns(w, r)
        /\ SettleRow(w, r)
        /\ followed' = IF FollowsUp(w, r) THEN [followed EXCEPT ![r] = @ + 1] ELSE followed
     \/ ~ Owns(w, r) /\ UNCHANGED <<rows, followed>>
  /\ UNCHANGED <<batch, seen, verdict, faults, holder, told>>

\* The worker forgets its pass: what it leased stays leased until it expires.
EndPass(w) ==
  /\ batch' = [batch EXCEPT ![w] = {}]
  /\ current' = [current EXCEPT ![w] = NoRecord]
  /\ UNCHANGED <<rows, seen, verdict, holder, told, followed>>

Fault == faults < MaxFaults /\ faults' = faults + 1

\* The follow-up or the database fails: the settle rolls back and run_once returns.
SettleRolledBack(w) == current[w] # NoRecord /\ Fault /\ EndPass(w)

\* The process dies and restarts with the same configuration.
Crash(w) == ~ Idle(w) /\ Fault /\ EndPass(w)

----------------------------------------------------------------------------
(* Time.                                                                   *)

InHand(w, r) == r \in batch[w] \cup {current[w]}

\* Some worker still works on its lease of r.
Attended(r) == holder[r] # NoWorker /\ InHand(holder[r], r)

\* lease_expires_at passes.  Outlasting the lease while working on it is a fault.
Expire(r) ==
  /\ status[r] = "leased" /\ r \notin expired
  /\ expired' = expired \cup {r}
  /\ IF Attended(r) THEN Fault ELSE UNCHANGED faults
  /\ UNCHANGED <<status, owner, attempts, due, locals, holder, told, followed>>

\* The backoff of a retried row passes.
BecomeDue(r) ==
  /\ status[r] = "pending" /\ r \notin due
  /\ due' = due \cup {r}
  /\ UNCHANGED <<status, owner, attempts, expired, locals, faults, holder, told, followed>>

----------------------------------------------------------------------------

Next ==
  \/ \E r \in Record : Enqueue(r) \/ Expire(r) \/ BecomeDue(r)
  \/ \E w \in Worker :
       \/ \E S \in SUBSET Record : Poll(w, S)
       \/ \E r \in Record, v \in Verdict : Deliver(w, r, v)
       \/ Settle(w)
       \/ SettleRolledBack(w)
       \/ Crash(w)

Spec == Init /\ [][Next]_vars

\* run_forever polls at every tick and never stops on an error; the port answers;
\* time passes.  Faults and enqueues are not fair.
Fairness ==
  /\ \A w \in Worker : /\ WF_vars(\E S \in SUBSET Record : Poll(w, S))
                       /\ WF_vars(\E r \in Record, v \in Verdict : Deliver(w, r, v))
                       /\ WF_vars(Settle(w))
  /\ \A r \in Record : WF_vars(Expire(r) /\ ~ Attended(r)) /\ WF_vars(BecomeDue(r))

FairSpec == Spec /\ Fairness

----------------------------------------------------------------------------
(* Properties.                                                             *)

Settled(r) == status[r] \in {"succeeded", "dead"}

\* A row is marked succeeded only if the receiver accepted one of its deliveries,
\* and dead only after a deterministic failure or with its attempts used up.
SettledForCause ==
  \A r \in Record :
    /\ status[r] = "succeeded" => "ok" \in told[r]
    /\ status[r] = "dead" => "deterministic" \in told[r] \/ attempts[r] = MaxAttempts

\* The follow-up that advances the workflow commits once for a settled row and
\* never for another, however often the row is delivered.
FollowedOnce == \A r \in Record : followed[r] = IF Settled(r) THEN 1 ELSE 0

\* attempt_count stays within max_attempts, although each settle judges it by the
\* value of an earlier transaction.
WithinBudget == \A r \in Record : attempts[r] <= MaxAttempts

\* A worker that still owns the row it works on also knows its attempt_count.
SeenIsCurrent ==
  \A w \in Worker, r \in Record : InHand(w, r) /\ Owns(w, r) => seen[w][r] = attempts[r]

\* What the settling transactions rely on: the lease names the process that took it,
\* a row in hand exists, and a row that is not settled has attempts left.
LeaseInv ==
  /\ \A r \in Record : status[r] = "leased" => holder[r] \in Worker /\ owner[r] = IdOf[holder[r]]
  /\ \A r \in Record : ~ Settled(r) => attempts[r] < MaxAttempts
  /\ \A w \in Worker, r \in Record : InHand(w, r) => status[r] # "absent"
  /\ \A w \in Worker : current[w] # NoRecord => verdict[w] \in told[current[w]]

\* The inductive invariant.
Safe == TypeOK /\ LeaseInv /\ SeenIsCurrent /\ SettledForCause /\ FollowedOnce /\ WithinBudget

\* A row leaves its lease only by the process that leased it last: a worker whose
\* lease was taken over settles nothing.
OnlyHolderSettles ==
  [][\A r \in Record :
       status[r] = "leased" /\ status'[r] # "leased" => current[holder[r]] = r]_vars

\* Every recorded intent is settled in the end, if faults cease.
EventuallySettled == \A r \in Record : status[r] = "pending" ~> Settled(r)

\* The promise of the outbox.
Ledger == INSTANCE HetuflowLedger WITH
  intent   <- [r \in Record |-> IF status[r] \in {"pending", "leased"} THEN "waiting" ELSE status[r]],
  accepted <- {r \in Record : "ok" \in told[r]}

\* The dispatcher, with its leases, retries and crashes, implements the ledger.
KeepsPromise == Ledger!Spec

=============================================================================

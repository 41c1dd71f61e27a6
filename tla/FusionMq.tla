------------------------------ MODULE FusionMq ------------------------------
(***************************************************************************)
(* The event queue of fusion-mq: PostgresEventQueueProvider, the table     *)
(* event_queue of one target service, and the consumer loop its guide      *)
(* prescribes (claim, handle each event, mark it, reap zombies).           *)
(*                                                                         *)
(* A claim is a transaction: it locks rows with SKIP LOCKED, sets them to  *)
(* processing and commits.  The marks are single UPDATEs by id, without a  *)
(* look at the status or at who claimed the row.                           *)
(***************************************************************************)
EXTENDS Naturals, FiniteSets

CONSTANTS
  Worker,       \* consumer processes of the service
  Event,        \* events, numbered in the order of created_at
  Budget,       \* values of max_retries that producers ask for
  BatchSize,    \* batch_size of claim_pending
  MaxFaults,    \* crashes and lost answers
  MaxStalls     \* handlers that take longer than stuck_after

ASSUME MqAssumption ==
  /\ Event \subseteq Nat /\ IsFiniteSet(Event)
  /\ Budget \subseteq Nat
  /\ BatchSize \in Nat \ {0} /\ MaxFaults \in Nat /\ MaxStalls \in Nat

VARIABLES
  status, retries, maxRetries,  \* the columns of an event's row
  locked,                       \* the rows a worker's claim has locked
  claims,                       \* the events a worker has claimed and not marked
  attempts, reaps,              \* how often an event was claimed, was reaped
  contested,                    \* events that were reaped while somebody handled them
  faults, stalls

columns == <<status, retries, maxRetries>>
history == <<attempts, reaps, contested>>
bounds  == <<faults, stalls>>
vars == <<columns, locked, claims, history, bounds>>

Status == {"absent", "pending", "processing", "completed", "failed"}
Settled(e) == status[e] \in {"completed", "failed"}

TypeOK ==
  /\ status \in [Event -> Status]
  /\ retries \in [Event -> Nat] /\ maxRetries \in [Event -> Nat]
  /\ locked \in [Worker -> SUBSET Event] /\ claims \in [Worker -> SUBSET Event]
  /\ \A w \in Worker : \A e \in locked[w] : status[e] = "pending"
  /\ attempts \in [Event -> Nat] /\ reaps \in [Event -> Nat]
  /\ contested \subseteq Event
  /\ faults \in Nat /\ stalls \in Nat

Init ==
  /\ status = [e \in Event |-> "absent"]
  /\ retries = [e \in Event |-> 0] /\ maxRetries = [e \in Event |-> 0]
  /\ locked = [w \in Worker |-> {}] /\ claims = [w \in Worker |-> {}]
  /\ attempts = [e \in Event |-> 0] /\ reaps = [e \in Event |-> 0]
  /\ contested = {} /\ faults = 0 /\ stalls = 0

----------------------------------------------------------------------------
(* Statements.                                                             *)

\* publish: rows come in the order of created_at.
Publish(e, m) ==
  /\ status[e] = "absent" /\ \A d \in Event : d < e => status[d] # "absent"
  /\ status' = [status EXCEPT ![e] = "pending"]
  /\ maxRetries' = [maxRetries EXCEPT ![e] = m]
  /\ UNCHANGED <<retries, locked, claims, history, bounds>>

\* Mutant of Claimable: an event that failed once is not seen.
ClaimableFresh(e) == status[e] = "pending" /\ retries[e] = 0 /\ maxRetries[e] > 0

Claimable(e) == status[e] = "pending" /\ retries[e] < maxRetries[e]

Locked(e) == \E w \in Worker : e \in locked[w]

\* What SKIP LOCKED leaves to the next claim.
Free == {e \in Event : Claimable(e) /\ ~ Locked(e)}

\* Mutant of Oldest: locked rows are claimed as well.
OldestOfAll(S) ==
  /\ S \subseteq {e \in Event : Claimable(e)} /\ S # {} /\ Cardinality(S) <= BatchSize

\* S is what the SELECT returns: the oldest free rows, as many as the batch takes.
Oldest(S) ==
  /\ S \subseteq Free /\ S # {} /\ Cardinality(S) <= BatchSize
  /\ \A e \in S, d \in Free \ S : e < d
  /\ Cardinality(S) = BatchSize \/ S = Free

\* claim_pending, the SELECT ... FOR UPDATE SKIP LOCKED.
ClaimSelect(w, S) ==
  /\ claims[w] = {} /\ locked[w] = {} /\ Oldest(S)
  /\ locked' = [locked EXCEPT ![w] = S]
  /\ UNCHANGED <<columns, claims, history, bounds>>

\* What the UPDATE and its COMMIT do to the rows.
Claimed(w) ==
  /\ status' = [e \in Event |-> IF e \in locked[w] THEN "processing" ELSE status[e]]
  /\ attempts' = [e \in Event |-> IF e \in locked[w] THEN attempts[e] + 1 ELSE attempts[e]]
  /\ locked' = [locked EXCEPT ![w] = {}]
  /\ UNCHANGED <<retries, maxRetries, reaps, contested>>

\* claim_pending, the UPDATE and its COMMIT.
ClaimCommit(w) ==
  /\ locked[w] # {}
  /\ Claimed(w)
  /\ claims' = [claims EXCEPT ![w] = locked[w]]
  /\ UNCHANGED bounds

\* The worker dies in the transaction, before the COMMIT or with its answer lost.
ClaimLost(w) ==
  /\ locked[w] # {} /\ faults < MaxFaults /\ faults' = faults + 1
  /\ \/ Claimed(w)
     \/ locked' = [locked EXCEPT ![w] = {}] /\ UNCHANGED <<columns, history>>
  /\ UNCHANGED <<claims, stalls>>

\* The worker is through with the event.
Answered(w, e) == claims' = [claims EXCEPT ![w] = @ \ {e}]

\* mark_processed.  An UPDATE waits for a lock that a claim holds.
MarkProcessed(w, e) ==
  /\ e \in claims[w] /\ ~ Locked(e)
  /\ status' = [status EXCEPT ![e] = "completed"]
  /\ Answered(w, e)
  /\ UNCHANGED <<retries, maxRetries, locked, attempts, reaps, contested, bounds>>

\* The CASE of mark_failed: the budget overrules the caller.
NextStatus(e, decision) ==
  IF retries[e] + 1 >= maxRetries[e] \/ decision = "dead" THEN "failed" ELSE "pending"

\* Mutant of MarkFailed: the retry is not counted.
MarkFailedUncounted(w, e, decision) ==
  /\ e \in claims[w] /\ ~ Locked(e)
  /\ status' = [status EXCEPT ![e] = NextStatus(e, decision)]
  /\ Answered(w, e)
  /\ UNCHANGED <<retries, maxRetries, locked, attempts, reaps, contested, bounds>>

\* mark_failed.
MarkFailed(w, e, decision) ==
  /\ e \in claims[w] /\ ~ Locked(e)
  /\ status' = [status EXCEPT ![e] = NextStatus(e, decision)]
  /\ retries' = [retries EXCEPT ![e] = @ + 1]
  /\ Answered(w, e)
  /\ UNCHANGED <<maxRetries, locked, attempts, reaps, contested, bounds>>

\* The worker has handled the event.
Answer(w, e) == MarkProcessed(w, e) \/ \E decision \in {"retry", "dead"} : MarkFailed(w, e, decision)

\* The worker dies, or gives the batch up because a mark failed.
Abandon(w) ==
  /\ claims[w] # {} /\ faults < MaxFaults /\ faults' = faults + 1
  /\ claims' = [claims EXCEPT ![w] = {}]
  /\ UNCHANGED <<columns, locked, attempts, reaps, contested, stalls>>

\* The CASE of reap_zombie.
Reaped(e) == IF retries[e] >= maxRetries[e] THEN "failed" ELSE "pending"

Handlers(e) == {w \in Worker : e \in claims[w]}

\* Mutant of Reap: any row that was not touched for long.
ReapStale(e) ==
  /\ status[e] # "absent" /\ ~ Locked(e)
  /\ status' = [status EXCEPT ![e] = Reaped(e)]
  /\ reaps' = [reaps EXCEPT ![e] = @ + 1]
  /\ contested' = IF Handlers(e) = {} THEN contested ELSE contested \cup {e}
  /\ UNCHANGED <<retries, maxRetries, locked, claims, attempts, faults>>

\* reap_zombie on one row.
Reap(e) ==
  /\ status[e] = "processing"
  /\ status' = [status EXCEPT ![e] = Reaped(e)]
  /\ reaps' = [reaps EXCEPT ![e] = @ + 1]
  /\ contested' = IF Handlers(e) = {} THEN contested ELSE contested \cup {e}
  /\ UNCHANGED <<retries, maxRetries, locked, claims, attempts, faults>>

\* reap_zombie on a row nobody handles any more.
ReapAbandoned(e) == Handlers(e) = {} /\ Reap(e) /\ UNCHANGED stalls

\* reap_zombie on a row whose handler takes longer than stuck_after.
ReapHandled(e) ==
  /\ Handlers(e) # {} /\ stalls < MaxStalls /\ stalls' = stalls + 1
  /\ Reap(e)

Next ==
  \/ \E e \in Event : (\E m \in Budget : Publish(e, m)) \/ ReapAbandoned(e) \/ ReapHandled(e)
  \/ \E w \in Worker :
       \/ \E S \in SUBSET Event : ClaimSelect(w, S)
       \/ ClaimCommit(w) \/ ClaimLost(w) \/ Abandon(w)
       \/ \E e \in Event : Answer(w, e)

Spec == Init /\ [][Next]_vars

\* A worker polls when it is idle, commits its claim and answers what it has; reap_zombie
\* runs periodically.
FairSpec ==
  /\ Spec
  /\ \A w \in Worker : /\ WF_vars(\E S \in SUBSET Event : ClaimSelect(w, S))
                        /\ WF_vars(ClaimCommit(w))
                        /\ WF_vars(\E e \in Event : Answer(w, e))
  /\ WF_vars(\E e \in Event : ReapAbandoned(e))

----------------------------------------------------------------------------
(* Properties.                                                             *)

\* An event is claimed at most max_retries times and once more for every time it was
\* reaped, whatever the marks of reaped workers do to its row.
AttemptsWithinBudget ==
  \A e \in Event : maxRetries[e] > 0 => attempts[e] <= maxRetries[e] + reaps[e]

\* A pending or processing event has retries left, so that a claim can see it and reap_zombie
\* never has an exhausted row to fail (an event published with max_retries = 0 is never seen).
OpenHasBudget ==
  \A e \in Event : status[e] \in {"pending", "processing"} /\ maxRetries[e] > 0 => retries[e] < maxRetries[e]

\* Two workers have the same event, or one claims what the other has, only if it was
\* reaped while one of them handled it.
SharedOnlyIfContested ==
  \A v, w \in Worker, e \in Event :
    v # w /\ e \in claims[v] /\ e \in claims[w] \cup locked[w] => e \in contested

\* An event whose handlers were all in time stays settled: it leaves completed or failed
\* only if it was reaped while a worker handled it, because no mark looks at the status.
SettledUnlessContested ==
  [][\A e \in Event : Settled(e) /\ status'[e] # status[e] => e \in contested]_vars

\* Once faults cease, every event that was published with a budget is settled for good.
EventuallySettled ==
  \A e \in Event : <>[](status[e] = "absent" \/ maxRetries[e] = 0 \/ Settled(e))

============================================================================

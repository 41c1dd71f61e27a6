----------------------------- MODULE HetuflowTxn -----------------------------
(***************************************************************************)
(* Concurrent transactions on one instance of hetuflow, statement by       *)
(* statement at READ COMMITTED: signals of clients, due timers and         *)
(* confirmed deliveries.  Only a signal locks the instance row first;      *)
(* fire_timer and on_notification_delivered read it as it is.              *)
(*                                                                         *)
(* A row has a committed value and, while a transaction has written or     *)
(* locked it, an owner with a value of its own.  A statement that would    *)
(* write a row of another owner waits, then looks at the committed value.  *)
(* The event log is the number of transactions that appended to it: once a *)
(* transaction has its first event in, no other can take the numbers after *)
(* it, so its further events add nothing.  The DDL is not in the           *)
(* repository; whether (instance, seq) is unique is a choice of Init.      *)
(*                                                                         *)
(* The instance waits at some activities: one, or the branches of a split  *)
(* whose join comes next.  Behind them is a further activity or the end.   *)
(***************************************************************************)
EXTENDS Naturals, FiniteSets, Sequences

CONSTANTS
  Client, Worker,      \* sessions of callers of signal, of pollers and dispatchers
  Case,                \* the cases that Init chooses from: [kind, join, ends]
  Key, RequestOf,      \* idempotency keys, and the request that has the key: [act, claims]
  MaxSends,            \* how often a client sends one request
  Nobody

ASSUME TxnAssumption ==
  /\ Client \cap Worker = {} /\ Nobody \notin Client \cup Worker
  /\ MaxSends \in Nat
  /\ \A c \in Case :
       /\ IsFiniteSet(DOMAIN c.kind) /\ DOMAIN c.kind # {}
       /\ c.join \in {"none", "wait_any", "wait_all"}
       /\ c.join = "none" => \E a \in DOMAIN c.kind : DOMAIN c.kind = {a}

Session == Client \cup Worker

VARIABLES
  case,                \* kind: of each activity; join: "none" or a strategy; ends: the end comes next
  unique,              \* whether the log has a unique index on (instance, seq)
  val, new, owner,     \* the rows: committed values, uncommitted values, who holds them
  txn,                 \* what each session does
  top,                 \* transactions that are in the log
  logged,              \* how often a key is in the log
  sends,               \* how often the request of a key was sent
  advanced,            \* committed transactions that moved the instance on
  overlooked           \* whether a delivery went on although its activity was no longer active

rows == <<val, new, owner>>
history == <<logged, sends, advanced, overlooked>>
vars == <<case, unique, rows, txn, top, history>>

Act == DOMAIN case.kind

Instance  == <<"instance", "">>
ActRow(a) == <<"activity", a>>
Timer(a)  == <<"timer", a>>
Intent(a) == <<"intent", a>>

Row == {Instance} \cup {ActRow(a) : a \in Act} \cup {Timer(a) : a \in Act} \cup {Intent(a) : a \in Act}

\* The statements of the service's functions, in their order, up to the outcome.
Program ==
  [signal   |-> <<"lock", "seen", "target", "seq", "insert", "decide", "cancel", "route">>,
   claim    |-> <<"lock", "seen", "target", "assign", "seq", "insert", "commit">>,
   timer    |-> <<"mark", "instance", "activity", "seq", "insert", "decide", "cancel", "route">>,
   delivery |-> <<"mark", "instance", "activity", "decide", "cancel", "seq", "insert", "route">>]

\* The statements of apply_outcome.
Outcome == <<"sweepTimers", "sweepActs", "advance", "commit">>

NoTxn == [kind |-> "none", todo |-> <<>>, act |-> "", key |-> "", seq |-> 0, logs |-> FALSE,
          moves |-> FALSE, misses |-> FALSE]

At(t, statement) == txn[t].todo # <<>> /\ Head(txn[t].todo) = statement
Running(t) == txn[t].todo # <<>>

TypeOK ==
  /\ case \in Case /\ unique \in BOOLEAN
  /\ DOMAIN val = Row /\ DOMAIN new = Row /\ owner \in [Row -> Session \cup {Nobody}]
  /\ \A r \in Row : {val[r], new[r]} \subseteq {"none", "pending", "active", "completed", "skipped", "done", "cancelled"}
  /\ DOMAIN txn = Session /\ top \in Nat
  /\ logged \in [Key -> Nat] /\ sends \in [Key -> 0..MaxSends]
  /\ advanced \in Nat /\ overlooked \in BOOLEAN

\* All activities are active; an event wait has a timeout, a notification an intent.
Initially(c) ==
  LET acts == DOMAIN c.kind
      has(a, kind) == IF c.kind[a] = kind THEN "pending" ELSE "none"
  IN  [r \in {Instance} \cup ({"activity", "timer", "intent"} \X acts) |->
         CASE r[1] = "timer"  -> has(r[2], "event_wait")
           [] r[1] = "intent" -> has(r[2], "notification")
           [] OTHER           -> "active"]

Init ==
  /\ case \in Case /\ unique \in BOOLEAN
  /\ val = Initially(case) /\ new = val /\ owner = [r \in DOMAIN val |-> Nobody]
  /\ txn = [t \in Session |-> NoTxn]
  /\ top = 0
  /\ logged = [k \in Key |-> 0] /\ sends = [k \in Key |-> 0]
  /\ advanced = 0 /\ overlooked = FALSE

----------------------------------------------------------------------------
(* Rows, locks and transactions.                                           *)

\* What a transaction sees of a row.
Read(t, r) == IF owner[r] = t THEN new[r] ELSE val[r]

\* The rows a transaction's next statement writes or locks.
Wanted(t) ==
  LET a == txn[t].act
      others == Act \ {a}
      among(S, status) == {r \in S : Read(t, r) = status}
  IN  IF ~ Running(t) THEN {}
      ELSE CASE Head(txn[t].todo) \in {"lock", "clear"} -> {Instance}
             [] At(t, "advance") -> among({Instance}, "active")
             [] At(t, "mark") -> among({IF txn[t].kind = "timer" THEN Timer(a) ELSE Intent(a)}, "pending")
             [] Head(txn[t].todo) \in {"assign", "decide"} -> among({ActRow(a)}, "active")
             [] At(t, "cancel") -> among({Timer(a)}, "pending")
             [] At(t, "sweepTimers") ->
                  {Timer(b) : b \in {b \in others : Read(t, Timer(b)) = "pending" /\ Read(t, ActRow(b)) = "active"}}
             [] At(t, "sweepActs") -> among({ActRow(b) : b \in others}, "active")
             [] OTHER -> {}

\* Whose end a statement waits for: the owners of its rows, and for an event whoever has
\* inserted that number and not committed.
Blockers(t) ==
  ({owner[r] : r \in Wanted(t)} \ {t, Nobody})
  \cup {u \in Session \ {t} : At(t, "insert") /\ unique /\ txn[u].logs /\ txn[u].seq = txn[t].seq}

\* Those in S and whoever they wait for, over n links.
Awaited(S, n) ==
  LET over[i \in 0..n] == IF i = 0 THEN S ELSE over[i - 1] \cup UNION {Blockers(u) : u \in over[i - 1]}
  IN  over[n]

Deadlocked(t) == t \in Awaited(Blockers(t), Cardinality(Session))

\* The statement is done; those in more come next.
Go(t, more) == txn' = [txn EXCEPT ![t].todo = more \o Tail(@)]

\* The transaction goes on to its commit.
GoCommit(t) == txn' = [txn EXCEPT ![t].todo = <<"commit">>]

\* The wanted rows get this value and this owner.
Write(t, value) ==
  /\ new' = [r \in Row |-> IF r \in Wanted(t) THEN value ELSE new[r]]
  /\ owner' = [r \in Row |-> IF r \in Wanted(t) THEN t ELSE owner[r]]
  /\ UNCHANGED val

Release(t) == owner' = [r \in Row |-> IF owner[r] = t THEN Nobody ELSE owner[r]]

Ends(t) == txn' = [txn EXCEPT ![t] = NoTxn]

\* The statement failed, or the service returned an error: its caller rolls back.
Fail(t) ==
  /\ Release(t) /\ Ends(t)
  /\ new' = [r \in Row |-> IF owner[r] = t THEN val[r] ELSE new[r]]
  /\ UNCHANGED <<val, top, history>>

Keeps == UNCHANGED <<case, unique>>

Commit(t) ==
  /\ At(t, "commit")
  /\ Release(t) /\ Ends(t)
  /\ val' = [r \in Row |-> IF owner[r] = t THEN new[r] ELSE val[r]]
  /\ top' = IF txn[t].logs THEN top + 1 ELSE top
  /\ logged' = IF txn[t].logs /\ txn[t].key # "" THEN [logged EXCEPT ![txn[t].key] = @ + 1] ELSE logged
  /\ advanced' = IF txn[t].moves THEN advanced + 1 ELSE advanced
  /\ overlooked' = (overlooked \/ txn[t].misses)
  /\ UNCHANGED <<new, sends>> /\ Keeps

\* PostgreSQL breaks a circle of waiting transactions.
DeadlockAbort(t) == Running(t) /\ Deadlocked(t) /\ Fail(t) /\ Keeps

----------------------------------------------------------------------------
(* Transactions that begin.                                                *)

Begin(t, kind, a, k) ==
  /\ ~ Running(t)
  /\ txn' = [txn EXCEPT ![t] = [NoTxn EXCEPT !.kind = kind, !.todo = Program[kind], !.act = a, !.key = k]]
  /\ UNCHANGED <<rows, top, logged, advanced, overlooked>> /\ Keeps

\* A client sends a request, or sends it again.
Signal(t, k) ==
  /\ sends[k] < MaxSends /\ RequestOf[k].act \in Act
  /\ sends' = [sends EXCEPT ![k] = @ + 1]
  /\ Begin(t, IF RequestOf[k].claims THEN "claim" ELSE "signal", RequestOf[k].act, k)

\* A poller was handed a due timer, perhaps one that another has.
FireTimer(t, a) == val[Timer(a)] = "pending" /\ Begin(t, "timer", a, "") /\ UNCHANGED sends

\* The dispatcher that holds the lease of an intent settles its delivery.
Delivered(t, a) ==
  /\ val[Intent(a)] = "pending"
  /\ \A u \in Worker : Running(u) => ~ (txn[u].kind = "delivery" /\ txn[u].act = a)
  /\ Begin(t, "delivery", a, "") /\ UNCHANGED sends

----------------------------------------------------------------------------
(* Statements.                                                             *)

Statement(t, name) == At(t, name) /\ Blockers(t) = {}

\* Mutant of Lock: the instance is read without FOR UPDATE.
LockNot(t) == At(t, "lock") /\ Go(t, <<>>) /\ UNCHANGED <<rows, top, history>>

\* load_instance_for_update_scoped.
Lock(t) ==
  /\ Statement(t, "lock")
  /\ new' = [new EXCEPT ![Instance] = val[Instance]]
  /\ owner' = [owner EXCEPT ![Instance] = t]
  /\ Go(t, <<>>) /\ UNCHANGED <<val, top, history>>

\* idempotency_seen, and the check of the instance's status.
Seen(t) ==
  /\ Statement(t, "seen")
  /\ IF logged[txn[t].key] > 0 THEN GoCommit(t) /\ UNCHANGED <<rows, top, history>>
     ELSE IF Read(t, Instance) # "active" THEN Fail(t)
     ELSE Go(t, <<>>) /\ UNCHANGED <<rows, top, history>>

\* resolve_target_activity and check_signal_against_node: only an assignment is claimed.
Target(t) ==
  /\ Statement(t, "target")
  /\ IF Read(t, ActRow(txn[t].act)) = "active" /\ (txn[t].kind = "claim" => case.kind[txn[t].act] = "assignment")
     THEN Go(t, <<>>) /\ UNCHANGED <<rows, top, history>>
     ELSE Fail(t)

\* update_activity_assignee.
Assign(t) == Statement(t, "assign") /\ Write(t, "active") /\ Go(t, <<>>) /\ UNCHANGED <<top, history>>

\* mark_timer_fired or mark_outbox_succeeded: a loser stops here.
Mark(t) ==
  /\ Statement(t, "mark")
  /\ Write(t, "done")
  /\ IF Wanted(t) = {} THEN GoCommit(t) ELSE Go(t, <<>>)
  /\ UNCHANGED <<top, history>>

\* load_instance, without a lock: nothing is done in a terminal instance.
LoadInstance(t) ==
  /\ Statement(t, "instance")
  /\ IF Read(t, Instance) = "active" THEN Go(t, <<>>) ELSE GoCommit(t)
  /\ UNCHANGED <<rows, top, history>>

\* load_activity: nothing is done when it is no longer active.
LoadActivity(t) ==
  /\ Statement(t, "activity")
  /\ IF Read(t, ActRow(txn[t].act)) = "active" THEN Go(t, <<>>) ELSE GoCommit(t)
  /\ UNCHANGED <<rows, top, history>>

\* next_seq for the first event.
NextSeq(t) ==
  /\ Statement(t, "seq")
  /\ txn' = [txn EXCEPT ![t].seq = top + 1, ![t].todo = Tail(@)]
  /\ UNCHANGED <<rows, top, history>>

\* Mutant of AppendEvent: the numbers come from a sequence, so that no two are the same.
AppendEventUnordered(t) ==
  /\ At(t, "insert")
  /\ txn' = [txn EXCEPT ![t].logs = TRUE, ![t].seq = 0, ![t].todo = Tail(@)] /\ UNCHANGED <<rows, top, history>>

\* append_event: under the unique index it fails when the number was taken meanwhile.
AppendEvent(t) ==
  /\ Statement(t, "insert")
  /\ IF unique /\ txn[t].seq <= top THEN Fail(t)
     ELSE txn' = [txn EXCEPT ![t].logs = TRUE, ![t].todo = Tail(@)] /\ UNCHANGED <<rows, top, history>>

\* Mutant of Decide: no transaction looks at what its UPDATE changed.
DecideUnchecked(t) ==
  /\ Statement(t, "decide")
  /\ Write(t, IF txn[t].kind = "timer" THEN "skipped" ELSE "completed")
  /\ Go(t, <<>>) /\ UNCHANGED <<top, history>>

\* complete_activity_cas or skip_activity_for_timeout.  Only a signal looks at what the
\* UPDATE changed.
Decide(t) ==
  /\ Statement(t, "decide")
  /\ IF Wanted(t) = {} /\ txn[t].kind = "signal" THEN Fail(t)
     ELSE /\ Write(t, IF txn[t].kind = "timer" THEN "skipped" ELSE "completed")
          /\ txn' = [txn EXCEPT ![t].todo = Tail(@), ![t].misses = (Wanted(t) = {})]
          /\ UNCHANGED <<top, history>>

\* cancel_timers_for_activity.
CancelTimers(t) ==
  /\ Statement(t, "cancel")
  /\ Write(t, "cancelled") /\ Go(t, <<>>) /\ UNCHANGED <<top, history>>

Arrived(t) == Cardinality({a \in Act : Read(t, ActRow(a)) = "completed"})

Satisfied(t) ==
  \/ case.join = "wait_all" /\ Arrived(t) = Cardinality(Act)
  \/ case.join = "wait_any" /\ Arrived(t) > 0

\* apply_outcome: what comes next, or the join and count_completed_branches.
Route(t) ==
  /\ Statement(t, "route")
  /\ txn' = [txn EXCEPT ![t].todo =
               CASE case.join = "none" -> <<"advance", "commit">>
                 [] case.join # "none" /\ Satisfied(t) ->
                      IF case.join = "wait_any" THEN Outcome ELSE <<"advance", "commit">>
                 [] OTHER -> <<"clear", "commit">>]
  /\ UNCHANGED <<rows, top, history>>

\* skip_other_active_activities: their timers, then the activities.
SweepTimers(t) ==
  /\ Statement(t, "sweepTimers")
  /\ Write(t, "cancelled") /\ Go(t, <<>>) /\ UNCHANGED <<top, history>>

SweepActivities(t) ==
  /\ Statement(t, "sweepActs")
  /\ Write(t, "skipped") /\ Go(t, <<>>) /\ UNCHANGED <<top, history>>

\* clear_current_activity.
ClearCurrent(t) ==
  /\ Statement(t, "clear")
  /\ Write(t, Read(t, Instance)) /\ Go(t, <<>>) /\ UNCHANGED <<top, history>>

\* schedule_activity and update_current_activity; or complete_workflow_cas, which a
\* terminal instance fails.
Advance(t) ==
  /\ Statement(t, "advance")
  /\ IF case.ends /\ Wanted(t) = {} THEN Fail(t)
     ELSE /\ Write(t, IF case.ends THEN "completed" ELSE "active")
          /\ txn' = [txn EXCEPT ![t].todo = Tail(@), ![t].moves = TRUE]
          /\ UNCHANGED <<top, history>>

Execute(t) ==
  /\ \/ Lock(t) \/ Seen(t) \/ Target(t) \/ Assign(t) \/ Mark(t) \/ LoadInstance(t) \/ LoadActivity(t)
     \/ NextSeq(t) \/ AppendEvent(t) \/ Decide(t) \/ CancelTimers(t) \/ Route(t)
     \/ SweepTimers(t) \/ SweepActivities(t) \/ ClearCurrent(t) \/ Advance(t)
  /\ Keeps

Next ==
  \/ \E t \in Client, k \in Key : Signal(t, k)
  \/ \E t \in Worker, a \in Act : FireTimer(t, a) \/ Delivered(t, a)
  \/ \E t \in Session : Execute(t) \/ Commit(t) \/ DeadlockAbort(t)

Spec == Init /\ [][Next]_vars

----------------------------------------------------------------------------
(* Properties.                                                             *)

\* However signals, retries, timers, deliveries and sweeps of a join interleave, the
\* instance moves on once: a single activity is decided once, and a join fires once.  Except
\* where on_notification_delivered goes on although its UPDATE found the activity completed
\* by a signal, or skipped by a join, after it had read it.
AdvancesOnce == advanced <= 1 \/ overlooked

\* worker.rs:166: a delivery may be repeated, but the instance never advances twice.
AdvancesOnceEver == advanced <= 1

\* Branches that arrive at the same time do not each miss the other at the join: when all
\* are completed and nobody is at work it has fired.  It is the unique numbers of the event
\* log that order the transactions, for the branches share no lock.
JoinNotMissed ==
  unique /\ (\A t \in Session : ~ Running(t)) /\ (\A a \in Act : val[ActRow(a)] = "completed") => advanced > 0

\* A request that is sent again, even while the first is at work, is in the log once.
KeyLoggedOnce == \A k \in Key : logged[k] <= 1

=============================================================================

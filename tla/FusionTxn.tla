----------------------------- MODULE FusionTxn -----------------------------
(***************************************************************************)
(* Closure transactions of fusion-sql: ModelManager::transaction and       *)
(* read_transaction over Dbx, with the transaction holder of DbxPostgres   *)
(* and DbxSqlite on one side and the database session on the other.        *)
(*                                                                         *)
(* The holder counts nested begins and keeps a stack of savepoint names;   *)
(* the session keeps its own stack of savepoints, in which a name may      *)
(* occur more than once: ROLLBACK TO does not remove the savepoint it      *)
(* returns to, and the holder gives the name out again.                    *)
(*                                                                         *)
(* One task runs closures.  A closure executes statements, calls           *)
(* transaction again, and returns Ok or an error, whatever errors its      *)
(* statements and its nested runs gave it.  (Use of one handle by two      *)
(* tasks is forbidden by its comment.)                                     *)
(***************************************************************************)
EXTENDS Naturals, Sequences, FiniteSets

CONSTANTS
  Write,        \* rows that statements write, each at most once
  MaxDepth,     \* nesting of closures
  MaxRuns,      \* runs that are started
  MaxFaults     \* statements that fail on their own, lost connections and dropped futures

ASSUME TxnAssumption == MaxDepth \in Nat /\ MaxRuns \in Nat /\ MaxFaults \in Nat

VARIABLES
  provider,     \* the variant of Dbx
  kept,         \* whether the program keeps one transactional handle for all its runs
  holder,       \* txn_holder of the handle in use
  conn,         \* the database session of the held transaction
  calls,        \* the closures that are running, outermost first
  durable,      \* rows that are committed
  promised,     \* rows whose writer was told Ok, up to the outermost run
  unknown,      \* rows of a COMMIT that got no answer
  swallowed,    \* whether a closure went on, or returned Ok, after its statement had failed
  abandoned,    \* whether the future of a run was dropped and its handle lived on
  runs, faults

vars == <<provider, kept, holder, conn, calls, durable, promised, unknown, swallowed, abandoned, runs, faults>>

Provider == {"postgres", "sqlite"}

NoHolder  == [held |-> FALSE, counter |-> 0, names |-> <<>>]
NewHolder == [held |-> TRUE, counter |-> 1, names |-> <<>>]

NoConn == [open |-> FALSE, broken |-> FALSE, aborted |-> FALSE, readOnly |-> FALSE,
           marks |-> <<>>, writes |-> {}]

\* A transaction of the pool; only PostgreSQL is told READ ONLY.
NewConn(ro) == [NoConn EXCEPT !.open = TRUE, !.readOnly = ro /\ provider = "postgres"]

Top == calls[Len(calls)]
Idle == calls = <<>>

TypeOK ==
  /\ provider \in Provider /\ kept \in BOOLEAN /\ swallowed \in BOOLEAN /\ abandoned \in BOOLEAN
  /\ holder \in {NoHolder} \cup [held : {TRUE}, counter : Nat \ {0}, names : Seq(Nat \ {0})]
  /\ conn \in [open : BOOLEAN, broken : BOOLEAN, aborted : BOOLEAN, readOnly : BOOLEAN,
               marks : Seq([name : Nat, writes : SUBSET Write]), writes : SUBSET Write]
  /\ calls \in Seq([readOnly : BOOLEAN, failed : BOOLEAN, view : SUBSET Write])
  /\ durable \subseteq Write /\ promised \subseteq Write /\ unknown \subseteq Write
  /\ runs \in 0..MaxRuns /\ faults \in 0..MaxFaults

Init ==
  /\ provider \in Provider /\ kept \in BOOLEAN
  /\ holder = NoHolder /\ conn = NoConn /\ calls = <<>>
  /\ durable = {} /\ promised = {} /\ unknown = {}
  /\ swallowed = FALSE /\ abandoned = FALSE /\ runs = 0 /\ faults = 0

----------------------------------------------------------------------------
(* TxnHolder and the session.                                              *)

\* Mutant of Inc: every savepoint gets the same name.
IncSameName(h) == [h EXCEPT !.counter = @ + 1, !.names = Append(@, 1)]

\* The savepoint is named after the depth before it.
Inc(h) == [h EXCEPT !.counter = @ + 1, !.names = Append(@, h.counter)]

Dec(h) ==
  [h EXCEPT !.counter = @ - 1,
            !.names = IF @ = <<>> THEN @ ELSE SubSeq(@, 1, Len(@) - 1)]

LastName(h) == h.names[Len(h.names)]

\* The session's savepoints of this name; the last one is meant.
Marked(c, name) == {i \in DOMAIN c.marks : c.marks[i].name = name}
LastMark(c, name) == CHOOSE i \in Marked(c, name) : \A j \in Marked(c, name) : j <= i

\* A statement that fails aborts a PostgreSQL transaction.
Failing(c) == [c EXCEPT !.aborted = @ \/ provider = "postgres"]

Works(c) == c.open /\ ~ c.broken /\ ~ c.aborted

\* RELEASE removes the savepoint and all after it.
CanRelease(c, name) == Works(c) /\ Marked(c, name) # {}
Released(c, name) == [c EXCEPT !.marks = SubSeq(@, 1, LastMark(c, name) - 1)]

\* ROLLBACK TO keeps the savepoint it returns to, and ends an aborted state.
CanReturn(c, name) == ~ c.broken /\ Marked(c, name) # {}
Returned(c, name) ==
  [c EXCEPT !.marks = SubSeq(@, 1, LastMark(c, name)),
            !.writes = c.marks[LastMark(c, name)].writes, !.aborted = FALSE]

----------------------------------------------------------------------------
(* Results of a run.                                                       *)

\* The outermost run drops its handle unless the program keeps it, and with the
\* handle goes the transaction it may still hold.
Settled(h, c) ==
  LET drop == Len(calls) = 1 /\ ~ kept
  IN  /\ holder' = IF drop THEN NoHolder ELSE h
      /\ conn' = IF drop THEN NoConn ELSE c

\* The run returns Ok: its rows are its caller's.
GivesOk ==
  IF Len(calls) = 1
  THEN calls' = <<>> /\ promised' = promised \cup Top.view
  ELSE /\ calls' = [SubSeq(calls, 1, Len(calls) - 1) EXCEPT ![Len(calls) - 1].view = @ \cup Top.view]
       /\ UNCHANGED promised

\* The run returns an error: its caller forgets its rows.
GivesErr == calls' = SubSeq(calls, 1, Len(calls) - 1) /\ UNCHANGED promised

----------------------------------------------------------------------------
(* Actions.                                                                *)

\* A fault within the bound.
Fault == faults < MaxFaults /\ faults' = faults + 1

Starts == runs < MaxRuns /\ runs' = runs + 1 /\ Len(calls) < MaxDepth

\* The running closure goes on as if its statements had worked.
Proceeds == swallowed' = (swallowed \/ (~ Idle /\ Top.failed))

NewCall(ro) == [readOnly |-> ro, failed |-> FALSE, view |-> {}]

\* begin_txn without a held transaction.  (When the pool or SET TRANSACTION fails,
\* nothing is held and the run returns the error: no step.)
BeginTxn(ro) ==
  /\ Starts /\ ~ holder.held
  /\ holder' = NewHolder /\ conn' = NewConn(ro)
  /\ calls' = Append(calls, NewCall(ro))
  /\ UNCHANGED <<provider, kept, abandoned, durable, promised, unknown, swallowed, faults>>

\* begin_txn with one: a savepoint, whatever the read mode.
BeginNested(ro) ==
  /\ Starts /\ holder.held /\ Works(conn)
  /\ holder' = Inc(holder)
  /\ conn' = [conn EXCEPT !.marks = Append(@, [name |-> holder.counter, writes |-> conn.writes])]
  /\ calls' = Append(calls, NewCall(ro))
  /\ Proceeds
  /\ UNCHANGED <<provider, kept, abandoned, durable, promised, unknown, faults>>

\* The SAVEPOINT fails because the session is aborted or dead: the holder has counted
\* it, and the run returns the error to its caller without a rollback.
BeginFails ==
  /\ Starts /\ holder.held /\ ~ Works(conn)
  /\ holder' = Inc(holder)
  /\ Proceeds
  /\ UNCHANGED <<provider, kept, abandoned, conn, calls, durable, promised, unknown, faults>>

Unwritten == Write \ (durable \cup promised \cup unknown \cup conn.writes
                      \cup UNION {calls[i].view : i \in DOMAIN calls})

\* execute in a closure.
Execute(w) ==
  /\ ~ Idle /\ w \in Unwritten
  /\ Works(conn) /\ ~ conn.readOnly
  /\ conn' = [conn EXCEPT !.writes = @ \cup {w}]
  /\ calls' = [calls EXCEPT ![Len(calls)].view = @ \cup {w}]
  /\ Proceeds
  /\ UNCHANGED <<provider, kept, abandoned, holder, durable, promised, unknown, runs, faults>>

\* The statement fails: by itself, in a read-only transaction or on a dead session.
ExecuteFails ==
  /\ ~ Idle
  /\ IF Works(conn) /\ ~ conn.readOnly THEN Fault ELSE UNCHANGED faults
  /\ conn' = Failing(conn)
  /\ calls' = [calls EXCEPT ![Len(calls)].failed = TRUE]
  /\ UNCHANGED <<provider, kept, abandoned, holder, durable, promised, unknown, swallowed, runs>>

\* execute on the kept handle outside of a closure: in the pool, which commits it by
\* itself, unless a transaction is still held.
ExecuteOutside(w) ==
  /\ Idle /\ kept /\ w \in Unwritten
  /\ IF holder.held
     THEN Works(conn) /\ ~ conn.readOnly /\ conn' = [conn EXCEPT !.writes = @ \cup {w}] /\ UNCHANGED durable
     ELSE durable' = durable \cup {w} /\ UNCHANGED conn
  /\ promised' = promised \cup {w}
  /\ UNCHANGED <<provider, kept, abandoned, holder, calls, unknown, swallowed, runs, faults>>

\* The closure returned Ok, commit_txn of the last level: the holder is emptied and the
\* session commits.  COMMIT of an aborted transaction rolls it back and succeeds.
CommitOutermost ==
  /\ ~ Idle /\ holder.counter = 1 /\ ~ conn.broken
  /\ Settled(NoHolder, NoConn)
  /\ durable' = IF conn.aborted THEN durable ELSE durable \cup conn.writes
  /\ GivesOk
  /\ Proceeds
  /\ UNCHANGED <<provider, kept, abandoned, unknown, runs, faults>>

\* Mutant of CommitUnanswered: the failure of COMMIT is only logged, as that of ROLLBACK is.
CommitUnansweredLogged ==
  /\ ~ Idle /\ holder.counter = 1 /\ ~ conn.broken /\ Fault
  /\ unknown' = unknown \cup conn.writes
  /\ durable' \in {durable, durable \cup conn.writes}
  /\ Settled(NoHolder, NoConn)
  /\ GivesOk
  /\ UNCHANGED <<provider, kept, abandoned, swallowed, runs>>

\* COMMIT fails; the database may have carried it out.
CommitUnanswered ==
  /\ ~ Idle /\ holder.counter = 1
  /\ IF conn.broken THEN UNCHANGED <<durable, unknown, faults>>
     ELSE /\ Fault
          /\ unknown' = unknown \cup conn.writes
          /\ durable' \in {durable, IF conn.aborted THEN durable ELSE durable \cup conn.writes}
  /\ Settled(NoHolder, NoConn)
  /\ GivesErr
  /\ Proceeds
  /\ UNCHANGED <<provider, kept, abandoned, runs>>

\* The closure returned Ok, commit_txn of a nested level: RELEASE SAVEPOINT.
CommitNested ==
  /\ ~ Idle /\ holder.counter > 1
  /\ LET name == LastName(holder)
     IN  IF CanRelease(conn, name)
         THEN Settled(Dec(holder), Released(conn, name)) /\ GivesOk
         ELSE Settled(Dec(holder), Failing(conn)) /\ GivesErr
  /\ Proceeds
  /\ UNCHANGED <<provider, kept, abandoned, durable, unknown, runs, faults>>

\* The closure returned an error, rollback_txn of the last level.
RollbackOutermost ==
  /\ ~ Idle /\ holder.counter = 1
  /\ Settled(NoHolder, NoConn) /\ GivesErr
  /\ UNCHANGED <<provider, kept, abandoned, durable, unknown, swallowed, runs, faults>>

\* Mutant of RollbackNested: the session is not rolled back to the savepoint.
RollbackNestedCountOnly ==
  /\ ~ Idle /\ holder.counter > 1
  /\ Settled(Dec(holder), conn) /\ GivesErr
  /\ UNCHANGED <<provider, kept, abandoned, durable, unknown, swallowed, runs, faults>>

\* Mutant of RollbackNested: the level is not counted down.
RollbackUncounted ==
  /\ ~ Idle /\ holder.counter > 1
  /\ LET name == LastName(holder)
     IN  Settled(holder, IF CanReturn(conn, name) THEN Returned(conn, name) ELSE Failing(conn))
  /\ GivesErr
  /\ UNCHANGED <<provider, kept, abandoned, durable, unknown, swallowed, runs, faults>>

\* The closure returned an error, rollback_txn of a nested level; when ROLLBACK TO
\* fails that is only logged.
RollbackNested ==
  /\ ~ Idle /\ holder.counter > 1
  /\ LET name == LastName(holder)
     IN  Settled(Dec(holder), IF CanReturn(conn, name) THEN Returned(conn, name) ELSE Failing(conn))
  /\ GivesErr
  /\ UNCHANGED <<provider, kept, abandoned, durable, unknown, swallowed, runs, faults>>

\* The future of the innermost run is dropped while its closure runs (a timeout around it,
\* say): neither commit_txn nor rollback_txn is called, so the holder goes on to count its
\* level and the session keeps its rows, unless it was the outermost and its handle goes too.
Abandon ==
  /\ ~ Idle /\ Fault
  /\ Settled(holder, conn) /\ GivesErr
  /\ LET stays == kept \/ Len(calls) > 1
     IN  /\ abandoned' = (abandoned \/ stays)
         /\ swallowed' = (swallowed \/ (stays /\ Top.failed))
  /\ UNCHANGED <<provider, kept, durable, unknown, runs>>

\* The connection of the held transaction dies.
Disconnect ==
  /\ Fault
  /\ conn.open /\ ~ conn.broken
  /\ conn' = [conn EXCEPT !.broken = TRUE]
  /\ UNCHANGED <<provider, kept, abandoned, holder, calls, durable, promised, unknown, swallowed, runs>>

Next ==
  \/ \E ro \in BOOLEAN : BeginTxn(ro) \/ BeginNested(ro)
  \/ BeginFails
  \/ \E w \in Write : Execute(w) \/ ExecuteOutside(w)
  \/ ExecuteFails
  \/ CommitOutermost \/ CommitUnanswered \/ CommitNested
  \/ RollbackOutermost \/ RollbackNested
  \/ Abandon \/ Disconnect

Spec == Init /\ [][Next]_vars

----------------------------------------------------------------------------
(* Properties.                                                             *)

Views == UNION {calls[i].view : i \in DOMAIN calls}

\* The counter of the holder is the number of running closures, a transaction is held
\* exactly while one runs, and a kept handle starts afresh: unless a run was abandoned, a
\* closure went on after a failed statement, or the connection died, so that a SAVEPOINT
\* failed (begin_txn counts it before the database has made it).
DepthMatches ==
  abandoned \/ swallowed \/ conn.broken \/ (holder.counter = Len(calls) /\ (holder.held <=> ~ Idle))

\* While the session works it holds exactly the rows of the running closures and of the
\* nested runs that succeeded, although names of savepoints are given out again; an
\* abandoned run leaves its rows in it.
ViewIsWritten == Works(conn) /\ ~ swallowed /\ ~ abandoned => conn.writes = Views

\* A row that is durable was promised, or its COMMIT was not answered: a run that failed or
\* was abandoned leaves nothing behind, whatever statements failed and whoever went on.
NothingUnpromised == durable \subseteq promised \cup unknown

\* Ok of the outermost run means committed, unless a run was abandoned (later ones on its
\* handle release a savepoint in place of committing), or on PostgreSQL a closure went on
\* after a failed statement: COMMIT of an aborted transaction rolls back and succeeds.
KeepsPromises == abandoned \/ (provider = "postgres" /\ swallowed) \/ promised \subseteq durable

============================================================================

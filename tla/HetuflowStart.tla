--------------------------- MODULE HetuflowStart ---------------------------
(***************************************************************************)
(* Concurrent WorkflowService::start calls for business keys, at READ      *)
(* COMMITTED: insert_instance_on_conflict against the partial unique index *)
(* over the statuses pending and active, then, when it inserted nothing,   *)
(* active_instance_by_business_key as a second statement.  What other      *)
(* transactions do to a started instance is its life in HetuflowEngine,    *)
(* here reduced to the status of its row.                                  *)
(***************************************************************************)
EXTENDS Naturals

CONSTANTS
  Caller,      \* transactions that call start, one call each
  Key,         \* (business_type, business_key) pairs
  Instance,    \* workflow_instances rows that may be inserted
  KeyOf,       \* the key a caller starts
  MaxMoves     \* bound on the status changes of started instances

NoInstance == "-"
NoKey      == "-"

ASSUME StartAssumption ==
  /\ KeyOf \in [Caller -> Key]
  /\ NoInstance \notin Instance /\ NoKey \notin Key
  /\ MaxMoves \in Nat

VARIABLES
  state,      \* row -> its committed status
  key,        \* row -> its business key
  pc,         \* caller -> where its call is
  at,         \* caller -> the row it inserted, that blocked its insert, or that it answered
  moves

startVars == <<state, key, pc, at, moves>>

State == {"absent", "inserting", "active", "returned_waiting", "returned", "closed"}
Phase  == {"new", "inserted", "blocked", "created", "existing", "failed"}

\* Rows and calls have the shapes of the table and of start.
StartTypeOK ==
  /\ state \in [Instance -> State]
  /\ key \in [Instance -> Key \cup {NoKey}]
  /\ pc \in [Caller -> Phase]
  /\ at \in [Caller -> Instance \cup {NoInstance}]
  /\ moves \in 0..MaxMoves

StartInit ==
  /\ state = [i \in Instance |-> "absent"]
  /\ key = [i \in Instance |-> NoKey]
  /\ pc = [c \in Caller |-> "new"]
  /\ at = [c \in Caller |-> NoInstance]
  /\ moves = 0

\* Rows under the index WHERE status IN (1, 2) for a key.
Indexed(k) == {i \in Instance : key[i] = k /\ state[i] = "active"}

\* An uncommitted insert under the index makes other writers of the key wait.
InFlight(k) == \E i \in Instance : key[i] = k /\ state[i] = "inserting"

Goto(c, phase, i) ==
  /\ pc' = [pc EXCEPT ![c] = phase]
  /\ at' = [at EXCEPT ![c] = i]

SetStatus(i, st) == state' = [state EXCEPT ![i] = st]

----------------------------------------------------------------------------
(* start.                                                                  *)

\* INSERT ... ON CONFLICT DO NOTHING inserts.
Insert(c, i) ==
  /\ pc[c] = "new"
  /\ ~ InFlight(KeyOf[c]) /\ Indexed(KeyOf[c]) = {}
  /\ state[i] = "absent"
  /\ SetStatus(i, "inserting")
  /\ key' = [key EXCEPT ![i] = KeyOf[c]]
  /\ Goto(c, "inserted", i)
  /\ UNCHANGED moves

\* ... or does nothing, because a committed row is in the way.
Blocked(c, i) ==
  /\ pc[c] = "new"
  /\ ~ InFlight(KeyOf[c]) /\ i \in Indexed(KeyOf[c])
  /\ Goto(c, "blocked", i)
  /\ UNCHANGED <<state, key, moves>>

\* Mutant of ReadExisting: answers the row that was in the way, without reading again.
AnswerBlocker(c) ==
  /\ pc[c] = "blocked"
  /\ Goto(c, "existing", at[c])
  /\ UNCHANGED <<state, key, moves>>

\* Mutant of ReadExisting: waits for an active row instead of failing.
AwaitExisting(c) ==
  /\ pc[c] = "blocked"
  /\ \E i \in Indexed(KeyOf[c]) : Goto(c, "existing", i)
  /\ UNCHANGED <<state, key, moves>>

\* The idempotent hit reads with a new snapshot.
ReadExisting(c) ==
  /\ pc[c] = "blocked"
  /\ \/ \E i \in Indexed(KeyOf[c]) : Goto(c, "existing", i)
     \/ Indexed(KeyOf[c]) = {} /\ Goto(c, "failed", at[c])
  /\ UNCHANGED <<state, key, moves>>

\* The caller's transaction ends: it commits the new instance, or rolls it back.
End(c) ==
  /\ pc[c] = "inserted"
  /\ \/ /\ SetStatus(at[c], "active") /\ UNCHANGED key
        /\ Goto(c, "created", at[c])
     \/ /\ SetStatus(at[c], "absent") /\ key' = [key EXCEPT ![at[c]] = NoKey]
        /\ Goto(c, "failed", NoInstance)
  /\ UNCHANGED moves

----------------------------------------------------------------------------
(* What else happens to a row.  A change to active enters the index, so it *)
(* waits for an insert in flight and fails, changing nothing, on another   *)
(* active row of the key.                                                  *)

Moves == [active           |-> {"returned_waiting", "returned", "closed"},
          returned_waiting |-> {"active"},
          returned         |-> {"active"}]

\* Mutant of Move: the index does not cover a row that becomes active again.
MoveUnindexed(i, to) ==
  /\ state[i] \in DOMAIN Moves /\ to \in Moves[state[i]]
  /\ moves < MaxMoves /\ moves' = moves + 1
  /\ SetStatus(i, to)
  /\ UNCHANGED <<key, pc, at>>

Move(i, to) ==
  /\ state[i] \in DOMAIN Moves /\ to \in Moves[state[i]]
  /\ moves < MaxMoves /\ moves' = moves + 1
  /\ to = "active" => ~ InFlight(key[i]) /\ Indexed(key[i]) = {}
  /\ SetStatus(i, to)
  /\ UNCHANGED <<key, pc, at>>

StartNext ==
  \/ \E c \in Caller : \/ \E i \in Instance : Insert(c, i) \/ Blocked(c, i)
                       \/ ReadExisting(c)
                       \/ End(c)
  \/ \E i \in Instance, to \in State : Move(i, to)

StartSpec == StartInit /\ [][StartNext]_startVars

\* A transaction that is not waiting for a lock goes on.
StartFairSpec ==
  StartSpec /\ \A c \in Caller : /\ WF_startVars(\E i \in Instance : Insert(c, i) \/ Blocked(c, i))
                                 /\ WF_startVars(ReadExisting(c))
                                 /\ WF_startVars(End(c))

----------------------------------------------------------------------------
(* Properties.                                                             *)

\* No two active instances of a business key, whatever starts and resumptions race.
OneActivePerKey ==
  \A i, j \in Instance : state[i] = "active" /\ state[j] = "active" /\ key[i] = key[j] => i = j

\* What keeps it so: the rows under the index, committed or not, have different keys,
\* an uncommitted row belongs to one caller, and a blocker is a committed row of the key.
Entered(i) == state[i] \in {"active", "inserting"}

IndexInv ==
  /\ StartTypeOK
  /\ \A i, j \in Instance : Entered(i) /\ Entered(j) /\ key[i] = key[j] => i = j
  /\ \A c \in Caller : pc[c] = "inserted" => at[c] \in Instance /\ state[at[c]] = "inserting"
  /\ \A c \in Caller : pc[c] = "blocked" =>
       at[c] \in Instance /\ state[at[c]] \notin {"absent", "inserting"} /\ key[at[c]] = KeyOf[c]
  /\ \A c, d \in Caller : pc[c] = "inserted" /\ pc[d] = "inserted" /\ at[c] = at[d] => c = d

\* A start that answers an existing instance answers one of its key that is active at
\* that moment; a start that was blocked fails only when its blocker has moved on.
HonestAnswer ==
  [][\A c \in Caller :
       /\ pc[c] # "existing" /\ pc'[c] = "existing" =>
            key[at'[c]] = KeyOf[c] /\ state[at'[c]] = "active"
       /\ pc[c] = "blocked" /\ pc'[c] = "failed" => state[at[c]] # "active"]_startVars

\* Every start is answered in the end: waiting for the index never lasts.
EventuallyAnswered == \A c \in Caller : <>(pc[c] \in {"created", "existing", "failed"})

============================================================================

------------------------------ MODULE GraphFlow ------------------------------
(***************************************************************************)
(* Sessions of fusion-ai's graph_flow: requests load a session, execute    *)
(* its current task (or a chain of tasks) and save it.                     *)
(*                                                                         *)
(* The in-memory storage clones a Session, and a clone shares its Context; *)
(* the PostgreSQL storage serialises the context with the session, and its *)
(* upsert compares the start times of the saving transactions.             *)
(*                                                                         *)
(* What tasks do is the application's.  Here a task notes in the context   *)
(* that it begins and, when it has done its work, which action it returns; *)
(* a fan-out task leaves the results of its children there.                *)
(***************************************************************************)
EXTENDS Naturals, Sequences

CONSTANTS
  Run, Feed, Delete,   \* requests: FlowRunner::run, get and set and save, delete
  Child,               \* children of a fan-out task
  Graphs,              \* what Init chooses from: [start, tasks, fans, edges, acts]
  MaxBegun             \* bound: how many tasks a session begins

ASSUME FlowAssumption ==
  /\ Run \cap Feed = {} /\ Delete \cap (Run \cup Feed) = {} /\ MaxBegun \in Nat

Request == Run \cup Feed \cup Delete

VARIABLES
  graph, durable,      \* the graph; whether the storage is PostgreSQL
  row,                 \* the stored session
  heap,                \* the context that the in-memory sessions share
  req,                 \* what each request does
  late,                \* children of a fan-out that was given up, and not yet stopped
  clock, clean         \* now(); no in-memory step was given up or ran beside another

vars == <<graph, durable, row, heap, req, late, clock, clean>>

\* input: who set the user's input; begun: task runs that began; path: those that ended;
\* kids: for each child the run whose result it left.
NewContext == [input |-> {}, begun |-> 0, path |-> <<>>, kids |-> [c \in Child |-> 0]]

NoRow == [task |-> "", ctx |-> NewContext, at |-> 0]

\* alone: no other request was between its load and its answer meanwhile.
Idle == [pc |-> "new", task |-> "", ctx |-> NewContext, kids |-> [c \in Child |-> "idle"],
         at |-> 0, ok |-> FALSE, alone |-> TRUE]

Active(r) == req[r].pc \notin {"new", "answered"}

TypeOK ==
  /\ graph \in Graphs /\ {durable, clean} \subseteq BOOLEAN /\ clock \in Nat
  /\ \A r \in Request : req[r].pc \in {"new", "task", "running", "save", "stamped", "answered"}
  /\ late \subseteq Child \X (1..MaxBegun)
  /\ row.at <= clock

\* Session::new_from_task, saved.
Init ==
  /\ graph \in Graphs /\ durable \in BOOLEAN
  /\ row = [NoRow EXCEPT !.task = graph.start, !.at = 1]
  /\ heap = NewContext
  /\ req = [r \in Request |-> Idle]
  /\ late = {} /\ clock = 1 /\ clean = TRUE

----------------------------------------------------------------------------
(* A graph, and what a context's path says to it.                          *)

Noted(path) == {path[i].task : i \in 1..Len(path)}

\* find_next_task: the first edge whose condition holds, or else the first without one.  A
\* condition is that a task has noted its end.
NextTask(g, from, path) ==
  LET out == SelectSeq(g.edges, LAMBDA e : e.from = from)
      met == SelectSeq(out, LAMBDA e : e.cond \in Noted(path))
      free == SelectSeq(out, LAMBDA e : e.cond = "")
  IN  IF met # <<>> THEN Head(met).to ELSE IF free # <<>> THEN Head(free).to ELSE from

\* execute_session: where the session stands after its task returned an action.
Target(g, task, act, path) ==
  CASE act \in {"Continue", "ContinueAndExecute"} -> NextTask(g, task, path)
    [] act \in {"WaitForInput", "End", "GoBack"}  -> task
    [] OTHER                                      -> act        \* GoTo(act)

\* Whether execute_session goes on to the next task in the same request.
GoesOn(g, task, act, path) ==
  /\ act = "ContinueAndExecute"
  /\ \E i \in 1..Len(g.edges) : g.edges[i].from = task /\ g.edges[i].cond \in Noted(path) \cup {""}

----------------------------------------------------------------------------
(* Storage and contexts.                                                   *)

\* The context that a request works on.
Context(r) == IF durable THEN req[r].ctx ELSE heap

\* The request changes its context to c, and its own state to q.
Put(r, q, c) ==
  /\ req' = [req EXCEPT ![r] = [q EXCEPT !.ctx = IF durable THEN c ELSE @]]
  /\ heap' = IF durable THEN heap ELSE c

Answer(r, ok) == req' = [req EXCEPT ![r] = [Idle EXCEPT !.pc = "answered", !.ok = ok, !.alone = req[r].alone]]

\* A request begins: it and those under way are no longer alone.
Enter(r, q) ==
  LET others == {u \in Request : Active(u)}
  IN  /\ req' = [u \in Request |->
                   CASE u = r        -> [q EXCEPT !.alone = (others = {})]
                     [] u \in others -> [req[u] EXCEPT !.alone = FALSE]
                     [] OTHER        -> req[u]]
      /\ clean' = (clean /\ (others = {} \/ durable))

\* SessionStorage::get.
Get(r) ==
  /\ req[r].pc = "new" /\ r \notin Delete
  /\ IF row.task = "" THEN Answer(r, FALSE) /\ UNCHANGED <<clean, heap>>
     ELSE /\ Enter(r, [req[r] EXCEPT !.pc = IF r \in Run THEN "task" ELSE "save", !.task = row.task,
                         !.ctx = [row.ctx EXCEPT !.input = IF r \in Feed THEN @ \cup {r} ELSE @]])
          /\ heap' = IF r \in Feed /\ ~ durable THEN [heap EXCEPT !.input = @ \cup {r}] ELSE heap
  /\ UNCHANGED <<graph, durable, row, late, clock>>

\* SessionStorage::delete.
Discard(r) ==
  /\ req[r].pc = "new" /\ r \in Delete
  /\ Enter(r, [req[r] EXCEPT !.pc = "answered", !.ok = TRUE])
  /\ row' = NoRow
  /\ UNCHANGED <<graph, durable, heap, late, clock>>

\* InMemorySessionStorage::save.
SaveInMemory(r) ==
  /\ req[r].pc = "save" /\ ~ durable
  /\ row' = [row EXCEPT !.task = req[r].task]
  /\ Answer(r, TRUE)
  /\ UNCHANGED <<graph, durable, heap, late, clock, clean>>

\* PostgresSessionStorage::save begins its transaction; NOW() is its start from here on.
SaveBegins(r) ==
  /\ req[r].pc = "save" /\ durable
  /\ clock' \in {clock, clock + 1}
  /\ req' = [req EXCEPT ![r].pc = "stamped", ![r].at = clock']
  /\ UNCHANGED <<graph, durable, row, heap, late, clean>>

\* Mutant of Overwrites: the stored session must be older.
OverwritesOlder(r) == row.at < req[r].at

\* WHERE sessions.updated_at <= EXCLUDED.updated_at.
Overwrites(r) == row.at <= req[r].at

\* The upsert and its commit; the statements of two saves follow one another by the row's lock.
SaveCommits(r) ==
  /\ req[r].pc = "stamped"
  /\ row' = IF row.task = "" \/ Overwrites(r)
            THEN [task |-> req[r].task, ctx |-> req[r].ctx, at |-> req[r].at]
            ELSE row
  /\ \E ok \in BOOLEAN : Answer(r, ok)         \* the answer may be lost
  /\ UNCHANGED <<graph, durable, heap, late, clock, clean>>

SaveFails(r) ==
  /\ req[r].pc = "stamped"
  /\ Answer(r, FALSE)
  /\ UNCHANGED <<graph, durable, row, heap, late, clock, clean>>

----------------------------------------------------------------------------
(* FlowRunner::run and Graph::execute_session.                             *)

\* execute_single_task: the task is looked up and begins.
TaskBegins(r) ==
  /\ req[r].pc = "task"
  /\ IF req[r].task \notin graph.tasks
     THEN Answer(r, FALSE) /\ clean' = (clean /\ durable) /\ UNCHANGED heap
     ELSE /\ UNCHANGED clean /\ Context(r).begun < MaxBegun
          /\ Put(r, [req[r] EXCEPT !.pc = "running",
                       !.kids = [c \in Child |-> IF req[r].task \in graph.fans THEN "running" ELSE "idle"]],
                    [Context(r) EXCEPT !.begun = @ + 1])
  /\ UNCHANGED <<graph, durable, row, late, clock>>

\* A child of the fan-out ends; join_next writes its result to the context.
ChildEnds(r, c) ==
  /\ req[r].pc = "running" /\ req[r].kids[c] = "running"
  /\ \/ Put(r, [req[r] EXCEPT !.kids[c] = "ok"], [Context(r) EXCEPT !.kids[c] = Context(r).begun])
     \/ Put(r, [req[r] EXCEPT !.kids[c] = "failed"], Context(r))
  /\ UNCHANGED <<graph, durable, row, late, clock, clean>>

\* All children ended, none of them with an error.
Joined(r) == \A c \in Child : req[r].kids[c] \in {"idle", "ok"}

\* The task has ended, and execute_session moves the session on.
TaskEnds(r, act) ==
  LET ctx == [Context(r) EXCEPT !.path = Append(@, [task |-> req[r].task, act |-> act, by |-> r])]
      to  == Target(graph, req[r].task, act, ctx.path)
      lost == to = act /\ to \notin graph.tasks      \* a jump to no task: TaskNotFound
  IN  /\ req[r].pc = "running" /\ Joined(r) /\ act \in graph.acts[req[r].task]
      /\ IF lost THEN Answer(r, FALSE) /\ heap' = IF durable THEN heap ELSE ctx
         ELSE Put(r, [req[r] EXCEPT !.pc = IF GoesOn(graph, req[r].task, act, ctx.path) THEN "task" ELSE "save",
                        !.task = to, !.kids = [c \in Child |-> "idle"]], ctx)
      /\ clean' = (clean /\ (durable \/ ~ lost))
      /\ UNCHANGED <<graph, durable, row, late, clock>>

\* Mutant of GivesUp: what was done is saved.
GivesUpSaving(r) ==
  /\ req[r].pc = "running"
  /\ req' = [req EXCEPT ![r].pc = "save", ![r].kids = [c \in Child |-> "idle"]]
  /\ clean' = (clean /\ durable)
  /\ UNCHANGED <<graph, durable, row, heap, late, clock>>

\* The task fails or exceeds its time, or the caller drops the request.  Children are
\* aborted, but one that is at work goes on to its next await.
GivesUp(r) ==
  /\ req[r].pc \in {"task", "running", "save"}
  /\ Answer(r, FALSE)
  /\ late' = late \cup (IF durable THEN {}
                        ELSE {<<c, heap.begun>> : c \in {c \in Child : req[r].kids[c] = "running"}})
  /\ clean' = (clean /\ durable)
  /\ UNCHANGED <<graph, durable, row, heap, clock>>

\* Such a child writes the shared context, or stops.
LateWrite(l) ==
  /\ late' = late \ {l}
  /\ heap' \in {heap, [heap EXCEPT !.kids[l[1]] = l[2]]}
  /\ UNCHANGED <<graph, durable, row, req, clock, clean>>

Next ==
  \/ \E r \in Request : Get(r) \/ Discard(r) \/ SaveInMemory(r) \/ SaveBegins(r) \/ SaveCommits(r) \/ SaveFails(r)
  \/ \E r \in Run : TaskBegins(r) \/ GivesUp(r)
  \/ \E r \in Run, c \in Child : ChildEnds(r, c)
  \/ \E r \in Run : \E act \in UNION {graph.acts[t] : t \in graph.tasks} : TaskEnds(r, act)
  \/ \E l \in late : LateWrite(l)

Spec == Init /\ [][Next]_vars

----------------------------------------------------------------------------
(* Properties.                                                             *)

\* The context of the stored session.
Stored == IF durable THEN row.ctx ELSE heap

\* Where a session stands that has taken the first n steps of a path.
After(g, path, n) ==
  IF n = 0 THEN g.start ELSE Target(g, path[n].task, path[n].act, SubSeq(path, 1, n))

\* The stored session is what one line of whole steps leads to: each task ran where the
\* step before it left the session, the session stands where the last step left it, no
\* task is half done, and a fan-out has the results of all its children.  In PostgreSQL that
\* is so whatever fails or overlaps, in memory as long as nothing did.
StoredIsOneLine ==
  LET path == Stored.path
      n    == Len(path)
  IN  row.task # "" /\ (durable \/ (clean /\ \A r \in Request : ~ Active(r))) =>
        /\ Stored.begun = n
        /\ \A i \in 1..n : path[i].task = After(graph, path, i - 1)
        /\ row.task = After(graph, path, n)
        /\ n > 0 => (path[n].task \in graph.fans => \A c \in Child : Stored.kids[c] = n)

\* What a request was told is done stays in the session, unless it ran beside another.
AckedStays ==
  \A r \in Run \cup Feed :
    req[r].pc = "answered" /\ req[r].ok /\ req[r].alone /\ row.task # "" =>
      \/ r \in Stored.input
      \/ \E i \in 1..Len(Stored.path) : Stored.path[i].by = r

=============================================================================

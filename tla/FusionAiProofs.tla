---------------------------- MODULE FusionAiProofs ----------------------------
(***************************************************************************)
(* Proofs about fusion-ai: GraphFlow, for any requests, children, graphs   *)
(* and bound, on both storages; AiUsage, for any calls and sizes; FunAsr,  *)
(* for any uplinks and bounds.                                             *)
(***************************************************************************)
EXTENDS GraphFlow, AiUsage, FunAsr, FiniteSetTheorems, SequenceTheorems, TLAPS

----------------------------------------------------------------------------
(* GraphFlow.                                                              *)

Task == UNION {g.tasks : g \in Graphs}
Act  == UNION {UNION {g.acts[t] : t \in g.tasks} : g \in Graphs}
Step == [task : Task, act : Act, by : Run]

Ctx == [input : SUBSET Feed, begun : Nat, path : Seq(Step), kids : [Child -> Nat]]

\* Records of these fields; where a session stands may be any name.
IsRow(x) == x = [task |-> x.task, ctx |-> x.ctx, at |-> x.at] /\ x.ctx \in Ctx /\ x.at \in Nat

IsRequest(q) ==
  /\ q = [pc |-> q.pc, task |-> q.task, ctx |-> q.ctx, kids |-> q.kids, at |-> q.at, ok |-> q.ok, alone |-> q.alone]
  /\ q.pc \in {"new", "task", "running", "save", "stamped", "answered"}
  /\ q.ctx \in Ctx /\ q.at \in Nat /\ q.ok \in BOOLEAN /\ q.alone \in BOOLEAN
  /\ q.kids \in [Child -> {"idle", "running", "ok", "failed"}]

Shapes ==
  /\ graph \in Graphs /\ durable \in BOOLEAN /\ clock \in Nat
  /\ IsRow(row) /\ row.at <= clock
  /\ heap \in Ctx
  /\ req = [r \in Request |-> req[r]]
  /\ \A r \in Request : IsRequest(req[r]) /\ (req[r].pc = "running" => req[r].task \in graph.tasks)
  /\ late \subseteq Child \X Nat

\* Nothing runs beside a request that is alone.
Solo == \A r, s \in Request : r # s /\ Active(r) /\ req[r].alone => ~ Active(s)

\* A save that is alone is not older than the stored session.
InTime ==
  \A r \in Request :
    req[r].pc = "stamped" => durable /\ req[r].at <= clock /\ (req[r].alone => row.at <= req[r].at)

\* What a request leaves in a context: its input, or a step.
Holds(r, c) == r \in c.input \/ \E i \in 1..Len(c.path) : c.path[i].by = r

\* A request that saves has left something in its context.
SavesItsOwn == \A r \in Run \cup Feed : req[r].pc \in {"save", "stamped"} => Holds(r, Context(r))

\* What a request left that was alone and acknowledged is in the stored session, and in
\* every context that may be stored later.
Kept ==
  \A r \in Run \cup Feed :
    req[r].pc = "answered" /\ req[r].ok /\ req[r].alone =>
      /\ durable => /\ row.task # "" => Holds(r, row.ctx)
                    /\ \A s \in Request : Active(s) => Holds(r, req[s].ctx)
      /\ ~ durable => Holds(r, heap)

Safe == Shapes /\ Solo /\ InTime /\ SavesItsOwn /\ Kept

\* A context keeps what requests left in it: its input and its path only grow.
Extends(d, c) == 
  /\ c.input \subseteq d.input
  /\ \A i \in 1..Len(c.path) : i \in 1..Len(d.path) /\ d.path[i] = c.path[i]

LEMMA HoldsExtends == ASSUME NEW r, NEW c, NEW d, Extends(d, c), Holds(r, c) PROVE Holds(r, d)
BY DEF Extends, Holds

\* A step that is noted extends the path and is found there.
LEMMA NoteExtends ==
  ASSUME NEW c \in Ctx, NEW e \in Step
  PROVE  LET d == [c EXCEPT !.path = Append(@, e)]
         IN  d \in Ctx /\ Extends(d, c) /\ Holds(e.by, d)
<1> DEFINE d == [c EXCEPT !.path = Append(@, e)]
<1>1. c.path \in Seq(Step) /\ d.path = Append(c.path, e)
  BY DEF Ctx
<1>2. d.path \in Seq(Step) /\ Len(d.path) = Len(c.path) + 1 /\ d.path[Len(c.path) + 1] = e
      /\ \A i \in 1..Len(c.path) : d.path[i] = c.path[i]
  BY <1>1
<1>3. Len(c.path) \in Nat
  BY <1>1
<1>4. d \in Ctx
  BY <1>2 DEF Ctx
<1>5. Extends(d, c)
  BY <1>2, <1>3 DEF Extends, Ctx
<1>6. Holds(e.by, d)
  BY <1>2, <1>3 DEF Holds
<1> QED BY <1>4, <1>5, <1>6

\* Counting a task and noting a child's result leave input and path alone.
LEMMA CountExtends ==
  ASSUME NEW c \in Ctx
  PROVE  [c EXCEPT !.begun = @ + 1] \in Ctx /\ Extends([c EXCEPT !.begun = @ + 1], c)
BY DEF Ctx, Extends

\* A child's result leaves input and path alone, too.
LEMMA KidExtends ==
  ASSUME NEW c \in Ctx, NEW k \in Child, NEW n \in Nat
  PROVE  [c EXCEPT !.kids[k] = n] \in Ctx /\ Extends([c EXCEPT !.kids[k] = n], c)
BY DEF Ctx, Extends

\* A request that has not begun.
LEMMA IdleRequest == NewContext \in Ctx /\ IsRequest(Idle) /\ Idle.pc = "new"
<1>1. NewContext \in Ctx
  BY DEF NewContext, Ctx
<1>2. IsRequest(Idle) /\ Idle.pc = "new"
  BY <1>1 DEF Idle, IsRequest
<1> QED BY <1>1, <1>2

\* A new session satisfies the invariant.
LEMMA InitSafe == Init => Safe
<1> SUFFICES ASSUME Init PROVE Safe
  OBVIOUS
<1>1. NewContext \in Ctx
  BY IdleRequest
<1>2. Shapes
  <2>1. IsRow(row) /\ row.at <= clock
    <3>1. row = [task |-> graph.start, ctx |-> NewContext, at |-> 1] /\ clock = 1
      BY DEF Init, NoRow
    <3> QED BY <1>1, <3>1 DEF IsRow
  <2>2. IsRequest(Idle) /\ Idle.pc # "running"
    BY IdleRequest
  <2>3. req = [r \in Request |-> req[r]] /\ \A r \in Request : req[r] = Idle
    BY DEF Init
  <2> QED BY <1>1, <2>1, <2>2, <2>3 DEF Init, Shapes
<1>3. \A r \in Request : req[r].pc = "new"
  BY DEF Init, Idle
<1>4. Solo /\ InTime /\ SavesItsOwn /\ Kept
  BY <1>3 DEF Solo, InTime, SavesItsOwn, Kept, Active, Request
<1> QED BY <1>2, <1>4 DEF Safe

\* A request under way goes on, without an acknowledgement and without touching the row.
LEMMA GoesOnSafe ==
  ASSUME Safe, NEW r \in Request, NEW q, IsRequest(q), q.alone = req[r].alone,
         (Active(r) /\ q.pc # "new") \/ q.pc = "answered",
         req' = [req EXCEPT ![r] = q],
         UNCHANGED <<graph, durable, row>>, clock' \in Nat, clock <= clock',
         heap' \in Ctx, Extends(heap', heap), late' \subseteq Child \X Nat,
         q.pc = "answered" => ~ q.ok,
         q.pc # "answered" => Extends(q.ctx, req[r].ctx),
         q.pc = "running" => q.task \in graph.tasks,
         q.pc = "stamped" => durable /\ row.at <= q.at /\ q.at <= clock',
         q.pc \in {"save", "stamped"} /\ r \in Run \cup Feed =>
           Holds(r, IF durable THEN q.ctx ELSE heap')
  PROVE  Safe'
<1>1. req'[r] = q /\ \A s \in Request : s # r => req'[s] = req[s]
  BY DEF Safe, Shapes
<1>2. Shapes'
  <2>1. req' = [s \in Request |-> req'[s]]
    BY DEF Safe, Shapes
  <2>2. IsRow(row') /\ row'.at <= clock'
    BY DEF Safe, Shapes, IsRow
  <2> QED BY <1>1, <2>1, <2>2 DEF Safe, Shapes
<1>3. \A s \in Request : Active(s)' => Active(s)
  BY <1>1 DEF Active
<1>4. \A s \in Request : req'[s].alone = req[s].alone
  BY <1>1
<1>5. Solo'
  BY <1>3, <1>4 DEF Safe, Solo
<1>6. InTime'
  <2>1. \A s \in Request : req[s].at \in Nat /\ clock \in Nat
    BY DEF Safe, Shapes, IsRequest
  <2> QED BY <1>1, <2>1 DEF Safe, InTime
<1>7. SavesItsOwn'
  <2> SUFFICES ASSUME NEW s \in Run \cup Feed, req'[s].pc \in {"save", "stamped"}
               PROVE  Holds(s, Context(s)')
    BY DEF SavesItsOwn
  <2>1. CASE s = r
    BY <1>1, <2>1 DEF Context
  <2>2. CASE s # r
    <3>1. Holds(s, Context(s)) /\ req'[s] = req[s]
      BY <1>1, <2>2 DEF Safe, SavesItsOwn, Request
    <3> QED BY <3>1, HoldsExtends DEF Context
  <2> QED BY <2>1, <2>2
<1>8. Kept'
  <2> SUFFICES ASSUME NEW s \in Run \cup Feed, req'[s].pc = "answered", req'[s].ok, req'[s].alone
               PROVE  /\ durable => /\ row.task # "" => Holds(s, row.ctx)
                                    /\ \A t \in Request : Active(t)' => Holds(s, req'[t].ctx)
                      /\ ~ durable => Holds(s, heap')
    BY DEF Kept
  <2>1. s # r /\ req'[s] = req[s]
    BY <1>1 DEF Request
  <2>2. /\ durable => /\ row.task # "" => Holds(s, row.ctx)
                      /\ \A t \in Request : Active(t) => Holds(s, req[t].ctx)
        /\ ~ durable => Holds(s, heap)
    BY <2>1 DEF Safe, Kept
  <2>3. ASSUME NEW t \in Request, Active(t)', durable PROVE Holds(s, req'[t].ctx)
    <3>1. Holds(s, req[t].ctx)
      BY <1>3, <2>2, <2>3
    <3>2. t # r => req'[t].ctx = req[t].ctx
      BY <1>1
    <3>3. t = r => Extends(req'[t].ctx, req[t].ctx)
      BY <1>1, <2>3 DEF Active
    <3> QED BY <3>1, <3>2, <3>3, HoldsExtends
  <2> QED BY <2>2, <2>3, HoldsExtends
<1> QED BY <1>2, <1>5, <1>6, <1>7, <1>8 DEF Safe

\* What Put and Answer make of a request.
LEMMA PutRequest ==
  ASSUME Safe, NEW r \in Request, NEW q, NEW c, Put(r, q, c), IsRequest(q), c \in Ctx
  PROVE  \E p : /\ req' = [req EXCEPT ![r] = p] /\ IsRequest(p)
               /\ p.pc = q.pc /\ p.task = q.task /\ p.alone = q.alone /\ p.at = q.at
               /\ p.ctx = (IF durable THEN c ELSE q.ctx) /\ heap' = (IF durable THEN heap ELSE c)
               /\ p.kids = q.kids
<1> DEFINE p == [q EXCEPT !.ctx = IF durable THEN c ELSE @]
<1>1. p = [pc |-> q.pc, task |-> q.task, ctx |-> (IF durable THEN c ELSE q.ctx),
           kids |-> q.kids, at |-> q.at, ok |-> q.ok, alone |-> q.alone]
  BY DEF IsRequest
<1>2. req' = [req EXCEPT ![r] = p]
  BY DEF Put
<1> HIDE DEF p
<1>3. IsRequest(p)
  BY <1>1 DEF IsRequest
<1>4. /\ p.pc = q.pc /\ p.task = q.task /\ p.alone = q.alone /\ p.at = q.at
      /\ p.ctx = (IF durable THEN c ELSE q.ctx) /\ p.kids = q.kids
  BY <1>1
<1> QED BY <1>2, <1>3, <1>4 DEF Put

\* What Answer makes of it: it is answered, and keeps what it has written.
LEMMA AnswerRequest ==
  ASSUME Safe, NEW r \in Request, NEW ok \in BOOLEAN, Answer(r, ok)
  PROVE  \E p : /\ req' = [req EXCEPT ![r] = p] /\ IsRequest(p)
               /\ p.pc = "answered" /\ p.ok = ok /\ p.alone = req[r].alone
<1> DEFINE p == [Idle EXCEPT !.pc = "answered", !.ok = ok, !.alone = req[r].alone]
<1>1. p = [Idle EXCEPT !.pc = "answered", !.ok = ok, !.alone = req[r].alone]
  OBVIOUS
<1>2. req' = [req EXCEPT ![r] = p]
  BY DEF Answer
<1> HIDE DEF p
<1>3. req[r].alone \in BOOLEAN
  BY DEF Safe, Shapes, IsRequest
<1>4. IsRequest(p)
  BY <1>1, <1>3, IdleRequest DEF IsRequest
<1>5. p.pc = "answered" /\ p.ok = ok /\ p.alone = req[r].alone
  BY <1>1, IdleRequest DEF IsRequest
<1> QED BY <1>2, <1>4, <1>5

\* A context extends itself.
LEMMA ExtendsSelf == ASSUME NEW c PROVE Extends(c, c)
BY DEF Extends

\* An answer that acknowledges nothing.
LEMMA RefusalSafe ==
  ASSUME Safe, NEW r \in Request, Answer(r, FALSE),
         UNCHANGED <<graph, durable, row, clock>>, heap' \in Ctx, Extends(heap', heap),
         late' \subseteq Child \X Nat
  PROVE  Safe'
<1>1. PICK p : /\ req' = [req EXCEPT ![r] = p] /\ IsRequest(p)
               /\ p.pc = "answered" /\ p.ok = FALSE /\ p.alone = req[r].alone
  BY AnswerRequest
<1>2. clock' \in Nat /\ clock <= clock'
  BY DEF Safe, Shapes
<1> QED BY <1>1, <1>2, GoesOnSafe

\* A request goes on in its task, and writes its context.
LEMMA PutSafe ==
  ASSUME Safe, NEW r \in Request, Active(r), NEW q, NEW c, Put(r, q, c),
         IsRequest(q), q.pc \in {"task", "running", "save"}, q.alone = req[r].alone, q.ctx = req[r].ctx,
         c \in Ctx, Extends(c, Context(r)),
         UNCHANGED <<graph, durable, row, late, clock>>,
         q.pc = "running" => q.task \in graph.tasks,
         q.pc = "save" => Holds(r, c)
  PROVE  Safe'
<1>1. PICK p : /\ req' = [req EXCEPT ![r] = p] /\ IsRequest(p)
               /\ p.pc = q.pc /\ p.task = q.task /\ p.alone = q.alone
               /\ p.ctx = (IF durable THEN c ELSE q.ctx) /\ heap' = (IF durable THEN heap ELSE c)
  BY PutRequest
<1>2. heap' \in Ctx /\ Extends(heap', heap) /\ Extends(p.ctx, req[r].ctx)
  BY <1>1, ExtendsSelf DEF Context, Safe, Shapes
<1>3. clock' \in Nat /\ clock <= clock' /\ late' \subseteq Child \X Nat
  BY DEF Safe, Shapes
<1> QED BY <1>1, <1>2, <1>3, GoesOnSafe

\* What a request under way works on.
LEMMA WorksOn ==
  ASSUME Safe, NEW r \in Request PROVE IsRequest(req[r]) /\ heap \in Ctx /\ Context(r) \in Ctx
BY DEF Safe, Shapes, Context, IsRequest

\* A task begins: its beginning is counted.
LEMMA TaskBeginsSafe == ASSUME Safe, NEW r \in Run, TaskBegins(r) PROVE Safe'
<1>1. r \in Request /\ Active(r) /\ IsRequest(req[r]) /\ heap \in Ctx /\ Context(r) \in Ctx
  BY WorksOn DEF TaskBegins, Active, Request
<1>2. CASE req[r].task \notin graph.tasks
  BY <1>1, <1>2, RefusalSafe, ExtendsSelf DEF TaskBegins, Safe, Shapes
<1>3. CASE req[r].task \in graph.tasks
  <2> DEFINE K == [c \in Child |-> IF req[r].task \in graph.fans THEN "running" ELSE "idle"]
             q == [req[r] EXCEPT !.pc = "running", !.kids = K]
             c == [Context(r) EXCEPT !.begun = @ + 1]
  <2>1. c \in Ctx /\ Extends(c, Context(r))
    BY <1>1, CountExtends
  <2>2. K \in [Child -> {"idle", "running", "ok", "failed"}]
    OBVIOUS
  <2>3. Put(r, q, c) /\ UNCHANGED <<graph, durable, row, late, clock>>
    BY <1>3 DEF TaskBegins
  <2> HIDE DEF K
  <2>4. q = [req[r] EXCEPT !.pc = "running", !.kids = K]
    OBVIOUS
  <2> HIDE DEF q, c
  <2>5. /\ IsRequest(q) /\ q.pc = "running" /\ q.task = req[r].task
        /\ q.alone = req[r].alone /\ q.ctx = req[r].ctx
    BY <1>1, <2>2, <2>4 DEF IsRequest
  <2> QED BY <1>1, <1>3, <2>1, <2>3, <2>5, PutSafe
<1> QED BY <1>2, <1>3

\* A child of a fan-out ends: at most its result is written.
LEMMA ChildEndsSafe == ASSUME Safe, NEW r \in Run, NEW k \in Child, ChildEnds(r, k) PROVE Safe'
<1>1. r \in Request /\ Active(r) /\ IsRequest(req[r]) /\ Context(r) \in Ctx /\ req[r].task \in graph.tasks
  BY WorksOn DEF ChildEnds, Active, Request, Safe, Shapes
<1>2. ASSUME NEW how \in {"ok", "failed"}, NEW c, c \in Ctx, Extends(c, Context(r)),
             Put(r, [req[r] EXCEPT !.kids[k] = how], c)
      PROVE  Safe'
  <2> DEFINE K == [req[r].kids EXCEPT ![k] = how]
             q == [req[r] EXCEPT !.kids = K]
  <2>1. K \in [Child -> {"idle", "running", "ok", "failed"}] /\ req[r].pc = "running"
    BY <1>1 DEF ChildEnds, IsRequest
  <2>2. Put(r, q, c)
    BY <1>2
  <2>3. q = [req[r] EXCEPT !.kids = K]
    OBVIOUS
  <2> HIDE DEF K, q
  <2>4. /\ IsRequest(q) /\ q.pc = "running" /\ q.task = req[r].task
        /\ q.alone = req[r].alone /\ q.ctx = req[r].ctx
    BY <1>1, <2>1, <2>3 DEF IsRequest
  <2>5. UNCHANGED <<graph, durable, row, late, clock>>
    BY DEF ChildEnds
  <2> QED BY <1>1, <1>2, <2>2, <2>4, <2>5, PutSafe
<1>3. LET c == [Context(r) EXCEPT !.kids[k] = Context(r).begun] IN c \in Ctx /\ Extends(c, Context(r))
  BY <1>1, KidExtends DEF Ctx
<1>4. Extends(Context(r), Context(r))
  BY ExtendsSelf
<1> QED BY <1>1, <1>2, <1>3, <1>4 DEF ChildEnds

\* A task ends: its step is noted, and belongs to the request.
LEMMA TaskEndsSafe == ASSUME Safe, NEW r \in Run, NEW act, TaskEnds(r, act) PROVE Safe'
<1> DEFINE e   == [task |-> req[r].task, act |-> act, by |-> r]
           ctx == [Context(r) EXCEPT !.path = Append(@, e)]
           to  == Target(graph, req[r].task, act, ctx.path)
           lost == to = act /\ to \notin graph.tasks
<1>1. r \in Request /\ Active(r) /\ IsRequest(req[r]) /\ heap \in Ctx /\ Context(r) \in Ctx
  BY WorksOn DEF TaskEnds, Active, Request
<1>2. e \in Step /\ e.by = r
  <2>1. graph \in Graphs /\ req[r].task \in graph.tasks /\ act \in graph.acts[req[r].task]
    BY <1>1 DEF TaskEnds, Safe, Shapes
  <2>2. req[r].task \in Task
    BY <2>1 DEF Task
  <2>3. act \in Act
    BY <2>1 DEF Act
  <2> QED BY <2>2, <2>3 DEF Step
<1> HIDE DEF e
<1>3. ctx \in Ctx /\ Extends(ctx, Context(r)) /\ Holds(r, ctx)
  BY <1>1, <1>2, NoteExtends
<1>4. UNCHANGED <<graph, durable, row, late, clock>>
  BY DEF TaskEnds
<1>5. CASE lost
  <2>1. Answer(r, FALSE) /\ heap' = IF durable THEN heap ELSE ctx
    BY <1>5 DEF TaskEnds, e
  <2> HIDE DEF ctx
  <2>2. heap' \in Ctx /\ Extends(heap', heap) /\ late' \subseteq Child \X Nat
    BY <1>1, <1>3, <1>4, <2>1, ExtendsSelf DEF Context, Safe, Shapes
  <2> QED BY <1>1, <1>4, <2>1, <2>2, RefusalSafe
<1>6. CASE ~ lost
  <2> DEFINE K == [c \in Child |-> "idle"]
             pc == IF GoesOn(graph, req[r].task, act, ctx.path) THEN "task" ELSE "save"
             q == [req[r] EXCEPT !.pc = pc, !.task = to, !.kids = K]
  <2>1. Put(r, q, ctx)
    BY <1>6 DEF TaskEnds, e
  <2>2. K \in [Child -> {"idle", "running", "ok", "failed"}] /\ pc \in {"task", "save"}
    OBVIOUS
  <2> HIDE DEF K, pc, to, ctx
  <2>3. q = [req[r] EXCEPT !.pc = pc, !.task = to, !.kids = K]
    OBVIOUS
  <2> HIDE DEF q
  <2>4. /\ IsRequest(q) /\ q.pc = pc /\ q.alone = req[r].alone /\ q.ctx = req[r].ctx
    BY <1>1, <2>2, <2>3 DEF IsRequest
  <2> QED BY <1>1, <1>3, <1>4, <2>1, <2>2, <2>4, PutSafe
<1> QED BY <1>5, <1>6

\* A request that is given up acknowledges nothing.
LEMMA GivesUpSafe == ASSUME Safe, NEW r \in Run, GivesUp(r) PROVE Safe'
<1>1. r \in Request /\ Active(r) /\ heap \in Ctx
  BY WorksOn DEF GivesUp, Active, Request
<1>2. late' \subseteq Child \X Nat
  BY <1>1 DEF GivesUp, Safe, Shapes, Ctx
<1> QED BY <1>1, <1>2, RefusalSafe, ExtendsSelf DEF GivesUp

\* A save that fails acknowledges nothing.
LEMMA SaveFailsSafe == ASSUME Safe, NEW r \in Request, SaveFails(r) PROVE Safe'
<1>1. Active(r) /\ heap \in Ctx /\ late' \subseteq Child \X Nat
  BY DEF SaveFails, Active, Safe, Shapes
<1> QED BY <1>1, RefusalSafe, ExtendsSelf DEF SaveFails

\* A save takes its time stamp, which is not before any that is stored.
LEMMA SaveBeginsSafe == ASSUME Safe, NEW r \in Request, SaveBegins(r) PROVE Safe'
<1> DEFINE q == [req[r] EXCEPT !.pc = "stamped", !.at = clock']
<1>1. Active(r) /\ IsRequest(req[r]) /\ heap \in Ctx /\ late' \subseteq Child \X Nat
  BY WorksOn DEF SaveBegins, Active, Safe, Shapes
<1>2. clock' \in Nat /\ clock <= clock' /\ row.at <= clock' /\ row.at \in Nat /\ clock' <= clock'
  BY DEF SaveBegins, Safe, Shapes, IsRow
<1>3. req' = [req EXCEPT ![r] = q] /\ q = [req[r] EXCEPT !.pc = "stamped", !.at = clock']
  BY DEF SaveBegins, Safe, Shapes
<1> HIDE DEF q
<1>4. IsRequest(q) /\ q.pc = "stamped" /\ q.at = clock' /\ q.alone = req[r].alone /\ q.ctx = req[r].ctx
  BY <1>1, <1>2, <1>3 DEF IsRequest
<1>5. r \in Run \cup Feed => Holds(r, IF durable THEN q.ctx ELSE heap')
  BY <1>4 DEF SaveBegins, Safe, SavesItsOwn, Context
<1>6. UNCHANGED <<graph, durable, row, heap>> /\ durable
  BY DEF SaveBegins
<1> QED BY <1>1, <1>2, <1>3, <1>4, <1>5, <1>6, ExtendsSelf, GoesOnSafe

\* An acknowledged save: what is stored then, and what others may still store.
LEMMA SavedSafe ==
  ASSUME Safe, NEW r \in Request, NEW ok \in BOOLEAN, Answer(r, ok), Active(r),
         UNCHANGED <<graph, durable, heap, late, clock>>, IsRow(row'), row'.at <= clock,
         r \in Run \cup Feed /\ ok /\ req[r].alone /\ durable /\ row'.task # "" => Holds(r, row'.ctx),
         r \in Run \cup Feed /\ ~ durable => Holds(r, heap),
         \/ row'.at = row.at /\ row'.ctx = row.ctx /\ (durable => row'.task = row.task)
         \/ durable /\ row'.ctx = req[r].ctx
  PROVE  Safe'
<1>1. PICK p : /\ req' = [req EXCEPT ![r] = p] /\ IsRequest(p)
               /\ p.pc = "answered" /\ p.ok = ok /\ p.alone = req[r].alone
  BY AnswerRequest
<1>2. req'[r] = p /\ \A s \in Request : s # r => req'[s] = req[s]
  BY <1>1 DEF Safe, Shapes
<1>3. Shapes'
  <2>1. req' = [s \in Request |-> req'[s]]
    BY <1>1 DEF Safe, Shapes
  <2> QED BY <1>1, <1>2, <2>1 DEF Safe, Shapes, IsRow
<1>4. ~ Active(r)' /\ \A s \in Request : Active(s)' => s # r /\ Active(s)
  BY <1>1, <1>2 DEF Active
<1>5. Solo'
  BY <1>1, <1>2, <1>4 DEF Safe, Solo
<1>6. InTime'
  <2> SUFFICES ASSUME NEW s \in Request, req'[s].pc = "stamped"
               PROVE  durable' /\ req'[s].at <= clock' /\ (req'[s].alone => row'.at <= req'[s].at)
    BY DEF InTime
  <2>1. s # r /\ req'[s] = req[s] /\ Active(s)
    BY <1>1, <1>2 DEF Active
  <2>2. durable /\ req[s].at <= clock /\ ~ req[s].alone
    BY <2>1 DEF Safe, InTime, Solo
  <2> QED BY <2>1, <2>2
<1>7. SavesItsOwn'
  BY <1>1, <1>2 DEF Safe, SavesItsOwn, Context, Request
<1>8. Kept'
  <2> SUFFICES ASSUME NEW s \in Run \cup Feed, req'[s].pc = "answered", req'[s].ok, req'[s].alone
               PROVE  /\ durable => /\ row'.task # "" => Holds(s, row'.ctx)
                                    /\ \A t \in Request : Active(t)' => Holds(s, req'[t].ctx)
                      /\ ~ durable => Holds(s, heap)
    BY DEF Kept
  <2>1. CASE s = r
    <3>1. \A t \in Request : ~ Active(t)'
      BY <1>1, <1>2, <1>4, <2>1 DEF Safe, Solo
    <3> QED BY <1>1, <1>2, <2>1, <3>1
  <2>2. CASE s # r
    <3>1. /\ durable => /\ row.task # "" => Holds(s, row.ctx)
                        /\ \A t \in Request : Active(t) => Holds(s, req[t].ctx)
          /\ ~ durable => Holds(s, heap)
      BY <1>2, <2>2 DEF Safe, Kept, Request
    <3>2. durable => (row'.task # "" => Holds(s, row'.ctx))
      BY <3>1
    <3>3. durable => \A t \in Request : Active(t)' => Holds(s, req'[t].ctx)
      BY <1>2, <1>4, <3>1
    <3> QED BY <3>1, <3>2, <3>3
  <2> QED BY <2>1, <2>2
<1> QED BY <1>3, <1>5, <1>6, <1>7, <1>8 DEF Safe

\* The in-memory store is written in one step.
LEMMA SaveInMemorySafe == ASSUME Safe, NEW r \in Request, SaveInMemory(r) PROVE Safe'
<1>1. Active(r) /\ IsRow(row) /\ row.at <= clock
  BY DEF SaveInMemory, Active, Safe, Shapes
<1>2. row' = [row EXCEPT !.task = req[r].task] /\ ~ durable
  BY DEF SaveInMemory
<1>3. IsRow(row') /\ row'.at = row.at /\ row'.ctx = row.ctx
  BY <1>1, <1>2 DEF IsRow
<1>4. r \in Run \cup Feed => Holds(r, heap)
  BY <1>2 DEF SaveInMemory, Safe, SavesItsOwn, Context
<1> QED BY <1>1, <1>2, <1>3, <1>4, SavedSafe DEF SaveInMemory

\* A save that was alone is not skipped: nothing was stored since its time stamp.
LEMMA SaveCommitsSafe == ASSUME Safe, NEW r \in Request, SaveCommits(r) PROVE Safe'
<1>1. Active(r) /\ IsRow(row) /\ row.at <= clock /\ IsRequest(req[r])
  BY WorksOn DEF SaveCommits, Active, Safe, Shapes
<1>2. durable /\ (req[r].alone => row.at <= req[r].at)
  BY DEF SaveCommits, Safe, InTime
<1>3. PICK ok \in BOOLEAN : Answer(r, ok)
  BY DEF SaveCommits
<1>4. r \in Run \cup Feed => Holds(r, req[r].ctx)
  BY <1>2 DEF SaveCommits, Safe, SavesItsOwn, Context
<1>5. CASE row.task = "" \/ Overwrites(r)
  <2>1. row' = [task |-> req[r].task, ctx |-> req[r].ctx, at |-> req[r].at]
    BY <1>5 DEF SaveCommits
  <2>2. IsRow(row') /\ row'.ctx = req[r].ctx /\ row'.at = req[r].at
    BY <1>1, <2>1 DEF IsRow, IsRequest
  <2>3. req[r].at <= clock
    BY DEF SaveCommits, Safe, InTime
  <2> QED BY <1>1, <1>2, <1>3, <1>4, <2>2, <2>3, SavedSafe DEF SaveCommits
<1>6. CASE row.task # "" /\ ~ Overwrites(r)
  <2>1. row' = row /\ ~ req[r].alone
    BY <1>2, <1>6 DEF SaveCommits, Overwrites
  <2> QED BY <1>1, <1>2, <1>3, <2>1, SavedSafe DEF SaveCommits
<1> QED BY <1>5, <1>6

\* A request enters: it and the others are alone no longer, or it is the only one.
LEMMA EnterRequests ==
  ASSUME Safe, NEW r \in Request, ~ Active(r), NEW q, IsRequest(q), Enter(r, q)
  PROVE  /\ req' = [s \in Request |-> req'[s]]
         /\ \A s \in Request : IsRequest(req'[s])
         /\ req'[r].pc = q.pc /\ req'[r].ctx = q.ctx /\ req'[r].at = q.at /\ req'[r].task = q.task
         /\ req'[r].alone <=> \A s \in Request : ~ Active(s)
         /\ \A s \in Request : s # r => /\ req'[s].pc = req[s].pc /\ req'[s].task = req[s].task
                                         /\ req'[s].ctx = req[s].ctx /\ req'[s].at = req[s].at
                                         /\ req'[s].ok = req[s].ok /\ req'[s].kids = req[s].kids
                                         /\ req'[s].alone = (req[s].alone /\ ~ Active(s))
<1> DEFINE others == {u \in Request : Active(u)}
           b == (others = {})
           p == [q EXCEPT !.alone = b]
<1>1. req' = [u \in Request |-> CASE u = r -> p
                                [] u \in others -> [req[u] EXCEPT !.alone = FALSE]
                                [] OTHER -> req[u]]
  BY DEF Enter
<1>2. b \in BOOLEAN /\ (b <=> \A s \in Request : ~ Active(s))
  OBVIOUS
<1>3. req'[r] = p
  BY <1>1
<1>4. p = [q EXCEPT !.alone = b]
  OBVIOUS
<1>5. \A s \in Request : s # r =>
         req'[s] = IF Active(s) THEN [req[s] EXCEPT !.alone = FALSE] ELSE req[s]
  BY <1>1
<1>6. req' = [s \in Request |-> req'[s]]
  BY <1>1
<1> HIDE DEF b, p, others
<1>7. IsRequest(p) /\ p.pc = q.pc /\ p.ctx = q.ctx /\ p.at = q.at /\ p.task = q.task /\ p.alone = b
  BY <1>2, <1>4 DEF IsRequest
<1>8. ASSUME NEW s \in Request, s # r
      PROVE  /\ IsRequest(req'[s]) /\ req'[s].pc = req[s].pc /\ req'[s].task = req[s].task
             /\ req'[s].ctx = req[s].ctx /\ req'[s].at = req[s].at
             /\ req'[s].ok = req[s].ok /\ req'[s].kids = req[s].kids
             /\ req'[s].alone = (req[s].alone /\ ~ Active(s))
  <2>1. IsRequest(req[s])
    BY WorksOn
  <2>2. CASE Active(s)
    BY <1>5, <1>8, <2>1, <2>2 DEF IsRequest
  <2>3. CASE ~ Active(s)
    BY <1>5, <1>8, <2>1, <2>3 DEF IsRequest
  <2> QED BY <2>2, <2>3
<1> QED BY <1>2, <1>3, <1>6, <1>7, <1>8

\* A storage without the session.
LEMMA NoRowFits == Shapes => IsRow(NoRow) /\ NoRow.at <= clock
<1>1. IsRow(NoRow) /\ NoRow.at = 0
  BY IdleRequest DEF NoRow, IsRow
<1>2. Shapes => 0 <= clock
  BY DEF Shapes
<1> QED BY <1>1, <1>2

\* A request that enters, with what it loaded, stores and acknowledges nothing yet.
LEMMA EnterSafe ==
  ASSUME Safe, NEW r \in Request, ~ Active(r), NEW q, IsRequest(q), Enter(r, q),
         q.pc \in {"task", "save", "answered"},
         q.pc = "answered" => r \in Delete,
         q.pc # "answered" => Extends(q.ctx, row.ctx) /\ row.task # "",
         q.pc = "save" => Holds(r, IF durable THEN q.ctx ELSE heap'),
         heap' \in Ctx, Extends(heap', heap), row' = row \/ row' = NoRow,
         UNCHANGED <<graph, durable, late, clock>>
  PROVE  Safe'
<1>1. /\ req' = [s \in Request |-> req'[s]]
      /\ \A s \in Request : IsRequest(req'[s])
      /\ req'[r].pc = q.pc /\ req'[r].ctx = q.ctx
      /\ req'[r].alone <=> \A s \in Request : ~ Active(s)
  BY EnterRequests
<1>2. \A s \in Request : s # r => /\ req'[s].pc = req[s].pc /\ req'[s].task = req[s].task
                                  /\ req'[s].ctx = req[s].ctx /\ req'[s].at = req[s].at
                                  /\ req'[s].ok = req[s].ok
                                  /\ req'[s].alone = (req[s].alone /\ ~ Active(s))
  BY EnterRequests
<1>3. IsRow(row') /\ row'.at <= clock
  <2>1. IsRow(NoRow) /\ NoRow.at <= clock
    BY NoRowFits DEF Safe
  <2>2. IsRow(row) /\ row.at <= clock
    BY DEF Safe, Shapes
  <2>3. CASE row' = row
    <3>1. IsRow(row')
      BY <2>2, <2>3
    <3>2. row'.at <= clock
      BY <2>2, <2>3
    <3> QED BY <3>1, <3>2
  <2>4. CASE row' = NoRow
    <3>1. IsRow(row')
      BY <2>1, <2>4
    <3>2. row'.at <= clock
      BY <2>1, <2>4
    <3> QED BY <3>1, <3>2
  <2> QED BY <2>3, <2>4
<1>4. Shapes'
  BY <1>1, <1>2, <1>3 DEF Safe, Shapes, IsRow
<1>5. \A s \in Request : Active(s)' => s = r \/ Active(s)
  BY <1>2 DEF Active
<1>6. Solo'
  BY <1>1, <1>2, <1>5 DEF Safe, Solo, Active
<1>7. InTime'
  BY <1>1, <1>2 DEF Safe, InTime, Active
<1>8. SavesItsOwn'
  <2> SUFFICES ASSUME NEW s \in Run \cup Feed, req'[s].pc \in {"save", "stamped"}
               PROVE  Holds(s, Context(s)')
    BY DEF SavesItsOwn
  <2>1. CASE s = r
    BY <1>1, <2>1 DEF Context
  <2>2. CASE s # r
    <3>1. Holds(s, Context(s)) /\ req'[s].ctx = req[s].ctx
      BY <1>2, <2>2 DEF Safe, SavesItsOwn, Request
    <3> QED BY <3>1, HoldsExtends DEF Context
  <2> QED BY <2>1, <2>2
<1>9. Kept'
  <2> SUFFICES ASSUME NEW s \in Run \cup Feed, req'[s].pc = "answered", req'[s].ok, req'[s].alone
               PROVE  /\ durable => /\ row'.task # "" => Holds(s, row'.ctx)
                                    /\ \A t \in Request : Active(t)' => Holds(s, req'[t].ctx)
                      /\ ~ durable => Holds(s, heap')
    BY DEF Kept
  <2>1. s \in Request /\ s # r
    BY <1>1, FlowAssumption DEF FlowAssumption, Request
  <2>2. /\ durable => /\ row.task # "" => Holds(s, row.ctx)
                      /\ \A t \in Request : Active(t) => Holds(s, req[t].ctx)
        /\ ~ durable => Holds(s, heap)
    BY <1>2, <2>1 DEF Safe, Kept
  <2>3. durable /\ row'.task # "" => Holds(s, row'.ctx)
    <3>1. NoRow.task = ""
      BY DEF NoRow
    <3> QED BY <2>2, <3>1
  <2>4. ASSUME NEW t \in Request, Active(t)', durable PROVE Holds(s, req'[t].ctx)
    <3>1. CASE t = r
      BY <1>1, <2>2, <2>4, <3>1, HoldsExtends DEF Active
    <3>2. CASE t # r
      BY <1>2, <1>5, <2>2, <2>4, <3>2
    <3> QED BY <3>1, <3>2
  <2> QED BY <2>2, <2>3, <2>4, HoldsExtends
<1> QED BY <1>4, <1>6, <1>7, <1>8, <1>9 DEF Safe

\* A loaded session holds what the stored one holds; a feed adds its input.
LEMMA GetSafe == ASSUME Safe, NEW r \in Request, Get(r) PROVE Safe'
<1>1. ~ Active(r) /\ r \in Run \cup Feed /\ IsRequest(req[r]) /\ heap \in Ctx /\ IsRow(row)
  BY WorksOn DEF Get, Active, Request, Safe, Shapes
<1>2. UNCHANGED <<graph, durable, row, late, clock>> /\ late' \subseteq Child \X Nat
  BY DEF Get, Safe, Shapes
<1>3. CASE row.task = ""
  BY <1>1, <1>2, <1>3, RefusalSafe, ExtendsSelf DEF Get
<1>4. CASE row.task # ""
  <2> DEFINE pc == IF r \in Run THEN "task" ELSE "save"
             c == [row.ctx EXCEPT !.input = IF r \in Feed THEN @ \cup {r} ELSE @]
             q == [req[r] EXCEPT !.pc = pc, !.task = row.task, !.ctx = c]
  <2>1. Enter(r, q) /\ heap' = IF r \in Feed /\ ~ durable THEN [heap EXCEPT !.input = @ \cup {r}] ELSE heap
    BY <1>4 DEF Get
  <2>2. c \in Ctx /\ Extends(c, row.ctx) /\ (r \in Feed => Holds(r, c))
    BY <1>1 DEF Ctx, Extends, Holds, IsRow
  <2>3. heap' \in Ctx /\ Extends(heap', heap) /\ (r \in Feed /\ ~ durable => Holds(r, heap'))
    BY <1>1, <2>1 DEF Ctx, Extends, Holds
  <2>4. pc \in {"task", "save"} /\ (pc = "save" => r \in Feed)
    BY <1>1
  <2> HIDE DEF pc, c
  <2>5. q = [req[r] EXCEPT !.pc = pc, !.task = row.task, !.ctx = c]
    OBVIOUS
  <2> HIDE DEF q
  <2>6. IsRequest(q) /\ q.pc = pc /\ q.ctx = c
    BY <1>1, <2>2, <2>4, <2>5 DEF IsRequest
  <2> QED BY <1>1, <1>2, <1>4, <2>1, <2>2, <2>3, <2>4, <2>6, EnterSafe
<1> QED BY <1>3, <1>4

\* A deletion leaves no session that lacks anything.
LEMMA DiscardSafe == ASSUME Safe, NEW r \in Request, Discard(r) PROVE Safe'
<1> DEFINE q == [req[r] EXCEPT !.pc = "answered", !.ok = TRUE]
<1>1. ~ Active(r) /\ r \in Delete /\ IsRequest(req[r]) /\ heap \in Ctx
  BY WorksOn DEF Discard, Active
<1>2. Enter(r, q) /\ q = [req[r] EXCEPT !.pc = "answered", !.ok = TRUE]
  BY DEF Discard
<1> HIDE DEF q
<1>3. IsRequest(q) /\ q.pc = "answered"
  BY <1>1, <1>2 DEF IsRequest
<1> QED BY <1>1, <1>2, <1>3, ExtendsSelf, EnterSafe DEF Discard

\* A child that was given up writes its result, at most.
LEMMA LateWriteSafe == ASSUME Safe, NEW l \in late, LateWrite(l) PROVE Safe'
<1>1. l[1] \in Child /\ l[2] \in Nat /\ heap \in Ctx
  BY DEF Safe, Shapes
<1>2. heap' \in Ctx /\ Extends(heap', heap)
  BY <1>1, KidExtends, ExtendsSelf DEF LateWrite
<1>3. UNCHANGED <<graph, durable, row, req, clock>> /\ late' \subseteq Child \X Nat
  BY DEF LateWrite, Safe, Shapes
<1>4. Shapes' /\ Solo' /\ InTime'
  BY <1>2, <1>3 DEF Safe, Shapes, IsRow, IsRequest, Solo, InTime, Active
<1>5. SavesItsOwn'
  BY <1>2, <1>3, HoldsExtends DEF Safe, SavesItsOwn, Context
<1>6. Kept'
  BY <1>2, <1>3, HoldsExtends DEF Safe, Kept, Active
<1> QED BY <1>4, <1>5, <1>6 DEF Safe

\* Nothing that the invariant speaks of changes.
LEMMA StutterSafe == Safe /\ UNCHANGED vars => Safe'
<1> SUFFICES ASSUME Safe, UNCHANGED vars PROVE Safe'
  OBVIOUS
<1> USE DEF vars
<1>1. Shapes'
  BY DEF Safe, Shapes, IsRow, IsRequest
<1>2. Solo' /\ InTime'
  BY DEF Safe, Solo, InTime, Active
<1>3. SavesItsOwn'
  BY DEF Safe, SavesItsOwn, Context
<1>4. Kept'
  BY DEF Safe, Kept, Active
<1> QED BY <1>1, <1>2, <1>3, <1>4 DEF Safe

\* The invariant holds throughout: a request that was acknowledged and ran alone has left its
\* input or its step in the stored session and in every context that may yet be stored.
THEOREM Safety == Spec => []Safe
<1>1. Safe /\ [Next]_vars => Safe'
  <2> SUFFICES ASSUME Safe, Next PROVE Safe'
    BY StutterSafe
  <2>1. CASE \E r \in Request : Get(r) \/ Discard(r) \/ SaveInMemory(r)
    BY <2>1, GetSafe, DiscardSafe, SaveInMemorySafe
  <2>2. CASE \E r \in Request : SaveBegins(r) \/ SaveCommits(r) \/ SaveFails(r)
    BY <2>2, SaveBeginsSafe, SaveCommitsSafe, SaveFailsSafe
  <2>3. CASE \E r \in Run : TaskBegins(r) \/ GivesUp(r)
    BY <2>3, TaskBeginsSafe, GivesUpSafe
  <2>4. CASE \E r \in Run, c \in Child : ChildEnds(r, c)
    BY <2>4, ChildEndsSafe
  <2>5. CASE \E r \in Run : \E act \in UNION {graph.acts[t] : t \in graph.tasks} : TaskEnds(r, act)
    BY <2>5, TaskEndsSafe
  <2>6. CASE \E l \in late : LateWrite(l)
    BY <2>6, LateWriteSafe
  <2> QED BY <2>1, <2>2, <2>3, <2>4, <2>5, <2>6 DEF Next
<1> QED BY <1>1, InitSafe, PTL DEF Spec

\* What a request was told is done stays in the session, unless it ran beside another: no
\* later step, failed save, skipped upsert, deletion or late child loses it.
THEOREM AcknowledgedStays == Spec => []AckedStays
<1>1. Safe => AckedStays
  BY DEF Safe, Kept, AckedStays, Holds, Stored
<1> QED BY <1>1, Safety, PTL
----------------------------------------------------------------------------
(* The stored session is one line of whole steps.                          *)

\* Each task of a path is the one at which the steps before it had left the session.
OneLine(g, path) == \A i \in 1..Len(path) : path[i].task = After(g, path, i - 1)

\* A context between two tasks: no task is half done, the session stands where the last step
\* left it, and if that was a fan-out all its results are there.
Whole(g, task, c) ==
  LET n == Len(c.path)
  IN  /\ c.begun = n /\ OneLine(g, c.path) /\ task = After(g, c.path, n)
      /\ n > 0 => (c.path[n].task \in g.fans => \A k \in Child : c.kids[k] = n)

\* A context while q's task is at work; a child that ended well has left this run's result.
Half(g, q, c) ==
  /\ c.begun = Len(c.path) + 1 /\ OneLine(g, c.path) /\ q.task = After(g, c.path, Len(c.path))
  /\ q.task \in g.fans => \A k \in Child : q.kids[k] # "idle" /\ (q.kids[k] = "ok" => c.kids[k] = c.begun)

\* What a request works on fits what it is about to do.
Fits(r) ==
  /\ req[r].pc \in {"task", "save", "stamped"} => Whole(graph, req[r].task, Context(r))
  /\ req[r].pc = "running" => Half(graph, req[r], Context(r))

\* In PostgreSQL each request has a context of its own.
OwnLines ==
  durable => /\ \A r \in Request : Fits(r)
             /\ row.task # "" => Whole(graph, row.task, row.ctx)

\* In memory, while no step was given up and none ran beside another, one request at most works
\* on the context, and no child of a fan-out is left behind.
SharedLine ==
  ~ durable /\ clean =>
    /\ late = {}
    /\ \A r, s \in Request : Active(r) /\ Active(s) => r = s
    /\ \A r \in Request : Active(r) => row.task # "" /\ Fits(r)
    /\ (\A r \in Request : ~ Active(r)) /\ row.task # "" => Whole(graph, row.task, heap)

Lines == OwnLines /\ SharedLine

\* A new session.
LEMMA WholeAtFirst == ASSUME NEW g PROVE Whole(g, g.start, NewContext)
<1>1. NewContext.path = <<>> /\ NewContext.begun = 0 /\ Len(<<>>) = 0
  BY DEF NewContext
<1>2. After(g, <<>>, 0) = g.start
  BY DEF After
<1>3. OneLine(g, <<>>)
  BY <1>1 DEF OneLine
<1> QED BY <1>1, <1>2, <1>3 DEF Whole

\* Only the path, the count and the children's results matter.
LEMMA WholeSame ==
  ASSUME NEW g, NEW t, NEW c, NEW d, Whole(g, t, c),
         d.path = c.path, d.begun = c.begun, d.kids = c.kids
  PROVE  Whole(g, t, d)
BY DEF Whole

\* A task begins, and the children of a fan-out with it.
LEMMA HalfBegun ==
  ASSUME NEW g, NEW q, NEW c \in Ctx, NEW d, Whole(g, q.task, c),
         d = [c EXCEPT !.begun = @ + 1],
         \A k \in Child : q.task \in g.fans => q.kids[k] = "running"
  PROVE  Half(g, q, d)
<1>1. d.path = c.path /\ d.begun = c.begun + 1
  BY DEF Ctx
<1> QED BY <1>1 DEF Whole, Half

\* A child of the fan-out ends.
LEMMA HalfChild ==
  ASSUME NEW g, NEW q, NEW p, NEW c, NEW d, Half(g, q, c), NEW k \in Child, NEW how \in {"ok", "failed"},
         p.task = q.task, p.kids[k] = how, \A j \in Child : j # k => p.kids[j] = q.kids[j],
         d.path = c.path, d.begun = c.begun, \A j \in Child : j # k => d.kids[j] = c.kids[j],
         how = "ok" => d.kids[k] = c.begun
  PROVE  Half(g, p, d)
<1>1. ASSUME p.task \in g.fans, NEW j \in Child
      PROVE  p.kids[j] # "idle" /\ (p.kids[j] = "ok" => d.kids[j] = d.begun)
  <2>1. q.kids[j] # "idle" /\ (q.kids[j] = "ok" => c.kids[j] = c.begun)
    BY <1>1 DEF Half
  <2> QED BY <2>1
<1> QED BY <1>1 DEF Half

\* Where the steps of a path lead does not depend on later ones; the last one leads where its
\* action says.
LEMMA AfterNoted ==
  ASSUME NEW g, NEW p \in Seq(Step), NEW e \in Step, NEW d, d = Append(p, e)
  PROVE  /\ \A i \in 0..Len(p) : After(g, d, i) = After(g, p, i)
         /\ After(g, d, Len(p) + 1) = Target(g, e.task, e.act, d)
<1>1. /\ Len(p) \in Nat /\ d \in Seq(Step) /\ Len(d) = Len(p) + 1 /\ d[Len(p) + 1] = e
      /\ \A i \in 1..Len(p) : d[i] = p[i]
  OBVIOUS
<1>2. ASSUME NEW i \in 0..Len(p) PROVE After(g, d, i) = After(g, p, i)
  <2>1. CASE i = 0
    BY <2>1 DEF After
  <2>2. CASE i # 0
    <3>1. SubSeq(d, 1, i) = SubSeq(p, 1, i) /\ d[i] = p[i]
      BY <1>1, <2>2
    <3>2. /\ After(g, d, i) = Target(g, d[i].task, d[i].act, SubSeq(d, 1, i))
          /\ After(g, p, i) = Target(g, p[i].task, p[i].act, SubSeq(p, 1, i))
      BY <2>2 DEF After
    <3> QED BY <3>1, <3>2, Zenon
  <2> QED BY <2>1, <2>2
<1>3. After(g, d, Len(p) + 1) = Target(g, e.task, e.act, d)
  <2>1. SubSeq(d, 1, Len(p) + 1) = d /\ d[Len(p) + 1] = e /\ Len(p) + 1 # 0
    BY <1>1
  <2>2. Len(p) + 1 # 0 => After(g, d, Len(p) + 1) =
          Target(g, d[Len(p) + 1].task, d[Len(p) + 1].act, SubSeq(d, 1, Len(p) + 1))
    BY Zenon DEF After
  <2> QED BY <2>1, <2>2, Zenon
<1> QED BY <1>2, <1>3

\* A task ends: its step goes on from where the others had led.
LEMMA WholeEnded ==
  ASSUME NEW g, NEW q, NEW c \in Ctx, NEW e \in Step, NEW d, Half(g, q, c),
         \A k \in Child : q.kids[k] \in {"idle", "ok"},
         e.task = q.task, d = [c EXCEPT !.path = Append(@, e)]
  PROVE  Whole(g, Target(g, e.task, e.act, d.path), d)
<1> DEFINE n == Len(c.path)
<1>1. c.path \in Seq(Step) /\ d.path = Append(c.path, e) /\ d.begun = c.begun /\ d.kids = c.kids
  BY DEF Ctx
<1>2. n \in Nat /\ Len(d.path) = n + 1 /\ d.path[n + 1] = e /\ \A i \in 1..n : d.path[i] = c.path[i]
      /\ d.path \in Seq(Step)
  BY <1>1
<1>3. /\ \A i \in 0..n : After(g, d.path, i) = After(g, c.path, i)
      /\ After(g, d.path, n + 1) = Target(g, e.task, e.act, d.path)
  <2> DEFINE p == c.path
             x == d.path
  <2>1. p \in Seq(Step) /\ x = Append(p, e)
    BY <1>1
  <2> HIDE DEF p, x
  <2>2. /\ \A i \in 0..Len(p) : After(g, x, i) = After(g, p, i)
        /\ After(g, x, Len(p) + 1) = Target(g, e.task, e.act, x)
    BY ONLY <2>1, e \in Step, AfterNoted
  <2> QED BY <2>2 DEF p, x
<1>4. d.begun = n + 1
  BY <1>1 DEF Half
<1>5. OneLine(g, d.path)
  <2> SUFFICES ASSUME NEW i \in 1..(n + 1) PROVE d.path[i].task = After(g, d.path, i - 1)
    BY <1>2 DEF OneLine
  <2>1. i - 1 \in 0..n /\ After(g, d.path, i - 1) = After(g, c.path, i - 1)
    BY <1>2, <1>3
  <2>2. CASE i = n + 1
    <3>1. i - 1 = n /\ d.path[i] = e
      BY <1>2, <2>2
    <3>2. e.task = After(g, c.path, n)
      BY DEF Half
    <3> QED BY <2>1, <3>1, <3>2
  <2>3. CASE i # n + 1
    <3>1. i \in 1..n
      BY <1>2, <2>3
    <3> QED BY <1>2, <2>1, <3>1 DEF Half, OneLine
  <2> QED BY <2>2, <2>3
<1>6. e.task \in g.fans => \A k \in Child : d.kids[k] = n + 1
  BY <1>1, <1>4 DEF Half
<1> QED BY <1>2, <1>3, <1>4, <1>5, <1>6 DEF Whole

\* A request's own changes of task and children are all that counts.
LEMMA HalfSame ==
  ASSUME NEW g, NEW q, NEW p, NEW c, Half(g, q, c), p.task = q.task, p.kids = q.kids
  PROVE  Half(g, p, c)
BY DEF Half

\* A new session is whole, and nobody works on it.
LEMMA InitLines == Init => Lines
<1> SUFFICES ASSUME Init PROVE Lines
  OBVIOUS
<1>1. /\ row.task = graph.start /\ row.ctx = NewContext /\ heap = NewContext /\ late = {}
      /\ \A r \in Request : req[r].pc = "new"
  BY DEF Init, NoRow, Idle
<1>2. \A r \in Request : ~ Active(r) /\ Fits(r)
  BY <1>1 DEF Active, Fits
<1>3. Whole(graph, graph.start, NewContext)
  BY WholeAtFirst
<1>4. OwnLines
  BY <1>1, <1>2, <1>3 DEF OwnLines
<1>5. SharedLine
  BY <1>1, <1>2, <1>3 DEF SharedLine
<1> QED BY <1>4, <1>5 DEF Lines

\* What is known of a request at work.
LEMMA AtWork ==
  ASSUME Lines, durable \in BOOLEAN, NEW r \in Request, Active(r), durable \/ clean
  PROVE  /\ Fits(r)
         /\ ~ durable => late = {} /\ row.task # "" /\ \A s \in Request : Active(s) => s = r
<1>1. CASE durable
  BY <1>1 DEF Lines, OwnLines
<1>2. CASE ~ durable
  BY <1>2 DEF Lines, SharedLine
<1> QED BY <1>1, <1>2

\* A context of its own is not touched by another request.
LEMMA OwnKept ==
  ASSUME Lines, durable, UNCHANGED <<graph, durable>>, NEW s \in Request, req'[s] = req[s]
  PROVE  Fits(s)'
<1>1. Fits(s)
  BY DEF Lines, OwnLines
<1>2. Context(s) = req[s].ctx /\ Context(s)' = req[s].ctx
  BY DEF Context
<1> QED BY <1>1, <1>2 DEF Fits

\* A request at work goes on and writes its context.
LEMMA PutLines ==
  ASSUME Safe, Lines, NEW r \in Request, Active(r), NEW q, NEW c, Put(r, q, c),
         IsRequest(q), c \in Ctx, q.pc \in {"task", "running", "save"},
         UNCHANGED <<graph, durable, row, late>>, clean' => clean,
         durable \/ clean =>
           /\ q.pc \in {"task", "save"} => Whole(graph, q.task, c)
           /\ q.pc = "running" => Half(graph, q, c)
  PROVE  Lines'
<1>1. PICK p : /\ req' = [req EXCEPT ![r] = p] /\ p.pc = q.pc /\ p.task = q.task /\ p.kids = q.kids
               /\ p.ctx = (IF durable THEN c ELSE q.ctx) /\ heap' = (IF durable THEN heap ELSE c)
  BY PutRequest
<1>2. req'[r] = p /\ \A s \in Request : s # r => req'[s] = req[s]
  BY <1>1 DEF Safe, Shapes
<1>3. Context(r)' = c /\ durable \in BOOLEAN
  BY <1>1, <1>2 DEF Context, Safe, Shapes
<1>4. durable \/ clean => Fits(r)'
  <2> SUFFICES ASSUME durable \/ clean PROVE Fits(r)'
    OBVIOUS
  <2>1. q.pc = "running" => Half(graph, p, c)
    BY <1>1, HalfSame
  <2> QED BY <1>1, <1>2, <1>3, <2>1 DEF Fits
<1>5. OwnLines'
  <2> SUFFICES ASSUME durable
               PROVE  /\ \A s \in Request : Fits(s)'
                      /\ row.task # "" => Whole(graph, row.task, row.ctx)
    BY DEF OwnLines
  <2>1. \A s \in Request : Fits(s)'
    BY <1>2, <1>4, OwnKept
  <2> QED BY <2>1 DEF Lines, OwnLines
<1>6. SharedLine'
  <2> SUFFICES ASSUME ~ durable, clean'
               PROVE  /\ late = {}
                      /\ \A s, t \in Request : Active(s)' /\ Active(t)' => s = t
                      /\ \A s \in Request : Active(s)' => row.task # "" /\ Fits(s)'
                      /\ \E s \in Request : Active(s)'
    BY DEF SharedLine
  <2>1. late = {} /\ row.task # "" /\ \A s \in Request : Active(s) => s = r
    BY <1>3, AtWork
  <2>2. \A s \in Request : Active(s)' <=> s = r
    BY <1>1, <1>2, <2>1 DEF Active
  <2> QED BY <1>4, <2>1, <2>2
<1> QED BY <1>5, <1>6 DEF Lines

\* A request ends without saving.
LEMMA AnswerLines ==
  ASSUME Safe, Lines, NEW r \in Request, NEW ok \in BOOLEAN, Answer(r, ok),
         UNCHANGED <<graph, durable>>, durable \/ ~ clean',
         row' = row \/ (durable /\ Active(r) /\ row'.task = req[r].task /\ row'.ctx = req[r].ctx /\ req[r].pc = "stamped")
  PROVE  Lines'
<1>1. PICK p : req' = [req EXCEPT ![r] = p] /\ p.pc = "answered"
  BY AnswerRequest
<1>2. req'[r].pc = "answered" /\ \A s \in Request : s # r => req'[s] = req[s]
  BY <1>1 DEF Safe, Shapes
<1>3. SharedLine'
  BY DEF SharedLine
<1>4. OwnLines'
  <2> SUFFICES ASSUME durable
               PROVE  /\ \A s \in Request : Fits(s)'
                      /\ row'.task # "" => Whole(graph, row'.task, row'.ctx)
    BY DEF OwnLines
  <2>1. Fits(r)'
    BY <1>2 DEF Fits
  <2>2. \A s \in Request : Fits(s)'
    BY <1>2, <2>1, OwnKept
  <2>3. CASE row' = row
    BY <2>2, <2>3 DEF Lines, OwnLines
  <2>4. CASE row' # row
    <3>1. Fits(r) /\ Context(r) = req[r].ctx
      BY <2>4 DEF Lines, OwnLines, Context
    <3>2. Whole(graph, req[r].task, req[r].ctx)
      BY <2>4, <3>1 DEF Fits
    <3> QED BY <2>2, <2>4, <3>2
  <2> QED BY <2>3, <2>4
<1> QED BY <1>3, <1>4 DEF Lines

\* A task is not found, or begins.
LEMMA TaskBeginsLines == ASSUME Safe, Lines, NEW r \in Run, TaskBegins(r) PROVE Lines'
<1>1. r \in Request /\ Active(r) /\ IsRequest(req[r]) /\ Context(r) \in Ctx /\ durable \in BOOLEAN
  BY WorksOn DEF TaskBegins, Active, Request, Safe, Shapes
<1>2. CASE req[r].task \notin graph.tasks
  BY <1>1, <1>2, AnswerLines DEF TaskBegins
<1>3. CASE req[r].task \in graph.tasks
  <2> DEFINE K == [c \in Child |-> IF req[r].task \in graph.fans THEN "running" ELSE "idle"]
             q == [req[r] EXCEPT !.pc = "running", !.kids = K]
             c == [Context(r) EXCEPT !.begun = @ + 1]
  <2>1. c \in Ctx
    BY <1>1, CountExtends
  <2>2. Put(r, q, c) /\ UNCHANGED <<graph, durable, row, late, clean>>
    BY <1>3 DEF TaskBegins
  <2>3. K \in [Child -> {"idle", "running", "ok", "failed"}]
        /\ \A k \in Child : req[r].task \in graph.fans => K[k] = "running"
    OBVIOUS
  <2> HIDE DEF K
  <2>4. q = [req[r] EXCEPT !.pc = "running", !.kids = K] /\ c = [Context(r) EXCEPT !.begun = @ + 1]
    OBVIOUS
  <2> HIDE DEF q, c
  <2>5. IsRequest(q) /\ q.pc = "running" /\ q.task = req[r].task /\ q.kids = K
    BY <1>1, <2>3, <2>4 DEF IsRequest
  <2>6. durable \/ clean => Half(graph, q, c)
    <3> SUFFICES ASSUME durable \/ clean PROVE Half(graph, q, c)
      OBVIOUS
    <3>1. Whole(graph, q.task, Context(r))
      BY <1>1, <2>5, AtWork DEF Fits, TaskBegins
    <3> QED BY <1>1, <2>3, <2>4, <2>5, <3>1, HalfBegun
  <2> QED BY <1>1, <2>1, <2>2, <2>5, <2>6, PutLines
<1> QED BY <1>2, <1>3

\* A child of the fan-out ends, and has left its result or has failed.
LEMMA ChildEndsLines == ASSUME Safe, Lines, NEW r \in Run, NEW k \in Child, ChildEnds(r, k) PROVE Lines'
<1>1. /\ r \in Request /\ Active(r) /\ IsRequest(req[r]) /\ Context(r) \in Ctx /\ durable \in BOOLEAN
      /\ req[r].pc = "running"
  BY WorksOn DEF ChildEnds, Active, Request, Safe, Shapes
<1>2. ASSUME NEW how \in {"ok", "failed"}, NEW c, c \in Ctx,
             Put(r, [req[r] EXCEPT !.kids[k] = how], c),
             c.path = Context(r).path, c.begun = Context(r).begun,
             \A j \in Child : j # k => c.kids[j] = Context(r).kids[j],
             how = "ok" => c.kids[k] = Context(r).begun
      PROVE  Lines'
  <2> DEFINE K == [req[r].kids EXCEPT ![k] = how]
             q == [req[r] EXCEPT !.kids = K]
  <2>1. K \in [Child -> {"idle", "running", "ok", "failed"}]
        /\ K[k] = how /\ \A j \in Child : j # k => K[j] = req[r].kids[j]
    BY <1>1 DEF IsRequest
  <2>2. Put(r, q, c)
    BY <1>2
  <2>3. q = [req[r] EXCEPT !.kids = K]
    OBVIOUS
  <2> HIDE DEF K, q
  <2>4. IsRequest(q) /\ q.pc = "running" /\ q.task = req[r].task /\ q.kids = K
    BY <1>1, <2>1, <2>3 DEF IsRequest
  <2>5. durable \/ clean => Half(graph, q, c)
    <3> SUFFICES ASSUME durable \/ clean PROVE Half(graph, q, c)
      OBVIOUS
    <3>1. Half(graph, req[r], Context(r))
      BY <1>1, AtWork DEF Fits
    <3> QED BY <1>2, <2>1, <2>4, <3>1, HalfChild
  <2>6. UNCHANGED <<graph, durable, row, late, clean>>
    BY DEF ChildEnds
  <2> QED BY <1>1, <1>2, <2>2, <2>4, <2>5, <2>6, PutLines
<1>3. Context(r).begun \in Nat /\ Context(r).kids \in [Child -> Nat]
  BY <1>1 DEF Ctx
<1>4. ASSUME NEW c, c = [Context(r) EXCEPT !.kids[k] = Context(r).begun]
      PROVE  /\ c \in Ctx /\ c.path = Context(r).path /\ c.begun = Context(r).begun
             /\ c.kids[k] = Context(r).begun
             /\ \A j \in Child : j # k => c.kids[j] = Context(r).kids[j]
  BY <1>1, <1>3, <1>4 DEF Ctx
<1>5. CASE Put(r, [req[r] EXCEPT !.kids[k] = "ok"], [Context(r) EXCEPT !.kids[k] = Context(r).begun])
  BY <1>2, <1>4, <1>5
<1>6. CASE Put(r, [req[r] EXCEPT !.kids[k] = "failed"], Context(r))
  BY <1>1, <1>2, <1>6
<1> QED BY <1>5, <1>6 DEF ChildEnds

\* A task ends, and the session goes on with the next step.
LEMMA TaskEndsLines == ASSUME Safe, Lines, NEW r \in Run, NEW act, TaskEnds(r, act) PROVE Lines'
<1> DEFINE e   == [task |-> req[r].task, act |-> act, by |-> r]
           ctx == [Context(r) EXCEPT !.path = Append(@, e)]
           to  == Target(graph, req[r].task, act, ctx.path)
           lost == to = act /\ to \notin graph.tasks
<1>1. /\ r \in Request /\ Active(r) /\ IsRequest(req[r]) /\ Context(r) \in Ctx /\ durable \in BOOLEAN
      /\ req[r].pc = "running" /\ \A k \in Child : req[r].kids[k] \in {"idle", "ok"}
  BY WorksOn DEF TaskEnds, Active, Request, Joined, Safe, Shapes
<1>2. e \in Step /\ e.task = req[r].task /\ e.act = act
  <2>1. graph \in Graphs /\ req[r].task \in graph.tasks /\ act \in graph.acts[req[r].task]
    BY <1>1 DEF TaskEnds, Safe, Shapes
  <2>2. req[r].task \in Task
    BY <2>1 DEF Task
  <2>3. act \in Act
    BY <2>1 DEF Act
  <2> QED BY <2>2, <2>3 DEF Step
<1>3. CASE lost
  BY <1>1, <1>3, AnswerLines DEF TaskEnds
<1>4. CASE ~ lost
  <2> DEFINE K == [c \in Child |-> "idle"]
             pc == IF GoesOn(graph, req[r].task, act, ctx.path) THEN "task" ELSE "save"
             q == [req[r] EXCEPT !.pc = pc, !.task = to, !.kids = K]
  <2>1. Put(r, q, ctx) /\ UNCHANGED <<graph, durable, row, late>>
    BY <1>4 DEF TaskEnds
  <2>2. K \in [Child -> {"idle", "running", "ok", "failed"}] /\ pc \in {"task", "save"}
    OBVIOUS
  <2>3. clean' => clean
    BY DEF TaskEnds
  <2> HIDE DEF e
  <2>4. ctx \in Ctx
    BY <1>1, <1>2, NoteExtends
  <2>5. durable \/ clean => Whole(graph, to, ctx)
    <3> SUFFICES ASSUME durable \/ clean PROVE Whole(graph, to, ctx)
      OBVIOUS
    <3>1. Half(graph, req[r], Context(r))
      BY <1>1, AtWork DEF Fits
    <3> QED BY <1>1, <1>2, <3>1, WholeEnded
  <2> HIDE DEF K, pc, to, ctx
  <2>6. q = [req[r] EXCEPT !.pc = pc, !.task = to, !.kids = K]
    OBVIOUS
  <2> HIDE DEF q
  <2>7. IsRequest(q) /\ q.pc = pc /\ q.task = to
    BY <1>1, <2>2, <2>6 DEF IsRequest
  <2> QED BY <1>1, <2>1, <2>2, <2>3, <2>4, <2>5, <2>7, PutLines
<1> QED BY <1>3, <1>4

\* A request that is given up.
LEMMA GivesUpLines == ASSUME Safe, Lines, NEW r \in Run, GivesUp(r) PROVE Lines'
<1>1. r \in Request
  BY DEF Request
<1> QED BY <1>1, AnswerLines DEF GivesUp

\* A save that fails, or is carried out in PostgreSQL.
LEMMA SaveEndsLines == ASSUME Safe, Lines, NEW r \in Request, SaveFails(r) \/ SaveCommits(r) PROVE Lines'
<1>1. durable /\ Active(r) /\ req[r].pc = "stamped" /\ UNCHANGED <<graph, durable>>
  BY DEF SaveFails, SaveCommits, Safe, InTime, Active
<1>2. CASE SaveFails(r)
  BY <1>1, <1>2, AnswerLines DEF SaveFails
<1>3. CASE SaveCommits(r)
  <2>1. row' = row \/ (row'.task = req[r].task /\ row'.ctx = req[r].ctx)
    BY <1>3 DEF SaveCommits
  <2>2. PICK ok \in BOOLEAN : Answer(r, ok)
    BY <1>3 DEF SaveCommits
  <2> QED BY <1>1, <2>1, <2>2, AnswerLines
<1> QED BY <1>2, <1>3

\* A save takes its time stamp.
LEMMA SaveBeginsLines == ASSUME Safe, Lines, NEW r \in Request, SaveBegins(r) PROVE Lines'
<1>1. durable /\ UNCHANGED <<graph, durable, row>> /\ req[r].pc = "save" /\ IsRequest(req[r])
  BY WorksOn DEF SaveBegins
<1>2. /\ req'[r].pc = "stamped" /\ req'[r].task = req[r].task /\ req'[r].ctx = req[r].ctx
      /\ \A s \in Request : s # r => req'[s] = req[s]
  <2> DEFINE q == [req[r] EXCEPT !.pc = "stamped", !.at = clock']
  <2>1. req' = [req EXCEPT ![r] = q] /\ q.pc = "stamped" /\ q.task = req[r].task /\ q.ctx = req[r].ctx
    BY <1>1 DEF SaveBegins, Safe, Shapes, IsRequest
  <2> HIDE DEF q
  <2> QED BY <2>1 DEF Safe, Shapes
<1>3. Fits(r)'
  <2>1. Whole(graph, req[r].task, req[r].ctx)
    BY <1>1 DEF Lines, OwnLines, Fits, Context
  <2> QED BY <1>1, <1>2, <2>1 DEF Fits, Context
<1>4. OwnLines'
  <2>1. \A s \in Request : Fits(s)'
    BY <1>1, <1>2, <1>3, OwnKept
  <2> QED BY <1>1, <2>1 DEF Lines, OwnLines
<1>5. SharedLine'
  BY <1>1 DEF SharedLine
<1> QED BY <1>4, <1>5 DEF Lines

\* The in-memory session stands where the request, which nothing disturbed, has left its context.
LEMMA SaveInMemoryLines == ASSUME Safe, Lines, NEW r \in Request, SaveInMemory(r) PROVE Lines'
<1>1. /\ ~ durable /\ UNCHANGED <<graph, durable, heap, late, clean>> /\ req[r].pc = "save"
      /\ Active(r) /\ row'.task = req[r].task /\ Answer(r, TRUE)
  <2>1. IsRow(row) /\ row' = [row EXCEPT !.task = req[r].task]
    BY DEF SaveInMemory, Safe, Shapes
  <2>2. row'.task = req[r].task
    BY <2>1 DEF IsRow
  <2> QED BY <2>2 DEF SaveInMemory, Active
<1>2. PICK p : req' = [req EXCEPT ![r] = p] /\ p.pc = "answered"
  BY <1>1, AnswerRequest
<1>3. req'[r].pc = "answered" /\ \A s \in Request : s # r => req'[s] = req[s]
  BY <1>2 DEF Safe, Shapes
<1>4. SharedLine'
  <2> SUFFICES ASSUME clean
               PROVE  /\ late = {} /\ \A s \in Request : ~ Active(s)'
                      /\ Whole(graph, row'.task, heap)
    BY <1>1 DEF SharedLine
  <2>1. Fits(r) /\ late = {} /\ \A s \in Request : Active(s) => s = r
    BY <1>1 DEF Lines, SharedLine
  <2>2. Whole(graph, req[r].task, heap)
    BY <1>1, <2>1 DEF Fits, Context
  <2>3. \A s \in Request : ~ Active(s)'
    BY <1>3, <2>1 DEF Active
  <2> QED BY <1>1, <2>1, <2>2, <2>3
<1>5. OwnLines'
  BY <1>1 DEF OwnLines
<1> QED BY <1>4, <1>5 DEF Lines

\* Others keep what they work on when a request enters.
LEMMA EnterKeeps ==
  ASSUME Safe, Lines, durable, NEW r \in Request, ~ Active(r), NEW q, IsRequest(q), Enter(r, q),
         UNCHANGED <<graph, durable>>, NEW s \in Request, s # r
  PROVE  Fits(s)'
<1>1. req'[s].pc = req[s].pc /\ req'[s].task = req[s].task /\ req'[s].ctx = req[s].ctx
      /\ req'[s].kids = req[s].kids
  BY EnterRequests
<1>2. Fits(s) /\ Context(s) = req[s].ctx /\ Context(s)' = req'[s].ctx
  BY DEF Lines, OwnLines, Context
<1>3. Half(graph, req[s], req[s].ctx) => Half(graph, req'[s], req[s].ctx)
  BY <1>1, HalfSame
<1> QED BY <1>1, <1>2, <1>3 DEF Fits

\* A request begins with the stored session.
LEMMA GetLines == ASSUME Safe, Lines, NEW r \in Request, Get(r) PROVE Lines'
<1>1. /\ ~ Active(r) /\ IsRequest(req[r]) /\ heap \in Ctx /\ IsRow(row) /\ durable \in BOOLEAN
      /\ UNCHANGED <<graph, durable, row, late>>
  BY WorksOn DEF Get, Active, Safe, Shapes
<1>2. CASE row.task = ""
  <2>1. Answer(r, FALSE) /\ UNCHANGED <<clean, heap>>
    BY <1>2 DEF Get
  <2>2. CASE durable
    BY <1>1, <2>1, <2>2, AnswerLines
  <2>3. CASE ~ durable
    <3>1. PICK p : req' = [req EXCEPT ![r] = p] /\ p.pc = "answered"
      BY <2>1, AnswerRequest
    <3>2. req'[r].pc = "answered" /\ \A s \in Request : s # r => req'[s] = req[s]
      BY <3>1 DEF Safe, Shapes
    <3>3. \A s \in Request : Active(s)' => Active(s)
      BY <3>2 DEF Active
    <3>4. SharedLine'
      BY <1>1, <1>2, <2>1, <3>3 DEF Lines, SharedLine
    <3>5. OwnLines'
      BY <1>1, <2>3 DEF OwnLines
    <3> QED BY <3>4, <3>5 DEF Lines
  <2> QED BY <2>2, <2>3
<1>3. CASE row.task # ""
  <2> DEFINE pc == IF r \in Run THEN "task" ELSE "save"
             c == [row.ctx EXCEPT !.input = IF r \in Feed THEN @ \cup {r} ELSE @]
             q == [req[r] EXCEPT !.pc = pc, !.task = row.task, !.ctx = c]
  <2>1. Enter(r, q) /\ heap' = IF r \in Feed /\ ~ durable THEN [heap EXCEPT !.input = @ \cup {r}] ELSE heap
    BY <1>3 DEF Get
  <2>2. c \in Ctx /\ c.path = row.ctx.path /\ c.begun = row.ctx.begun /\ c.kids = row.ctx.kids
    BY <1>1 DEF Ctx, IsRow, Get, Request
  <2>3. heap'.path = heap.path /\ heap'.begun = heap.begun /\ heap'.kids = heap.kids
    BY <1>1, <2>1 DEF Ctx
  <2>4. pc \in {"task", "save"}
    OBVIOUS
  <2> HIDE DEF pc, c
  <2>5. q = [req[r] EXCEPT !.pc = pc, !.task = row.task, !.ctx = c]
    OBVIOUS
  <2> HIDE DEF q
  <2>6. IsRequest(q) /\ q.pc = pc /\ q.ctx = c /\ q.task = row.task
    BY <1>1, <2>2, <2>4, <2>5 DEF IsRequest
  <2>7. req'[r].pc = pc /\ req'[r].ctx = c /\ req'[r].task = row.task
    BY <1>1, <2>1, <2>6, EnterRequests
  <2>8. OwnLines'
    <3> SUFFICES ASSUME durable
                 PROVE  /\ \A s \in Request : Fits(s)'
                        /\ Whole(graph, row.task, row.ctx)
      BY <1>1 DEF OwnLines
    <3>1. Whole(graph, row.task, row.ctx)
      BY <1>3 DEF Lines, OwnLines
    <3>2. Whole(graph, row.task, c)
      BY <2>2, <3>1, WholeSame
    <3>3. Fits(r)'
      BY <1>1, <2>4, <2>7, <3>2 DEF Fits, Context
    <3>4. \A s \in Request : s # r => Fits(s)'
      BY <1>1, <2>1, <2>6, EnterKeeps
    <3> QED BY <3>1, <3>3, <3>4
  <2>9. SharedLine'
    <3> SUFFICES ASSUME ~ durable, clean'
                 PROVE  /\ late = {} /\ Active(r)'
                        /\ \A s \in Request : Active(s)' => s = r
                        /\ Fits(r)'
      BY <1>1, <1>3 DEF SharedLine
    <3>1. clean /\ {u \in Request : Active(u)} = {}
      BY <2>1 DEF Enter
    <3>2. late = {} /\ Whole(graph, row.task, heap) /\ \A s \in Request : ~ Active(s)
      BY <1>3, <3>1 DEF Lines, SharedLine
    <3>3. \A s \in Request : s # r => req'[s].pc = req[s].pc
      BY <1>1, <2>1, <2>6, EnterRequests
    <3>4. Whole(graph, row.task, heap')
      BY <2>3, <3>2, WholeSame
    <3>5. Fits(r)'
      BY <1>1, <2>4, <2>7, <3>4 DEF Fits, Context
    <3> QED BY <2>4, <2>7, <3>2, <3>3, <3>5 DEF Active
  <2> QED BY <2>8, <2>9 DEF Lines
<1> QED BY <1>2, <1>3

\* The session is deleted; what others work on may be stored again.
LEMMA DiscardLines == ASSUME Safe, Lines, NEW r \in Request, Discard(r) PROVE Lines'
<1> DEFINE q == [req[r] EXCEPT !.pc = "answered", !.ok = TRUE]
<1>1. ~ Active(r) /\ IsRequest(req[r]) /\ durable \in BOOLEAN /\ UNCHANGED <<graph, durable, heap, late>>
  BY WorksOn DEF Discard, Active, Safe, Shapes
<1>2. Enter(r, q) /\ q = [req[r] EXCEPT !.pc = "answered", !.ok = TRUE] /\ row'.task = ""
  BY DEF Discard, NoRow
<1> HIDE DEF q
<1>3. IsRequest(q) /\ q.pc = "answered"
  BY <1>1, <1>2 DEF IsRequest
<1>4. req'[r].pc = "answered" /\ \A s \in Request : s # r => req'[s].pc = req[s].pc
  <2>1. req'[r].pc = q.pc
    BY <1>1, <1>2, <1>3, EnterRequests
  <2>2. \A s \in Request : s # r => req'[s].pc = req[s].pc
    BY <1>1, <1>2, <1>3, EnterRequests
  <2> QED BY <1>3, <2>1, <2>2
<1>5. OwnLines'
  <2> SUFFICES ASSUME durable PROVE \A s \in Request : Fits(s)'
    BY <1>1, <1>2 DEF OwnLines
  <2>1. Fits(r)'
    BY <1>4 DEF Fits
  <2>2. \A s \in Request : s # r => Fits(s)'
    BY <1>1, <1>2, <1>3, EnterKeeps
  <2> QED BY <2>1, <2>2
<1>6. SharedLine'
  <2> SUFFICES ASSUME ~ durable, clean'
               PROVE  late = {} /\ \A s \in Request : ~ Active(s)'
    BY <1>1, <1>2 DEF SharedLine
  <2>1. clean /\ {u \in Request : Active(u)} = {}
    BY <1>2 DEF Enter
  <2>2. late = {} /\ \A s \in Request : ~ Active(s)
    BY <2>1 DEF Lines, SharedLine
  <2> QED BY <1>4, <2>2 DEF Active
<1> QED BY <1>5, <1>6 DEF Lines

\* A child that was given up writes only where something was given up in memory.
LEMMA LateWriteLines == ASSUME Safe, Lines, NEW l \in late, LateWrite(l) PROVE Lines'
<1>1. UNCHANGED <<graph, durable, row, req, clean>> /\ durable \in BOOLEAN
  BY DEF LateWrite, Safe, Shapes
<1>2. OwnLines'
  BY <1>1, OwnKept DEF Lines, OwnLines
<1>3. SharedLine'
  BY <1>1 DEF Lines, SharedLine
<1> QED BY <1>2, <1>3 DEF Lines

\* Nothing that a line consists of changes.
LEMMA StutterLines == Lines /\ UNCHANGED vars => Lines'
<1> SUFFICES ASSUME Lines, UNCHANGED vars PROVE Lines'
  OBVIOUS
<1> USE DEF vars
<1>1. \A r \in Request : (Fits(r)' <=> Fits(r)) /\ (Active(r)' <=> Active(r))
  BY DEF Fits, Context, Active
<1>2. OwnLines'
  BY <1>1 DEF Lines, OwnLines
<1>3. SharedLine'
  BY <1>1 DEF Lines, SharedLine
<1> QED BY <1>2, <1>3 DEF Lines

\* The lines hold throughout, in PostgreSQL for every request and the stored session, in memory
\* while nothing was given up and nothing ran beside another.
THEOREM LinesHold == Spec => []Lines
<1>1. Safe /\ Lines /\ [Next]_vars => Lines'
  <2> SUFFICES ASSUME Safe, Lines, Next PROVE Lines'
    BY StutterLines
  <2>1. CASE \E r \in Request : Get(r) \/ Discard(r) \/ SaveInMemory(r)
    BY <2>1, GetLines, DiscardLines, SaveInMemoryLines
  <2>2. CASE \E r \in Request : SaveBegins(r) \/ SaveCommits(r) \/ SaveFails(r)
    BY <2>2, SaveBeginsLines, SaveEndsLines
  <2>3. CASE \E r \in Run : TaskBegins(r) \/ GivesUp(r)
    BY <2>3, TaskBeginsLines, GivesUpLines
  <2>4. CASE \E r \in Run, c \in Child : ChildEnds(r, c)
    BY <2>4, ChildEndsLines
  <2>5. CASE \E r \in Run : \E act \in UNION {graph.acts[t] : t \in graph.tasks} : TaskEnds(r, act)
    BY <2>5, TaskEndsLines
  <2>6. CASE \E l \in late : LateWrite(l)
    BY <2>6, LateWriteLines
  <2> QED BY <2>1, <2>2, <2>3, <2>4, <2>5, <2>6 DEF Next
<1> QED BY <1>1, InitLines, Safety, PTL DEF Spec

\* The stored session is always what one line of whole steps leads to, whatever fails, overlaps
\* or is deleted in PostgreSQL; in memory as long as nothing did.
THEOREM StoredIsLine == Spec => []StoredIsOneLine
<1>1. Safe /\ Lines => StoredIsOneLine
  <2> SUFFICES ASSUME Safe, Lines, row.task # "", durable \/ (clean /\ \A r \in Request : ~ Active(r))
               PROVE  Whole(graph, row.task, Stored)
    BY DEF StoredIsOneLine, Whole, OneLine
  <2>1. CASE durable
    BY <2>1 DEF Lines, OwnLines, Stored
  <2>2. CASE ~ durable
    BY <2>2 DEF Lines, SharedLine, Stored
  <2> QED BY <2>1, <2>2
<1> QED BY <1>1, LinesHold, Safety, PTL

----------------------------------------------------------------------------
(* AiUsage.                                                                *)

Once(s) == \A i, j \in DOMAIN s : s[i] = s[j] => i = j

\* What the writer has in each of its modes.
WriterShape ==
  /\ mode \in {"recv", "done", "dead"} => batch = <<>>
  /\ mode = "dead" => queue = <<>>
  /\ mode = "write" => attempt >= 1
  /\ mode = "backoff" => attempt >= 1 /\ attempt < MAX_WRITE_ATTEMPTS
  /\ mode \notin {"write", "backoff"} => attempt = 0

\* How often the batch in hand may have been written.
Tries == IF mode = "write" THEN attempt - 1 ELSE attempt

\* Each call is under way once, after its answer: in the channel it is not stored yet, and in
\* the batch only by writes that reported a failure.
UnderWayOnce ==
  /\ Once(queue) /\ Once(batch) /\ Elements(queue) \cap Elements(batch) = {}
  /\ \A c \in Call : phase[c] # "owed" => c \notin UnderWay /\ stored[c] = 0
  /\ \A c \in Elements(queue) : stored[c] = 0
  /\ \A c \in Elements(batch) : stored[c] <= Tries /\ (stored[c] > 0 => c \in ambiguous)

Lost == {c \in Call : phase[c] = "owed" /\ stored[c] = 0 /\ c \notin UnderWay}

Tolerated ==
  dropped + write_failed + MAX_BATCH * worker_restart + (IF mode = "dead" THEN MAX_BATCH + Room ELSE 0)

Metering == UsageTypeOK /\ WriterShape /\ UnderWayOnce /\ StoredOnce /\ LossIsCounted

----------------------------------------------------------------------------
(* Lists without repetition.                                               *)

\* A list has no more elements than places.
LEMMA ElementsCount ==
  ASSUME NEW S, NEW s \in Seq(S)
  PROVE  /\ IsFiniteSet(Elements(s)) /\ Cardinality(Elements(s)) <= Len(s)
         /\ Cardinality(Elements(s)) \in Nat /\ Len(s) \in Nat /\ Elements(s) \subseteq S
<1> DEFINE f == [i \in DOMAIN s |-> s[i]]
<1>1. DOMAIN s = 1..Len(s) /\ Len(s) \in Nat /\ \A i \in DOMAIN s : s[i] \in S
  OBVIOUS
<1>2. IsFiniteSet(1..Len(s)) /\ Cardinality(1..Len(s)) = Len(s)
  BY <1>1, FS_Interval
<1>3. f \in Surjection(1..Len(s), Elements(s))
  BY <1>1 DEF Surjection, Elements
<1> HIDE DEF f
<1>4. IsFiniteSet(Elements(s)) /\ Cardinality(Elements(s)) <= Len(s)
  BY <1>2, <1>3, FS_Surjection
<1>5. Cardinality(Elements(s)) \in Nat
  BY <1>4, FS_CardinalityType
<1>6. Elements(s) \subseteq S
  BY <1>1 DEF Elements
<1> QED BY <1>1, <1>4, <1>5, <1>6

\* One more element.
LEMMA ElementsAppend ==
  ASSUME NEW S, NEW s \in Seq(S), NEW x \in S
  PROVE  /\ Append(s, x) \in Seq(S) /\ Len(Append(s, x)) = Len(s) + 1
         /\ Elements(Append(s, x)) = Elements(s) \cup {x}
         /\ Once(s) /\ x \notin Elements(s) => Once(Append(s, x))
<1> DEFINE t == Append(s, x)
<1>1. /\ t \in Seq(S) /\ Len(t) = Len(s) + 1 /\ Len(s) \in Nat
      /\ DOMAIN t = 1..(Len(s) + 1) /\ DOMAIN s = 1..Len(s)
      /\ t[Len(s) + 1] = x /\ \A i \in 1..Len(s) : t[i] = s[i]
  OBVIOUS
<1> HIDE DEF t
<1>2. \A i \in DOMAIN t : i \in DOMAIN s \/ i = Len(s) + 1
  BY <1>1
<1>3. \A i \in DOMAIN s : i \in DOMAIN t /\ t[i] = s[i] /\ i # Len(s) + 1
  BY <1>1
<1>4. Len(s) + 1 \in DOMAIN t
  BY <1>1
<1>5. \A y : y \in Elements(t) <=> y \in Elements(s) \cup {x}
  BY <1>1, <1>2, <1>3, <1>4 DEF Elements
<1>6. Once(s) /\ x \notin Elements(s) => Once(t)
  BY <1>1, <1>2, <1>3, <1>4 DEF Once, Elements
<1> QED BY <1>1, <1>5, <1>6 DEF t

\* The first element leaves.
LEMMA ElementsTail ==
  ASSUME NEW S, NEW s \in Seq(S), s # <<>>
  PROVE  /\ Head(s) \in S /\ Tail(s) \in Seq(S) /\ Len(Tail(s)) = Len(s) - 1 /\ Len(s) \in Nat
         /\ Elements(s) = {Head(s)} \cup Elements(Tail(s))
         /\ Once(s) => Once(Tail(s)) /\ Head(s) \notin Elements(Tail(s))
<1> DEFINE t == Tail(s)
<1>1. /\ t \in Seq(S) /\ Len(t) = Len(s) - 1 /\ Len(s) \in Nat \ {0} /\ Head(s) = s[1] /\ Head(s) \in S
      /\ DOMAIN t = 1..(Len(s) - 1) /\ DOMAIN s = 1..Len(s)
      /\ \A i \in 1..(Len(s) - 1) : t[i] = s[i + 1]
  OBVIOUS
<1> HIDE DEF t
<1>2. \A i \in DOMAIN t : i \in Nat /\ i + 1 \in DOMAIN s /\ t[i] = s[i + 1] /\ i + 1 # 1
  BY <1>1
<1>3. \A i \in DOMAIN s : i = 1 \/ \E j \in DOMAIN t : i = j + 1
  <2> TAKE i \in DOMAIN s
  <2>1. i # 1 => i - 1 \in DOMAIN t /\ i = (i - 1) + 1
    BY <1>1
  <2> QED BY <2>1
<1>4. 1 \in DOMAIN s
  BY <1>1
<1>5. \A y : y \in Elements(s) <=> y \in {Head(s)} \cup Elements(t)
  BY <1>1, <1>2, <1>3, <1>4 DEF Elements
<1>6. Once(s) => Head(s) \notin Elements(t)
  BY <1>1, <1>2, <1>4 DEF Once, Elements
<1>7. Once(s) => Once(t)
  <2> SUFFICES ASSUME Once(s), NEW i \in DOMAIN t, NEW j \in DOMAIN t, t[i] = t[j] PROVE i = j
    BY DEF Once
  <2>1. i + 1 = j + 1 /\ i \in Nat /\ j \in Nat
    BY <1>2 DEF Once
  <2> QED BY <2>1
<1> QED BY <1>1, <1>5, <1>6, <1>7 DEF t

----------------------------------------------------------------------------
(* How the loss grows.                                                     *)

LEMMA Covered == LossIsCounted <=> Cardinality(Lost) <= Tolerated
BY DEF LossIsCounted, Lost, Tolerated

LEMMA ToleratedNat == ASSUME UsageTypeOK PROVE Tolerated \in Nat
<1>1. \A a, b \in Nat : a * b \in Nat
  OBVIOUS
<1>2. /\ dropped \in Nat /\ write_failed \in Nat /\ worker_restart \in Nat
      /\ MAX_BATCH \in Nat /\ Capacity \in Nat /\ Room \in Nat
  BY UsageAssumption DEF UsageTypeOK, Room
<1> DEFINE lost == MAX_BATCH * worker_restart
<1>3. lost \in Nat
  BY <1>1, <1>2
<1> HIDE DEF lost
<1>4. dropped + write_failed + lost + (IF mode = "dead" THEN MAX_BATCH + Room ELSE 0) \in Nat
  BY <1>2, <1>3
<1> QED BY <1>4 DEF Tolerated, lost

LEMMA CountCover ==
  ASSUME NEW A, NEW B, NEW X, IsFiniteSet(A), IsFiniteSet(X), B \subseteq A \cup X
  PROVE  /\ Cardinality(A) \in Nat /\ Cardinality(X) \in Nat /\ Cardinality(B) \in Nat
         /\ Cardinality(B) <= Cardinality(A) + Cardinality(X)
<1>1. /\ IsFiniteSet(A \cup X)
      /\ Cardinality(A \cup X) = Cardinality(A) + Cardinality(X) - Cardinality(A \cap X)
  BY FS_Union
<1>2. IsFiniteSet(A \cap X)
  BY FS_Intersection
<1>3. IsFiniteSet(B) /\ Cardinality(B) <= Cardinality(A \cup X)
  BY <1>1, FS_Subset
<1>4. /\ Cardinality(A) \in Nat /\ Cardinality(X) \in Nat /\ Cardinality(B) \in Nat
      /\ Cardinality(A \cap X) \in Nat /\ Cardinality(A \cup X) \in Nat
  BY <1>1, <1>2, <1>3, FS_CardinalityType
<1> QED BY <1>1, <1>3, <1>4

\* What the metrics and a death of the writer add.
LEMMA AddTolerated ==
  ASSUME UsageTypeOK, NEW i \in Nat, NEW j \in Nat, NEW k \in Nat,
         dropped' = dropped + i, write_failed' = write_failed + j, worker_restart' = worker_restart + k
  PROVE  /\ mode' = mode => Tolerated' = Tolerated + i + j + MAX_BATCH * k
         /\ mode # "dead" /\ mode' = "dead" => Tolerated' = Tolerated + i + j + MAX_BATCH * k + MAX_BATCH + Room
         /\ mode # "dead" /\ mode' # "dead" => Tolerated' = Tolerated + i + j + MAX_BATCH * k
<1>1. \A a, b \in Nat : a * b \in Nat
  OBVIOUS
<1>2. \A a, b, c \in Nat : a * (b + c) = a * b + a * c
  OBVIOUS
<1>3. /\ dropped \in Nat /\ write_failed \in Nat /\ worker_restart \in Nat
      /\ MAX_BATCH \in Nat /\ Capacity \in Nat /\ Room \in Nat
  BY UsageAssumption DEF UsageTypeOK, Room
<1> DEFINE m(r) == MAX_BATCH * r
           room == Room
           dead == IF mode = "dead" THEN MAX_BATCH + room ELSE 0
<1>4. m(worker_restart) \in Nat /\ m(k) \in Nat /\ m(worker_restart + k) = m(worker_restart) + m(k)
  BY <1>1, <1>2, <1>3
<1> HIDE DEF m
<1>5. room' = room /\ room \in Nat
  BY <1>3 DEF Room
<1> HIDE DEF room
<1>6. Tolerated = dropped + write_failed + m(worker_restart) + dead
  BY DEF Tolerated, m, room
<1>7. Tolerated' = (dropped + i) + (write_failed + j) + m(worker_restart + k) + dead'
  BY DEF Tolerated, m, room
<1> SUFFICES /\ mode' = mode => Tolerated' = Tolerated + i + j + m(k)
             /\ mode # "dead" /\ mode' = "dead" => Tolerated' = Tolerated + i + j + m(k) + MAX_BATCH + room
             /\ mode # "dead" /\ mode' # "dead" => Tolerated' = Tolerated + i + j + m(k)
  BY DEF m, room
<1> QED BY <1>3, <1>4, <1>5, <1>6, <1>7

\* The loss stays covered when the lost are joined by no more than the metrics add.
LEMMA LossCovered ==
  ASSUME Metering, NEW X, IsFiniteSet(X), Lost' \subseteq Lost \cup X,
         Tolerated' \in Nat, Tolerated' >= Tolerated + Cardinality(X)
  PROVE  LossIsCounted'
<1>1. Lost \subseteq Call /\ IsFiniteSet(Call)
  BY UsageAssumption DEF Lost
<1>2. IsFiniteSet(Lost)
  BY <1>1, FS_Subset
<1>3. /\ Cardinality(Lost) \in Nat /\ Cardinality(X) \in Nat /\ Cardinality(Lost') \in Nat
      /\ Cardinality(Lost') <= Cardinality(Lost) + Cardinality(X)
  <2> DEFINE A == Lost
             B == Lost'
  <2>1. IsFiniteSet(A) /\ B \subseteq A \cup X
    BY <1>2
  <2> HIDE DEF A, B
  <2>2. /\ Cardinality(A) \in Nat /\ Cardinality(X) \in Nat /\ Cardinality(B) \in Nat
        /\ Cardinality(B) <= Cardinality(A) + Cardinality(X)
    BY <2>1, CountCover
  <2> QED BY <2>2 DEF A, B
<1>4. Cardinality(Lost) <= Tolerated
  BY Covered DEF Metering
<1>5. Tolerated \in Nat
  BY ToleratedNat DEF Metering
<1>6. Cardinality(Lost') <= Tolerated'
  BY <1>3, <1>4, <1>5
<1>7. (LossIsCounted <=> Cardinality(Lost) <= Tolerated)'
  BY Covered, PTL
<1> QED BY <1>6, <1>7

LEMMA LossStays ==
  ASSUME Metering, Lost' \subseteq Lost, Tolerated' \in Nat, Tolerated' >= Tolerated
  PROVE  LossIsCounted'
<1>1. IsFiniteSet({}) /\ Cardinality({}) = 0
  BY FS_EmptySet
<1>2. Tolerated \in Nat
  BY ToleratedNat DEF Metering
<1> QED BY <1>1, <1>2, LossCovered

----------------------------------------------------------------------------
(* Calls.                                                                  *)

\* The writer, the channel and the store are left alone by calls that record nothing.
LEMMA QuietCall ==
  ASSUME Metering, NEW c \in Call, NEW p \in {"chat", "responses", "over"},
         phase[c] # "owed", phase' = [phase EXCEPT ![c] = p],
         UNCHANGED <<sinkOpen, recorded, queue, mode, batch, attempt, dropped, write_failed, worker_restart,
                     stored, ambiguous>>
  PROVE  Metering'
<1> USE DEF Metering
<1>1. UsageTypeOK'
  BY DEF UsageTypeOK, Room
<1>2. WriterShape'
  BY DEF WriterShape
<1>3. \A d \in Call : phase'[d] = "owed" <=> phase[d] = "owed"
  BY DEF UsageTypeOK
<1>4. UnderWayOnce'
  BY <1>3 DEF UnderWayOnce, Once, Tries, UnderWay, Elements
<1>5. StoredOnce'
  BY DEF StoredOnce
<1>6. Lost' \subseteq Lost /\ Tolerated' = Tolerated /\ Tolerated \in Nat
  BY <1>3, ToleratedNat DEF Lost, Tolerated, UnderWay, Elements, Room
<1>7. LossIsCounted'
  BY <1>6, LossStays
<1> QED BY <1>1, <1>2, <1>4, <1>5, <1>7

\* An answer with usage: its event is in the channel, or counted as dropped.
LEMMA AnswerMeters ==
  ASSUME Metering, NEW c \in Call, NEW content \in Content, NEW usage \in BOOLEAN,
         CallAnswered(c, content, usage)
  PROVE  Metering'
<1> USE DEF Metering
<1>1. phase[c] \in {"chat", "responses"} /\ c \notin UnderWay /\ stored[c] = 0
  BY DEF CallAnswered, InFlight, UnderWayOnce
<1>2. CASE ~ (usage /\ IsOk(phase[c], content))
  <2>1. phase' = [phase EXCEPT ![c] = "over"]
    BY <1>2 DEF CallAnswered
  <2>2. UNCHANGED <<sinkOpen, recorded, queue, mode, batch, attempt, dropped, write_failed, worker_restart,
                    stored, ambiguous>>
    BY <1>2 DEF CallAnswered, Metered, writer
  <2> QED BY <1>1, <2>1, <2>2, QuietCall
<1>3. CASE usage /\ IsOk(phase[c], content)
  <2>1. /\ phase' = [phase EXCEPT ![c] = "owed"] /\ Record(c)
        /\ UNCHANGED <<sinkOpen, mode, batch, attempt, write_failed, worker_restart, stored, ambiguous>>
    BY <1>3 DEF CallAnswered, Metered, writer
  <2>2. /\ recorded' = Append(recorded, c)
        /\ \/ mode # "dead" /\ Len(queue) < Room /\ queue' = Append(queue, c) /\ dropped' = dropped
           \/ dropped' = dropped + 1 /\ queue' = queue
    BY <2>1 DEF Record, HasRoom
  <2>3. \A d \in Call : d # c => phase'[d] = phase[d]
    BY <2>1 DEF UsageTypeOK
  <2>4. c \notin Elements(queue) /\ c \notin Elements(batch)
    BY <1>1 DEF UnderWay
  <2>5. recorded' \in Seq(Call)
    BY <2>2, ElementsAppend DEF UsageTypeOK
  <2>6. CASE mode # "dead" /\ Len(queue) < Room /\ queue' = Append(queue, c) /\ dropped' = dropped
    <3>1. /\ queue' \in Seq(Call) /\ Len(queue') = Len(queue) + 1
          /\ Elements(queue') = Elements(queue) \cup {c} /\ Once(queue')
      BY <2>4, <2>6, ElementsAppend DEF UsageTypeOK, UnderWayOnce
    <3>2. UsageTypeOK'
      BY <2>1, <2>5, <2>6, <3>1, UsageAssumption DEF UsageTypeOK, Room
    <3>3. WriterShape'
      BY <2>1, <2>6 DEF WriterShape
    <3>4. Elements(queue)' = Elements(queue) \cup {c} /\ Elements(batch)' = Elements(batch)
      BY <3>1, <2>1 DEF Elements
    <3>5. UnderWayOnce'
      <4>1. Once(queue)' /\ Once(batch)' /\ (Elements(queue) \cap Elements(batch) = {})'
        BY <2>1, <2>4, <3>1, <3>4 DEF UnderWayOnce, Once
      <4>2. \A d \in Call : phase'[d] # "owed" => d \notin UnderWay' /\ stored'[d] = 0
        BY <2>1, <2>3, <3>4 DEF UnderWayOnce, UnderWay, UsageTypeOK
      <4> QED BY <1>1, <2>1, <3>4, <4>1, <4>2 DEF UnderWayOnce, Tries
    <3>6. StoredOnce'
      BY <2>1 DEF StoredOnce
    <3>7. Lost' \subseteq Lost
      BY <2>1, <2>3, <3>4 DEF Lost, UnderWay
    <3>8. Tolerated' = Tolerated /\ Tolerated \in Nat
      BY <2>1, <2>6, ToleratedNat DEF Tolerated, Room
    <3> QED BY <3>2, <3>3, <3>5, <3>6, <3>7, <3>8, LossStays
  <2>7. CASE dropped' = dropped + 1 /\ queue' = queue
    <3>1. UsageTypeOK'
      BY <2>1, <2>5, <2>7, UsageAssumption DEF UsageTypeOK, Room
    <3>2. WriterShape'
      BY <2>1, <2>7 DEF WriterShape
    <3>3. Elements(queue)' = Elements(queue) /\ Elements(batch)' = Elements(batch)
      BY <2>1, <2>7 DEF Elements
    <3>4. UnderWayOnce'
      <4>1. Once(queue)' /\ Once(batch)'
        BY <2>1, <2>7 DEF UnderWayOnce, Once
      <4>2. \A d \in Call : phase'[d] # "owed" => d \notin UnderWay' /\ stored'[d] = 0
        BY <2>1, <2>3, <3>3 DEF UnderWayOnce, UnderWay, UsageTypeOK
      <4> QED BY <2>1, <3>3, <4>1, <4>2 DEF UnderWayOnce, Tries
    <3>5. StoredOnce'
      BY <2>1 DEF StoredOnce
    <3>6. Lost' \subseteq Lost \cup {c}
      BY <2>1, <2>3, <3>3 DEF Lost, UnderWay
    <3>7. Tolerated' = Tolerated + 1 /\ Tolerated \in Nat
      <4>1. Tolerated' = Tolerated + 1 + 0 + MAX_BATCH * 0
        <5>1. write_failed' = write_failed + 0 /\ worker_restart' = worker_restart + 0 /\ mode' = mode
          BY <2>1 DEF UsageTypeOK
        <5> QED BY <2>7, <5>1, AddTolerated
      <4>2. MAX_BATCH * 0 = 0
        BY UsageAssumption
      <4> QED BY <4>1, <4>2, ToleratedNat
    <3>8. IsFiniteSet({c}) /\ Cardinality({c}) = 1
      BY FS_Singleton
    <3>9. LossIsCounted'
      BY <3>6, <3>7, <3>8, LossCovered
    <3> QED BY <3>1, <3>2, <3>4, <3>5, <3>9
  <2> QED BY <2>2, <2>6, <2>7
<1> QED BY <1>2, <1>3

----------------------------------------------------------------------------
(* The writer.                                                             *)

\* The first event of the channel goes to the batch.
LEMMA Moves ==
  ASSUME Metering, mode \in {"recv", "fill"}, queue # <<>>, Len(batch) < MAX_BATCH,
         batch' = Append(batch, Head(queue)), queue' = Tail(queue), mode' = "fill",
         UNCHANGED <<phase, sinkOpen, recorded, attempt, dropped, write_failed, worker_restart, stored, ambiguous>>
  PROVE  Metering'
<1> USE DEF Metering
<1>1. /\ Head(queue) \in Call /\ queue' \in Seq(Call) /\ Len(queue') = Len(queue) - 1 /\ Len(queue) \in Nat
      /\ Elements(queue) = {Head(queue)} \cup Elements(queue') /\ Once(queue')
      /\ Head(queue) \notin Elements(queue')
  BY ElementsTail DEF UsageTypeOK, UnderWayOnce
<1>2. Head(queue) \notin Elements(batch) /\ stored[Head(queue)] = 0
  BY <1>1 DEF UnderWayOnce
<1>3. /\ batch' \in Seq(Call) /\ Len(batch') = Len(batch) + 1 /\ Len(batch) \in Nat
      /\ Elements(batch') = Elements(batch) \cup {Head(queue)} /\ Once(batch')
  BY <1>1, <1>2, ElementsAppend DEF UsageTypeOK, UnderWayOnce
<1>4. UsageTypeOK'
  BY <1>1, <1>3, UsageAssumption DEF UsageTypeOK, Room
<1>5. attempt = 0 /\ WriterShape'
  BY DEF WriterShape
<1>6. /\ Elements(queue)' = Elements(queue') /\ Elements(batch)' = Elements(batch')
      /\ UnderWay' = UnderWay
  BY <1>1, <1>3 DEF Elements, UnderWay
<1>7. Tries = 0 /\ Tries' = 0
  BY <1>5 DEF Tries
<1>8. UnderWayOnce'
  <2>1. Once(queue)' /\ Once(batch)' /\ (Elements(queue) \cap Elements(batch) = {})'
    BY <1>1, <1>3, <1>6 DEF UnderWayOnce, Once
  <2>2. \A c \in Elements(batch') : stored[c] <= 0 /\ (stored[c] > 0 => c \in ambiguous)
    BY <1>2, <1>3, <1>7 DEF UnderWayOnce
  <2> QED BY <1>1, <1>6, <1>7, <2>1, <2>2 DEF UnderWayOnce
<1>9. StoredOnce'
  BY DEF StoredOnce
<1>10. Lost' \subseteq Lost /\ Tolerated' = Tolerated /\ Tolerated \in Nat
  BY <1>6, ToleratedNat DEF Lost, Tolerated, Room
<1> QED BY <1>4, <1>5, <1>8, <1>9, <1>10, LossStays

\* The writer changes its mode and its attempts.
LEMMA Turns ==
  ASSUME Metering, mode # "dead", mode' # "dead",
         mode' \in {"recv", "fill", "write", "backoff", "done"}, attempt' \in 0..MAX_WRITE_ATTEMPTS, WriterShape',
         sinkOpen' \in BOOLEAN, Tries' >= Tries,
         UNCHANGED <<phase, recorded, queue, batch, dropped, write_failed, worker_restart, stored, ambiguous>>
  PROVE  Metering'
<1> USE DEF Metering
<1>1. UsageTypeOK'
  BY DEF UsageTypeOK, Room
<1>2. UnderWayOnce'
  <2>1. Tries \in Int /\ Tries' \in Int
    <3>1. attempt \in Int /\ attempt' \in Int
      BY UsageAssumption DEF UsageTypeOK
    <3> QED BY <3>1 DEF Tries
  <2>2. \A c \in Elements(batch) : stored[c] \in Nat
    BY ElementsCount DEF UsageTypeOK
  <2> QED BY <2>1, <2>2 DEF UnderWayOnce, Once, UnderWay, Elements
<1>3. StoredOnce'
  BY DEF StoredOnce
<1>4. Lost' \subseteq Lost /\ Tolerated' = Tolerated /\ Tolerated \in Nat
  BY ToleratedNat DEF Lost, Tolerated, UnderWay, Elements, Room
<1> QED BY <1>1, <1>2, <1>3, <1>4, LossStays

\* A write that was carried out, or not; its call may be told a failure then.
Carried ==
  \/ stored' = stored /\ ambiguous' = ambiguous
  \/ /\ stored' = [c \in Call |-> IF c \in Elements(batch) THEN stored[c] + 1 ELSE stored[c]]
     /\ ambiguous' = ambiguous \cup Elements(batch)

LEMMA CarriedTypes ==
  ASSUME Metering, mode = "write",
         \/ Carried
         \/ StoreBatch /\ ambiguous' = ambiguous
  PROVE  /\ stored' \in [Call -> Nat] /\ ambiguous' \subseteq Call /\ ambiguous \subseteq ambiguous'
         /\ \A c \in Call : stored[c] \in Nat /\ stored'[c] \in Nat /\ stored'[c] >= stored[c]
         /\ \A c \in Call : c \notin Elements(batch) => stored'[c] = stored[c]
         /\ \A c \in Elements(batch) : stored[c] <= attempt - 1 /\ stored'[c] <= attempt /\ c \in Call
         /\ attempt \in Nat /\ attempt >= 1 /\ attempt <= MAX_WRITE_ATTEMPTS /\ MAX_WRITE_ATTEMPTS \in Nat
         /\ StoredOnce'
<1> USE DEF Metering
<1>1. Elements(batch) \subseteq Call
  BY ElementsCount DEF UsageTypeOK
<1>2. attempt \in Nat /\ attempt >= 1 /\ attempt <= MAX_WRITE_ATTEMPTS /\ MAX_WRITE_ATTEMPTS \in Nat
  BY UsageAssumption DEF UsageTypeOK, WriterShape
<1>3. stored' \in [Call -> Nat] /\ ambiguous' \subseteq Call /\ ambiguous \subseteq ambiguous'
  BY <1>1 DEF UsageTypeOK, Carried, StoreBatch
<1>4. \A c \in Call : \/ stored'[c] = stored[c]
                      \/ c \in Elements(batch) /\ stored'[c] = stored[c] + 1
  BY DEF UsageTypeOK, Carried, StoreBatch
<1>5. \A c \in Elements(batch) : stored[c] <= attempt - 1 /\ (stored[c] > 0 => c \in ambiguous)
  BY DEF UnderWayOnce, Tries
<1>6. \A c \in Call : stored[c] \in Nat
  BY DEF UsageTypeOK
<1>7. \A c \in Elements(batch) : stored'[c] <= attempt
  BY <1>1, <1>2, <1>4, <1>5, <1>6
<1>8. StoredOnce'
  <2>1. ASSUME NEW c \in Call PROVE stored'[c] <= MAX_WRITE_ATTEMPTS /\ (stored'[c] > 1 => c \in ambiguous')
    <3>1. stored[c] <= MAX_WRITE_ATTEMPTS /\ (stored[c] > 1 => c \in ambiguous)
      BY DEF StoredOnce
    <3> QED BY <1>2, <1>3, <1>4, <1>5, <1>6, <1>7, <3>1
  <2> QED BY <2>1 DEF StoredOnce
<1> QED BY <1>1, <1>2, <1>3, <1>4, <1>5, <1>6, <1>7, <1>8

\* The batch is dropped or stored, and the next one begins, or the task dies.
LEMMA Leaves ==
  ASSUME Metering, mode = "write",
         \/ Carried
         \/ StoreBatch /\ ambiguous' = ambiguous,
         mode' \in {"recv", "dead"}, batch' = <<>>, attempt' = 0,
         queue' = IF mode' = "dead" THEN <<>> ELSE queue,
         UNCHANGED <<phase, sinkOpen, recorded>>, dropped' \in Nat, write_failed' \in Nat, worker_restart' \in Nat
  PROVE  UsageTypeOK' /\ WriterShape' /\ UnderWayOnce' /\ StoredOnce'
<1> USE DEF Metering
<1>1. <<>> \in Seq(Call) /\ Len(<<>>) = 0 /\ DOMAIN <<>> = {}
  OBVIOUS
<1>2. stored' \in [Call -> Nat] /\ ambiguous' \subseteq Call
  BY CarriedTypes
<1>3. queue' \in Seq(Call) /\ Len(queue') <= Room
  BY <1>1, UsageAssumption DEF UsageTypeOK, Room
<1>4. UsageTypeOK'
  BY <1>1, <1>2, <1>3, UsageAssumption DEF UsageTypeOK, Room
<1>5. WriterShape'
  BY DEF WriterShape
<1>6. Elements(batch)' = {} /\ Once(batch)'
  BY <1>1 DEF Elements, Once
<1>7. Elements(queue)' \subseteq Elements(queue) /\ Once(queue)'
  BY <1>1 DEF Elements, Once, UnderWayOnce
<1>8. \A c \in Elements(queue) : c \notin Elements(batch) /\ stored[c] = 0 /\ c \in Call
  BY ElementsCount DEF UnderWayOnce, UsageTypeOK
<1>9. \A c \in Elements(queue)' : stored'[c] = 0
  BY <1>7, <1>8, CarriedTypes
<1>10. \A c \in Call : phase[c] # "owed" => c \notin UnderWay' /\ stored'[c] = 0
  <2> TAKE c \in Call
  <2> HAVE phase[c] # "owed"
  <2>1. c \notin Elements(queue) /\ c \notin Elements(batch) /\ stored[c] = 0
    BY DEF UnderWayOnce, UnderWay
  <2>2. stored'[c] = stored[c]
    BY <2>1, CarriedTypes
  <2> QED BY <1>6, <1>7, <2>1, <2>2 DEF UnderWay
<1>11. UnderWayOnce'
  BY <1>6, <1>7, <1>9, <1>10 DEF UnderWayOnce
<1> QED BY <1>4, <1>5, <1>11, CarriedTypes

\* What is lost with a batch.
LEMMA LeavesLoss ==
  ASSUME Metering, mode = "write",
         \/ Carried
         \/ StoreBatch /\ ambiguous' = ambiguous,
         batch' = <<>>, phase' = phase
  PROVE  /\ queue' = queue => Lost' \subseteq Lost \cup Elements(batch)
         /\ queue' = <<>> => Lost' \subseteq Lost \cup (Elements(batch) \cup Elements(queue))
         /\ queue' = queue /\ StoreBatch => Lost' \subseteq Lost
<1>1. \A c \in Call : stored'[c] = 0 => stored[c] = 0
  BY CarriedTypes
<1>2. \A c \in Lost' : c \in Call /\ phase[c] = "owed" /\ stored[c] = 0
  BY <1>1 DEF Lost
<1>3. queue' = queue => \A c \in Lost' : c \notin Elements(queue)
  BY DEF Lost, UnderWay, Elements
<1>4. StoreBatch => \A c \in Lost' : c \notin Elements(batch)
  <2> SUFFICES ASSUME StoreBatch, NEW c \in Lost', c \in Elements(batch) PROVE FALSE
    OBVIOUS
  <2>1. c \in Call /\ stored'[c] = 0 /\ stored[c] \in Nat
    BY CarriedTypes DEF Lost
  <2>2. stored'[c] = stored[c] + 1
    BY <2>1 DEF StoreBatch
  <2> QED BY <2>1, <2>2
<1> QED BY <1>2, <1>3, <1>4 DEF Lost, UnderWay


LEMMA QuietSteps ==
  ASSUME Metering, DropSinks \/ FillEnds \/ BackoffEnds \/ Exit
  PROVE  Metering'
<1> USE DEF Metering
<1>1. 0 \in 0..MAX_WRITE_ATTEMPTS /\ 1 \in 0..MAX_WRITE_ATTEMPTS /\ attempt \in 0..MAX_WRITE_ATTEMPTS
  BY UsageAssumption DEF UsageTypeOK
<1>2. CASE DropSinks
  <2>1. /\ sinkOpen' = FALSE
        /\ UNCHANGED <<phase, recorded, queue, mode, batch, attempt, dropped, write_failed, worker_restart, stored,
                       ambiguous>>
    BY <1>2 DEF DropSinks, writer, metrics
  <2>2. UsageTypeOK'
    BY <2>1 DEF UsageTypeOK, Room
  <2>3. WriterShape' /\ StoredOnce'
    BY <2>1 DEF WriterShape, StoredOnce
  <2>4. UnderWayOnce'
    BY <2>1 DEF UnderWayOnce, Once, Tries, UnderWay, Elements
  <2>5. Lost' \subseteq Lost /\ Tolerated' = Tolerated /\ Tolerated \in Nat
    BY <2>1, ToleratedNat DEF Lost, Tolerated, UnderWay, Elements, Room
  <2> QED BY <2>2, <2>3, <2>4, <2>5, LossStays
<1>3. CASE FillEnds
  <2>1. /\ mode = "fill" /\ mode' = "write" /\ attempt' = 1 /\ attempt = 0
        /\ UNCHANGED <<phase, sinkOpen, recorded, queue, batch, dropped, write_failed, worker_restart, stored,
                       ambiguous>>
    BY <1>3 DEF FillEnds, program, metrics, WriterShape
  <2>2. WriterShape' /\ Tries' >= Tries
    BY <2>1 DEF WriterShape, Tries
  <2>3. sinkOpen' \in BOOLEAN
    BY <2>1 DEF UsageTypeOK
  <2> QED BY <1>1, <2>1, <2>2, <2>3, Turns
<1>4. CASE BackoffEnds
  <2>1. /\ mode = "backoff" /\ mode' = "write" /\ attempt' = attempt + 1
        /\ UNCHANGED <<phase, sinkOpen, recorded, queue, batch, dropped, write_failed, worker_restart, stored,
                       ambiguous>>
    BY <1>4 DEF BackoffEnds, program, metrics
  <2>2. attempt >= 1 /\ attempt < MAX_WRITE_ATTEMPTS /\ attempt \in Nat /\ MAX_WRITE_ATTEMPTS \in Nat
    BY <2>1, UsageAssumption DEF WriterShape, UsageTypeOK
  <2>3. attempt' \in 0..MAX_WRITE_ATTEMPTS
    BY <2>1, <2>2
  <2>4. WriterShape' /\ Tries' >= Tries
    BY <2>1, <2>2 DEF WriterShape, Tries
  <2>5. sinkOpen' \in BOOLEAN
    BY <2>1 DEF UsageTypeOK
  <2> QED BY <2>1, <2>3, <2>4, <2>5, Turns
<1>5. CASE Exit
  <2>1. /\ mode = "recv" /\ mode' = "done"
        /\ UNCHANGED <<phase, sinkOpen, recorded, queue, batch, attempt, dropped, write_failed, worker_restart,
                       stored, ambiguous>>
    BY <1>5 DEF Exit, program, metrics
  <2>2. WriterShape' /\ Tries' >= Tries
    BY <1>1, <2>1 DEF WriterShape, Tries
  <2>3. sinkOpen' \in BOOLEAN
    BY <2>1 DEF UsageTypeOK
  <2> QED BY <1>1, <2>1, <2>2, <2>3, Turns
<1> QED BY <1>2, <1>3, <1>4, <1>5

LEMMA Takes == ASSUME Metering, Recv \/ Fill PROVE Metering'
<1> USE DEF Metering
<1>1. CASE Recv
  <2>1. /\ mode = "recv" /\ queue # <<>> /\ batch' = <<Head(queue)>> /\ queue' = Tail(queue) /\ mode' = "fill"
        /\ UNCHANGED <<phase, sinkOpen, recorded, attempt, dropped, write_failed, worker_restart, stored,
                       ambiguous>>
    BY <1>1 DEF Recv, program, metrics
  <2>2. batch = <<>>
    BY <2>1 DEF WriterShape
  <2>3. Len(batch) < MAX_BATCH
    BY <2>2, UsageAssumption
  <2>4. batch' = Append(batch, Head(queue))
    BY <2>1, <2>2
  <2> QED BY <2>1, <2>3, <2>4, Moves
<1>2. CASE Fill
  <2>1. /\ mode = "fill" /\ queue # <<>> /\ Len(batch) < MAX_BATCH
        /\ batch' = Append(batch, Head(queue)) /\ queue' = Tail(queue) /\ mode' = "fill"
        /\ UNCHANGED <<phase, sinkOpen, recorded, attempt, dropped, write_failed, worker_restart, stored,
                       ambiguous>>
    BY <1>2 DEF Fill, program, metrics
  <2> QED BY <2>1, Moves
<1> QED BY <1>1, <1>2

\* The size of a batch, of a batch with the channel, and of what a panic is allowed to lose.
LEMMA InHand ==
  ASSUME UsageTypeOK
  PROVE  /\ IsFiniteSet(Elements(batch)) /\ IsFiniteSet(Elements(batch) \cup Elements(queue))
         /\ Cardinality(Elements(batch)) \in Nat /\ Len(batch) \in Nat
         /\ Cardinality(Elements(batch)) <= Len(batch) /\ Len(batch) <= MAX_BATCH
         /\ Cardinality(Elements(batch) \cup Elements(queue)) \in Nat
         /\ Cardinality(Elements(batch) \cup Elements(queue)) <= MAX_BATCH + Room
         /\ MAX_BATCH \in Nat /\ Room \in Nat /\ MAX_BATCH * 0 = 0 /\ MAX_BATCH * 1 = MAX_BATCH
<1> DEFINE B == Elements(batch)
           Q == Elements(queue)
<1>1. IsFiniteSet(B) /\ Cardinality(B) <= Len(batch) /\ Len(batch) \in Nat /\ Cardinality(B) \in Nat
  BY ElementsCount DEF UsageTypeOK
<1>2. IsFiniteSet(Q) /\ Cardinality(Q) <= Len(queue) /\ Len(queue) \in Nat /\ Cardinality(Q) \in Nat
  BY ElementsCount DEF UsageTypeOK
<1>3. Len(batch) <= MAX_BATCH /\ Len(queue) <= Room
  BY DEF UsageTypeOK
<1>4. MAX_BATCH \in Nat /\ Room \in Nat /\ MAX_BATCH * 0 = 0 /\ MAX_BATCH * 1 = MAX_BATCH
  BY UsageAssumption DEF Room
<1> HIDE DEF B, Q
<1>5. IsFiniteSet(B \cup Q)
  BY <1>1, <1>2, FS_Union
<1>6. Cardinality(B \cup Q) \in Nat /\ Cardinality(B \cup Q) <= Cardinality(B) + Cardinality(Q)
  BY <1>1, <1>2, CountCover
<1>7. Cardinality(B \cup Q) <= MAX_BATCH + Room
  BY <1>1, <1>2, <1>3, <1>4, <1>6
<1> QED BY <1>1, <1>3, <1>4, <1>5, <1>6, <1>7 DEF B, Q

\* A write ends the batch: it was stored, counted as failed, charged to a restart, or died with
\* the task.
LEMMA WriteMeters == ASSUME Metering, Write PROVE Metering'
<1> USE DEF Metering
<1>0. mode = "write" /\ mode # "dead" /\ UNCHANGED <<phase, sinkOpen, recorded>>
  BY DEF Write, Written, WriteFails, FuturePanics, CallPanics, program
<1>n. dropped \in Nat /\ write_failed \in Nat /\ worker_restart \in Nat /\ Tolerated \in Nat
  BY ToleratedNat DEF UsageTypeOK
<1>1. CASE Written
  <2>1. /\ StoreBatch /\ ambiguous' = ambiguous /\ mode' = "recv" /\ batch' = <<>> /\ attempt' = 0
        /\ queue' = queue /\ dropped' = dropped /\ write_failed' = write_failed /\ worker_restart' = worker_restart
    BY <1>1 DEF Written, NextBatch, metrics
  <2>2. UsageTypeOK' /\ WriterShape' /\ UnderWayOnce' /\ StoredOnce'
    BY <1>0, <1>n, <2>1, Leaves
  <2>3. Lost' \subseteq Lost
    BY <1>0, <2>1, LeavesLoss
  <2>4. Tolerated' = Tolerated
    BY <1>0, <2>1 DEF Tolerated, Room
  <2> QED BY <1>n, <2>2, <2>3, <2>4, LossStays
<1>2. CASE WriteFails /\ attempt < MAX_WRITE_ATTEMPTS
  <2>1. /\ mode' = "backoff" /\ Carried
        /\ UNCHANGED <<batch, attempt, queue, dropped, write_failed, worker_restart>>
    BY <1>2 DEF WriteFails, StoreUnclear, StoreBatch, metrics, Carried
  <2>2. /\ stored' \in [Call -> Nat] /\ ambiguous' \subseteq Call /\ ambiguous \subseteq ambiguous'
        /\ \A c \in Call : stored[c] \in Nat /\ stored'[c] \in Nat /\ stored'[c] >= stored[c]
        /\ \A c \in Call : c \notin Elements(batch) => stored'[c] = stored[c]
        /\ \A c \in Elements(batch) : stored[c] <= attempt - 1 /\ stored'[c] <= attempt /\ c \in Call
        /\ StoredOnce'
    BY <1>0, <2>1, CarriedTypes
  <2>3. UsageTypeOK'
    BY <1>0, <2>1, <2>2 DEF UsageTypeOK, Room
  <2>4. WriterShape'
    BY <1>0, <1>2, <2>1 DEF WriterShape
  <2>5. /\ Elements(batch)' = Elements(batch) /\ Elements(queue)' = Elements(queue)
        /\ UnderWay' = UnderWay
    BY <2>1 DEF Elements, UnderWay
  <2>6. \A c \in Elements(batch) : stored'[c] > 0 => c \in ambiguous'
    <3> TAKE c \in Elements(batch)
    <3> HAVE stored'[c] > 0
    <3>1. stored[c] > 0 => c \in ambiguous
      BY DEF UnderWayOnce
    <3>2. stored[c] \in Nat /\ (stored'[c] = stored[c] \/ c \in ambiguous')
      BY <2>1, <2>2 DEF Carried
    <3> QED BY <2>2, <3>1, <3>2
  <2>7. UnderWayOnce'
    <3>1. Once(queue)' /\ Once(batch)' /\ (Elements(queue) \cap Elements(batch) = {})'
      BY <2>1, <2>5 DEF UnderWayOnce, Once
    <3>2. \A c \in Call : phase[c] # "owed" => c \notin UnderWay /\ stored'[c] = 0
      BY <2>2 DEF UnderWayOnce, UnderWay
    <3>3. \A c \in Elements(queue) : c \in Call
      BY ElementsCount DEF UsageTypeOK
    <3>4. \A c \in Elements(queue) : stored'[c] = 0
      BY <2>2, <3>3 DEF UnderWayOnce
    <3>5. Tries' = attempt
      BY <2>1 DEF Tries
    <3> QED BY <1>0, <2>2, <2>5, <2>6, <3>1, <3>2, <3>4, <3>5 DEF UnderWayOnce
  <2>8. Lost' \subseteq Lost
    <3> SUFFICES ASSUME NEW c \in Lost' PROVE c \in Lost
      OBVIOUS
    <3>1. c \in Call /\ phase[c] = "owed" /\ stored'[c] = 0 /\ c \notin UnderWay
      BY <1>0, <2>5 DEF Lost
    <3>2. stored[c] = 0
      BY <2>2, <3>1
    <3> QED BY <3>1, <3>2 DEF Lost
  <2>9. Tolerated' = Tolerated
    BY <1>0, <2>1 DEF Tolerated, Room
  <2> QED BY <1>n, <2>2, <2>3, <2>4, <2>7, <2>8, <2>9, LossStays
<1>3. CASE WriteFails /\ ~ (attempt < MAX_WRITE_ATTEMPTS)
  <2>1. /\ mode' = "recv" /\ batch' = <<>> /\ attempt' = 0 /\ Carried /\ queue' = queue
        /\ write_failed' = write_failed + Len(batch) /\ dropped' = dropped /\ worker_restart' = worker_restart
    BY <1>3 DEF WriteFails, StoreUnclear, StoreBatch, NextBatch, Carried
  <2>2. write_failed' \in Nat
    BY <1>n, <2>1, InHand
  <2>3. UsageTypeOK' /\ WriterShape' /\ UnderWayOnce' /\ StoredOnce'
    BY <1>0, <1>n, <2>1, <2>2, Leaves
  <2>4. Lost' \subseteq Lost \cup Elements(batch)
    BY <1>0, <2>1, LeavesLoss
  <2>5. Tolerated' = Tolerated + 0 + Len(batch) + MAX_BATCH * 0
    <3>1. dropped' = dropped + 0 /\ worker_restart' = worker_restart + 0 /\ mode' # "dead"
      BY <1>n, <2>1
    <3>2. Len(batch) \in Nat
      BY InHand
    <3> QED BY <1>0, <2>1, <3>1, <3>2, AddTolerated
  <2>6. Tolerated' \in Nat /\ Tolerated' >= Tolerated + Cardinality(Elements(batch))
    BY <1>n, <2>5, InHand
  <2>7. IsFiniteSet(Elements(batch))
    BY InHand
  <2>8. LossIsCounted'
    BY <2>4, <2>6, <2>7, LossCovered
  <2> QED BY <2>3, <2>8
<1>4. CASE FuturePanics
  <2>1. /\ mode' = "recv" /\ batch' = <<>> /\ attempt' = 0 /\ Carried /\ queue' = queue
        /\ worker_restart' = worker_restart + 1 /\ dropped' = dropped /\ write_failed' = write_failed
    BY <1>4 DEF FuturePanics, StoreUnclear, StoreBatch, NextBatch, Carried
  <2>2. worker_restart' \in Nat
    BY <1>n, <2>1
  <2>3. UsageTypeOK' /\ WriterShape' /\ UnderWayOnce' /\ StoredOnce'
    BY <1>0, <1>n, <2>1, <2>2, Leaves
  <2>4. Lost' \subseteq Lost \cup Elements(batch)
    BY <1>0, <2>1, LeavesLoss
  <2>5. Tolerated' = Tolerated + 0 + 0 + MAX_BATCH * 1
    <3>1. dropped' = dropped + 0 /\ write_failed' = write_failed + 0 /\ mode' # "dead"
      BY <1>n, <2>1
    <3> QED BY <1>0, <2>1, <3>1, AddTolerated
  <2>6. Tolerated' \in Nat /\ Tolerated' >= Tolerated + Cardinality(Elements(batch))
    BY <1>n, <2>5, InHand
  <2>7. IsFiniteSet(Elements(batch))
    BY InHand
  <2>8. LossIsCounted'
    BY <2>4, <2>6, <2>7, LossCovered
  <2> QED BY <2>3, <2>8
<1>5. CASE CallPanics
  <2>1. /\ mode' = "dead" /\ batch' = <<>> /\ attempt' = 0 /\ Carried /\ queue' = <<>>
        /\ worker_restart' = worker_restart /\ dropped' = dropped /\ write_failed' = write_failed
    BY <1>5 DEF CallPanics, metrics, Carried
  <2>2. UsageTypeOK' /\ WriterShape' /\ UnderWayOnce' /\ StoredOnce'
    BY <1>0, <1>n, <2>1, Leaves
  <2> DEFINE X == Elements(batch) \cup Elements(queue)
  <2>3. Lost' \subseteq Lost \cup X
    BY <1>0, <2>1, LeavesLoss
  <2>4. Tolerated' = Tolerated + 0 + 0 + MAX_BATCH * 0 + MAX_BATCH + Room
    <3>1. dropped' = dropped + 0 /\ write_failed' = write_failed + 0 /\ worker_restart' = worker_restart + 0
      BY <1>n, <2>1
    <3> QED BY <1>0, <2>1, <3>1, AddTolerated
  <2>5. Tolerated' \in Nat /\ Tolerated' >= Tolerated + Cardinality(X)
    BY <1>n, <2>4, InHand
  <2>6. IsFiniteSet(X)
    BY InHand
  <2> HIDE DEF X
  <2>7. LossIsCounted'
    BY <2>3, <2>5, <2>6, LossCovered
  <2> QED BY <2>2, <2>7
<1> QED BY <1>1, <1>2, <1>3, <1>4, <1>5 DEF Write

LEMMA MeteringInit == ASSUME UsageInit PROVE Metering
<1>1. <<>> \in Seq(Call) /\ Len(<<>>) = 0 /\ DOMAIN <<>> = {}
  OBVIOUS
<1>2. /\ MAX_BATCH \in Nat /\ MAX_WRITE_ATTEMPTS \in Nat /\ Room \in Nat /\ 0 \in 0..MAX_WRITE_ATTEMPTS
  BY UsageAssumption DEF Room
<1>3. UsageTypeOK
  BY <1>1, <1>2 DEF UsageInit, UsageTypeOK
<1>4. WriterShape
  BY DEF UsageInit, WriterShape
<1>5. Elements(queue) = {} /\ Elements(batch) = {} /\ UnderWay = {}
  BY <1>1 DEF UsageInit, Elements, UnderWay
<1>6. UnderWayOnce
  BY <1>1, <1>5 DEF UsageInit, UnderWayOnce, Once
<1>7. StoredOnce
  BY <1>2 DEF UsageInit, StoredOnce
<1>8. Lost = {}
  BY DEF UsageInit, Lost
<1>9. Cardinality({}) = 0 /\ Tolerated \in Nat
  BY <1>3, FS_EmptySet, ToleratedNat
<1>10. LossIsCounted
  BY <1>8, <1>9, Covered
<1> QED BY <1>3, <1>4, <1>6, <1>7, <1>10 DEF Metering

LEMMA MeteringStays == ASSUME Metering, [UsageNext]_usageVars PROVE Metering'
<1>1. CASE UNCHANGED usageVars
  <2>1. UNCHANGED <<phase, sinkOpen, recorded, queue, mode, batch, attempt, dropped, write_failed, worker_restart,
                    stored, ambiguous>>
    BY <1>1 DEF usageVars, writer, metrics
  <2>2. UsageTypeOK'
    BY <2>1 DEF UsageTypeOK, Room, Metering
  <2>3. WriterShape' /\ StoredOnce'
    BY <2>1 DEF WriterShape, StoredOnce, Metering
  <2>4. UnderWayOnce'
    BY <2>1 DEF UnderWayOnce, Once, Tries, UnderWay, Elements, Metering
  <2>5. Lost' \subseteq Lost /\ Tolerated' = Tolerated /\ Tolerated \in Nat
    BY <2>1, ToleratedNat DEF Lost, Tolerated, UnderWay, Elements, Room, Metering
  <2>6. LossIsCounted'
    BY <2>5, LossStays
  <2> QED BY <2>2, <2>3, <2>4, <2>6 DEF Metering
<1>2. ASSUME NEW c \in Call, NEW form \in {"chat", "responses"}, Send(c, form) PROVE Metering'
  <2>1. /\ phase[c] # "owed" /\ phase' = [phase EXCEPT ![c] = form]
        /\ UNCHANGED <<sinkOpen, recorded, queue, mode, batch, attempt, dropped, write_failed, worker_restart,
                       stored, ambiguous>>
    BY <1>2 DEF Send, writer, metrics
  <2> QED BY <2>1, QuietCall
<1>3. ASSUME NEW c \in Call, NEW content \in Content, NEW usage \in BOOLEAN,
             CallAnswered(c, content, usage)
      PROVE Metering'
  BY <1>3, AnswerMeters
<1>4. ASSUME NEW c \in Call, CallFails(c) PROVE Metering'
  <2>1. /\ phase[c] # "owed" /\ phase' = [phase EXCEPT ![c] = "over"]
        /\ UNCHANGED <<sinkOpen, recorded, queue, mode, batch, attempt, dropped, write_failed, worker_restart,
                       stored, ambiguous>>
    BY <1>4 DEF CallFails, InFlight, writer, metrics
  <2> QED BY <2>1, QuietCall
<1>5. CASE DropSinks \/ FillEnds \/ BackoffEnds \/ Exit
  BY <1>5, QuietSteps
<1>6. CASE Recv \/ Fill
  BY <1>6, Takes
<1>7. CASE Write
  BY <1>7, WriteMeters
<1> QED BY <1>1, <1>2, <1>3, <1>4, <1>5, <1>6, <1>7 DEF UsageNext

\* The writer task keeps in step with its channel and its store: each recorded call is under way
\* once, stored by no more writes than were tried, and the loss is covered.
THEOREM MeteringHolds == UsageSpec => []Metering
<1>1. UsageInit => Metering
  BY MeteringInit
<1>2. Metering /\ [UsageNext]_usageVars => Metering'
  BY MeteringStays
<1> QED BY <1>1, <1>2, PTL DEF UsageSpec

\* Every answer with usage is stored, under way or covered by the metrics of the sink.
THEOREM UsageLossIsCounted == UsageSpec => []LossIsCounted
<1>1. Metering => LossIsCounted
  BY DEF Metering
<1> QED BY <1>1, MeteringHolds, PTL

\* The store has an event twice only after a write that reported a failure it was not.
THEOREM UsageStoredOnce == UsageSpec => []StoredOnce
<1>1. Metering => StoredOnce
  BY DEF Metering
<1> QED BY <1>1, MeteringHolds, PTL

----------------------------------------------------------------------------
(* FunAsr.                                                                 *)

FrameKind == {"ignorable", "started", "result", "finished", "failed", "broken"}

\* The segment that a provider may send after s.
Follows(s, t) ==
  /\ t.sentence = (IF s.final THEN s.sentence + 1 ELSE s.sentence)
  /\ t \in Segment

SeenLast == IF shown = <<>> THEN NoSegment ELSE shown[Len(shown)]

\* Before and at the places of the results that are under way: the segment that was shown last, or
\* comes there.
Places == {0} \cup {i \in 1..Len(down) : down[i].kind = "result"}
At(i)  == IF i = 0 THEN SeenLast ELSE down[i].segment

Talk == [started : BOOLEAN, ended : BOOLEAN, last : Segment \cup {NoSegment}]

Wire ==
  /\ down \in Seq([kind : FrameKind, segment : Segment \cup {NoSegment}])
  /\ \A i \in 1..Len(down) : down[i].kind = "result" => down[i].segment \in Segment
  /\ up \in BOOLEAN /\ talk \in Talk
  /\ shown \in Seq(Segment) /\ segments \in Seq(Segment)

\* Until the stream is over each result follows the one before it, and the provider goes on from
\* the last.
InOrder ==
  stage \notin {"draining", "ended"} =>
    /\ \A i, j \in Places : i < j /\ (\A k \in Places : k <= i \/ k >= j) => Follows(At(i), At(j))
    /\ up => \A i \in Places : (\A k \in Places : k <= i) => talk.last = At(i)

\* Position s of all_segments has sentence s, as it was shown last.
KeptSegments ==
  /\ Len(segments) = SeenLast.sentence
  /\ partial = (IF SeenLast.final THEN 0 ELSE SeenLast.sentence)
  /\ \A i \in 1..Len(shown) : shown[i].sentence \in 1..Len(segments)
  /\ \A s \in 1..Len(segments) :
       \E i \in 1..Len(shown) :
         /\ shown[i] = segments[s] /\ shown[i].sentence = s
         /\ \A j \in i + 1..Len(shown) : shown[j].sentence # s

Outcome ==
  /\ stage \notin {"draining", "ended"} => outcome = "none"
  /\ outcome = "finished" => result = segments

Session == AsrTypeOK /\ Wire /\ InOrder /\ KeptSegments /\ Outcome

\* all_segments are what was shown last of each sentence.
LEMMA KeptIsShown == ASSUME Wire, KeptSegments PROVE segments = LastShown
<1> DEFINE isLast(i) == \A j \in i + 1..Len(shown) : shown[j].sentence # shown[i].sentence
           numbers   == {i \in 1..Len(shown) : isLast(i)}
           at(s)     == CHOOSE i \in numbers : shown[i].sentence = s
           told      == {shown[i].sentence : i \in numbers}
<1>1. LastShown = [s \in told |-> shown[at(s)]]
  BY DEF LastShown
<1>2. Len(shown) \in Nat /\ Len(segments) \in Nat /\ segments = [s \in 1..Len(segments) |-> segments[s]]
  BY DEF Wire
<1>3. ASSUME NEW s \in 1..Len(segments) PROVE s \in told /\ shown[at(s)] = segments[s]
  <2>1. PICK i \in 1..Len(shown) : /\ shown[i] = segments[s] /\ shown[i].sentence = s
                                   /\ \A j \in i + 1..Len(shown) : shown[j].sentence # s
    BY <1>3 DEF KeptSegments
  <2>2. i \in numbers /\ shown[i].sentence = s
    BY <2>1
  <2>3. ASSUME NEW k \in numbers, shown[k].sentence = s PROVE k = i
    <3>1. k \in 1..Len(shown) /\ \A j \in k + 1..Len(shown) : shown[j].sentence # s
      BY <2>3
    <3>2. ~ (i \in k + 1..Len(shown)) /\ ~ (k \in i + 1..Len(shown))
      BY <2>1, <2>3, <3>1
    <3> QED BY <1>2, <3>1, <3>2
  <2> HIDE DEF numbers
  <2>4. at(s) = i
    BY <2>2, <2>3
  <2> QED BY <2>1, <2>2, <2>4
<1>4. \A s \in told : s \in 1..Len(segments)
  BY DEF KeptSegments
<1> HIDE DEF at, told
<1>5. told = 1..Len(segments)
  BY <1>3, <1>4
<1> QED BY <1>1, <1>2, <1>3, <1>5

Stage  == {"opened", "connecting", "sending", "starting", "started", "running", "draining", "ended"}
Ending == {"none", "finished", "error", "dropped"}
PumpAt == {"none", "pumping", "done", "failed", "aborting", "gone"}
Past   == {"draining", "ended"}

\* Neither a frame nor a segment comes or goes.
LEMMA Stays ==
  ASSUME Session, UNCHANGED <<shown, segments, partial, down, up, talk>>,
         stage' \in Stage, outcome' \in Ending, pump' \in PumpAt, Outcome', stage \in Past => stage' \in Past
  PROVE  Session'
<1> USE DEF Session, Stage, Ending, PumpAt, Past
<1>1. AsrTypeOK' /\ Wire'
  BY DEF AsrTypeOK, Wire, Talk, Segment, NoSegment
<1>2. InOrder'
  <2> SUFFICES ASSUME stage' \notin Past
               PROVE  /\ \A i, j \in Places' : i < j /\ (\A k \in Places' : k <= i \/ k >= j) => Follows(At(i)', At(j)')
                      /\ up' => \A i \in Places' : (\A k \in Places' : k <= i) => talk'.last = At(i)'
    BY DEF InOrder, Follows, Segment
  <2>1. Places' = Places /\ SeenLast' = SeenLast
    BY DEF Places, SeenLast, NoSegment
  <2>2. ASSUME NEW i \in Places PROVE At(i)' = At(i)
    BY <2>1 DEF At
  <2> QED BY <2>1, <2>2 DEF InOrder
<1>3. KeptSegments'
  BY DEF KeptSegments, SeenLast, NoSegment
<1> QED BY <1>1, <1>2, <1>3

\* The network loses the connection, and with it all frames or none.
LEMMA Breaks == ASSUME Session, Break PROVE Session'
<1> USE DEF Session
<1>1. /\ up' = FALSE /\ (down' = down \/ down' = <<>>)
      /\ UNCHANGED <<stage, outcome, shown, segments, partial, result, pump, mic, endless, sent, talk>>
  BY DEF Break, stream, uplink
<1>2. AsrTypeOK'
  <2>1. MaxDown \in Nat /\ Len(<<>>) = 0
    BY AsrAssumption
  <2>2. Len(down') <= MaxDown
    BY <1>1, <2>1 DEF AsrTypeOK
  <2> QED BY <1>1, <2>2 DEF AsrTypeOK, Segment
<1>3. Wire'
  <2>1. Len(<<>>) = 0 /\ (\A i \in 1..0 : FALSE) /\ <<>> \in Seq([kind : FrameKind, segment : Segment \cup {NoSegment}])
    OBVIOUS
  <2>2. /\ down' \in Seq([kind : FrameKind, segment : Segment \cup {NoSegment}])
        /\ \A i \in 1..Len(down') : down'[i].kind = "result" => down'[i].segment \in Segment
    <3>1. CASE down' = down
      BY <3>1 DEF Wire
    <3>2. CASE down' = <<>>
      <4>1. Len(down') = 0
        BY <3>2
      <4> QED BY <2>1, <3>2, <4>1
    <3> QED BY <1>1, <3>1, <3>2
  <2> QED BY <1>1, <2>2 DEF Wire, Talk, Segment, NoSegment
<1>4. SeenLast' = SeenLast /\ KeptSegments' /\ Outcome'
  BY <1>1 DEF KeptSegments, SeenLast, NoSegment, Outcome
<1>5. InOrder'
  <2>1. CASE down' = <<>>
    <3>1. Places' = {0}
      BY <2>1 DEF Places
    <3> QED BY <1>1, <3>1 DEF InOrder
  <2>2. CASE down' = down
    <3>1. Places' = Places
      BY <2>2 DEF Places
    <3>2. ASSUME NEW i \in Places PROVE At(i)' = At(i)
      BY <1>4, <2>2 DEF At
    <3> QED BY <1>1, <3>1, <3>2 DEF InOrder, Follows, Segment
  <2> QED BY <1>1, <2>1, <2>2
<1> QED BY <1>2, <1>3, <1>4, <1>5

\* A frame that is no result is read.
LEMMA Reads ==
  ASSUME Session, down # <<>>, Head(down).kind # "result", down' = Tail(down),
         UNCHANGED <<shown, segments, partial, up, talk>>,
         stage' \in Stage, outcome' \in Ending, pump' \in PumpAt, Outcome', stage \notin Past
  PROVE  Session'
<1> USE DEF Session, Stage, Ending, PumpAt, Past
<1>1. /\ Len(down) \in Nat \ {0} /\ Len(down') = Len(down) - 1 /\ down[1].kind # "result"
      /\ \A i \in 1..Len(down') : down'[i] = down[i + 1] /\ i + 1 \in 1..Len(down)
      /\ down' \in Seq([kind : FrameKind, segment : Segment \cup {NoSegment}])
  BY DEF Wire
<1>2. MaxDown \in Nat
  BY AsrAssumption
<1>3. AsrTypeOK'
  BY <1>1, <1>2 DEF AsrTypeOK, Segment
<1>4. Wire'
  BY <1>1 DEF Wire, Talk, Segment, NoSegment
<1>5. SeenLast' = SeenLast /\ KeptSegments'
  BY DEF KeptSegments, SeenLast, NoSegment
<1> DEFINE was(i) == IF i = 0 THEN 0 ELSE i + 1
<1>6. ASSUME NEW i \in Places' PROVE was(i) \in Places /\ At(i)' = At(was(i)) /\ i \in Nat
  BY <1>1, <1>5 DEF Places, At
<1>7. ASSUME NEW k \in Places PROVE \E i \in Places' : k = was(i)
  <2>1. CASE k = 0
    BY <2>1 DEF Places
  <2>2. CASE k # 0
    <3>1. k \in 1..Len(down) /\ down[k].kind = "result" /\ k # 1
      BY <1>1, <2>2 DEF Places
    <3>2. k - 1 \in 1..Len(down') /\ down'[k - 1] = down[k] /\ k = (k - 1) + 1
      BY <1>1, <3>1
    <3>3. k - 1 \in Places' /\ was(k - 1) = k
      BY <3>1, <3>2 DEF Places
    <3> QED BY <3>3
  <2> QED BY <2>1, <2>2
<1>8. ASSUME NEW i \in Places', NEW j \in Places'
      PROVE (i < j <=> was(i) < was(j)) /\ (i <= j <=> was(i) <= was(j)) /\ (i >= j <=> was(i) >= was(j))
  BY <1>6
<1> HIDE DEF was
<1>9. InOrder'
  <2> SUFFICES /\ \A i, j \in Places' : i < j /\ (\A k \in Places' : k <= i \/ k >= j) => Follows(At(i)', At(j)')
               /\ up' => \A i \in Places' : (\A k \in Places' : k <= i) => talk'.last = At(i)'
    BY DEF InOrder, Follows, Segment
  <2>1. ASSUME NEW i \in Places', NEW j \in Places', i < j, \A k \in Places' : k <= i \/ k >= j
        PROVE Follows(At(i)', At(j)')
    <3>1. was(i) \in Places /\ was(j) \in Places /\ was(i) < was(j)
      BY <1>6, <1>8, <2>1
    <3>2. \A k \in Places : k <= was(i) \/ k >= was(j)
      BY <1>7, <1>8, <2>1
    <3>3. Follows(At(was(i)), At(was(j)))
      BY <3>1, <3>2 DEF InOrder
    <3> QED BY <1>6, <3>3
  <2>2. ASSUME up', NEW i \in Places', \A k \in Places' : k <= i PROVE talk'.last = At(i)'
    <3>1. was(i) \in Places
      BY <1>6
    <3>2. \A k \in Places : k <= was(i)
      BY <1>7, <1>8, <2>2
    <3> QED BY <1>6, <2>2, <3>1, <3>2 DEF InOrder
  <2> QED BY <2>1, <2>2
<1> QED BY <1>3, <1>4, <1>5, <1>9

\* A result that comes before the task has started ends the stream.
LEMMA Abandons ==
  ASSUME Session, down # <<>>, down' = Tail(down),
         UNCHANGED <<shown, segments, partial, up, talk>>,
         stage' = "ended", outcome' \in Ending, pump' \in PumpAt, Outcome'
  PROVE  Session'
<1> USE DEF Session, Ending, PumpAt
<1>1. /\ Len(down) \in Nat \ {0} /\ Len(down') = Len(down) - 1
      /\ \A i \in 1..Len(down') : down'[i] = down[i + 1] /\ i + 1 \in 1..Len(down)
      /\ down' \in Seq([kind : FrameKind, segment : Segment \cup {NoSegment}])
  BY DEF Wire
<1>2. MaxDown \in Nat
  BY AsrAssumption
<1>3. AsrTypeOK'
  BY <1>1, <1>2 DEF AsrTypeOK, Segment
<1>4. Wire'
  BY <1>1 DEF Wire, Talk, Segment, NoSegment
<1>5. KeptSegments'
  BY DEF KeptSegments, SeenLast, NoSegment
<1>6. InOrder'
  BY DEF InOrder
<1> QED BY <1>3, <1>4, <1>5, <1>6

\* The provider says something: a result that follows its last, or no result.
LEMMA Speaks ==
  ASSUME Session,
         NEW frame \in [kind : FrameKind, segment : Segment \cup {NoSegment}], NEW t \in Talk, Says(frame, t),
         \/ frame.kind # "result" /\ t.last = talk.last
         \/ frame.kind = "result" /\ t.last = frame.segment /\ Follows(talk.last, frame.segment)
  PROVE  Session'
<1> USE DEF Session, Past
<1>0. PICK n \in Nat : n = Len(down) + 1
  BY DEF Wire
<1>1. /\ up /\ Len(down) < MaxDown /\ down' = Append(down, frame) /\ talk' = t
      /\ UNCHANGED <<stage, outcome, shown, segments, partial, result, pump, mic, endless, sent, up>>
  BY DEF Says, stream, uplink
<1>2. /\ Len(down) \in Nat /\ Len(down') = n /\ n \in 1..Len(down') /\ down'[n] = frame
      /\ \A i \in 1..Len(down) : i \in 1..Len(down') /\ down'[i] = down[i] /\ i < n
      /\ \A i \in 1..Len(down') : i \in 1..Len(down) \/ i = n
      /\ down' \in Seq([kind : FrameKind, segment : Segment \cup {NoSegment}])
  BY <1>0, <1>1 DEF Wire
<1>3. AsrTypeOK'
  <2>1. MaxDown \in Nat
    BY AsrAssumption
  <2> QED BY <1>1, <1>2, <2>1 DEF AsrTypeOK, Segment
<1>4. frame.segment \in Segment \/ frame.kind # "result"
  BY DEF Follows
<1>5. Wire'
  <2>1. \A i \in 1..Len(down') : down'[i].kind = "result" => down'[i].segment \in Segment
    BY <1>2, <1>4 DEF Wire
  <2> QED BY <1>1, <1>2, <2>1 DEF Wire, Talk, Segment, NoSegment
<1>6. SeenLast' = SeenLast /\ KeptSegments' /\ Outcome'
  BY <1>1 DEF KeptSegments, SeenLast, NoSegment, Outcome
<1>7. \A i \in Places : i \in Nat /\ i < n /\ i \in Places' /\ At(i)' = At(i)
  BY <1>2, <1>6 DEF Places, At
<1>8. \A i \in Places' : i \in Places \/ (i = n /\ frame.kind = "result")
  BY <1>2 DEF Places
<1>9. frame.kind = "result" => n \in Places' /\ At(n)' = frame.segment /\ n # 0
  BY <1>0, <1>2 DEF Places, At
<1>10. InOrder'
  <2> SUFFICES ASSUME stage \notin Past
               PROVE  /\ \A i, j \in Places' : i < j /\ (\A k \in Places' : k <= i \/ k >= j) => Follows(At(i)', At(j)')
                      /\ \A i \in Places' : (\A k \in Places' : k <= i) => t.last = At(i)'
    BY <1>1 DEF InOrder, Follows, Segment
  <2>0. n \in Nat
    OBVIOUS
  <2>1. ASSUME NEW i \in Places', NEW j \in Places', i < j, \A k \in Places' : k <= i \/ k >= j
        PROVE Follows(At(i)', At(j)')
    <3>1. CASE j \in Places
      <4>1. i \in Places
        BY <1>7, <1>8, <2>0, <2>1, <3>1
      <4>2. \A k \in Places : k <= i \/ k >= j
        BY <1>7, <2>1
      <4>3. Follows(At(i), At(j))
        BY <2>1, <3>1, <4>1, <4>2 DEF InOrder
      <4> QED BY <1>7, <3>1, <4>1, <4>3
    <3>2. CASE j = n /\ frame.kind = "result"
      <4>1. i \in Places
        BY <1>7, <1>8, <2>0, <2>1, <3>2
      <4>2. \A k \in Places : k <= i
        BY <1>7, <2>0, <2>1, <3>2, <4>1
      <4>3. talk.last = At(i)
        BY <1>1, <4>1, <4>2 DEF InOrder
      <4> QED BY <1>7, <1>9, <3>2, <4>1, <4>3
    <3> QED BY <1>8, <3>1, <3>2
  <2>2. ASSUME NEW i \in Places', \A k \in Places' : k <= i PROVE t.last = At(i)'
    <3>1. CASE i \in Places
      <4>1. frame.kind # "result"
        BY <1>7, <1>9, <2>0, <2>2, <3>1
      <4>2. \A k \in Places : k <= i
        BY <1>7, <2>2
      <4>3. talk.last = At(i)
        BY <1>1, <3>1, <4>2 DEF InOrder
      <4> QED BY <1>7, <3>1, <4>1, <4>3
    <3>2. CASE i = n /\ frame.kind = "result"
      BY <1>9, <3>2
    <3> QED BY <1>8, <3>1, <3>2
  <2> QED BY <2>1, <2>2
<1> QED BY <1>3, <1>5, <1>6, <1>10

\* A result takes the place of an unfinished segment, or comes after the finished ones.
LEMMA Results == ASSUME Session, ReadResult PROVE Session'
<1> USE DEF Session, Past
<1> DEFINE g == Head(down).segment
           n == Len(segments)
           m == Len(shown)
           kept == Settled
<1>1. /\ stage = "running" /\ down # <<>> /\ Head(down).kind = "result" /\ down' = Tail(down)
      /\ segments' = Append(kept, g) /\ partial' = (IF g.final THEN 0 ELSE Len(kept) + 1)
      /\ shown' = Append(shown, g)
      /\ UNCHANGED <<stage, outcome, result, pump, mic, endless, sent, up, talk>>
  BY DEF ReadResult, Receive
<1>2. /\ Len(down) \in Nat \ {0} /\ Len(down') = Len(down) - 1
      /\ down[1].kind = "result" /\ down[1].segment = g /\ 1 \in 1..Len(down)
      /\ \A i \in 1..Len(down') : down'[i] = down[i + 1] /\ i + 1 \in 1..Len(down)
      /\ down' \in Seq([kind : FrameKind, segment : Segment \cup {NoSegment}])
  BY <1>1 DEF Wire
<1>3. 0 \in Places /\ 1 \in Places /\ At(0) = SeenLast /\ At(1) = g /\ \A k \in Places : k <= 0 \/ k >= 1
  BY <1>2 DEF Places, At
<1>4. Follows(SeenLast, g)
  <2>1. stage \notin {"draining", "ended"} /\ 0 < 1
    BY <1>1
  <2>2. Follows(At(0), At(1))
    BY <1>3, <2>1 DEF InOrder
  <2> QED BY <1>3, <2>2
<1>5. g \in Segment
  BY <1>4 DEF Follows
<1>6. n \in Nat /\ m \in Nat /\ segments \in Seq(Segment) /\ shown \in Seq(Segment)
  BY DEF Wire
<1>7. /\ kept \in Seq(Segment) /\ Len(kept) \in Nat /\ Len(kept) <= n /\ n <= Len(kept) + 1
      /\ \A s \in 1..Len(kept) : kept[s] = segments[s] /\ s \in 1..n
      /\ g.sentence = Len(kept) + 1
  <2>1. CASE SeenLast.final
    <3>1. partial = 0 /\ n = SeenLast.sentence /\ kept = segments
      BY <2>1 DEF KeptSegments, Settled
    <3>2. g.sentence = n + 1
      BY <1>4, <2>1, <3>1 DEF Follows
    <3> QED BY <1>6, <3>1, <3>2
  <2>2. CASE ~ SeenLast.final
    <3>1. partial = n /\ n = SeenLast.sentence /\ g.sentence = n
      BY <1>4, <2>2 DEF KeptSegments, Follows
    <3>2. n # 0
      BY <1>5, <3>1 DEF Segment
    <3>3. kept = SubSeq(segments, 1, n - 1)
      BY <3>1, <3>2 DEF Settled
    <3>4. \A i \in 1..(n - 1) : segments[i] \in Segment
      BY <1>6
    <3>5. /\ kept \in Seq(Segment) /\ Len(kept) = (IF 1 <= n - 1 THEN n - 1 - 1 + 1 ELSE 0)
          /\ \A s \in 1..(n - 1) - 1 + 1 : kept[s] = segments[1 + s - 1]
      <4> HIDE DEF n
      <4> QED BY <1>6, <3>3, <3>4, SubSeqProperties
    <3> HIDE DEF n, kept, g
    <3>6. Len(kept) = n - 1
      BY <1>6, <3>2, <3>5
    <3>7. \A s \in 1..(n - 1) : kept[s] = segments[s]
      <4> TAKE s \in 1..(n - 1)
      <4>1. s \in 1..(n - 1) - 1 + 1 /\ 1 + s - 1 = s
        BY <1>6
      <4>2. kept[s] = segments[1 + s - 1]
        BY <3>5, <4>1
      <4> QED BY <4>1, <4>2
    <3>8. /\ Len(kept) \in Nat /\ Len(kept) <= n /\ n <= Len(kept) + 1 /\ g.sentence = Len(kept) + 1
          /\ \A s \in 1..Len(kept) : s \in 1..(n - 1) /\ s \in 1..n
      BY <1>6, <3>1, <3>2, <3>6
    <3> QED BY <3>5, <3>7, <3>8
  <2> QED BY <2>1, <2>2
<1> DEFINE k == Len(kept) + 1
<1> HIDE DEF kept
<1>8. /\ segments' \in Seq(Segment) /\ Len(segments') = k /\ k \in 1..Len(segments') /\ segments'[k] = g
      /\ \A s \in 1..Len(segments') : s = k \/ (s \in 1..n /\ segments'[s] = segments[s] /\ s # k)
      /\ k \in Nat /\ g.sentence = k /\ n <= k
  BY <1>1, <1>5, <1>7
<1>9. /\ shown' \in Seq(Segment) /\ Len(shown') = m + 1 /\ m + 1 \in 1..Len(shown') /\ shown'[m + 1] = g
      /\ \A i \in 1..m : i \in 1..Len(shown') /\ shown'[i] = shown[i]
      /\ \A i \in 1..Len(shown') : i = m + 1 \/ i \in 1..m
      /\ shown' # <<>>
  BY <1>1, <1>5, <1>6
<1>10. SeenLast' = g
  BY <1>9 DEF SeenLast
<1>11. partial' = (IF g.final THEN 0 ELSE k)
  BY <1>1
<1> HIDE DEF k, g, m
<1>12. AsrTypeOK'
  <2>1. MaxDown \in Nat
    BY AsrAssumption
  <2>2. Len(down') <= MaxDown
    BY <1>2, <2>1 DEF AsrTypeOK
  <2>3. partial' \in 0..Len(segments')
    BY <1>8, <1>11
  <2> QED BY <1>1, <1>8, <2>2, <2>3 DEF AsrTypeOK, Segment
<1>13. Wire'
  <2>1. \A i \in 1..Len(down') : down'[i].kind = "result" => down'[i].segment \in Segment
    BY <1>2 DEF Wire
  <2> QED BY <1>1, <1>2, <1>8, <1>9, <2>1 DEF Wire, Talk, Segment, NoSegment
<1>14. Outcome'
  BY <1>1 DEF Outcome
<1>15. KeptSegments'
  <2>1. Len(segments') = g.sentence /\ partial' = (IF g.final THEN 0 ELSE g.sentence)
    BY <1>8, <1>11
  <2>2. ASSUME NEW i \in 1..Len(shown') PROVE shown'[i].sentence \in 1..Len(segments')
    <3>1. \A j \in 1..Len(shown) : shown[j].sentence \in 1..n
      BY DEF KeptSegments
    <3> QED BY <1>6, <1>8, <1>9, <3>1 DEF m
  <2>3. ASSUME NEW s \in 1..Len(segments')
        PROVE  \E i \in 1..Len(shown') : /\ shown'[i] = segments'[s] /\ shown'[i].sentence = s
                                         /\ \A j \in i + 1..Len(shown') : shown'[j].sentence # s
    <3>1. CASE s = k
      <4>1. \A j \in m + 1 + 1..Len(shown') : FALSE
        BY <1>6, <1>9 DEF m
      <4> QED BY <1>8, <1>9, <3>1, <4>1
    <3>2. CASE s \in 1..n /\ segments'[s] = segments[s] /\ s # k
      <4>1. PICK i \in 1..m : /\ shown[i] = segments[s] /\ shown[i].sentence = s
                              /\ \A j \in i + 1..m : shown[j].sentence # s
        BY <3>2 DEF KeptSegments, m
      <4>2. i \in 1..Len(shown') /\ shown'[i] = segments'[s] /\ shown'[i].sentence = s
        BY <1>9, <3>2, <4>1
      <4>3. ASSUME NEW j \in i + 1..Len(shown') PROVE shown'[j].sentence # s
        <5>1. j = m + 1 \/ j \in i + 1..m
          BY <1>6, <1>9, <4>1 DEF m
        <5>2. j \in 1..m => shown'[j] = shown[j]
          BY <1>9
        <5>3. \A x \in i + 1..m : x \in 1..m
          BY <1>6, <4>1 DEF m
        <5> QED BY <1>8, <1>9, <3>2, <4>1, <5>1, <5>2, <5>3
      <4> QED BY <4>2, <4>3
    <3> QED BY <1>8, <3>1, <3>2
  <2> QED BY <1>10, <2>1, <2>2, <2>3 DEF KeptSegments, Segment
<1>16. ASSUME NEW i \in Places' PROVE i + 1 \in Places /\ At(i)' = At(i + 1) /\ i \in Nat
  <2>1. CASE i = 0
    BY <1>3, <1>10, <2>1 DEF At
  <2>2. CASE i # 0
    BY <1>2, <2>2 DEF Places, At
  <2> QED BY <2>1, <2>2
<1>17. ASSUME NEW x \in Places, x # 0 PROVE x - 1 \in Places' /\ x \in Nat
  <2>1. x \in 1..Len(down) /\ down[x].kind = "result"
    BY <1>17 DEF Places
  <2>2. x = 1 \/ (x - 1 \in 1..Len(down') /\ down'[x - 1] = down[x])
    BY <1>2, <2>1
  <2> QED BY <2>1, <2>2 DEF Places
<1>18. InOrder'
  <2>0. stage \notin {"draining", "ended"}
    BY <1>1
  <2> SUFFICES /\ \A i, j \in Places' : i < j /\ (\A x \in Places' : x <= i \/ x >= j) => Follows(At(i)', At(j)')
               /\ up => \A i \in Places' : (\A x \in Places' : x <= i) => talk.last = At(i)'
    BY <1>1 DEF InOrder, Follows, Segment
  <2>1. ASSUME NEW i \in Places', NEW j \in Places', i < j, \A x \in Places' : x <= i \/ x >= j
        PROVE Follows(At(i)', At(j)')
    <3>1. i + 1 \in Places /\ j + 1 \in Places /\ i + 1 < j + 1
      BY <1>16, <2>1
    <3>2. \A x \in Places : x <= i + 1 \/ x >= j + 1
      BY <1>16, <1>17, <2>1
    <3>3. Follows(At(i + 1), At(j + 1))
      BY <2>0, <3>1, <3>2 DEF InOrder
    <3> QED BY <1>16, <3>3
  <2>2. ASSUME up, NEW i \in Places', \A x \in Places' : x <= i PROVE talk.last = At(i)'
    <3>1. \A x \in Places : x <= i + 1
      BY <1>16, <1>17, <2>2
    <3>2. talk.last = At(i + 1)
      BY <1>16, <2>0, <2>2, <3>1 DEF InOrder
    <3> QED BY <1>16, <3>2
  <2> QED BY <2>1, <2>2
<1> QED BY <1>12, <1>13, <1>14, <1>15, <1>18

LEMMA Speech ==
  ASSUME Session,
         SaysNothing \/ SaysStarted \/ SaysResult \/ SaysLast \/ Break
  PROVE  Session'
<1> DEFINE Frames == [kind : FrameKind, segment : Segment \cup {NoSegment}]
<1>1. CASE SaysNothing
  <2>1. Frame("ignorable") \in Frames /\ Frame("ignorable").kind # "result" /\ talk \in Talk
    BY DEF Frame, FrameKind, Session, Wire
  <2> QED BY <1>1, <2>1, Speaks DEF SaysNothing
<1>2. CASE SaysStarted
  <2> DEFINE t == [talk EXCEPT !.started = TRUE]
  <2>1. Frame("started") \in Frames /\ Frame("started").kind # "result" /\ t \in Talk /\ t.last = talk.last
    BY DEF Frame, FrameKind, Session, Wire, Talk
  <2>2. Says(Frame("started"), t)
    BY <1>2 DEF SaysStarted
  <2> HIDE DEF t
  <2> QED BY <2>1, <2>2, Speaks
<1>3. CASE SaysResult
  <2> DEFINE next(final) ==
        IF talk.last.final THEN [sentence |-> talk.last.sentence + 1, version |-> 1, final |-> final]
        ELSE [talk.last EXCEPT !.version = @ + 1, !.final = final]
  <2>0. talk \in Talk
    BY DEF Session, Wire
  <2>1. PICK final \in BOOLEAN : /\ next(final) \in Segment
                                /\ Says([kind |-> "result", segment |-> next(final)],
                                            [talk EXCEPT !.last = next(final)])
    BY <1>3 DEF SaysResult
  <2> DEFINE s == next(final)
             frame == [kind |-> "result", segment |-> s]
             t == [talk EXCEPT !.last = s]
  <2>2. s.sentence = IF talk.last.final THEN talk.last.sentence + 1 ELSE talk.last.sentence
    BY <2>0 DEF Talk, Segment, NoSegment
  <2>3. s \in Segment /\ Says(frame, t)
    BY <2>1
  <2> HIDE DEF next, s
  <2>4. Follows(talk.last, s)
    BY <2>2, <2>3 DEF Follows
  <2>5. frame \in Frames /\ frame.kind = "result" /\ frame.segment = s
    BY <2>3 DEF FrameKind
  <2>6. t \in Talk /\ t.last = s
    BY <2>0, <2>3 DEF Talk
  <2> HIDE DEF t, frame
  <2> QED BY <2>3, <2>4, <2>5, <2>6, Speaks
<1>4. CASE SaysLast
  <2>1. PICK kind \in {"failed", "broken", "finished"} : Says(Frame(kind), [talk EXCEPT !.ended = TRUE])
    BY <1>4 DEF SaysLast
  <2> DEFINE t == [talk EXCEPT !.ended = TRUE]
  <2>2. Frame(kind) \in Frames /\ Frame(kind).kind # "result" /\ t \in Talk /\ t.last = talk.last
    BY DEF Frame, FrameKind, Session, Wire, Talk
  <2>3. Says(Frame(kind), t)
    BY <2>1
  <2> HIDE DEF t
  <2> QED BY <2>2, <2>3, Speaks
<1>5. CASE Break
  BY <1>5, Breaks
<1> QED BY <1>1, <1>2, <1>3, <1>4, <1>5

\* The stream goes on without a frame, or ends.
LEMMA Streams ==
  ASSUME Session,
         \/ Poll \/ Connect \/ SendRunTask \/ StartPump \/ StartTimeout \/ IdleTimeout
         \/ Drain \/ Drop \/ ReadEnd
  PROVE  Session'
<1> USE DEF Session
<1>1. UNCHANGED <<shown, segments, partial, result, down, up, talk>>
  BY DEF Poll, Connect, SendRunTask, StartPump, StartTimeout, IdleTimeout, Drain, Drop,
         ReadEnd, Goes, EndFailed, uplink
<1>2. stage \in Stage /\ outcome \in Ending /\ pump \in PumpAt
  BY DEF AsrTypeOK, Stage, Ending, PumpAt
<1>3. \/ stage' = "ended" /\ pump' \in PumpAt /\ outcome' \in {"error", "dropped"}
      \/ stage' = "ended" /\ pump' \in PumpAt /\ outcome' = outcome
      \/ /\ stage' \in {"connecting", "sending", "starting", "running"} /\ stage \notin Past
         /\ pump' \in PumpAt /\ outcome' = outcome
  BY <1>2 DEF Poll, Connect, SendRunTask, StartPump, StartTimeout, IdleTimeout, Drain, Drop,
         ReadEnd, Goes, EndFailed, End, uplink, PumpAt, Past
<1>4. stage' \in Stage /\ outcome' \in Ending /\ pump' \in PumpAt /\ (stage \in Past => stage' \in Past)
  BY <1>2, <1>3 DEF Stage, Ending, Past
<1>5. Outcome'
  BY <1>1, <1>3 DEF Outcome, Past
<1> QED BY <1>1, <1>4, <1>5, Stays

LEMMA Listens ==
  ASSUME Session, ReadBeforeStart \/ ReadFinished \/ ReadOther
  PROVE  Session'
<1> USE DEF Session
<1>1. /\ down # <<>> /\ down' = Tail(down)
      /\ UNCHANGED <<shown, segments, partial, up, talk>>
      /\ stage \in {"starting", "running"}
  BY DEF ReadBeforeStart, ReadFinished, ReadOther, Receive, EndFailed, Goes, stream
<1>2. stage \in Stage /\ outcome \in Ending /\ pump \in PumpAt /\ outcome = "none"
  BY <1>1 DEF AsrTypeOK, Stage, Ending, PumpAt, Outcome
<1>3. \/ stage' = "ended" /\ pump' \in PumpAt /\ outcome' = "error"
      \/ stage' = "draining" /\ outcome' = "finished" /\ result' = segments /\ pump' = pump
      \/ stage' \in {"starting", "started", "running"} /\ outcome' = "none" /\ pump' \in PumpAt
  BY <1>2 DEF ReadBeforeStart, ReadFinished, ReadOther, Receive, EndFailed, End, Goes,
              stream, PumpAt
<1>4. stage' \in Stage /\ outcome' \in Ending /\ pump' \in PumpAt /\ stage \notin Past
  BY <1>1, <1>2, <1>3 DEF Stage, Ending, Past
<1>5. Outcome'
  BY <1>1, <1>3 DEF Outcome, Past
<1>6. CASE Head(down).kind # "result"
  BY <1>1, <1>4, <1>5, <1>6, Reads
<1>7. CASE Head(down).kind = "result"
  <2>1. stage' = "ended" /\ outcome' = "error" /\ pump' \in PumpAt
    BY <1>2, <1>7 DEF ReadBeforeStart, ReadFinished, ReadOther, Receive, EndFailed, End, PumpAt
  <2> QED BY <1>1, <1>4, <1>5, <2>1, Abandons
<1> QED BY <1>6, <1>7

LEMMA Pumps == ASSUME Session, PumpItem \/ PumpFinish \/ PumpStops PROVE Session'
<1> USE DEF Session
<1>1. UNCHANGED <<stage, outcome, shown, segments, partial, result, down, up, talk>>
  BY DEF PumpItem, PumpFinish, PumpStops, stream
<1>2. stage \in Stage /\ outcome \in Ending /\ pump' \in PumpAt
  BY DEF AsrTypeOK, Stage, Ending, PumpAt, PumpItem, PumpFinish, PumpStops
<1>3. Outcome'
  BY <1>1 DEF Outcome
<1> QED BY <1>1, <1>2, <1>3, Stays

LEMMA SessionInit == ASSUME AsrInit PROVE Session
<1>1. /\ stage = "opened" /\ outcome = "none" /\ shown = <<>> /\ segments = <<>> /\ partial = 0
      /\ pump = "none" /\ down = <<>> /\ up = TRUE
      /\ talk = [started |-> FALSE, ended |-> FALSE, last |-> NoSegment]
  BY DEF AsrInit
<1>2. /\ MaxDown \in Nat /\ Len(<<>>) = 0 /\ (\A i \in 1..0 : FALSE) /\ 0 \in 0..0
      /\ \A S : <<>> \in Seq(S)
  BY AsrAssumption
<1>3. AsrTypeOK
  BY <1>1, <1>2 DEF AsrTypeOK
<1>4. Wire
  BY <1>1, <1>2 DEF Wire, Talk
<1>5. Places = {0} /\ SeenLast = NoSegment /\ At(0) = SeenLast
  BY <1>1, <1>2 DEF Places, SeenLast, At
<1>6. InOrder
  BY <1>1, <1>5 DEF InOrder
<1>7. KeptSegments
  BY <1>1, <1>2, <1>5 DEF KeptSegments, NoSegment
<1>8. Outcome
  BY <1>1 DEF Outcome
<1> QED BY <1>3, <1>4, <1>6, <1>7, <1>8 DEF Session

LEMMA SessionStays == ASSUME Session, [AsrNext]_asrVars PROVE Session'
<1>1. CASE UNCHANGED asrVars
  <2>1. UNCHANGED <<stage, outcome, shown, segments, partial, result, pump, down, up, talk>>
    BY <1>1 DEF asrVars, stream, uplink
  <2>2. stage \in Stage /\ outcome \in Ending /\ pump \in PumpAt
    BY DEF Session, AsrTypeOK, Stage, Ending, PumpAt
  <2>3. Outcome'
    BY <2>1 DEF Session, Outcome
  <2> QED BY <2>1, <2>2, <2>3, Stays
<1>2. CASE SaysNothing \/ SaysStarted \/ SaysResult \/ SaysLast \/ Break
  BY <1>2, Speech
<1>3. CASE \/ Poll \/ Connect \/ SendRunTask \/ StartPump \/ StartTimeout \/ IdleTimeout
           \/ Drain \/ Drop \/ ReadEnd
  BY <1>3, Streams
<1>4. CASE ReadBeforeStart \/ ReadFinished \/ ReadOther
  BY <1>4, Listens
<1>5. CASE ReadResult
  BY <1>5, Results
<1>6. CASE PumpItem \/ PumpFinish \/ PumpStops
  BY <1>6, Pumps
<1> QED BY <1>1, <1>2, <1>3, <1>4, <1>5, <1>6 DEF AsrNext, Read

\* The event stream reads the provider's results in the order they were sent in, and keeps
\* the last version of each sentence at its position.
THEOREM SessionHolds == AsrSpec => []Session
<1>1. AsrInit => Session
  BY SessionInit
<1>2. Session /\ [AsrNext]_asrVars => Session'
  BY SessionStays
<1> QED BY <1>1, <1>2, PTL DEF AsrSpec

\* A transcript of a finished session holds each sentence once, as it was shown last, whatever
\* the provider, the network, the pump and the consumer do.
THEOREM AsrKeepsEverySentence == AsrSpec => []KeepsEverySentence
<1>1. Session => KeepsEverySentence
  BY KeptIsShown DEF Session, Outcome, KeepsEverySentence
<1> QED BY <1>1, SessionHolds, PTL

===============================================================================

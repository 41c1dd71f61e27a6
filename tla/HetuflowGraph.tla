--------------------------- MODULE HetuflowGraph ---------------------------
(***************************************************************************)
(* The pure decision core of hetuflow-runtime: which node an instance goes *)
(* to next, given its definition, the node it leaves, the signal and the   *)
(* context.                                                                *)
(*                                                                         *)
(* A definition d is a record                                              *)
(*   nodes    the node ids in the order the definition lists them          *)
(*   cfg      node id -> its configuration, a record with a field "kind"   *)
(*            and the fields of that kind                                  *)
(*   edges    the transitions [from, on, to] in listed order               *)
(*   maxRound the definition's own round limit (0: none declared)          *)
(*                                                                         *)
(* The context is one value of a small set; a guard is the set of contexts *)
(* where it holds and the set where its evaluation fails; the items of a   *)
(* for_each node are a count per context (and the contexts where the       *)
(* expression is no array).                                                *)
(***************************************************************************)
EXTENDS Naturals, Sequences, FiniteSets, FiniteSetsExt

\* "no node" where the code has an Option<String> that is None.
NoNode == "-"

\* Depth guard of resolve_target.
MaxResolveDepth == 8

JoinIncomingSignals == {"approved", "completed", "event_received"}

BranchKinds   == {"approval", "assignment", "event_wait", "notification"}
TemplateKinds == {"approval", "assignment", "event_wait"}

\* Kinds whose arrival becomes an activity, plus the join, which the service
\* handles without inserting one.
RestingKinds == BranchKinds \cup {"sub_workflow", "parallel_join"}

IsNode(d, id) == id \in DOMAIN d.cfg

Kind(d, id) == d.cfg[id].kind

\* The places of the edges that leave node "from" on signal "on".
OutEdges(d, from, on) == {i \in DOMAIN d.edges : d.edges[i].from = from /\ d.edges[i].on = on}

\* find_next_transition: where the first of them leads, NoNode if there is none.
NextTarget(d, from, on) ==
  LET out == OutEdges(d, from, on)
  IN  IF out = {} THEN NoNode ELSE d.edges[Min(out)].to

----------------------------------------------------------------------------
(* Outcomes: what the service is told to do next.                          *)

Outcome(kind) ==
  [kind |-> kind, node |-> NoNode, targets |-> <<>>, join |-> NoNode, result |-> "none"]

Advance(id)      == [Outcome("advance") EXCEPT !.node = id]
Rework(id)       == [Outcome("rework") EXCEPT !.node = id]
Complete(res)    == [Outcome("complete") EXCEPT !.result = res]
FanOut(ids)      == [Outcome("multi") EXCEPT !.targets = ids]
ForEachOut(n, k) == [Outcome("multi") EXCEPT !.targets = [i \in 1..k |-> n.template],
                                             !.join = n.join]
Failed           == Outcome("error")
Undecided        == Outcome("undecided")

----------------------------------------------------------------------------
(* resolve_target follows routing nodes (condition, merge) until it rests. *)
(* It is tail recursive, so it is a walk: c.at is the node to look at,     *)
(* c.seen the nodes already visited, c.out the outcome once there is one.  *)

\* The branch a condition node takes: the first whose guard does not evaluate to
\* false decides, by its target or by failing; otherwise the default.
ConditionTarget(n, ctx) ==
  LET live  == {i \in DOMAIN n.branches : ctx \in n.branches[i].holds \cup n.branches[i].fails}
      first == n.branches[Min(live)]
  IN  IF live = {} THEN n.default
      ELSE IF ctx \in first.fails THEN NoNode ELSE first.target

ResolveForEach(d, n, ctx) ==
  IF \/ ctx \in n.badItems
     \/ n.cap # 0 /\ n.items[ctx] > n.cap
     \/ ~ IsNode(d, n.template)
     \/ Kind(d, n.template) \notin TemplateKinds
  THEN Failed
  ELSE ForEachOut(n, n.items[ctx])

ResolveSplit(d, n) ==
  IF \A i \in DOMAIN n.branches : IsNode(d, n.branches[i]) /\ Kind(d, n.branches[i]) \in BranchKinds
  THEN FanOut(n.branches)
  ELSE Failed

\* One call of resolve_target: either an outcome or the node it recurses on.
Visit(d, ctx, c) ==
  LET n           == d.cfg[c.at]
      Rest(out)   == [c EXCEPT !.out = out]
      Follow(id)  == [at |-> id, seen |-> c.seen \cup {c.at}, out |-> Undecided]
      next        == NextTarget(d, c.at, "approved")
  IN
  IF c.at \in c.seen \/ ~ IsNode(d, c.at) THEN Rest(Failed)
  ELSE CASE n.kind \in RestingKinds     -> Rest(Advance(c.at))
         [] n.kind = "parallel_split"   -> Rest(ResolveSplit(d, n))
         [] n.kind = "for_each"         -> Rest(ResolveForEach(d, n, ctx))
         [] n.kind = "end"              -> Rest(Complete(IF n.result = "none" THEN "approved" ELSE n.result))
         [] n.kind = "merge"            -> IF next = NoNode THEN Rest(Failed) ELSE Follow(next)
         [] n.kind = "condition"        -> Follow(ConditionTarget(n, ctx))
         [] OTHER                       -> Rest(Failed)

Resolve(d, target, ctx) ==
  LET walk[k \in 0..(MaxResolveDepth + 1)] ==
        IF k = 0 THEN [at |-> target, seen |-> {}, out |-> Undecided]
        ELSE IF walk[k - 1].out = Undecided THEN Visit(d, ctx, walk[k - 1]) ELSE walk[k - 1]
      last == walk[MaxResolveDepth + 1].out
  IN  IF last = Undecided THEN Failed ELSE last

----------------------------------------------------------------------------
(* The decisions the service asks for.                                     *)

\* decide_start: the first approval node in listed order, NoNode if none.
DecideStart(d) ==
  LET approvals == {i \in DOMAIN d.nodes : Kind(d, d.nodes[i]) = "approval"}
  IN  IF approvals = {} THEN NoNode ELSE d.nodes[Min(approvals)]

DecideReturned(d, from, ctx) ==
  LET to  == NextTarget(d, from, "returned")
      out == Resolve(d, to, ctx)
  IN  IF to = NoNode THEN Complete("returned")
      ELSE IF out.kind = "advance" THEN Rework(out.node) ELSE Failed

DecideAdvance(d, from, sig, ctx) ==
  LET to == NextTarget(d, from, sig)
  IN  CASE sig = "rejected"              -> Complete("rejected")
        [] sig = "returned"              -> DecideReturned(d, from, ctx)
        [] sig \in JoinIncomingSignals   -> IF to = NoNode THEN Failed ELSE Resolve(d, to, ctx)
        [] OTHER                         -> Failed

DecideEventWaitTimeout(d, from, ctx) ==
  IF Kind(d, from) # "event_wait" \/ d.cfg[from].target = NoNode
  THEN Failed
  ELSE Resolve(d, d.cfg[from].target, ctx)

----------------------------------------------------------------------------
(* Joins.                                                                  *)

\* A strategy is [mode |-> "wait_all" | "wait_any" | "n_of_m", n |-> Nat].
IsSatisfied(strategy, arrived, expected) ==
  \/ strategy.mode = "wait_all" /\ arrived >= expected
  \/ strategy.mode = "wait_any" /\ arrived >= 1
  \/ strategy.mode = "n_of_m"   /\ arrived >= strategy.n

\* Mutant of SkipsRemaining: n_of_m leaves its remaining branches open.
SkipsRemainingOfAny(strategy) == strategy.mode = "wait_any"

SkipsRemaining(strategy) == strategy.mode # "wait_all"

\* The places of the static edges into a join.
IncomingEdges(d, join) ==
  {i \in DOMAIN d.edges : d.edges[i].to = join /\ d.edges[i].on \in JoinIncomingSignals}

\* The template of the first for_each node that names this join.
ForEachTemplate(d, join) ==
  LET sources == {i \in DOMAIN d.nodes : Kind(d, d.nodes[i]) = "for_each" /\ d.cfg[d.nodes[i]].join = join}
  IN  d.cfg[d.nodes[Min(sources)]].template

============================================================================

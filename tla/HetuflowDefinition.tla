------------------------ MODULE HetuflowDefinition ------------------------
(***************************************************************************)
(* validate_definition and lint_definition: what the runtime checks of a   *)
(* definition before an instance may start on it, and what it only         *)
(* reports.  Checks on texts (empty ids, selectors, template codes, CEL    *)
(* syntax) have no counterpart: the configurations of HetuflowGraph carry  *)
(* no texts.  Ids are unique because cfg is a function.                    *)
(***************************************************************************)
EXTENDS HetuflowGraph

IsList(s) == s \in Seq({s[i] : i \in DOMAIN s})

NodesOf(d, kind) == {id \in DOMAIN d.cfg : Kind(d, id) = kind}

HasEdge(d, from, signals, tos) ==
  \E i \in DOMAIN d.edges : /\ d.edges[i].from = from
                            /\ d.edges[i].on \in signals
                            /\ d.edges[i].to \in tos

HasOut(d, from, sig) == HasEdge(d, from, {sig}, {d.edges[i].to : i \in DOMAIN d.edges})

\* The signal that completes an activity of this kind on the forward path.
CompletionSignal(kind) ==
  CASE kind = "approval"   -> "approved"
    [] kind = "event_wait" -> "event_received"
    [] OTHER               -> "completed"

----------------------------------------------------------------------------
(* Node checks, one operator per kind.                                     *)

ActivityKinds == {"approval", "event_wait", "notification", "assignment"}

Writes(n) == "writes" \in DOMAIN n /\ n.writes

ValidActivity(d, id) ==
  CASE Kind(d, id) = "event_wait" ->
         /\ d.cfg[id].target # NoNode => IsNode(d, d.cfg[id].target)
         /\ HasOut(d, id, "event_received") \/ d.cfg[id].target # NoNode
    [] OTHER -> HasOut(d, id, CompletionSignal(Kind(d, id)))

\* Mutant of ValidCondition: the default target is not checked.
ValidConditionBranches(d, id) ==
  \A i \in DOMAIN d.cfg[id].branches : IsNode(d, d.cfg[id].branches[i].target)

ValidCondition(d, id) ==
  /\ IsNode(d, d.cfg[id].default)
  /\ \A i \in DOMAIN d.cfg[id].branches : IsNode(d, d.cfg[id].branches[i].target)

\* The node a branch completes into, NoNode when it has no completion edge.
BranchExit(d, b) == NextTarget(d, b, CompletionSignal(Kind(d, b)))

\* Mutant of ValidSplit: each branch has a join, not all the same.
ValidSplitAnyJoin(d, id) ==
  LET bs == d.cfg[id].branches
  IN  /\ Len(bs) >= 2
      /\ \A i \in DOMAIN bs : /\ IsNode(d, bs[i])
                              /\ Kind(d, bs[i]) \in BranchKinds
                              /\ ~ Writes(d.cfg[bs[i]])
                              /\ BranchExit(d, bs[i]) \in NodesOf(d, "parallel_join")

ValidSplit(d, id) ==
  LET bs == d.cfg[id].branches
  IN  /\ Len(bs) >= 2
      /\ \A i \in DOMAIN bs : /\ IsNode(d, bs[i])
                              /\ Kind(d, bs[i]) \in BranchKinds
                              /\ ~ Writes(d.cfg[bs[i]])
      /\ \E j \in NodesOf(d, "parallel_join") : \A i \in DOMAIN bs : BranchExit(d, bs[i]) = j

ValidJoin(d, id) ==
  LET incoming == Cardinality(IncomingEdges(d, id))
      dynamic  == \E f \in NodesOf(d, "for_each") : d.cfg[f].join = id
      strategy == d.cfg[id].strategy
  IN  /\ dynamic \/ incoming >= 2
      /\ HasOut(d, id, "approved")
      /\ strategy.mode = "n_of_m" =>
           strategy.n >= 1 /\ (dynamic \/ strategy.n <= incoming)

ValidMerge(d, id) ==
  /\ Cardinality(OutEdges(d, id, "approved")) = 1
  /\ NextTarget(d, id, "approved") \notin NodesOf(d, "parallel_split")
  /\ \A s \in NodesOf(d, "parallel_split") : \A i \in DOMAIN d.cfg[s].branches :
       ~ HasEdge(d, d.cfg[s].branches[i], {"approved"}, {id})

ValidForEach(d, id) ==
  LET n == d.cfg[id]
  IN  /\ IsNode(d, n.template)
      /\ Kind(d, n.template) \in TemplateKinds
      /\ ~ Writes(d.cfg[n.template])
      /\ n.join \in NodesOf(d, "parallel_join")
      /\ HasEdge(d, n.template, JoinIncomingSignals, {n.join})

ValidNode(d, id) ==
  /\ Writes(d.cfg[id]) => Kind(d, id) \in ActivityKinds
  /\ CASE Kind(d, id) \in ActivityKinds    -> ValidActivity(d, id)
       [] Kind(d, id) = "condition"        -> ValidCondition(d, id)
       [] Kind(d, id) = "parallel_split"   -> ValidSplit(d, id)
       [] Kind(d, id) = "parallel_join"    -> ValidJoin(d, id)
       [] Kind(d, id) = "merge"            -> ValidMerge(d, id)
       [] Kind(d, id) = "for_each"         -> ValidForEach(d, id)
       [] Kind(d, id) = "sub_workflow"     -> HasOut(d, id, "event_received")
       [] OTHER                            -> Kind(d, id) \in {"start", "end"}

ValidDefinition(d) ==
  /\ Cardinality(NodesOf(d, "start")) = 1
  /\ NodesOf(d, "end") # {}
  /\ \A id \in DOMAIN d.cfg : ValidNode(d, id)
  /\ \A i \in DOMAIN d.edges : IsNode(d, d.edges[i].from) /\ IsNode(d, d.edges[i].to)

----------------------------------------------------------------------------
(* lint_definition.                                                        *)

\* Mutant of StaticOut: the timeout target of an event wait is forgotten.
StaticOutUntimed(d, id) ==
  LET n == d.cfg[id]
  IN  {d.edges[i].to : i \in {j \in DOMAIN d.edges : d.edges[j].from = id}}
      \cup CASE n.kind = "parallel_split" -> {n.branches[i] : i \in DOMAIN n.branches}
             [] n.kind = "condition"      -> {n.default} \cup {n.branches[i].target : i \in DOMAIN n.branches}
             [] OTHER                     -> {}

\* static_out_targets: the edges of a node and the targets its configuration
\* embeds.  A for_each node's template and join are not followed.
StaticOut(d, id) ==
  LET n == d.cfg[id]
  IN  {d.edges[i].to : i \in {j \in DOMAIN d.edges : d.edges[j].from = id}}
      \cup CASE n.kind = "parallel_split" -> {n.branches[i] : i \in DOMAIN n.branches}
             [] n.kind = "condition"      -> {n.default} \cup {n.branches[i].target : i \in DOMAIN n.branches}
             [] n.kind = "event_wait"     -> {n.target} \ {NoNode}
             [] OTHER                     -> {}

\* Nodes reachable from a set along StaticOut, by as many passes as there are nodes.
ReachableFrom(d, from) ==
  LET grow(S)   == S \cup ((UNION {StaticOut(d, id) : id \in S}) \cap DOMAIN d.cfg)
      pass[k \in 0..Cardinality(DOMAIN d.cfg)] == IF k = 0 THEN from ELSE grow(pass[k - 1])
  IN  pass[Cardinality(DOMAIN d.cfg)]

Unreachable(d) == DOMAIN d.cfg \ ReachableFrom(d, NodesOf(d, "start"))

Deadlocked(d) == {id \in DOMAIN d.cfg : Kind(d, id) \notin {"start", "end"} /\ StaticOut(d, id) = {}}

Dangling(d) == (UNION {{d.edges[i].from, d.edges[i].to} : i \in DOMAIN d.edges}) \ DOMAIN d.cfg

\* Split branches that cannot reach any join.
Unclosed(d) ==
  {b \in UNION {{d.cfg[s].branches[i] : i \in DOMAIN d.cfg[s].branches} : s \in NodesOf(d, "parallel_split")} :
     IsNode(d, b) /\ ReachableFrom(d, {b}) \cap NodesOf(d, "parallel_join") = {}}

============================================================================

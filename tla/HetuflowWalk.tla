---------------------------- MODULE HetuflowWalk ----------------------------
(***************************************************************************)
(* What a definition that start accepts makes of an instance, whatever the *)
(* joins count: one token that walks from the entry by the decisions the   *)
(* service asks of hetuflow-runtime, takes any branch of a fan-out and     *)
(* passes any join.  The static checks of HetuflowDefinition are held      *)
(* against these walks.                                                    *)
(***************************************************************************)
EXTENDS HetuflowDefinition

CONSTANTS
  Drafts,   \* definitions that may be handed to start
  Ctx       \* contexts

\* Where a token goes when its instance completes or is errored.
Ended  == "ended"
Halted == "errored"

\* Nodes, edges and branches are lists (Vec), and no node has a name that the model
\* keeps for something else.
ASSUME WalkAssumption ==
  \A d \in Drafts :
    /\ IsFiniteSet(DOMAIN d.cfg) /\ {NoNode, Ended, Halted} \cap DOMAIN d.cfg = {}
    /\ d.nodes \in Seq(DOMAIN d.cfg) /\ IsList(d.edges)
    /\ \A id \in DOMAIN d.cfg : Kind(d, id) \in {"parallel_split", "condition"} => IsList(d.cfg[id].branches)

VARIABLES
  def,      \* the definition walked
  ctx,      \* the instance's context
  at,       \* the node the token rests on, or where it went
  out       \* the last decision

vars == <<def, ctx, at, out>>

\* start: the definition is validated and must have an entry.
Init ==
  /\ def \in {d \in Drafts : ValidDefinition(d) /\ DecideStart(d) # NoNode}
  /\ ctx \in Ctx
  /\ at = DecideStart(def)
  /\ out = Advance(at)

\* apply_outcome, without what joins, rounds and rows decide.
Follow(o, c) ==
  /\ out' = o
  /\ ctx' = c
  /\ UNCHANGED def
  /\ \/ o.kind \in {"advance", "rework"} /\ at' = o.node
     \/ o.kind = "multi" /\ \E i \in DOMAIN o.targets : at' = o.targets[i]
     \/ o.kind = "multi" /\ o.targets = <<>> /\ o.join # NoNode /\ at' = o.join
     \/ o.kind = "complete" /\ at' = Ended
     \/ o.kind = "error" /\ at' = Halted

Signals == JoinIncomingSignals \cup {"rejected", "returned"}

\* signal or a delivered notification: the activity completes, or an approval is rejected
\* or returned, whatever edges the definition has; the context may be written.
Leave(sig, c) ==
  /\ IsNode(def, at) /\ Kind(def, at) \in ActivityKinds
  /\ \/ sig = CompletionSignal(Kind(def, at))
     \/ Kind(def, at) = "approval" /\ sig \in {"rejected", "returned"}
  /\ c = ctx \/ Writes(def.cfg[at])
  /\ Follow(DecideAdvance(def, at, sig, c), c)

\* fire_timer: an event wait with timeout_seconds times out, with a target or without.
TimeOut ==
  /\ IsNode(def, at) /\ Kind(def, at) = "event_wait" /\ def.cfg[at].timeout
  /\ Follow(DecideEventWaitTimeout(def, at, ctx), ctx)

\* try_satisfy_join: the join lets the instance pass.
PassJoin ==
  /\ IsNode(def, at) /\ Kind(def, at) = "parallel_join"
  /\ Follow(DecideAdvance(def, at, "approved", ctx), ctx)

Next ==
  \/ \E sig \in Signals, c \in Ctx : Leave(sig, c)
  \/ TimeOut
  \/ PassJoin

Spec == Init /\ [][Next]_vars

----------------------------------------------------------------------------
(* Properties.                                                             *)

\* Where a routing node may lead to: the exit of a merge, any target of a condition.
Onward(d, id) ==
  IF ~ IsNode(d, id) THEN {}
  ELSE CASE Kind(d, id) = "merge"     -> {d.edges[i].to : i \in OutEdges(d, id, "approved")}
         [] Kind(d, id) = "condition" -> {d.cfg[id].default} \cup {d.cfg[id].branches[i].target : i \in DOMAIN d.cfg[id].branches}
         [] OTHER                     -> {}

\* Where routing may have led to from t after k nodes.
After(d, t, k) ==
  LET after[j \in 0..k] == IF j = 0 THEN {t} ELSE UNION {Onward(d, id) : id \in after[j - 1]}
  IN  after[k]

\* The nodes on some route from t.
Route(d, t) == UNION {After(d, t, k) : k \in 0..MaxResolveDepth} \cap DOMAIN d.cfg

\* What validation leaves to the run: routes from t that are longer than the depth guard
\* (or circles), that lead into Start, past a guard that fails in context c, or to a
\* for_each whose items are no array or too many there.
Unchecked(d, t, c) ==
  \/ After(d, t, MaxResolveDepth + 1) # {}
  \/ \E id \in Route(d, t) :
       LET n == d.cfg[id]
       IN  \/ n.kind = "start"
           \/ n.kind = "condition" /\ \E i \in DOMAIN n.branches : c \in n.branches[i].fails
           \/ n.kind = "for_each" /\ (c \in n.badItems \/ (n.cap # 0 /\ n.items[c] > n.cap))

\* Not every route from t ends where a person, a port or a join goes on.
MissesRest(d, t) == \E id \in Route(d, t) : Kind(d, id) \notin RestingKinds \cup {"merge", "condition"}

\* The node an instance came to rest on is one that lint_definition reports as
\* unreachable, although Start has an edge to the entry.
Misreported ==
  /\ IsNode(def, at) /\ at \in Unreachable(def)
  /\ \E s \in NodesOf(def, "start") : HasEdge(def, s, {"approved", "completed"}, {DecideStart(def)})

\* Of an accepted definition without for_each lint_definition reports nothing but
\* unreachable nodes, no dangling edge, dead end or branch that misses every join; and no
\* node as unreachable on which an instance can come to rest.
LintFollowsRuntime ==
  NodesOf(def, "for_each") = {} =>
    ~ Misreported /\ Dangling(def) = {} /\ Deadlocked(def) = {} /\ Unclosed(def) = {}

\* What may end an instance of an accepted definition in an error, and nothing else does: the
\* event of an event wait that has only a timeout target, the timeout of one that has none,
\* a return that is routed to no activity, and what validation leaves to the run on the
\* route that the step follows.  Every other error of decide_advance,
\* decide_event_wait_timeout and resolve_target is excluded by validate_definition.
ValidNeverErrors ==
  [][at' = Halted =>
       /\ \A sig \in Signals :
            LET to == NextTarget(def, at, sig)
            IN  Leave(sig, ctx') =>
                  \/ to = NoNode /\ Kind(def, at) = "event_wait" /\ def.cfg[at].target # NoNode
                  \/ to # NoNode /\ Unchecked(def, to, ctx')
                  \/ sig = "returned" /\ MissesRest(def, to)
       /\ TimeOut =>
            LET to == def.cfg[at].target
            IN  to = NoNode \/ Unchecked(def, to, ctx)
       /\ PassJoin => Unchecked(def, NextTarget(def, at, "approved"), ctx)]_vars

\* Where the branches of the fan-out that was just decided complete into.
Exits == {DecideAdvance(def, out.targets[i], CompletionSignal(Kind(def, out.targets[i])), ctx) : i \in DOMAIN out.targets}

\* The branches of a split complete into one and the same join.
SplitConverges ==
  out.kind = "multi" /\ out.join = NoNode =>
    \E j \in NodesOf(def, "parallel_join") : Exits = {Advance(j)}

=============================================================================

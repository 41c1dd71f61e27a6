------------------------- MODULE HetuflowWalkProofs -------------------------
(***************************************************************************)
(* What validate_definition promises of every definition it accepts,       *)
(* however large: wherever its instances walk, the branches of a split     *)
(* meet in one join, and lint_definition does not contradict the runtime.  *)
(*                                                                         *)
(* Both rest on one fact about resolve_target: from a node of a set that   *)
(* the static edges do not leave, it answers with nodes of that set.       *)
(***************************************************************************)
EXTENDS HetuflowWalk, FiniteSetTheorems, SequenceTheorems, NaturalsInduction, WellFoundedInduction, TLAPS

----------------------------------------------------------------------------
(* What is preserved.                                                      *)

\* A set of nodes that the static edges do not leave.
Closed(d, R) == R \subseteq DOMAIN d.cfg /\ \A id \in R : StaticOut(d, id) \cap DOMAIN d.cfg \subseteq R

\* An outcome decided among the nodes R: a fan-out is that of a for_each and its join,
\* or that of a split of R.
Fits(d, R, o) ==
  /\ o.kind \in {"advance", "rework"} => o.node \in R
  /\ o.kind = "multi" =>
       \/ NodesOf(d, "for_each") # {} /\ o.join \in NodesOf(d, "parallel_join")
       \/ \E s \in NodesOf(d, "parallel_split") : s \in R /\ o = FanOut(d.cfg[s].branches)

Reached(d) == ReachableFrom(d, NodesOf(d, "start"))

\* Start has an edge to the entry, and no fan-out leads to nodes the lint does not follow.
Linked(d) ==
  /\ NodesOf(d, "for_each") = {}
  /\ \E s \in NodesOf(d, "start") : HasEdge(d, s, {"approved", "completed"}, {DecideStart(d)})

\* The inductive invariant.
Walked ==
  /\ def \in Drafts /\ ValidDefinition(def)
  /\ Fits(def, DOMAIN def.cfg, out)
  /\ Linked(def) /\ IsNode(def, at) => at \in Reached(def)

----------------------------------------------------------------------------
(* Numbers.                                                                *)

\* A set of natural numbers with 0 and every successor has them all.
LEMMA NatSetInduction ==
  ASSUME NEW S \in SUBSET Nat, 0 \in S, \A m \in S : m + 1 \in S
  PROVE  \A n \in Nat : n \in S
<1> DEFINE R == OpToRel(<, Nat)
           T == Nat \ S
<1>1. IsWellFoundedOn(R, Nat)
  BY NatLessThanWellFounded
<1>2. \A x, y \in Nat : x < y => <<x, y>> \in R
  BY DEF OpToRel
<1> HIDE DEF R
<1>3. SUFFICES ASSUME T # {} PROVE FALSE
  OBVIOUS
<1>4. PICK x \in T : \A y \in T : ~ (<<y, x>> \in R)
  BY <1>1, <1>3, WFMin
<1>5. x \in Nat /\ x # 0 /\ x - 1 \in Nat
  OBVIOUS
<1>6. x - 1 \in T
  <2>1. x - 1 \in S => (x - 1) + 1 \in S
    OBVIOUS
  <2>2. (x - 1) + 1 = x
    BY <1>5
  <2> QED BY <1>5, <2>1, <2>2
<1>7. <<x - 1, x>> \in R
  BY <1>2, <1>5
<1> QED BY <1>4, <1>6, <1>7

\* The same for a property that is a set: an initial segment suffices.
LEMMA SegmentInduction ==
  ASSUME NEW N \in Nat, NEW S, 0 \in S, \A m \in 0..N : m \in S /\ m < N => m + 1 \in S
  PROVE  \A n \in 0..N : n \in S
<1> DEFINE T == {n \in Nat : n \in S \/ n > N}
<1>1. T \in SUBSET Nat /\ 0 \in T
  OBVIOUS
<1>2. ASSUME NEW m \in T PROVE m + 1 \in T
  OBVIOUS
<1>3. \A n \in Nat : n \in T
  <2> HIDE DEF T
  <2> QED BY <1>1, <1>2, NatSetInduction
<1> QED BY <1>3

\* Some places of a list have a first.
LEMMA FirstExists ==
  ASSUME NEW S \in SUBSET Nat, S # {}
  PROVE  Min(S) \in S
<1> DEFINE R == OpToRel(<, Nat)
<1>1. IsWellFoundedOn(R, Nat)
  BY NatLessThanWellFounded
<1>2. \A x, y \in Nat : x < y => <<x, y>> \in R
  BY DEF OpToRel
<1> HIDE DEF R
<1>3. PICK x \in S : \A y \in S : ~ (<<y, x>> \in R)
  BY <1>1, WFMin
<1>4. ASSUME NEW y \in S PROVE x =< y
  <2>1. x \in Nat /\ y \in Nat
    OBVIOUS
  <2>2. ~ (y < x)
    BY <1>2, <1>3, <2>1, Zenon
  <2> QED BY <2>1, <2>2
<1> QED BY <1>3, <1>4 DEF Min

----------------------------------------------------------------------------
(* Reachability.                                                           *)

Grow(d, S) == S \cup ((UNION {StaticOut(d, id) : id \in S}) \cap DOMAIN d.cfg)

\* The passes of lint_definition's search, as many as one likes.
IsSearch(d, from, n, f) == f = [k \in 0..n |-> IF k = 0 THEN from ELSE Grow(d, f[k - 1])]

LEMMA SearchExists ==
  ASSUME NEW d, NEW from, NEW n \in Nat
  PROVE  \E f : IsSearch(d, from, n, f)
<1> DEFINE S == {m \in Nat : \E f : IsSearch(d, from, m, f)}
<1>1. 0 \in S
  <2> DEFINE r == [k \in 0..0 |-> from]
  <2>1. r = [k \in 0..0 |-> IF k = 0 THEN from ELSE Grow(d, r[k - 1])]
    OBVIOUS
  <2> HIDE DEF r
  <2>2. IsSearch(d, from, 0, r)
    BY <2>1 DEF IsSearch
  <2> QED BY <2>2
<1>2. ASSUME NEW m \in S PROVE m + 1 \in S
  <2>1. PICK f : IsSearch(d, from, m, f)
    OBVIOUS
  <2> DEFINE g == [k \in 0..(m + 1) |-> IF k = m + 1 THEN Grow(d, f[m]) ELSE f[k]]
  <2>2. ASSUME NEW k \in 0..(m + 1)
        PROVE  g[k] = IF k = 0 THEN from ELSE Grow(d, g[k - 1])
    <3>1. CASE k = m + 1
      <4>1. g[k] = Grow(d, f[m]) /\ g[k - 1] = f[m] /\ k # 0
        BY <3>1
      <4> HIDE DEF g
      <4> QED BY <4>1
    <3>2. CASE k = 0
      BY <2>1, <3>2 DEF IsSearch
    <3>3. CASE k \in 1..m
      <4>1. g[k] = f[k] /\ g[k - 1] = f[k - 1] /\ k # 0 /\ k \in 0..m
        BY <3>3
      <4>2. f[k] = Grow(d, f[k - 1])
        BY <2>1, <4>1 DEF IsSearch
      <4> HIDE DEF g
      <4> QED BY <4>1, <4>2
    <3> QED BY <3>1, <3>2, <3>3
  <2>3. IsSearch(d, from, m + 1, g)
    <3>1. g = [k \in 0..(m + 1) |-> g[k]]
      OBVIOUS
    <3> HIDE DEF g
    <3> QED BY <2>2, <3>1 DEF IsSearch
  <2> HIDE DEF g
  <2> QED BY <2>3
<1>3. S \in SUBSET Nat
  OBVIOUS
<1>4. n \in S
  <2> HIDE DEF S
  <2> QED BY <1>1, <1>2, <1>3, NatSetInduction
<1> QED BY <1>4

\* A pass adds nodes of the definition, and nothing only where nothing is left to add.
LEMMA GrowAdds ==
  ASSUME NEW d, NEW S \in SUBSET DOMAIN d.cfg
  PROVE  /\ S \subseteq Grow(d, S) /\ Grow(d, S) \subseteq DOMAIN d.cfg
         /\ Closed(d, S) <=> Grow(d, S) = S
<1>1. S \subseteq Grow(d, S) /\ Grow(d, S) \subseteq DOMAIN d.cfg
  BY DEF Grow
<1>2. ASSUME Closed(d, S) PROVE Grow(d, S) = S
  <2> SUFFICES ASSUME NEW x \in Grow(d, S) PROVE x \in S
    BY <1>1
  <2>1. CASE x \in (UNION {StaticOut(d, id) : id \in S}) \cap DOMAIN d.cfg
    <3>1. PICK id \in S : x \in StaticOut(d, id)
      BY <2>1
    <3> QED BY <1>2, <2>1, <3>1 DEF Closed
  <2> QED BY <2>1 DEF Grow
<1>3. ASSUME Grow(d, S) = S PROVE Closed(d, S)
  <2> SUFFICES ASSUME NEW id \in S, NEW x \in StaticOut(d, id), x \in DOMAIN d.cfg PROVE x \in S
    BY DEF Closed
  <2>1. x \in UNION {StaticOut(d, y) : y \in S}
    OBVIOUS
  <2> QED BY <1>3, <2>1 DEF Grow
<1> QED BY <1>1, <1>2, <1>3

\* The search is done after as many passes as there are nodes: what it found is closed.
LEMMA ReachedIsClosed ==
  ASSUME NEW d, IsFiniteSet(DOMAIN d.cfg), NEW from \in SUBSET DOMAIN d.cfg
  PROVE  from \subseteq ReachableFrom(d, from) /\ Closed(d, ReachableFrom(d, from))
<1> DEFINE N == Cardinality(DOMAIN d.cfg)
           pass == CHOOSE f : IsSearch(d, from, N, f)
<1>1. N \in Nat
  BY FS_CardinalityType
<1>2. ReachableFrom(d, from) = pass[N]
  BY DEF ReachableFrom, IsSearch, Grow
<1> HIDE DEF N
<1>3. IsSearch(d, from, N, pass)
  BY <1>1, SearchExists
<1> HIDE DEF pass
<1> DEFINE S == {k \in 0..N : /\ pass[k] \subseteq DOMAIN d.cfg /\ from \subseteq pass[k]
                              /\ Closed(d, pass[k]) \/ Cardinality(pass[k]) >= k}
<1>4. 0 \in S
  <2>1. 0 \in 0..N /\ pass[0] = from
    BY <1>1, <1>3 DEF IsSearch
  <2>2. Cardinality(from) \in Nat
    BY FS_Subset, FS_CardinalityType
  <2> QED BY <2>1, <2>2
<1>5. ASSUME NEW m \in 0..N, m \in S, m < N PROVE m + 1 \in S
  <2>1. m + 1 \in 0..N /\ m + 1 # 0 /\ (m + 1) - 1 = m /\ m \in Nat
    BY <1>1, <1>5
  <2>2. pass[m + 1] = Grow(d, pass[m])
    BY <1>3, <2>1 DEF IsSearch
  <2> DEFINE P == pass[m]
  <2>3. P \in SUBSET DOMAIN d.cfg /\ from \subseteq P /\ (Closed(d, P) \/ Cardinality(P) >= m)
    BY <1>5
  <2>4. /\ P \subseteq Grow(d, P) /\ Grow(d, P) \subseteq DOMAIN d.cfg
        /\ Closed(d, P) <=> Grow(d, P) = P
    BY <2>3, GrowAdds
  <2>5. CASE Closed(d, P)
    BY <2>1, <2>2, <2>3, <2>4, <2>5
  <2>6. CASE ~ Closed(d, P)
    <3> DEFINE G == Grow(d, P)
    <3>1. IsFiniteSet(G) /\ P \in SUBSET G /\ P # G
      BY <2>4, <2>6, FS_Subset
    <3> HIDE DEF G
    <3>2. Cardinality(P) <= Cardinality(G) /\ Cardinality(G) # Cardinality(P) /\ IsFiniteSet(P)
      BY <3>1, FS_Subset
    <3>3. Cardinality(G) \in Nat /\ Cardinality(P) \in Nat
      BY <3>1, <3>2, FS_CardinalityType
    <3>4. Cardinality(G) >= m + 1
      BY <2>1, <2>3, <2>6, <3>2, <3>3
    <3> QED BY <2>1, <2>2, <2>3, <2>4, <3>4 DEF G
  <2> QED BY <2>5, <2>6
<1>6. N \in S
  <2>1. \A k \in 0..N : k \in S
    <3> HIDE DEF S
    <3> QED BY <1>1, <1>4, <1>5, SegmentInduction
  <2> QED BY <1>1, <2>1
<1>7. CASE Cardinality(pass[N]) >= N
  <2>1. pass[N] \in SUBSET DOMAIN d.cfg
    BY <1>6
  <2>2. Cardinality(pass[N]) <= N /\ Cardinality(pass[N]) \in Nat
    BY <2>1, FS_Subset, FS_CardinalityType DEF N
  <2>3. Cardinality(pass[N]) = N
    BY <1>1, <1>7, <2>2
  <2>4. pass[N] = DOMAIN d.cfg
    BY <2>1, <2>3, FS_Subset DEF N
  <2>5. Closed(d, pass[N])
    BY <2>4 DEF Closed
  <2> QED BY <1>2, <1>6, <2>5
<1> QED BY <1>2, <1>6, <1>7

----------------------------------------------------------------------------
(* The decisions stay in a closed set.                                     *)

Draft(d) == d \in Drafts /\ ValidDefinition(d)

LEMMA DraftLists ==
  ASSUME NEW d, Draft(d)
  PROVE  /\ IsFiniteSet(DOMAIN d.cfg) /\ NoNode \notin DOMAIN d.cfg
         /\ Ended \notin DOMAIN d.cfg /\ Halted \notin DOMAIN d.cfg
         /\ \E n \in Nat : DOMAIN d.edges = 1..n
         /\ \A id \in DOMAIN d.cfg : Kind(d, id) \in {"parallel_split", "condition"} =>
              Len(d.cfg[id].branches) \in Nat /\ DOMAIN d.cfg[id].branches = 1..Len(d.cfg[id].branches)
         /\ \A id \in DOMAIN d.cfg : ValidNode(d, id)
<1>1. \A s : IsList(s) => Len(s) \in Nat /\ DOMAIN s = 1..Len(s)
  BY DEF IsList
<1>2. /\ IsFiniteSet(DOMAIN d.cfg) /\ {NoNode, Ended, Halted} \cap DOMAIN d.cfg = {}
      /\ IsList(d.edges)
      /\ \A id \in DOMAIN d.cfg : Kind(d, id) \in {"parallel_split", "condition"} => IsList(d.cfg[id].branches)
  BY WalkAssumption DEF Draft
<1>3. \A id \in DOMAIN d.cfg : ValidNode(d, id)
  BY DEF Draft, ValidDefinition
<1> QED BY <1>1, <1>2, <1>3

\* find_next_transition finds an edge, and one if there is one.
LEMMA NextIsEdge ==
  ASSUME NEW d, Draft(d), NEW from, NEW on
  PROVE  LET to == NextTarget(d, from, on)
         IN  /\ to # NoNode => \E i \in DOMAIN d.edges : d.edges[i].from = from /\ d.edges[i].on = on /\ d.edges[i].to = to
             /\ OutEdges(d, from, on) # {} => to # NoNode
<1> DEFINE hits == OutEdges(d, from, on)
<1>1. hits \in SUBSET Nat /\ \A i \in hits : i \in DOMAIN d.edges /\ d.edges[i].from = from /\ d.edges[i].on = on
  BY DraftLists DEF OutEdges
<1>2. NextTarget(d, from, on) = IF hits = {} THEN NoNode ELSE d.edges[Min(hits)].to
  BY DEF NextTarget
<1> HIDE DEF hits
<1>3. CASE hits = {}
  BY <1>2, <1>3 DEF hits
<1>4. CASE hits # {}
  <2>1. Min(hits) \in hits
    BY <1>1, <1>4, FirstExists
  <2>2. \A i \in DOMAIN d.edges : d.edges[i].to # NoNode
    BY DraftLists DEF Draft, ValidDefinition, IsNode
  <2> QED BY <1>1, <1>2, <1>4, <2>1, <2>2
<1> QED BY <1>3, <1>4

LEMMA EdgeIsStatic ==
  ASSUME NEW d, NEW from, NEW i \in DOMAIN d.edges, d.edges[i].from = from
  PROVE  d.edges[i].to \in StaticOut(d, from)
<1>1. d.edges[i].to \in {d.edges[k].to : k \in {j \in DOMAIN d.edges : d.edges[j].from = from}}
  OBVIOUS
<1> DEFINE E == {d.edges[k].to : k \in {j \in DOMAIN d.edges : d.edges[j].from = from}}
<1>2. E \subseteq StaticOut(d, from)
  BY DEF StaticOut
<1> QED BY <1>1, <1>2

\* So in a closed set the edges, the branches, the targets of a condition and that of a
\* timeout stay.
LEMMA NextStays ==
  ASSUME NEW d, Draft(d), NEW R, Closed(d, R), NEW from \in R, NEW on
  PROVE  NextTarget(d, from, on) \in DOMAIN d.cfg => NextTarget(d, from, on) \in R
<1> DEFINE to == NextTarget(d, from, on)
<1> SUFFICES ASSUME to \in DOMAIN d.cfg PROVE to \in R
  OBVIOUS
<1>1. to # NoNode
  BY DraftLists
<1>2. PICK i \in DOMAIN d.edges : d.edges[i].from = from /\ d.edges[i].to = to
  BY <1>1, NextIsEdge
<1>3. to \in StaticOut(d, from)
  BY <1>2, EdgeIsStatic
<1> QED BY <1>3 DEF Closed

LEMMA BranchStays ==
  ASSUME NEW d, NEW R, Closed(d, R), NEW s \in R, Kind(d, s) = "parallel_split",
         NEW i \in DOMAIN d.cfg[s].branches, d.cfg[s].branches[i] \in DOMAIN d.cfg
  PROVE  d.cfg[s].branches[i] \in R
<1>1. {d.cfg[s].branches[k] : k \in DOMAIN d.cfg[s].branches} \subseteq StaticOut(d, s)
  BY DEF StaticOut, Kind
<1> QED BY <1>1 DEF Closed

LEMMA ConditionStays ==
  ASSUME NEW d, Draft(d), NEW R, Closed(d, R), NEW c \in R, Kind(d, c) = "condition", NEW ctx0,
         ConditionTarget(d.cfg[c], ctx0) \in DOMAIN d.cfg
  PROVE  ConditionTarget(d.cfg[c], ctx0) \in R
<1> DEFINE n == d.cfg[c]
           live == {i \in DOMAIN n.branches : ctx0 \in n.branches[i].holds \cup n.branches[i].fails}
           first == n.branches[Min(live)]
           to == ConditionTarget(n, ctx0)
<1>1. {n.default} \cup {n.branches[i].target : i \in DOMAIN n.branches} \subseteq StaticOut(d, c)
  BY DEF StaticOut, Kind
<1>2. to = IF live = {} THEN n.default ELSE IF ctx0 \in first.fails THEN NoNode ELSE first.target
  BY DEF ConditionTarget
<1>3. live \in SUBSET Nat /\ live \subseteq DOMAIN n.branches
  <2>1. c \in DOMAIN d.cfg
    BY DEF Closed
  <2> QED BY <2>1, DraftLists
<1>4. to # NoNode /\ to \in DOMAIN d.cfg
  BY DraftLists
<1>5. live # {} => Min(live) \in live
  <2> HIDE DEF live
  <2> QED BY <1>3, FirstExists
<1>6. to \in {n.default} \cup {n.branches[i].target : i \in DOMAIN n.branches}
  <2> HIDE DEF live, to, n
  <2> QED BY <1>2, <1>3, <1>4, <1>5
<1> HIDE DEF to, n
<1> QED BY <1>1, <1>4, <1>6 DEF Closed, to, n

LEMMA TimeoutStays ==
  ASSUME NEW d, NEW R, Closed(d, R), NEW e \in R, Kind(d, e) = "event_wait",
         d.cfg[e].target # NoNode, d.cfg[e].target \in DOMAIN d.cfg
  PROVE  d.cfg[e].target \in R
<1>1. {d.cfg[e].target} \ {NoNode} \subseteq StaticOut(d, e)
  BY DEF StaticOut, Kind
<1> QED BY <1>1 DEF Closed

----------------------------------------------------------------------------
(* resolve_target.                                                         *)

\* The walk of resolve_target, as long as one likes.
IsWalk(d, ctx0, c0, n, f) ==
  f = [k \in 0..n |-> IF k = 0 THEN c0 ELSE (IF f[k - 1].out = Undecided THEN Visit(d, ctx0, f[k - 1]) ELSE f[k - 1])]

LEMMA WalkExists ==
  ASSUME NEW d, NEW ctx0, NEW c0, NEW n \in Nat
  PROVE  \E f : IsWalk(d, ctx0, c0, n, f)
<1> DEFINE S == {m \in Nat : \E f : IsWalk(d, ctx0, c0, m, f)}
<1>1. 0 \in S
  <2> DEFINE r == [k \in 0..0 |-> c0]
  <2>1. r = [k \in 0..0 |-> IF k = 0 THEN c0 ELSE (IF r[k - 1].out = Undecided THEN Visit(d, ctx0, r[k - 1]) ELSE r[k - 1])]
    OBVIOUS
  <2> HIDE DEF r
  <2>2. IsWalk(d, ctx0, c0, 0, r)
    BY <2>1 DEF IsWalk
  <2> QED BY <2>2
<1>2. ASSUME NEW m \in S PROVE m + 1 \in S
  <2>1. PICK f : IsWalk(d, ctx0, c0, m, f)
    OBVIOUS
  <2> DEFINE g == [k \in 0..(m + 1) |-> IF k = m + 1 THEN (IF f[m].out = Undecided THEN Visit(d, ctx0, f[m]) ELSE f[m]) ELSE f[k]]
  <2>2. ASSUME NEW k \in 0..(m + 1)
        PROVE  g[k] = IF k = 0 THEN c0 ELSE (IF g[k - 1].out = Undecided THEN Visit(d, ctx0, g[k - 1]) ELSE g[k - 1])
    <3>1. CASE k = m + 1
      <4>1. g[k] = (IF f[m].out = Undecided THEN Visit(d, ctx0, f[m]) ELSE f[m]) /\ g[k - 1] = f[m] /\ k # 0
        BY <3>1
      <4> HIDE DEF g
      <4> QED BY <3>1, <4>1
    <3>2. CASE k = 0
      BY <2>1, <3>2 DEF IsWalk
    <3>3. CASE k \in 1..m
      <4>1. g[k] = f[k] /\ g[k - 1] = f[k - 1] /\ k # 0 /\ k \in 0..m
        BY <3>3
      <4>2. f[k] = (IF f[k - 1].out = Undecided THEN Visit(d, ctx0, f[k - 1]) ELSE f[k - 1])
        BY <2>1, <4>1 DEF IsWalk
      <4> HIDE DEF g
      <4> QED BY <4>1, <4>2
    <3> QED BY <3>1, <3>2, <3>3
  <2>3. IsWalk(d, ctx0, c0, m + 1, g)
    <3>1. g = [k \in 0..(m + 1) |-> g[k]]
      OBVIOUS
    <3> HIDE DEF g
    <3> QED BY <2>2, <3>1 DEF IsWalk
  <2> HIDE DEF g
  <2> QED BY <2>3
<1>3. S \in SUBSET Nat
  OBVIOUS
<1>4. n \in S
  <2> HIDE DEF S
  <2> QED BY <1>1, <1>2, <1>3, NatSetInduction
<1> QED BY <1>4


Step(c) == c = [at |-> c.at, seen |-> c.seen, out |-> c.out]

LEMMA PlainFits ==
  ASSUME NEW d, NEW R
  PROVE  /\ Fits(d, R, Failed) /\ Fits(d, R, Undecided) /\ \A res : Fits(d, R, Complete(res))
         /\ \A id \in R : Fits(d, R, Advance(id)) /\ Fits(d, R, Rework(id))
<1>1. /\ Failed.kind = "error" /\ Undecided.kind = "undecided"
      /\ \A res : Complete(res).kind = "complete"
      /\ \A id : Advance(id).kind = "advance" /\ Advance(id).node = id
      /\ \A id : Rework(id).kind = "rework" /\ Rework(id).node = id
  BY DEF Failed, Undecided, Complete, Advance, Rework, Outcome
<1> QED BY <1>1 DEF Fits

LEMMA SplitFits ==
  ASSUME NEW d, NEW R, NEW s \in R, s \in NodesOf(d, "parallel_split")
  PROVE  Fits(d, R, ResolveSplit(d, d.cfg[s]))
<1>1. FanOut(d.cfg[s].branches).kind = "multi"
  BY DEF FanOut, Outcome
<1>2. Fits(d, R, FanOut(d.cfg[s].branches))
  BY <1>1 DEF Fits
<1> QED BY <1>2, PlainFits DEF ResolveSplit

LEMMA EachFits ==
  ASSUME NEW d, Draft(d), NEW R, NEW f \in NodesOf(d, "for_each"), NEW ctx0
  PROVE  Fits(d, R, ResolveForEach(d, d.cfg[f], ctx0))
<1> DEFINE n == d.cfg[f]
<1>1. \A k : ForEachOut(n, k).kind = "multi" /\ ForEachOut(n, k).join = n.join
  BY DEF ForEachOut, Outcome
<1>2. f \in DOMAIN d.cfg /\ Kind(d, f) = "for_each"
  BY DEF NodesOf
<1>3. ValidForEach(d, f)
  BY <1>2, DraftLists DEF ValidNode, ActivityKinds
<1>4. n.join \in NodesOf(d, "parallel_join")
  BY <1>3 DEF ValidForEach
<1>5. \A k : Fits(d, R, ForEachOut(n, k))
  <2> HIDE DEF n
  <2> QED BY <1>1, <1>4 DEF Fits
<1> QED BY <1>5, PlainFits DEF ResolveForEach

\* One call of resolve_target, from a node of R if it is one at all.
LEMMA VisitStays ==
  ASSUME NEW d, Draft(d), NEW R, Closed(d, R), NEW ctx0,
         NEW c, Step(c), c.at \in DOMAIN d.cfg => c.at \in R, Fits(d, R, c.out)
  PROVE  LET v == Visit(d, ctx0, c)
         IN  Step(v) /\ (v.at \in DOMAIN d.cfg => v.at \in R) /\ Fits(d, R, v.out)
<1> DEFINE n == d.cfg[c.at]
           to == NextTarget(d, c.at, "approved")
           Good(v) == Step(v) /\ (v.at \in DOMAIN d.cfg => v.at \in R) /\ Fits(d, R, v.out)
<1>1. ASSUME NEW o, Fits(d, R, o) PROVE Good([c EXCEPT !.out = o])
  BY <1>1 DEF Step
<1>2. ASSUME NEW id, id \in DOMAIN d.cfg => id \in R
      PROVE  Good([at |-> id, seen |-> c.seen \cup {c.at}, out |-> Undecided])
  BY <1>2, PlainFits DEF Step
<1>3. CASE c.at \in c.seen \/ ~ IsNode(d, c.at)
  BY <1>1, <1>3, PlainFits DEF Visit
<1>4. CASE c.at \notin c.seen /\ IsNode(d, c.at)
  <2>1. c.at \in R /\ c.at \in DOMAIN d.cfg
    BY <1>4 DEF IsNode
  <2>2. /\ Fits(d, R, Advance(c.at)) /\ Fits(d, R, Failed)
        /\ \A res : Fits(d, R, Complete(res))
        /\ n.kind = "parallel_split" => Fits(d, R, ResolveSplit(d, n))
        /\ n.kind = "for_each" => Fits(d, R, ResolveForEach(d, n, ctx0))
    BY <2>1, PlainFits, SplitFits, EachFits DEF NodesOf, Kind
  <2>3. to \in DOMAIN d.cfg => to \in R
    BY <2>1, NextStays
  <2>4. n.kind = "condition" /\ ConditionTarget(n, ctx0) \in DOMAIN d.cfg => ConditionTarget(n, ctx0) \in R
    BY <2>1, ConditionStays DEF Kind
  <2>5. Visit(d, ctx0, c) =
          CASE n.kind \in RestingKinds     -> [c EXCEPT !.out = Advance(c.at)]
            [] n.kind = "parallel_split"   -> [c EXCEPT !.out = ResolveSplit(d, n)]
            [] n.kind = "for_each"         -> [c EXCEPT !.out = ResolveForEach(d, n, ctx0)]
            [] n.kind = "end"              -> [c EXCEPT !.out = Complete(IF n.result = "none" THEN "approved" ELSE n.result)]
            [] n.kind = "merge"            -> IF to = NoNode THEN [c EXCEPT !.out = Failed]
                                              ELSE [at |-> to, seen |-> c.seen \cup {c.at}, out |-> Undecided]
            [] n.kind = "condition"        -> [at |-> ConditionTarget(n, ctx0), seen |-> c.seen \cup {c.at}, out |-> Undecided]
            [] OTHER                       -> [c EXCEPT !.out = Failed]
    BY <1>4, Zenon DEF Visit
  <2> DEFINE res == IF n.result = "none" THEN "approved" ELSE n.result
             then == ConditionTarget(n, ctx0)
  <2>6. n.kind \in RestingKinds \cup {"parallel_split", "for_each", "end", "merge", "condition"} \/
        n.kind \notin RestingKinds \cup {"parallel_split", "for_each", "end", "merge", "condition"}
    OBVIOUS
  <2> HIDE DEF n, to, then, Good
  <2>7. \/ Visit(d, ctx0, c) = [c EXCEPT !.out = Advance(c.at)]
        \/ n.kind = "parallel_split" /\ Visit(d, ctx0, c) = [c EXCEPT !.out = ResolveSplit(d, n)]
        \/ n.kind = "for_each" /\ Visit(d, ctx0, c) = [c EXCEPT !.out = ResolveForEach(d, n, ctx0)]
        \/ n.kind = "end" /\ Visit(d, ctx0, c) = [c EXCEPT !.out = Complete(res)]
        \/ Visit(d, ctx0, c) = [c EXCEPT !.out = Failed]
        \/ Visit(d, ctx0, c) = [at |-> to, seen |-> c.seen \cup {c.at}, out |-> Undecided]
        \/ n.kind = "condition" /\ Visit(d, ctx0, c) = [at |-> then, seen |-> c.seen \cup {c.at}, out |-> Undecided]
    BY <2>5 DEF RestingKinds, BranchKinds, then
  <2>8. n.kind = "condition" => (then \in DOMAIN d.cfg => then \in R)
    BY <2>4 DEF then
  <2> HIDE DEF res
  <2>9. Good(Visit(d, ctx0, c))
    BY <1>1, <1>2, <2>2, <2>3, <2>7, <2>8
  <2> QED BY <2>9 DEF Good
<1> QED BY <1>3, <1>4

\* resolve_target from a node of a closed set.
LEMMA ResolveStays ==
  ASSUME NEW d, Draft(d), NEW R, Closed(d, R), NEW ctx0,
         NEW target, target \in DOMAIN d.cfg => target \in R
  PROVE  Fits(d, R, Resolve(d, target, ctx0))
<1> DEFINE N == MaxResolveDepth + 1
           c0 == [at |-> target, seen |-> {}, out |-> Undecided]
<1>1. N \in Nat
  BY DEF MaxResolveDepth
<1> DEFINE walk == CHOOSE f : IsWalk(d, ctx0, c0, N, f)
<1>2. Resolve(d, target, ctx0) = IF walk[N].out = Undecided THEN Failed ELSE walk[N].out
  BY Zenon DEF Resolve, IsWalk
<1> DEFINE Good(v) == Step(v) /\ (v.at \in DOMAIN d.cfg => v.at \in R) /\ Fits(d, R, v.out)
<1>3. Good(c0)
  BY PlainFits DEF Step
<1> HIDE DEF c0, N
<1>4. IsWalk(d, ctx0, c0, N, walk)
  BY <1>1, WalkExists
<1> HIDE DEF walk
<1> DEFINE S == {k \in 0..N : Good(walk[k])}
<1>5. 0 \in S
  <2>1. 0 \in 0..N /\ walk[0] = c0
    BY <1>1, <1>4 DEF IsWalk
  <2> HIDE DEF Good
  <2> QED BY <1>3, <2>1
<1>6. ASSUME NEW m \in 0..N, m \in S, m < N PROVE m + 1 \in S
  <2>1. m + 1 \in 0..N /\ m + 1 # 0 /\ (m + 1) - 1 = m
    BY <1>1, <1>6
  <2>2. walk[m + 1] = IF walk[m].out = Undecided THEN Visit(d, ctx0, walk[m]) ELSE walk[m]
    BY <1>4, <2>1 DEF IsWalk
  <2>3. Good(walk[m])
    BY <1>6
  <2>4. Good(Visit(d, ctx0, walk[m]))
    BY <2>3, VisitStays
  <2> HIDE DEF Good
  <2> QED BY <2>1, <2>2, <2>3, <2>4
<1>7. N \in S
  <2>1. \A k \in 0..N : k \in S
    <3> HIDE DEF S
    <3> QED BY <1>1, <1>5, <1>6, SegmentInduction
  <2> QED BY <1>1, <2>1
<1>8. Good(walk[N])
  BY <1>7
<1> QED BY <1>2, <1>8, PlainFits

\* resolve_target from a join rests there.
LEMMA JoinRests ==
  ASSUME NEW d, NEW j \in NodesOf(d, "parallel_join"), NEW ctx0
  PROVE  Resolve(d, j, ctx0) = Advance(j)
<1> DEFINE N == MaxResolveDepth + 1
           c0 == [at |-> j, seen |-> {}, out |-> Undecided]
<1>1. N \in Nat /\ N > 0
  BY DEF MaxResolveDepth
<1> DEFINE walk == CHOOSE f : IsWalk(d, ctx0, c0, N, f)
<1>2. Resolve(d, j, ctx0) = IF walk[N].out = Undecided THEN Failed ELSE walk[N].out
  BY Zenon DEF Resolve, IsWalk
<1>3. Visit(d, ctx0, c0) = [c0 EXCEPT !.out = Advance(j)]
  BY DEF Visit, NodesOf, IsNode, Kind, RestingKinds
<1>4. c0.out = Undecided /\ Visit(d, ctx0, c0).out = Advance(j)
  BY <1>3
<1>5. Advance(j) # Undecided
  <2>1. Advance(j).kind = "advance" /\ Undecided.kind = "undecided"
    BY DEF Advance, Undecided, Outcome
  <2> QED BY <2>1
<1> HIDE DEF c0, N
<1>6. IsWalk(d, ctx0, c0, N, walk)
  BY <1>1, WalkExists
<1> HIDE DEF walk
<1> DEFINE S == {k \in 0..N : k = 0 \/ walk[k].out = Advance(j)}
<1>7. 0 \in S /\ walk[0] = c0
  BY <1>1, <1>6 DEF IsWalk
<1>8. ASSUME NEW m \in 0..N, m \in S, m < N PROVE m + 1 \in S
  <2>1. m + 1 \in 0..N /\ m + 1 # 0 /\ (m + 1) - 1 = m
    BY <1>1, <1>8
  <2>2. walk[m + 1] = IF walk[m].out = Undecided THEN Visit(d, ctx0, walk[m]) ELSE walk[m]
    BY <1>6, <2>1 DEF IsWalk
  <2>3. walk[m + 1].out = Advance(j)
    BY <1>4, <1>5, <1>7, <1>8, <2>2
  <2> QED BY <2>1, <2>3
<1>9. \A k \in 0..N : k \in S
  <2> HIDE DEF S
  <2> QED BY <1>1, <1>7, <1>8, SegmentInduction
<1>10. walk[N].out = Advance(j)
  BY <1>1, <1>9
<1> QED BY <1>2, <1>5, <1>10

LEMMA AdvanceStays ==
  ASSUME NEW d, Draft(d), NEW R, Closed(d, R), NEW from \in R, NEW sig, NEW ctx0
  PROVE  Fits(d, R, DecideAdvance(d, from, sig, ctx0))
<1>1. \A target : (target \in DOMAIN d.cfg => target \in R) => Fits(d, R, Resolve(d, target, ctx0))
  BY ResolveStays
<1>2. \A on : NextTarget(d, from, on) \in DOMAIN d.cfg => NextTarget(d, from, on) \in R
  BY NextStays
<1>3. Fits(d, R, DecideReturned(d, from, ctx0))
  <2> DEFINE to == NextTarget(d, from, "returned")
             o == Resolve(d, to, ctx0)
  <2>1. DecideReturned(d, from, ctx0) =
          IF to = NoNode THEN Complete("returned") ELSE IF o.kind = "advance" THEN Rework(o.node) ELSE Failed
    BY Zenon DEF DecideReturned
  <2>2. Fits(d, R, o)
    BY <1>1, <1>2
  <2> HIDE DEF o, to
  <2>3. o.kind = "advance" => o.node \in R
    BY <2>2 DEF Fits
  <2> QED BY <2>1, <2>3, PlainFits
<1>4. Fits(d, R, Complete("rejected")) /\ Fits(d, R, Failed) /\ Fits(d, R, Resolve(d, NextTarget(d, from, sig), ctx0))
  BY <1>1, <1>2, PlainFits
<1> QED BY <1>3, <1>4 DEF DecideAdvance

LEMMA TimeoutFits ==
  ASSUME NEW d, Draft(d), NEW R, Closed(d, R), NEW from \in R, NEW ctx0
  PROVE  Fits(d, R, DecideEventWaitTimeout(d, from, ctx0))
<1>1. CASE Kind(d, from) # "event_wait" \/ d.cfg[from].target = NoNode
  BY <1>1, PlainFits DEF DecideEventWaitTimeout
<1>2. CASE Kind(d, from) = "event_wait" /\ d.cfg[from].target # NoNode
  <2>1. d.cfg[from].target \in DOMAIN d.cfg => d.cfg[from].target \in R
    BY <1>2, TimeoutStays
  <2>2. Fits(d, R, Resolve(d, d.cfg[from].target, ctx0))
    BY <2>1, ResolveStays
  <2> QED BY <1>2, <2>2 DEF DecideEventWaitTimeout
<1> QED BY <1>1, <1>2

----------------------------------------------------------------------------
(* validate_definition and lint_definition.                                *)

\* The join that the branches of a valid split complete into.
LEMMA SplitHasJoin ==
  ASSUME NEW d, Draft(d), NEW s \in NodesOf(d, "parallel_split")
  PROVE  /\ DOMAIN d.cfg[s].branches # {}
         /\ \A i \in DOMAIN d.cfg[s].branches :
              d.cfg[s].branches[i] \in DOMAIN d.cfg /\ Kind(d, d.cfg[s].branches[i]) \in BranchKinds
         /\ \E j \in NodesOf(d, "parallel_join") : \A i \in DOMAIN d.cfg[s].branches :
              BranchExit(d, d.cfg[s].branches[i]) = j
<1> DEFINE bs == d.cfg[s].branches
<1>1. s \in DOMAIN d.cfg /\ Kind(d, s) = "parallel_split"
  BY DEF NodesOf
<1>2. ValidSplit(d, s)
  BY <1>1, DraftLists DEF ValidNode, ActivityKinds
<1>3. Len(bs) \in Nat /\ DOMAIN bs = 1..Len(bs) /\ Len(bs) >= 2
  BY <1>1, <1>2, DraftLists DEF ValidSplit
<1>4. 1 \in DOMAIN bs
  <2> HIDE DEF bs
  <2> QED BY <1>3
<1> QED BY <1>2, <1>4 DEF ValidSplit, IsNode

\* A branch completes into its join.
LEMMA BranchCompletes ==
  ASSUME NEW d, Draft(d), NEW b \in DOMAIN d.cfg, Kind(d, b) \in BranchKinds, NEW ctx0,
         NEW j \in NodesOf(d, "parallel_join"), BranchExit(d, b) = j
  PROVE  DecideAdvance(d, b, CompletionSignal(Kind(d, b)), ctx0) = Advance(j)
<1> DEFINE sig == CompletionSignal(Kind(d, b))
<1>1. sig \in {"approved", "completed", "event_received"}
  BY DEF CompletionSignal
<1>2. NextTarget(d, b, sig) = j
  BY DEF BranchExit
<1>3. j # NoNode
  BY DraftLists DEF NodesOf
<1>4. Resolve(d, j, ctx0) = Advance(j)
  BY JoinRests
<1> HIDE DEF sig
<1>5. DecideAdvance(d, b, sig, ctx0) = Advance(j)
  BY <1>1, <1>2, <1>3, <1>4 DEF DecideAdvance, JoinIncomingSignals
<1> QED BY <1>5 DEF sig

LEMMA NothingDangles == ASSUME NEW d, Draft(d) PROVE Dangling(d) = {}
BY DEF Draft, ValidDefinition, IsNode, Dangling

LEMMA HasOutIsStatic ==
  ASSUME NEW d, NEW id, NEW sig, HasOut(d, id, sig)
  PROVE  StaticOut(d, id) # {}
<1>1. PICK i \in DOMAIN d.edges : d.edges[i].from = id
  BY DEF HasOut, HasEdge
<1> QED BY <1>1, EdgeIsStatic

\* Every node but an end leads on.
LEMMA NothingIsDead ==
  ASSUME NEW d, Draft(d), NodesOf(d, "for_each") = {}
  PROVE  Deadlocked(d) = {}
<1> SUFFICES ASSUME NEW id \in DOMAIN d.cfg, Kind(d, id) \notin {"start", "end"}
             PROVE  StaticOut(d, id) # {}
  BY DEF Deadlocked
<1> DEFINE k == Kind(d, id)
<1>1. ValidNode(d, id) /\ k # "for_each"
  BY DraftLists DEF NodesOf
<1>2. CASE k = "event_wait"
  <2>1. HasOut(d, id, "event_received") \/ d.cfg[id].target # NoNode
    BY <1>1, <1>2 DEF ValidNode, ActivityKinds, ValidActivity
  <2>2. {d.cfg[id].target} \ {NoNode} \subseteq StaticOut(d, id)
    BY <1>2 DEF StaticOut, Kind
  <2> QED BY <2>1, <2>2, HasOutIsStatic
<1>3. CASE k \in ActivityKinds \ {"event_wait"}
  <2>1. HasOut(d, id, CompletionSignal(k))
    BY <1>1, <1>3 DEF ValidNode, ActivityKinds, ValidActivity
  <2> QED BY <2>1, HasOutIsStatic
<1>4. CASE k = "condition"
  <2>1. {d.cfg[id].default} \subseteq StaticOut(d, id)
    BY <1>4 DEF StaticOut, Kind
  <2> QED BY <2>1
<1>5. CASE k = "parallel_split"
  <2>1. {d.cfg[id].branches[i] : i \in DOMAIN d.cfg[id].branches} \subseteq StaticOut(d, id)
    BY <1>5 DEF StaticOut, Kind
  <2>2. DOMAIN d.cfg[id].branches # {}
    BY <1>5, SplitHasJoin DEF NodesOf
  <2> QED BY <2>1, <2>2
<1>6. CASE k = "parallel_join"
  <2>1. HasOut(d, id, "approved")
    BY <1>1, <1>6 DEF ValidNode, ActivityKinds, ValidJoin
  <2> QED BY <2>1, HasOutIsStatic
<1>7. CASE k = "merge"
  <2>1. Cardinality(OutEdges(d, id, "approved")) = 1
    BY <1>1, <1>7 DEF ValidNode, ActivityKinds, ValidMerge
  <2>2. OutEdges(d, id, "approved") # {}
    BY <2>1, FS_EmptySet
  <2>3. PICK i \in DOMAIN d.edges : d.edges[i].from = id
    BY <2>2 DEF OutEdges
  <2> QED BY <2>3, EdgeIsStatic
<1>8. CASE k = "sub_workflow"
  <2>1. HasOut(d, id, "event_received")
    BY <1>1, <1>8 DEF ValidNode, ActivityKinds
  <2> QED BY <2>1, HasOutIsStatic
<1>9. k \in ActivityKinds \cup {"condition", "parallel_split", "parallel_join", "merge", "sub_workflow"}
  BY <1>1 DEF ValidNode
<1> QED BY <1>2, <1>3, <1>4, <1>5, <1>6, <1>7, <1>8, <1>9

\* Every branch of a split reaches its join.
LEMMA EveryBranchCloses ==
  ASSUME NEW d, Draft(d) PROVE Unclosed(d) = {}
<1> SUFFICES ASSUME NEW s \in NodesOf(d, "parallel_split"), NEW i \in DOMAIN d.cfg[s].branches
             PROVE  ReachableFrom(d, {d.cfg[s].branches[i]}) \cap NodesOf(d, "parallel_join") # {}
  BY DEF Unclosed
<1> DEFINE b == d.cfg[s].branches[i]
           R == ReachableFrom(d, {b})
<1>1. b \in DOMAIN d.cfg
  BY SplitHasJoin
<1>2. PICK j \in NodesOf(d, "parallel_join") : BranchExit(d, b) = j
  BY SplitHasJoin
<1>3. b \in R /\ Closed(d, R)
  <2> HIDE DEF b
  <2>1. IsFiniteSet(DOMAIN d.cfg) /\ {b} \in SUBSET DOMAIN d.cfg
    BY <1>1, DraftLists
  <2>2. {b} \subseteq R /\ Closed(d, R)
    BY <2>1, ReachedIsClosed
  <2> QED BY <2>2
<1>4. j \in DOMAIN d.cfg
  BY DEF NodesOf
<1> HIDE DEF R, b
<1>5. j \in R
  BY <1>2, <1>3, <1>4, NextStays DEF BranchExit
<1> QED BY <1>5 DEF R, b

----------------------------------------------------------------------------
(* The walks.                                                              *)

\* What lint_definition reaches from Start is closed.
LEMMA ReachedClosed ==
  ASSUME NEW d, Draft(d)
  PROVE  NodesOf(d, "start") \subseteq Reached(d) /\ Closed(d, Reached(d))
<1>1. NodesOf(d, "start") \in SUBSET DOMAIN d.cfg
  BY DEF NodesOf
<1> QED BY <1>1, DraftLists, ReachedIsClosed DEF Reached

\* A step along an outcome that fits stays among the nodes it fits.
LEMMA FollowStays ==
  ASSUME Draft(def), NEW o, NEW c, Follow(o, c),
         NEW R, Closed(def, R), Fits(def, R, o), NodesOf(def, "for_each") = {}
  PROVE  at' \in DOMAIN def.cfg => at' \in R
<1>1. Ended \notin DOMAIN def.cfg /\ Halted \notin DOMAIN def.cfg
  BY DraftLists
<1>2. CASE o.kind \in {"advance", "rework"} /\ at' = o.node
  BY <1>2 DEF Fits
<1>3. CASE o.kind = "multi"
  <2>1. PICK s \in NodesOf(def, "parallel_split") : s \in R /\ o = FanOut(def.cfg[s].branches)
    BY <1>3 DEF Fits
  <2>2. o.targets = def.cfg[s].branches /\ o.join = NoNode
    BY <2>1 DEF FanOut, Outcome
  <2>3. PICK i \in DOMAIN o.targets : at' = o.targets[i]
    BY <1>3, <2>2 DEF Follow
  <2> QED BY <2>1, <2>2, <2>3, BranchStays DEF NodesOf
<1> QED BY <1>1, <1>2, <1>3 DEF Follow

\* The decision of a step, and that it is followed.
LEMMA StepFollows ==
  ASSUME Draft(def), Next
  PROVE  /\ IsNode(def, at)
         /\ \E o, c : /\ Follow(o, c)
                      /\ \A R : Closed(def, R) /\ at \in R => Fits(def, R, o)
<1>1. ASSUME NEW sig \in Signals, NEW c \in Ctx, Leave(sig, c)
      PROVE  IsNode(def, at) /\ Follow(DecideAdvance(def, at, sig, c), c)
  BY <1>1 DEF Leave
<1>2. CASE \E sig \in Signals, c \in Ctx : Leave(sig, c)
  <2>1. PICK sig \in Signals, c \in Ctx : Leave(sig, c)
    BY <1>2
  <2>2. \A R : Closed(def, R) /\ at \in R => Fits(def, R, DecideAdvance(def, at, sig, c))
    BY AdvanceStays
  <2> QED BY <1>1, <2>1, <2>2
<1>3. CASE TimeOut
  <2>1. IsNode(def, at) /\ Follow(DecideEventWaitTimeout(def, at, ctx), ctx)
    BY <1>3 DEF TimeOut
  <2>2. \A R : Closed(def, R) /\ at \in R => Fits(def, R, DecideEventWaitTimeout(def, at, ctx))
    BY TimeoutFits
  <2> QED BY <2>1, <2>2
<1>4. CASE PassJoin
  <2>1. IsNode(def, at) /\ Follow(DecideAdvance(def, at, "approved", ctx), ctx)
    BY <1>4 DEF PassJoin
  <2>2. \A R : Closed(def, R) /\ at \in R => Fits(def, R, DecideAdvance(def, at, "approved", ctx))
    BY AdvanceStays
  <2> QED BY <2>1, <2>2
<1> QED BY <1>2, <1>3, <1>4 DEF Next

LEMMA WalkedInit == Init => Walked
<1> SUFFICES ASSUME Init PROVE Walked
  OBVIOUS
<1>1. def \in Drafts /\ ValidDefinition(def) /\ Draft(def) /\ at = DecideStart(def)
  BY DEF Init, Draft
<1>2. out.kind = "advance" /\ out.node = at
  BY DEF Init, Advance, Outcome
<1>3. at \in DOMAIN def.cfg
  <2> DEFINE approvals == {i \in DOMAIN def.nodes : Kind(def, def.nodes[i]) = "approval"}
  <2>1. def.nodes \in Seq(DOMAIN def.cfg)
    BY <1>1, WalkAssumption
  <2>2. approvals \in SUBSET Nat /\ \A i \in approvals : def.nodes[i] \in DOMAIN def.cfg
    BY <2>1
  <2>3. at = IF approvals = {} THEN NoNode ELSE def.nodes[Min(approvals)]
    BY <1>1 DEF DecideStart
  <2>4. at # NoNode
    BY DEF Init
  <2> HIDE DEF approvals
  <2> QED BY <2>2, <2>3, <2>4, FirstExists
<1>4. Fits(def, DOMAIN def.cfg, out)
  BY <1>2, <1>3 DEF Fits
<1>5. ASSUME Linked(def) PROVE at \in Reached(def)
  <2>1. PICK s \in NodesOf(def, "start") : HasEdge(def, s, {"approved", "completed"}, {at})
    BY <1>1, <1>5 DEF Linked
  <2>2. at \in StaticOut(def, s)
    BY <2>1, EdgeIsStatic DEF HasEdge
  <2>3. s \in Reached(def) /\ Closed(def, Reached(def))
    BY <1>1, ReachedClosed
  <2> QED BY <1>3, <2>2, <2>3 DEF Closed
<1> QED BY <1>1, <1>4, <1>5 DEF Walked

LEMMA WalkedStep == Walked /\ [Next]_vars => Walked'
<1> SUFFICES ASSUME Walked, [Next]_vars PROVE Walked'
  OBVIOUS
<1>1. CASE UNCHANGED vars
  BY <1>1 DEF Walked, vars
<1>2. CASE Next
  <2>1. Draft(def)
    BY DEF Walked, Draft
  <2>2. IsNode(def, at)
    BY <1>2, <2>1, StepFollows
  <2>3. PICK o, c : Follow(o, c) /\ \A R : Closed(def, R) /\ at \in R => Fits(def, R, o)
    BY <1>2, <2>1, StepFollows
  <2>4. def' = def /\ out' = o
    BY <2>3 DEF Follow
  <2>5. Fits(def, DOMAIN def.cfg, o)
    <3>1. Closed(def, DOMAIN def.cfg)
      BY DEF Closed
    <3> QED BY <2>2, <2>3, <3>1 DEF IsNode
  <2>6. ASSUME Linked(def), at' \in DOMAIN def.cfg PROVE at' \in Reached(def)
    <3>1. Closed(def, Reached(def)) /\ at \in Reached(def)
      BY <2>1, <2>2, <2>6, ReachedClosed DEF Walked
    <3>2. NodesOf(def, "for_each") = {}
      BY <2>6 DEF Linked
    <3> QED BY <2>1, <2>3, <2>6, <3>1, <3>2, FollowStays
  <2> QED BY <2>4, <2>5, <2>6 DEF Walked, IsNode
<1> QED BY <1>1, <1>2

\* Wherever an instance of an accepted definition walks, what it was told to do next
\* fits the definition, and the node it rests on is one that lint_definition reaches.
THEOREM WalkedHolds == Spec => []Walked
<1>1. Init => Walked
  BY WalkedInit
<1>2. Walked /\ [Next]_vars => Walked'
  BY WalkedStep
<1> QED BY <1>1, <1>2, PTL DEF Spec

\* The branches of a split complete into one and the same join: a wait_all join of a split
\* is never short of a branch that went elsewhere.
THEOREM SplitsConverge == Spec => []SplitConverges
<1>1. Walked => SplitConverges
  <2> SUFFICES ASSUME Walked, out.kind = "multi", out.join = NoNode
               PROVE  \E j \in NodesOf(def, "parallel_join") : Exits = {Advance(j)}
    BY DEF SplitConverges
  <2>1. Draft(def) /\ Fits(def, DOMAIN def.cfg, out)
    BY DEF Walked, Draft
  <2>2. NoNode \notin NodesOf(def, "parallel_join")
    BY <2>1, DraftLists DEF NodesOf
  <2>3. PICK s \in NodesOf(def, "parallel_split") : out = FanOut(def.cfg[s].branches)
    BY <2>1, <2>2 DEF Fits
  <2> DEFINE bs == def.cfg[s].branches
             exit(i) == DecideAdvance(def, bs[i], CompletionSignal(Kind(def, bs[i])), ctx)
  <2>4. out.targets = bs
    BY <2>3 DEF FanOut, Outcome
  <2>5. PICK j \in NodesOf(def, "parallel_join") : \A i \in DOMAIN bs : BranchExit(def, bs[i]) = j
    BY <2>1, SplitHasJoin
  <2>6. DOMAIN bs # {} /\ \A i \in DOMAIN bs : bs[i] \in DOMAIN def.cfg /\ Kind(def, bs[i]) \in BranchKinds
    BY <2>1, SplitHasJoin
  <2>7. ASSUME NEW i \in DOMAIN bs PROVE exit(i) = Advance(j)
    BY <2>1, <2>5, <2>6, BranchCompletes
  <2>8. Exits = {exit(i) : i \in DOMAIN bs}
    BY <2>4 DEF Exits
  <2> HIDE DEF bs, exit
  <2>9. Exits = {Advance(j)}
    BY <2>6, <2>7, <2>8
  <2> QED BY <2>9
<1> QED BY <1>1, WalkedHolds, PTL

\* Of a definition that start accepts, lint_definition reports no dangling edge, dead end
\* or open branch, and never calls a node unreachable on which an instance can rest.
THEOREM LintIsSound == Spec => []LintFollowsRuntime
<1>1. Walked => LintFollowsRuntime
  <2> SUFFICES ASSUME Walked, NodesOf(def, "for_each") = {}
               PROVE  ~ Misreported /\ Dangling(def) = {} /\ Deadlocked(def) = {} /\ Unclosed(def) = {}
    BY DEF LintFollowsRuntime
  <2>1. Draft(def)
    BY DEF Walked, Draft
  <2>2. ~ Misreported
    <3> SUFFICES ASSUME Misreported PROVE FALSE
      OBVIOUS
    <3>1. Linked(def) /\ IsNode(def, at)
      BY DEF Misreported, Linked
    <3>2. at \in Reached(def)
      BY <3>1 DEF Walked
    <3> QED BY <3>2 DEF Misreported, Unreachable, Reached
  <2> QED BY <2>1, <2>2, NothingDangles, NothingIsDead, EveryBranchCloses
<1> QED BY <1>1, WalkedHolds, PTL

============================================================================

----------------------- MODULE HetuflowEngineProofs -----------------------
(***************************************************************************)
(* What one workflow instance keeps through every signal, timer, delivery  *)
(* and resubmission, for every set of valid definitions and every bound:   *)
(* its rows are well formed, a decided activity stays as it was decided,   *)
(* and the business callback is left for an approved instance only.        *)
(*                                                                         *)
(* A transaction is a record built by the service's steps, so the proof    *)
(* follows it: each step takes a sound record to a sound one, and so does  *)
(* the cascade of outcomes, however long.                                  *)
(*                                                                         *)
(* The second half is about serial definitions, in which an instance is at *)
(* one activity at a time: it is never stranded, leaves nothing open when  *)
(* it ends, and its event log folds to its projection.                     *)
(***************************************************************************)
EXTENDS HetuflowEngine, SequenceTheorems, NaturalsInduction, WellFoundedInduction, TLAPS

----------------------------------------------------------------------------
(* What is sound.                                                          *)

Ids(name) == DOMAIN Defs[name].cfg

Row(name) ==
  [node : Ids(name), status : ActStatus, result : Results, round : Nat,
   role : {"declared", "escalated"}, assignee : {"none", "user"}, by : {"none", "user", "system"},
   timers : SUBSET TimerKinds]

\* No row is lost, and one that was decided before the transaction is as it was.
Kept(old, rows) ==
  /\ Len(old) <= Len(rows)
  /\ \A a \in DOMAIN old : old[a].status # "active" =>
       a \in DOMAIN rows /\ rows[a].status = old[a].status /\ rows[a].result = old[a].result

Rows(old, name, rows) == rows \in Seq(Row(name)) /\ Kept(old, rows)

Instance(name, i, n) ==
  /\ i \in [status : InstStatus, def : DOMAIN Defs, result : Results, current : Nat, ctx : Ctx,
            callback : BOOLEAN, executed : BOOLEAN]
  /\ i.def = name
  /\ i.current \in 0..n

FactsOf(name, f) ==
  /\ f = [fanouts |-> f.fanouts, satisfied |-> f.satisfied, refired |-> f.refired]
  /\ \A x \in f.fanouts : x.join \in Ids(name) /\ x.round \in Nat /\ x.count \in Nat
  /\ \A x \in f.satisfied : x.join \in Ids(name) /\ x.round \in Nat

\* The business callback is due at most once, for an approved instance that asked for it,
\* and not after it was executed.
Calls(i, left) ==
  /\ (\E x \in left : x[2] = "business_callback") \/ i.executed =>
       i.callback /\ i.status = "completed" /\ i.result = "approved"
  /\ \A x, y \in left : x[2] = "business_callback" /\ y[2] = "business_callback" => x = y
  /\ \A x \in left : x[2] = "business_callback" => ~ i.executed

\* What apply_outcome may be asked for.
OutcomeOf(name, o) ==
  /\ o.kind \in {"done", "error", "advance", "rework", "multi", "complete"}
  /\ o.kind \in {"advance", "rework"} => o.node \in Ids(name)
  /\ o.kind = "multi" => o.targets \in Seq(Ids(name)) /\ o.join \in Ids(name) \cup {NoNode}
  /\ o.kind = "complete" => o.result \in Results

Shape(t) ==
  t = [inst |-> t.inst, acts |-> t.acts, intents |-> t.intents, facts |-> t.facts,
       replay |-> t.replay, ok |-> t.ok, todo |-> t.todo]

\* A sound transaction of an instance of definition "name" whose rows were "old".
Sound(old, name, t) ==
  /\ Shape(t)
  /\ Rows(old, name, t.acts)
  /\ Instance(name, t.inst, Len(t.acts))
  /\ t.intents \subseteq (1..Len(t.acts)) \X OutboxType
  /\ FactsOf(name, t.facts)
  /\ Calls(t.inst, t.intents)
  /\ OutcomeOf(name, t.todo)

\* The inductive invariant: the rows are a sound transaction that did nothing yet.
Safe == inst.def \in DOMAIN Defs /\ Sound(acts, inst.def, Begin) /\ Len(acts) <= MaxActs

----------------------------------------------------------------------------
(* Induction over the natural numbers, and the greatest round.             *)

\* A set of natural numbers with 0 and every successor has them all.
LEMMA NatSetInduction ==
  ASSUME NEW S \in SUBSET Nat, 0 \in S, \A m \in S : m + 1 \in S
  PROVE  \A n \in Nat : n \in S
<1> DEFINE R == OpToRel(<, Nat)
           T == Nat \ S
<1>1. IsWellFoundedOn(R, Nat)
  BY NatLessThanWellFounded
<1>2. \A x, y \in Nat : x < y => <<x, y>> \in R
  BY DEF OpToRel
<1> HIDE DEF R
<1>3. SUFFICES ASSUME T # {} PROVE FALSE
  OBVIOUS
<1>4. PICK x \in T : \A y \in T : ~ (<<y, x>> \in R)
  BY <1>1, <1>3, WFMin
<1>5. x \in Nat /\ x # 0 /\ x - 1 \in Nat
  OBVIOUS
<1>6. x - 1 \in T
  <2>1. x - 1 \in S => (x - 1) + 1 \in S
    OBVIOUS
  <2>2. (x - 1) + 1 = x
    BY <1>5
  <2> QED BY <1>5, <2>1, <2>2
<1>7. <<x - 1, x>> \in R
  BY <1>2, <1>5
<1> QED BY <1>4, <1>6, <1>7

\* The same for a property that is a set: an initial segment suffices.
LEMMA SegmentInduction ==
  ASSUME NEW N \in Nat, NEW S, 0 \in S, \A m \in 0..N : m \in S /\ m < N => m + 1 \in S
  PROVE  \A n \in 0..N : n \in S
<1> DEFINE T == {n \in Nat : n \in S \/ n > N}
<1>1. T \in SUBSET Nat /\ 0 \in T
  OBVIOUS
<1>2. ASSUME NEW m \in T PROVE m + 1 \in T
  OBVIOUS
<1>3. \A n \in Nat : n \in T
  <2> HIDE DEF T
  <2> QED BY <1>1, <1>2, NatSetInduction
<1> QED BY <1>3

\* Some numbers in a row have a greatest.
LEMMA GreatestExists ==
  ASSUME NEW q, NEW n \in Nat, \A i \in 1..n : q[i] \in Nat
  PROVE  n # 0 => \E i \in 1..n : \A j \in 1..n : q[i] >= q[j]
<1> DEFINE S == {m \in Nat : m = 0 \/ m > n \/ \E i \in 1..m : \A j \in 1..m : q[i] >= q[j]}
<1>1. S \in SUBSET Nat /\ 0 \in S
  OBVIOUS
<1>2. ASSUME NEW m \in S PROVE m + 1 \in S
  <2> SUFFICES ASSUME m + 1 <= n PROVE \E i \in 1..(m + 1) : \A j \in 1..(m + 1) : q[i] >= q[j]
    OBVIOUS
  <2>1. CASE m = 0
    BY <2>1
  <2>2. CASE m # 0
    <3>1. PICK i \in 1..m : \A j \in 1..m : q[i] >= q[j]
      BY <2>2
    <3>2. m \in Nat /\ q[i] \in Nat /\ q[m + 1] \in Nat /\ \A j \in 1..m : q[j] \in Nat
      OBVIOUS
    <3>3. CASE q[i] >= q[m + 1]
      <4>1. \A j \in 1..(m + 1) : j \in 1..m \/ j = m + 1
        BY <3>2
      <4> QED BY <3>1, <3>2, <3>3, <4>1
    <3>4. CASE q[m + 1] > q[i]
      <4>1. \A j \in 1..(m + 1) : j \in 1..m \/ j = m + 1
        BY <3>2
      <4>2. \A j \in 1..(m + 1) : q[m + 1] >= q[j]
        BY <3>1, <3>2, <3>4, <4>1
      <4> QED BY <3>2, <4>2
    <3> QED BY <3>2, <3>3, <3>4
  <2> QED BY <2>1, <2>2
<1>3. n \in S
  <2> HIDE DEF S
  <2> QED BY <1>1, <1>2, NatSetInduction
<1> QED BY <1>3

LEMMA RoundIsNat ==
  ASSUME NEW name, NEW t, t.acts \in Seq(Row(name))
  PROVE  MaxRound(t) \in Nat
<1>1. CASE t.acts = <<>>
  BY <1>1 DEF MaxRound
<1>2. CASE t.acts # <<>>
  <2> DEFINE q == [a \in DOMAIN t.acts |-> t.acts[a].round]
  <2>1. DOMAIN t.acts = 1..Len(t.acts) /\ Len(t.acts) \in Nat /\ Len(t.acts) # 0
    BY <1>2, EmptySeq
  <2>2. \A a \in DOMAIN t.acts : t.acts[a] \in Row(name)
    OBVIOUS
  <2>3. \A a \in DOMAIN t.acts : t.acts[a].round \in Nat
    BY <2>2 DEF Row
  <2>4. \A i \in 1..Len(t.acts) : q[i] \in Nat /\ q[i] = t.acts[i].round
    BY <2>1, <2>3
  <2> HIDE DEF q
  <2>5. PICK i \in 1..Len(t.acts) : \A j \in 1..Len(t.acts) : q[i] >= q[j]
    BY <2>1, <2>4, GreatestExists
  <2>6. \A a \in DOMAIN t.acts : t.acts[i].round >= t.acts[a].round
    BY <2>1, <2>4, <2>5
  <2>7. MaxRound(t) \in {t.acts[a].round : a \in DOMAIN t.acts}
    BY <1>2, <2>1, <2>6 DEF MaxRound
  <2> QED BY <2>3, <2>7
<1> QED BY <1>1, <1>2

----------------------------------------------------------------------------
(* The decisions: resolve_target answers with an outcome that names nodes  *)
(* of the definition, whatever node it starts from.                        *)

\* The walk of resolve_target, as long as one likes.
IsWalk(d, ctx, c0, n, f) ==
  f = [k \in 0..n |-> IF k = 0 THEN c0 ELSE (IF f[k - 1].out = Undecided THEN Visit(d, ctx, f[k - 1]) ELSE f[k - 1])]

LEMMA WalkExists ==
  ASSUME NEW d, NEW ctx, NEW c0, NEW n \in Nat
  PROVE  \E f : IsWalk(d, ctx, c0, n, f)
<1> DEFINE S == {m \in Nat : \E f : IsWalk(d, ctx, c0, m, f)}
<1>1. 0 \in S
  <2> DEFINE r == [k \in 0..0 |-> c0]
  <2>1. r = [k \in 0..0 |-> IF k = 0 THEN c0 ELSE (IF r[k - 1].out = Undecided THEN Visit(d, ctx, r[k - 1]) ELSE r[k - 1])]
    OBVIOUS
  <2> HIDE DEF r
  <2>2. IsWalk(d, ctx, c0, 0, r)
    BY <2>1 DEF IsWalk
  <2> QED BY <2>2
<1>2. ASSUME NEW m \in S PROVE m + 1 \in S
  <2>1. PICK f : IsWalk(d, ctx, c0, m, f)
    OBVIOUS
  <2> DEFINE g == [k \in 0..(m + 1) |-> IF k = m + 1 THEN (IF f[m].out = Undecided THEN Visit(d, ctx, f[m]) ELSE f[m]) ELSE f[k]]
  <2>2. ASSUME NEW k \in 0..(m + 1)
        PROVE  g[k] = IF k = 0 THEN c0 ELSE (IF g[k - 1].out = Undecided THEN Visit(d, ctx, g[k - 1]) ELSE g[k - 1])
    <3>1. CASE k = m + 1
      <4>1. g[k] = (IF f[m].out = Undecided THEN Visit(d, ctx, f[m]) ELSE f[m]) /\ g[k - 1] = f[m] /\ k # 0
        BY <3>1
      <4> HIDE DEF g
      <4> QED BY <3>1, <4>1
    <3>2. CASE k = 0
      BY <2>1, <3>2 DEF IsWalk
    <3>3. CASE k \in 1..m
      <4>1. g[k] = f[k] /\ g[k - 1] = f[k - 1] /\ k # 0 /\ k \in 0..m
        BY <3>3
      <4>2. f[k] = (IF f[k - 1].out = Undecided THEN Visit(d, ctx, f[k - 1]) ELSE f[k - 1])
        BY <2>1, <4>1 DEF IsWalk
      <4> HIDE DEF g
      <4> QED BY <4>1, <4>2
    <3> QED BY <3>1, <3>2, <3>3
  <2>3. IsWalk(d, ctx, c0, m + 1, g)
    <3>1. g = [k \in 0..(m + 1) |-> g[k]]
      OBVIOUS
    <3> HIDE DEF g
    <3> QED BY <2>2, <3>1 DEF IsWalk
  <2> HIDE DEF g
  <2> QED BY <2>3
<1>3. S \in SUBSET Nat
  OBVIOUS
<1>4. n \in S
  <2> HIDE DEF S
  <2> QED BY <1>1, <1>2, <1>3, NatSetInduction
<1> QED BY <1>4

Step(c) == c = [at |-> c.at, seen |-> c.seen, out |-> c.out]

Answers(name, out) == out = Undecided \/ OutcomeOf(name, out)

LEMMA FailedIsOutcome == ASSUME NEW name PROVE OutcomeOf(name, Failed)
BY DEF OutcomeOf, Failed, Outcome

LEMMA AdvanceIsOutcome ==
  ASSUME NEW name, NEW id \in Ids(name)
  PROVE  OutcomeOf(name, Advance(id)) /\ OutcomeOf(name, Rework(id))
BY DEF OutcomeOf, Advance, Rework, Outcome

LEMMA CompleteIsOutcome ==
  ASSUME NEW name, NEW res \in Results PROVE OutcomeOf(name, Complete(res))
BY DEF OutcomeOf, Complete, Outcome

LEMMA SplitIsOutcome ==
  ASSUME NEW name, NEW n, n.branches \in Seq(Ids(name))
  PROVE  OutcomeOf(name, ResolveSplit(Defs[name], n))
<1>1. OutcomeOf(name, FanOut(n.branches))
  BY DEF OutcomeOf, FanOut, Outcome
<1> QED BY <1>1, FailedIsOutcome DEF ResolveSplit

LEMMA ForEachIsOutcome ==
  ASSUME NEW name, NEW ctx \in Ctx, NEW n, n.items \in [Ctx -> Nat], n.join \in Ids(name)
  PROVE  OutcomeOf(name, ResolveForEach(Defs[name], n, ctx))
<1>1. CASE IsNode(Defs[name], n.template)
  <2>1. n.items[ctx] \in Nat /\ n.template \in Ids(name)
    BY <1>1 DEF IsNode, Ids
  <2>2. [i \in 1..n.items[ctx] |-> n.template] \in Seq(Ids(name))
    BY <2>1
  <2>3. OutcomeOf(name, ForEachOut(n, n.items[ctx]))
    BY <2>2 DEF OutcomeOf, ForEachOut, Outcome
  <2> QED BY <2>3, FailedIsOutcome DEF ResolveForEach
<1>2. CASE ~ IsNode(Defs[name], n.template)
  BY <1>2, FailedIsOutcome DEF ResolveForEach
<1> QED BY <1>1, <1>2

LEMMA VisitAnswers ==
  ASSUME NEW name \in DOMAIN Defs, NEW ctx \in Ctx, NEW c, Step(c)
  PROVE  Step(Visit(Defs[name], ctx, c)) /\ Answers(name, Visit(Defs[name], ctx, c).out)
<1> DEFINE d == Defs[name]
           n == d.cfg[c.at]
           to == NextTarget(d, c.at, "approved")
<1>1. ASSUME NEW out, OutcomeOf(name, out)
      PROVE  Step([c EXCEPT !.out = out]) /\ Answers(name, [c EXCEPT !.out = out].out)
  BY <1>1 DEF Step, Answers
<1>2. ASSUME NEW id
      PROVE  LET w == [at |-> id, seen |-> c.seen \cup {c.at}, out |-> Undecided]
             IN  Step(w) /\ Answers(name, w.out)
  BY DEF Step, Answers
<1>3. CASE c.at \in c.seen \/ ~ IsNode(d, c.at)
  BY <1>1, <1>3, FailedIsOutcome DEF Visit
<1>4. CASE c.at \notin c.seen /\ IsNode(d, c.at)
  <2>1. c.at \in Ids(name) /\ ValidNode(d, c.at)
    BY <1>4, EngineAssumption DEF IsNode, Ids, ValidDefinition
  <2>2. /\ n.kind = "end" => n.result \in Results
        /\ n.kind = "parallel_split" => n.branches \in Seq(Ids(name))
        /\ n.kind = "for_each" => n.items \in [Ctx -> Nat]
    BY <2>1, EngineAssumption DEF Ids
  <2>3. n.kind = "for_each" => n.join \in Ids(name)
    <3>1. n.kind = "for_each" => ValidForEach(d, c.at)
      BY <2>1 DEF ValidNode, Kind, ActivityKinds
    <3> QED BY <3>1 DEF ValidForEach, NodesOf, Ids
  <2>4. /\ OutcomeOf(name, Advance(c.at))
        /\ n.kind = "parallel_split" => OutcomeOf(name, ResolveSplit(d, n))
        /\ n.kind = "for_each" => OutcomeOf(name, ResolveForEach(d, n, ctx))
        /\ n.kind = "end" => OutcomeOf(name, Complete(IF n.result = "none" THEN "approved" ELSE n.result))
        /\ OutcomeOf(name, Failed)
    <3>1. n.kind = "parallel_split" => OutcomeOf(name, ResolveSplit(d, n))
      <4> HIDE DEF n
      <4> QED BY <2>2, SplitIsOutcome
    <3>2. n.kind = "for_each" => OutcomeOf(name, ResolveForEach(d, n, ctx))
      <4> HIDE DEF n
      <4> QED BY <2>2, <2>3, ForEachIsOutcome
    <3>3. n.kind = "end" => OutcomeOf(name, Complete(IF n.result = "none" THEN "approved" ELSE n.result))
      <4>1. n.kind = "end" => (IF n.result = "none" THEN "approved" ELSE n.result) \in Results
        BY <2>2 DEF Results
      <4> HIDE DEF n
      <4> QED BY <4>1, CompleteIsOutcome
    <3> QED BY <2>1, <3>1, <3>2, <3>3, AdvanceIsOutcome, FailedIsOutcome
  <2>5. Visit(d, ctx, c) =
          CASE n.kind \in RestingKinds     -> [c EXCEPT !.out = Advance(c.at)]
            [] n.kind = "parallel_split"   -> [c EXCEPT !.out = ResolveSplit(d, n)]
            [] n.kind = "for_each"         -> [c EXCEPT !.out = ResolveForEach(d, n, ctx)]
            [] n.kind = "end"              -> [c EXCEPT !.out = Complete(IF n.result = "none" THEN "approved" ELSE n.result)]
            [] n.kind = "merge"            -> IF to = NoNode THEN [c EXCEPT !.out = Failed]
                                              ELSE [at |-> to, seen |-> c.seen \cup {c.at}, out |-> Undecided]
            [] n.kind = "condition"        -> [at |-> ConditionTarget(n, ctx), seen |-> c.seen \cup {c.at}, out |-> Undecided]
            [] OTHER                       -> [c EXCEPT !.out = Failed]
    BY <1>4, Zenon DEF Visit
  <2> DEFINE res == IF n.result = "none" THEN "approved" ELSE n.result
  <2>6. n.kind \in RestingKinds \cup {"parallel_split", "for_each", "end", "merge", "condition"} \/
        n.kind \notin RestingKinds \cup {"parallel_split", "for_each", "end", "merge", "condition"}
    OBVIOUS
  <2> HIDE DEF n, to, d
  <2>7. \/ Visit(d, ctx, c) = [c EXCEPT !.out = Advance(c.at)]
        \/ n.kind = "parallel_split" /\ Visit(d, ctx, c) = [c EXCEPT !.out = ResolveSplit(d, n)]
        \/ n.kind = "for_each" /\ Visit(d, ctx, c) = [c EXCEPT !.out = ResolveForEach(d, n, ctx)]
        \/ n.kind = "end" /\ Visit(d, ctx, c) = [c EXCEPT !.out = Complete(res)]
        \/ Visit(d, ctx, c) = [c EXCEPT !.out = Failed]
        \/ \E id : Visit(d, ctx, c) = [at |-> id, seen |-> c.seen \cup {c.at}, out |-> Undecided]
    BY <2>5 DEF RestingKinds, BranchKinds
  <2> HIDE DEF res
  <2> QED BY <1>1, <1>2, <2>4, <2>7 DEF res, d
<1> QED BY <1>3, <1>4

LEMMA ResolveAnswers ==
  ASSUME NEW name \in DOMAIN Defs, NEW target, NEW ctx \in Ctx
  PROVE  OutcomeOf(name, Resolve(Defs[name], target, ctx))
<1> DEFINE d == Defs[name]
           N == MaxResolveDepth + 1
           c0 == [at |-> target, seen |-> {}, out |-> Undecided]
<1>1. N \in Nat
  BY DEF MaxResolveDepth
<1> DEFINE walk == CHOOSE f : IsWalk(d, ctx, c0, N, f)
<1>2. Resolve(d, target, ctx) = IF walk[N].out = Undecided THEN Failed ELSE walk[N].out
  BY Zenon DEF Resolve, IsWalk
<1>3. Step(c0) /\ Answers(name, c0.out)
  BY DEF Step, Answers
<1> HIDE DEF c0, N
<1>4. IsWalk(d, ctx, c0, N, walk)
  BY <1>1, WalkExists
<1> HIDE DEF walk
<1> DEFINE S == {k \in 0..N : Step(walk[k]) /\ Answers(name, walk[k].out)}
<1>5. 0 \in S
  <2>1. 0 \in 0..N /\ walk[0] = c0
    BY <1>1, <1>4 DEF IsWalk
  <2> QED BY <1>3, <2>1
<1>6. ASSUME NEW m \in 0..N, m \in S, m < N PROVE m + 1 \in S
  <2>1. m + 1 \in 0..N /\ m + 1 # 0 /\ (m + 1) - 1 = m
    BY <1>1, <1>6
  <2>2. walk[m + 1] = IF walk[m].out = Undecided THEN Visit(d, ctx, walk[m]) ELSE walk[m]
    BY <1>4, <2>1 DEF IsWalk
  <2>3. Step(walk[m]) /\ Answers(name, walk[m].out)
    BY <1>6
  <2>4. Step(walk[m + 1]) /\ Answers(name, walk[m + 1].out)
    BY <2>2, <2>3, VisitAnswers
  <2> QED BY <2>1, <2>4
<1>7. N \in S
  <2>1. \A k \in 0..N : k \in S
    <3> HIDE DEF S
    <3> QED BY <1>1, <1>5, <1>6, SegmentInduction
  <2> QED BY <1>1, <2>1
<1> QED BY <1>2, <1>7, FailedIsOutcome DEF Answers

LEMMA AdvanceAnswers ==
  ASSUME NEW name \in DOMAIN Defs, NEW from, NEW sig, NEW ctx \in Ctx
  PROVE  OutcomeOf(name, DecideAdvance(Defs[name], from, sig, ctx))
<1> DEFINE d == Defs[name]
<1>1. OutcomeOf(name, Complete("rejected")) /\ OutcomeOf(name, Complete("returned"))
  BY CompleteIsOutcome DEF Results
<1>2. OutcomeOf(name, DecideReturned(d, from, ctx))
  <2> DEFINE to  == NextTarget(d, from, "returned")
             out == Resolve(d, to, ctx)
  <2>1. DecideReturned(d, from, ctx) =
          IF to = NoNode THEN Complete("returned") ELSE IF out.kind = "advance" THEN Rework(out.node) ELSE Failed
    BY Zenon DEF DecideReturned
  <2>2. OutcomeOf(name, out)
    BY ResolveAnswers
  <2> HIDE DEF out, to
  <2>3. out.kind = "advance" => OutcomeOf(name, Rework(out.node))
    BY <2>2, AdvanceIsOutcome DEF OutcomeOf
  <2> QED BY <1>1, <2>1, <2>3, FailedIsOutcome
<1>3. \A target : OutcomeOf(name, Resolve(d, target, ctx))
  BY ResolveAnswers
<1> HIDE DEF d
<1> QED BY <1>1, <1>2, <1>3, FailedIsOutcome DEF DecideAdvance, d

LEMMA TimeoutAnswers ==
  ASSUME NEW name \in DOMAIN Defs, NEW from, NEW ctx \in Ctx
  PROVE  OutcomeOf(name, DecideEventWaitTimeout(Defs[name], from, ctx))
BY ResolveAnswers, FailedIsOutcome DEF DecideEventWaitTimeout

----------------------------------------------------------------------------
(* The steps of a transaction: each takes a sound one to a sound one.      *)

\* A step that leaves the tables alone.
LEMMA SameTables ==
  ASSUME NEW old, NEW name, NEW t, Sound(old, name, t),
         NEW u, Shape(u), u.inst = t.inst, u.acts = t.acts, u.intents = t.intents, u.facts = t.facts,
         OutcomeOf(name, u.todo)
  PROVE  Sound(old, name, u)
BY DEF Sound

LEMMA DoneIsOutcome == ASSUME NEW name PROVE OutcomeOf(name, Done)
BY DEF OutcomeOf, Done

LEMMA EmitFields ==
  ASSUME NEW t, Shape(t), NEW e
  PROVE  /\ Shape(Emit(t, e))
         /\ Emit(t, e).inst = t.inst /\ Emit(t, e).acts = t.acts /\ Emit(t, e).intents = t.intents
         /\ Emit(t, e).facts = t.facts /\ Emit(t, e).ok = t.ok /\ Emit(t, e).todo = t.todo
<1> DEFINE r == Fold(t.replay, e)
<1>1. Emit(t, e) = [t EXCEPT !.replay = r]
  BY Zenon DEF Emit
<1> HIDE DEF r
<1> QED BY <1>1 DEF Shape

LEMMA EmitSound ==
  ASSUME NEW old, NEW name, NEW t, Sound(old, name, t), NEW e
  PROVE  Sound(old, name, Emit(t, e))
<1>1. Shape(t) /\ OutcomeOf(name, t.todo)
  BY DEF Sound
<1> QED BY <1>1, EmitFields, SameTables

LEMMA ErrSound ==
  ASSUME NEW old, NEW name, NEW t, Sound(old, name, t)
  PROVE  Sound(old, name, Err(t)) /\ Err(t).todo = Done /\ Err(t).inst = t.inst /\ Err(t).acts = t.acts
<1> DEFINE no == FALSE
<1>0. Err(t) = [t EXCEPT !.ok = no, !.todo = Done]
  BY Zenon DEF Err
<1> HIDE DEF no
<1>1. /\ Shape(Err(t)) /\ Err(t).todo = Done
      /\ Err(t).inst = t.inst /\ Err(t).acts = t.acts /\ Err(t).intents = t.intents /\ Err(t).facts = t.facts
  BY <1>0 DEF Sound, Shape
<1> QED BY <1>1, DoneIsOutcome, SameTables

LEMMA TodoSound ==
  ASSUME NEW old, NEW name, NEW t, Sound(old, name, t), NEW out, OutcomeOf(name, out)
  PROVE  /\ Sound(old, name, [t EXCEPT !.todo = out])
         /\ [t EXCEPT !.todo = out].todo = out
         /\ [t EXCEPT !.todo = out].inst = t.inst /\ [t EXCEPT !.todo = out].acts = t.acts
<1> DEFINE u == [t EXCEPT !.todo = out]
<1>1. /\ Shape(u) /\ u.todo = out
      /\ u.inst = t.inst /\ u.acts = t.acts /\ u.intents = t.intents /\ u.facts = t.facts
  BY DEF Sound, Shape
<1> HIDE DEF u
<1>2. Sound(old, name, u)
  BY <1>1, SameTables
<1> QED BY <1>1, <1>2 DEF u

\* An intent other than the business callback.
LEMMA CallsMore ==
  ASSUME NEW i, NEW left, Calls(i, left), NEW a, NEW type, type # "business_callback"
  PROVE  Calls(i, left \cup {<<a, type>>})
<1>1. \A x \in left \cup {<<a, type>>} : x[2] = "business_callback" => x \in left
  OBVIOUS
<1> QED BY <1>1 DEF Calls

LEMMA CallsLess ==
  ASSUME NEW i, NEW left, NEW gone, Calls(i, left)
  PROVE  Calls(i, left \ gone)
BY DEF Calls

\* The callbacks look at three fields of the instance.
LEMMA CallsOfInstance ==
  ASSUME NEW i, NEW left, Calls(i, left), NEW j,
         j.status = i.status, j.result = i.result, j.callback = i.callback, j.executed = i.executed
  PROVE  Calls(j, left)
BY DEF Calls

\* A new row.
LEMMA RowsAppend ==
  ASSUME NEW old, Len(old) \in Nat, NEW name, NEW rows, Rows(old, name, rows), NEW row \in Row(name)
  PROVE  Rows(old, name, Append(rows, row)) /\ Len(Append(rows, row)) = Len(rows) + 1 /\ Len(rows) \in Nat
<1>1. rows \in Seq(Row(name)) /\ Kept(old, rows)
  BY DEF Rows
<1> HIDE DEF Row
<1>2. Append(rows, row) \in Seq(Row(name)) /\ Len(Append(rows, row)) = Len(rows) + 1 /\ Len(rows) \in Nat
  BY <1>1
<1>3. \A a \in DOMAIN rows : a \in DOMAIN Append(rows, row) /\ Append(rows, row)[a] = rows[a]
  BY <1>1
<1>4. Kept(old, Append(rows, row))
  BY <1>1, <1>2, <1>3 DEF Kept
<1> QED BY <1>2, <1>4 DEF Rows

\* One row changes its fields, and its status or result only if it was undecided.
LEMMA RowsEdit ==
  ASSUME NEW old, Len(old) \in Nat, NEW name, NEW rows, Rows(old, name, rows), NEW a, NEW row \in Row(name),
         \/ row.status = rows[a].status /\ row.result = rows[a].result
         \/ a \in DOMAIN old => old[a].status = "active"
  PROVE  Rows(old, name, [rows EXCEPT ![a] = row]) /\ Len([rows EXCEPT ![a] = row]) = Len(rows)
<1> DEFINE q == [rows EXCEPT ![a] = row]
<1>1. rows \in Seq(Row(name)) /\ Kept(old, rows)
  BY DEF Rows
<1> HIDE DEF Row
<1>2. q \in Seq(Row(name)) /\ Len(q) = Len(rows) /\ DOMAIN q = DOMAIN rows
  <2>1. rows \in [1..Len(rows) -> Row(name)] /\ Len(rows) \in Nat
    BY <1>1
  <2>2. q \in [1..Len(rows) -> Row(name)]
    BY <2>1
  <2> HIDE DEF q
  <2> QED BY <2>1, <2>2
<1>3. \A b \in DOMAIN rows : q[b] = IF b = a THEN row ELSE rows[b]
  BY <1>1
<1> HIDE DEF q
<1>4. Kept(old, q)
  <2> SUFFICES ASSUME NEW b \in DOMAIN old, old[b].status # "active"
               PROVE  b \in DOMAIN q /\ q[b].status = old[b].status /\ q[b].result = old[b].result
    BY <1>1, <1>2 DEF Kept
  <2>1. b \in DOMAIN rows /\ rows[b].status = old[b].status /\ rows[b].result = old[b].result
    BY <1>1 DEF Kept
  <2>2. CASE b = a
    BY <1>2, <1>3, <2>1, <2>2
  <2>3. CASE b # a
    BY <1>2, <1>3, <2>1, <2>3
  <2> QED BY <2>2, <2>3
<1> QED BY <1>2, <1>4 DEF Rows, q

LEMMA ScheduleSound ==
  ASSUME NEW old, Len(old) \in Nat, NEW name \in DOMAIN Defs, NEW t, Sound(old, name, t),
         NEW id \in Ids(name), NEW round \in Nat, NEW fanout
  PROVE  /\ Sound(old, name, Schedule(t, id, round, fanout))
         /\ Schedule(t, id, round, fanout).inst = t.inst
<1> DEFINE n == Defs[t.inst.def].cfg[id]
           a == Len(t.acts) + 1
           row == [node |-> id, status |-> "active", result |-> "none", round |-> round,
                   role |-> "declared", assignee |-> "none", by |-> "none", timers |-> TimersOf(n)]
           left == IF n.kind = "notification" THEN t.intents \cup {<<a, "notification">>} ELSE t.intents
           u == [t EXCEPT !.acts = Append(@, row),
                          !.intents = IF n.kind = "notification" THEN @ \cup {<<a, "notification">>} ELSE @]
           e == [type |-> "scheduled", act |-> a, node |-> id, round |-> round, fanout |-> fanout]
<1>1. Schedule(t, id, round, fanout) = IF n.kind = "sub_workflow" THEN Err(t) ELSE Emit(u, e)
  BY Zenon DEF Schedule
<1>2. row \in Row(name)
  <2>1. TimersOf(n) \subseteq TimerKinds
    BY DEF TimersOf
  <2> HIDE DEF n
  <2> QED BY <2>1 DEF Row, ActStatus, Results
<1> HIDE DEF row
<1>3. /\ Shape(u) /\ u.inst = t.inst /\ u.acts = Append(t.acts, row) /\ u.facts = t.facts
      /\ u.intents = left /\ u.todo = t.todo
  <2> DEFINE more == Append(t.acts, row)
  <2>1. u = [t EXCEPT !.acts = more, !.intents = left]
    BY Zenon
  <2> HIDE DEF n, more, left, u, a, e
  <2>2. /\ Shape(u) /\ u.inst = t.inst /\ u.acts = more /\ u.facts = t.facts
        /\ u.intents = left /\ u.todo = t.todo
    BY <2>1 DEF Sound, Shape
  <2> QED BY <2>2 DEF more
<1> HIDE DEF u, e
<1>4. Rows(old, name, u.acts) /\ Len(u.acts) = Len(t.acts) + 1 /\ Len(t.acts) \in Nat
  BY <1>2, <1>3, RowsAppend DEF Sound
<1>5. u.intents \subseteq (1..Len(u.acts)) \X OutboxType
  <2>1. t.intents \subseteq (1..Len(t.acts)) \X OutboxType
    BY DEF Sound
  <2>2. 1..Len(t.acts) \subseteq 1..Len(u.acts) /\ a \in 1..Len(u.acts)
    BY <1>4
  <2>3. "notification" \in OutboxType
    BY DEF OutboxType
  <2> HIDE DEF n, a
  <2>4. left \subseteq t.intents \cup {<<a, "notification">>}
    OBVIOUS
  <2> QED BY <1>3, <2>1, <2>2, <2>3, <2>4
<1>6. Calls(u.inst, u.intents)
  <2>1. Calls(t.inst, t.intents) /\ Calls(t.inst, t.intents \cup {<<a, "notification">>})
    BY CallsMore DEF Sound
  <2> QED BY <1>3, <2>1
<1>7. Instance(name, u.inst, Len(u.acts))
  <2>1. Instance(name, t.inst, Len(t.acts))
    BY DEF Sound
  <2> QED BY <1>3, <1>4, <2>1 DEF Instance
<1>8. Sound(old, name, u)
  BY <1>3, <1>4, <1>5, <1>6, <1>7 DEF Sound
<1>9. Sound(old, name, Emit(u, e)) /\ Emit(u, e).inst = t.inst
  BY <1>3, <1>8, EmitSound, EmitFields
<1>10. Sound(old, name, Err(t)) /\ Err(t).inst = t.inst
  BY ErrSound
<1> HIDE DEF n
<1> QED BY <1>1, <1>9, <1>10

\* The instance changes, in the fields that no callback looks at.
LEMMA InstanceEdit ==
  ASSUME NEW old, NEW name, NEW t, Sound(old, name, t), NEW j, Instance(name, j, Len(t.acts)),
         Calls(j, t.intents)
  PROVE  /\ Sound(old, name, [t EXCEPT !.inst = j])
         /\ [t EXCEPT !.inst = j].todo = t.todo /\ [t EXCEPT !.inst = j].inst = j
         /\ [t EXCEPT !.inst = j].acts = t.acts /\ [t EXCEPT !.inst = j].intents = t.intents
<1> DEFINE u == [t EXCEPT !.inst = j]
<1>1. /\ Shape(u) /\ u.inst = j /\ u.acts = t.acts /\ u.intents = t.intents /\ u.facts = t.facts
      /\ u.todo = t.todo
  BY DEF Sound, Shape
<1> HIDE DEF u
<1> QED BY <1>1 DEF Sound, u

LEMMA CurrentEdit ==
  ASSUME NEW name, NEW i, NEW n \in Nat, Instance(name, i, n), NEW c \in 0..n
  PROVE  /\ Instance(name, [i EXCEPT !.current = c], n)
         /\ [i EXCEPT !.current = c].status = i.status /\ [i EXCEPT !.current = c].result = i.result
         /\ [i EXCEPT !.current = c].callback = i.callback /\ [i EXCEPT !.current = c].executed = i.executed
         /\ [i EXCEPT !.current = c].ctx = i.ctx
BY DEF Instance

LEMMA CountIsNat ==
  ASSUME NEW old, NEW name, NEW t, Sound(old, name, t)
  PROVE  Len(t.acts) \in Nat /\ DOMAIN t.acts = 1..Len(t.acts) /\ t.acts \in Seq(Row(name))
<1>1. t.acts \in Seq(Row(name))
  BY DEF Sound, Rows
<1> QED BY <1>1

LEMMA CurrentSound ==
  ASSUME NEW old, NEW name, NEW t, Sound(old, name, t), NEW c \in 0..Len(t.acts)
  PROVE  /\ Sound(old, name, [t EXCEPT !.inst.current = c])
         /\ [t EXCEPT !.inst.current = c].todo = t.todo
         /\ [t EXCEPT !.inst.current = c].acts = t.acts
<1> DEFINE j == [t.inst EXCEPT !.current = c]
<1>1. [t EXCEPT !.inst.current = c] = [t EXCEPT !.inst = j]
  BY DEF Sound, Shape
<1>2. Instance(name, j, Len(t.acts)) /\ Calls(j, t.intents)
  <2>1. Instance(name, t.inst, Len(t.acts)) /\ Calls(t.inst, t.intents) /\ Len(t.acts) \in Nat
    BY CountIsNat DEF Sound
  <2>2. /\ Instance(name, j, Len(t.acts))
        /\ j.status = t.inst.status /\ j.result = t.inst.result
        /\ j.callback = t.inst.callback /\ j.executed = t.inst.executed
    BY <2>1, CurrentEdit
  <2> HIDE DEF j
  <2> QED BY <2>1, <2>2, CallsOfInstance
<1> HIDE DEF j
<1> QED BY <1>1, <1>2, InstanceEdit

LEMMA PointSound ==
  ASSUME NEW old, NEW name, NEW t, Sound(old, name, t)
  PROVE  Sound(old, name, PointAtNewest(t)) /\ PointAtNewest(t).acts = t.acts
<1> DEFINE c == IF t.inst.status = "active" THEN Len(t.acts) ELSE t.inst.current
<1>1. PointAtNewest(t) = [t EXCEPT !.inst.current = c]
  BY DEF PointAtNewest, Sound, Shape
<1>2. c \in 0..Len(t.acts)
  BY CountIsNat DEF Sound, Instance
<1> HIDE DEF c
<1> QED BY <1>1, <1>2, CurrentSound

LEMMA ClearSound ==
  ASSUME NEW old, NEW name, NEW t, Sound(old, name, t)
  PROVE  Sound(old, name, ClearCurrent(t)) /\ ClearCurrent(t).acts = t.acts
<1>1. NoAct \in 0..Len(t.acts)
  BY CountIsNat DEF NoAct
<1> QED BY <1>1, CurrentSound DEF ClearCurrent

----------------------------------------------------------------------------
(* apply_outcome.                                                          *)

\* Rows still at work are skipped.
Skipping(rows, T) ==
  [a \in DOMAIN rows |-> IF a \in T THEN [rows[a] EXCEPT !.status = "skipped", !.timers = {}] ELSE rows[a]]

LEMMA RowsSkip ==
  ASSUME NEW old, Len(old) \in Nat, NEW name, NEW rows, Rows(old, name, rows), NEW T,
         \A a \in T : rows[a].status = "active"
  PROVE  Rows(old, name, Skipping(rows, T)) /\ Len(Skipping(rows, T)) = Len(rows)
<1> DEFINE q == [a \in DOMAIN rows |->
                   IF a \in T THEN [rows[a] EXCEPT !.status = "skipped", !.timers = {}] ELSE rows[a]]
<1>1. rows \in Seq(Row(name)) /\ Kept(old, rows) /\ Len(rows) \in Nat /\ DOMAIN rows = 1..Len(rows)
  BY DEF Rows
<1>2. \A a \in DOMAIN rows : q[a] \in Row(name)
  <2> TAKE a \in DOMAIN rows
  <2>1. rows[a] \in Row(name)
    BY <1>1
  <2>2. [rows[a] EXCEPT !.status = "skipped", !.timers = {}] \in Row(name)
    BY <2>1 DEF Row, ActStatus
  <2> QED BY <2>1, <2>2
<1>3. \A a \in DOMAIN rows : rows[a].status # "active" => q[a] = rows[a]
  OBVIOUS
<1>4. DOMAIN q = DOMAIN rows
  OBVIOUS
<1>5. q = [a \in 1..Len(rows) |-> q[a]]
  BY <1>1
<1> HIDE DEF q
<1>6. q \in Seq(Row(name)) /\ Len(q) = Len(rows)
  <2>1. q \in [1..Len(rows) -> Row(name)]
    BY <1>1, <1>2, <1>5
  <2> QED BY <1>1, <2>1
<1>7. Kept(old, q)
  BY <1>1, <1>3, <1>4, <1>6 DEF Kept
<1> QED BY <1>6, <1>7 DEF Rows, q, Skipping

\* The tables keep their length where no row is added.
LEMMA RowsSound ==
  ASSUME NEW old, NEW name, NEW t, Sound(old, name, t), NEW q, Rows(old, name, q), Len(q) = Len(t.acts)
  PROVE  Sound(old, name, [t EXCEPT !.acts = q]) /\ [t EXCEPT !.acts = q].inst = t.inst
         /\ [t EXCEPT !.acts = q].intents = t.intents
<1> DEFINE u == [t EXCEPT !.acts = q]
<1>1. /\ Shape(u) /\ u.inst = t.inst /\ u.acts = q /\ u.intents = t.intents /\ u.facts = t.facts
      /\ u.todo = t.todo
  BY DEF Sound, Shape
<1> HIDE DEF u
<1> QED BY <1>1 DEF Sound, u

LEMMA SkipOthersSound ==
  ASSUME NEW old, Len(old) \in Nat, NEW name, NEW t, Sound(old, name, t), NEW src
  PROVE  Sound(old, name, SkipOthers(t, src)) /\ SkipOthers(t, src).inst = t.inst
<1> DEFINE others == ActiveIn(t) \ {src}
           q == Skipping(t.acts, others)
           u == [t EXCEPT !.acts = q]
<1>1. SkipOthers(t, src) = IF others = {} THEN t ELSE Emit(u, Event("rest_skipped"))
  BY Zenon DEF SkipOthers, Skipping
<1>2. \A a \in others : t.acts[a].status = "active"
  BY DEF ActiveIn
<1>3. Rows(old, name, q) /\ Len(q) = Len(t.acts)
  <2>1. Rows(old, name, t.acts)
    BY DEF Sound
  <2> HIDE DEF others
  <2> QED BY <1>2, <2>1, RowsSkip
<1> HIDE DEF q, others
<1>5. Sound(old, name, u) /\ u.inst = t.inst
  BY <1>3, RowsSound
<1> HIDE DEF u
<1>6. Sound(old, name, Emit(u, Event("rest_skipped"))) /\ Emit(u, Event("rest_skipped")).inst = u.inst
  BY <1>5, EmitSound, EmitFields DEF Sound
<1> QED BY <1>1, <1>5, <1>6

\* Where no callback can be due, the instance may change.
LEMMA NothingCalled ==
  ASSUME NEW i, NEW left, Calls(i, left), i.status # "completed" \/ i.result # "approved",
         NEW j, j.executed = i.executed
  PROVE  Calls(j, left)
BY DEF Calls

LEMMA StatusEdit ==
  ASSUME NEW name, NEW i, NEW n, Instance(name, i, n), NEW s \in InstStatus
  PROVE  /\ Instance(name, [i EXCEPT !.status = s], n)
         /\ [i EXCEPT !.status = s].executed = i.executed
BY DEF Instance

Closing(i, s, r, c) == [i EXCEPT !.status = s, !.result = r, !.current = c]

LEMMA CloseEdit ==
  ASSUME NEW name, NEW i, NEW n \in Nat, Instance(name, i, n), NEW s \in InstStatus, NEW r \in Results,
         NEW c \in 0..n
  PROVE  /\ Instance(name, Closing(i, s, r, c), n)
         /\ Closing(i, s, r, c).status = s /\ Closing(i, s, r, c).result = r
         /\ Closing(i, s, r, c).executed = i.executed /\ Closing(i, s, r, c).callback = i.callback
<1> DEFINE j == [i EXCEPT !.status = s, !.result = r, !.current = c]
<1>1. /\ i.def \in DOMAIN Defs /\ i.ctx \in Ctx /\ i.callback \in BOOLEAN /\ i.executed \in BOOLEAN
      /\ i.def = name
      /\ i = [status |-> i.status, def |-> i.def, result |-> i.result, current |-> i.current,
              ctx |-> i.ctx, callback |-> i.callback, executed |-> i.executed]
  BY DEF Instance
<1>2. j = [status |-> s, def |-> i.def, result |-> r, current |-> c, ctx |-> i.ctx,
           callback |-> i.callback, executed |-> i.executed]
  <2>1. /\ j.status = s /\ j.def = i.def /\ j.result = r /\ j.current = c /\ j.ctx = i.ctx
        /\ j.callback = i.callback /\ j.executed = i.executed
    BY <1>1
  <2>2. j = [x \in DOMAIN i |-> j[x]]
    BY Zenon
  <2>3. DOMAIN i = {"status", "def", "result", "current", "ctx", "callback", "executed"}
    BY <1>1
  <2> HIDE DEF j
  <2> QED BY <2>1, <2>2, <2>3
<1> HIDE DEF j
<1>3. /\ j.status = s /\ j.result = r /\ j.executed = i.executed /\ j.callback = i.callback
      /\ j.def = name /\ j.current = c
  BY <1>1, <1>2
<1>4. j \in [status : InstStatus, def : DOMAIN Defs, result : Results, current : Nat, ctx : Ctx,
             callback : BOOLEAN, executed : BOOLEAN]
  BY <1>1, <1>2
<1>5. Instance(name, j, n)
  BY <1>3, <1>4 DEF Instance
<1> QED BY <1>3, <1>5 DEF j, Closing

LEMMA FailSound ==
  ASSUME NEW old, NEW name, NEW t, Sound(old, name, t)
  PROVE  Sound(old, name, FailInstance(t))
<1> DEFINE s == IF t.inst.status = "active" THEN "errored" ELSE t.inst.status
           j == [t.inst EXCEPT !.status = s]
           v == [t EXCEPT !.inst = j]
           u == [t EXCEPT !.inst = j, !.todo = Done]
<1>1. FailInstance(t) = Emit(u, Event("errored"))
  <2>1. u = [t EXCEPT !.inst.status = s, !.todo = Done]
    BY DEF Sound, Shape
  <2> QED BY <2>1, Zenon DEF FailInstance
<1>2. s \in InstStatus
  BY DEF Sound, Instance, InstStatus
<1>3. Instance(name, j, Len(t.acts)) /\ j.executed = t.inst.executed
  <2> HIDE DEF s
  <2> QED BY <1>2, StatusEdit DEF Sound
<1>4. Calls(j, t.intents)
  <2>1. CASE t.inst.status = "active"
    BY <1>3, <2>1, NothingCalled DEF Sound
  <2>2. CASE t.inst.status # "active"
    <3>1. j = t.inst
      BY <2>2 DEF Sound, Instance
    <3> QED BY <3>1 DEF Sound
  <2> QED BY <2>1, <2>2
<1> HIDE DEF j
<1>5. Sound(old, name, v)
  BY <1>3, <1>4, InstanceEdit
<1>6. u = [v EXCEPT !.todo = Done]
  BY DEF Sound, Shape
<1> HIDE DEF v, u
<1>7. Sound(old, name, u)
  BY <1>5, <1>6, TodoSound, DoneIsOutcome
<1> QED BY <1>1, <1>7, EmitSound

LEMMA CompleteSound ==
  ASSUME NEW old, Len(old) \in Nat \ {0}, NEW name, NEW t, Sound(old, name, t), NEW res \in Results
  PROVE  Sound(old, name, CompleteInstance(t, res))
<1> DEFINE j == Closing(t.inst, "completed", res, NoAct)
           call == <<Len(t.acts), "business_callback">>
           asks == res = "approved" /\ t.inst.callback
           left == IF asks THEN t.intents \cup {call} ELSE t.intents
           u == [t EXCEPT !.inst = j, !.intents = left, !.todo = Done]
<1>1. CompleteInstance(t, res) =
        IF t.inst.status # "active" THEN Err(t) ELSE Emit(u, ResultEvent("completed", res))
  BY Zenon DEF CompleteInstance, Closing
<1>2. SUFFICES ASSUME t.inst.status = "active" PROVE Sound(old, name, u)
  <2> HIDE DEF u
  <2> QED BY <1>1, <1>2, EmitSound, ErrSound
<1>3. Len(t.acts) \in Nat /\ Len(t.acts) # 0
  BY CountIsNat DEF Sound, Rows, Kept
<1>4. /\ Instance(name, j, Len(t.acts))
      /\ j.status = "completed" /\ j.result = res /\ j.executed = t.inst.executed
      /\ j.callback = t.inst.callback
  <2>1. "completed" \in InstStatus /\ NoAct \in 0..Len(t.acts) /\ Instance(name, t.inst, Len(t.acts))
    BY <1>3 DEF Sound, InstStatus, NoAct
  <2> QED BY <1>3, <2>1, CloseEdit
<1>5. /\ j.status = "completed" /\ j.result = res /\ j.executed = t.inst.executed
      /\ j.callback = t.inst.callback
  BY <1>4
<1>6. (\A x \in t.intents : x[2] # "business_callback") /\ ~ t.inst.executed
  BY <1>2 DEF Sound, Calls
<1>7. left \subseteq t.intents \cup {call} /\ (left = t.intents \/ (res = "approved" /\ t.inst.callback))
  <2>1. asks => res = "approved" /\ t.inst.callback
    OBVIOUS
  <2> HIDE DEF call, asks
  <2> QED BY <2>1
<1>8. call[2] = "business_callback" /\ call \in (1..Len(t.acts)) \X OutboxType
  BY <1>3 DEF OutboxType
<1> HIDE DEF asks
<1>9. left \subseteq (1..Len(t.acts)) \X OutboxType
  <2>1. t.intents \subseteq (1..Len(t.acts)) \X OutboxType
    BY DEF Sound
  <2> HIDE DEF call, left
  <2> QED BY <1>7, <1>8, <2>1
<1>10. Calls(j, left)
  <2>1. \A x \in left : x[2] = "business_callback" => x = call
    <3> HIDE DEF call, left
    <3> QED BY <1>6, <1>7
  <2>2. (\E x \in left : x[2] = "business_callback") => res = "approved" /\ t.inst.callback
    <3> HIDE DEF call, left
    <3> QED BY <1>6, <1>7
  <2> HIDE DEF call, left, j
  <2> QED BY <1>5, <1>6, <2>1, <2>2 DEF Calls
<1> HIDE DEF j, left
<1>11. /\ Shape(u) /\ u.inst = j /\ u.acts = t.acts /\ u.intents = left /\ u.facts = t.facts
       /\ u.todo = Done
  <2>1. u = [t EXCEPT !.inst = j, !.intents = left, !.todo = Done]
    OBVIOUS
  <2> HIDE DEF u, call
  <2> QED BY <2>1 DEF Sound, Shape
<1> HIDE DEF u
<1> QED BY <1>4, <1>9, <1>10, <1>11, DoneIsOutcome DEF Sound

LEMMA AdvanceSound ==
  ASSUME NEW old, Len(old) \in Nat, NEW name \in DOMAIN Defs, NEW t, Sound(old, name, t),
         NEW id \in Ids(name), NEW round \in Nat
  PROVE  Sound(old, name, AdvanceTo(t, id, round))
<1> DEFINE u == Schedule(t, id, round, FALSE)
           v == PointAtNewest(u)
<1>1. Sound(old, name, u)
  BY ScheduleSound
<1> HIDE DEF u
<1>2. Sound(old, name, v)
  BY <1>1, PointSound
<1> HIDE DEF v
<1> QED BY <1>2, TodoSound, DoneIsOutcome DEF AdvanceTo, u, v

LEMMA HandBackSound ==
  ASSUME NEW old, Len(old) \in Nat, NEW name \in DOMAIN Defs, NEW t, Sound(old, name, t), NEW id \in Ids(name)
  PROVE  Sound(old, name, HandBack(t, id))
<1> DEFINE next == MaxRound(t) + 1
           t1 == Schedule(t, id, next, FALSE)
           j == [t1.inst EXCEPT !.status = "returned_waiting", !.current = Len(t1.acts)]
           v == [t1 EXCEPT !.inst = j]
           t2 == [t1 EXCEPT !.inst = j, !.todo = Done]
           e == [type |-> "returned_to_rework", act |-> Len(t1.acts), node |-> id, round |-> next]
           stop == next > EffectiveLimit(Defs[t.inst.def]) \/ t.inst.status # "active"
<1>1. HandBack(t, id) = IF stop THEN Err(t) ELSE Emit(t2, e)
  BY Zenon DEF HandBack
<1>2. SUFFICES ASSUME t.inst.status = "active" PROVE Sound(old, name, t2)
  <2>1. t.inst.status # "active" => stop
    OBVIOUS
  <2> HIDE DEF t2, stop
  <2> QED BY <1>1, <1>2, <2>1, EmitSound, ErrSound
<1>3. next \in Nat
  <2>1. t.acts \in Seq(Row(name))
    BY CountIsNat
  <2>2. MaxRound(t) \in Nat
    BY <2>1, RoundIsNat
  <2> QED BY <2>2
<1> HIDE DEF next
<1>4. Sound(old, name, t1) /\ t1.inst = t.inst
  <2> HIDE DEF t2, v, j, e, stop
  <2> DEFINE no == FALSE
  <2>1. t1 = Schedule(t, id, next, no)
    OBVIOUS
  <2> HIDE DEF no, t1
  <2>2. Sound(old, name, Schedule(t, id, next, no)) /\ Schedule(t, id, next, no).inst = t.inst
    BY <1>3, ScheduleSound
  <2> QED BY <2>1, <2>2
<1> HIDE DEF t1
<1>5. Instance(name, j, Len(t1.acts)) /\ j.executed = t1.inst.executed
  <2>1. /\ Len(t1.acts) \in Nat /\ Len(t1.acts) \in 0..Len(t1.acts) /\ "returned_waiting" \in InstStatus
        /\ Instance(name, t1.inst, Len(t1.acts)) /\ t1.inst.result \in Results
    BY <1>4, CountIsNat DEF Sound, InstStatus, Instance
  <2> DEFINE k == Closing(t1.inst, "returned_waiting", t1.inst.result, Len(t1.acts))
  <2>2. j = k
    <3>1. /\ j.status = k.status /\ j.def = k.def /\ j.result = k.result /\ j.current = k.current
          /\ j.ctx = k.ctx /\ j.callback = k.callback /\ j.executed = k.executed
      BY <2>1 DEF Instance, Closing
    <3>2. j = [x \in DOMAIN t1.inst |-> j[x]] /\ k = [x \in DOMAIN t1.inst |-> k[x]]
      BY Zenon DEF Closing
    <3>3. DOMAIN t1.inst = {"status", "def", "result", "current", "ctx", "callback", "executed"}
      BY <2>1 DEF Instance
    <3> HIDE DEF j, k
    <3> QED BY <3>1, <3>2, <3>3
  <2>3. Instance(name, k, Len(t1.acts)) /\ k.executed = t1.inst.executed
    BY <2>1, CloseEdit
  <2> HIDE DEF j, k
  <2> QED BY <2>2, <2>3
<1> HIDE DEF j
<1>6. Calls(j, t1.intents)
  BY <1>2, <1>4, <1>5, NothingCalled DEF Sound
<1>7. Sound(old, name, v)
  BY <1>4, <1>5, <1>6, InstanceEdit
<1>8. t2 = [v EXCEPT !.todo = Done]
  BY <1>4 DEF Sound, Shape
<1> HIDE DEF v, t2
<1> QED BY <1>7, <1>8, TodoSound, DoneIsOutcome

LEMMA FactsSound ==
  ASSUME NEW old, NEW name, NEW t, Sound(old, name, t), NEW f, FactsOf(name, f)
  PROVE  Sound(old, name, [t EXCEPT !.facts = f]) /\ [t EXCEPT !.facts = f].inst = t.inst
<1> DEFINE u == [t EXCEPT !.facts = f]
<1>1. /\ Shape(u) /\ u.inst = t.inst /\ u.acts = t.acts /\ u.intents = t.intents /\ u.facts = f
      /\ u.todo = t.todo
  BY DEF Sound, Shape
<1> HIDE DEF u
<1> QED BY <1>1 DEF Sound, u

LEMMA JoinSound ==
  ASSUME NEW old, Len(old) \in Nat, NEW name \in DOMAIN Defs, NEW t, Sound(old, name, t),
         NEW join \in Ids(name), NEW src, NEW round \in Nat
  PROVE  Sound(old, name, TryJoin(t, join, src, round))
<1> DEFINE d == Defs[t.inst.def]
           strategy == d.cfg[join].strategy
           key == [join |-> join, round |-> round]
           more == t.facts.satisfied \cup {key}
           again == t.facts.refired \cup ({key} \cap t.facts.satisfied)
           f == [t.facts EXCEPT !.satisfied = more, !.refired = again]
           fired == [t EXCEPT !.facts.satisfied = @ \cup {key},
                              !.facts.refired = @ \cup ({key} \cap t.facts.satisfied)]
           swept == IF SkipsRemaining(strategy) THEN SkipOthers(fired, src) ELSE fired
           out == DecideAdvance(d, join, "approved", t.inst.ctx)
           holds == IsSatisfied(strategy, Arrived(t, join, round), Expected(t, join, round))
<1>1. TryJoin(t, join, src, round) =
        IF holds THEN [swept EXCEPT !.todo = out] ELSE [ClearCurrent(t) EXCEPT !.todo = Done]
  BY Zenon DEF TryJoin
<1>2. FactsOf(name, f)
  <2>1. FactsOf(name, t.facts)
    BY DEF Sound
  <2>2. \A x \in more : x.join \in Ids(name) /\ x.round \in Nat
    BY <2>1 DEF FactsOf
  <2> HIDE DEF more, again
  <2>3. f.fanouts = t.facts.fanouts /\ f.satisfied = more
    BY <2>1 DEF FactsOf
  <2>4. DOMAIN f = {"fanouts", "satisfied", "refired"}
    BY <2>1 DEF FactsOf
  <2>5. f = [x \in DOMAIN f |-> f[x]]
    BY Zenon
  <2> HIDE DEF f
  <2>6. f = [fanouts |-> f.fanouts, satisfied |-> f.satisfied, refired |-> f.refired]
    BY <2>4, <2>5
  <2> QED BY <2>1, <2>2, <2>3, <2>6 DEF FactsOf
<1>3. Sound(old, name, fired)
  <2>1. fired = [t EXCEPT !.facts = f]
    BY DEF Sound, Shape
  <2> HIDE DEF f, fired
  <2> QED BY <1>2, <2>1, FactsSound
<1> HIDE DEF f, fired
<1>4. Sound(old, name, swept)
  <2>1. Sound(old, name, SkipOthers(fired, src))
    BY <1>3, SkipOthersSound
  <2> HIDE DEF strategy
  <2> QED BY <1>3, <2>1
<1>5. OutcomeOf(name, out)
  <2>1. t.inst.def = name /\ t.inst.ctx \in Ctx
    BY DEF Sound, Instance
  <2>2. out = DecideAdvance(Defs[name], join, "approved", t.inst.ctx)
    BY <2>1
  <2> HIDE DEF out
  <2> QED BY <2>1, <2>2, AdvanceAnswers
<1> HIDE DEF out, swept, holds
<1>6. Sound(old, name, [swept EXCEPT !.todo = out])
  BY <1>4, <1>5, TodoSound
<1>7. Sound(old, name, [ClearCurrent(t) EXCEPT !.todo = Done])
  <2>1. Sound(old, name, ClearCurrent(t))
    BY ClearSound
  <2> QED BY <2>1, TodoSound, DoneIsOutcome
<1> QED BY <1>1, <1>6, <1>7

\* A fan-out, as wide as one likes.
IsSpread(start, targets, round, fanout, n, f) ==
  f = [k \in 0..n |-> IF k = 0 THEN start ELSE Schedule(f[k - 1], targets[k], round, fanout)]

LEMMA SpreadExists ==
  ASSUME NEW start, NEW targets, NEW round, NEW fanout, NEW n \in Nat
  PROVE  \E f : IsSpread(start, targets, round, fanout, n, f)
<1> DEFINE S == {m \in Nat : \E f : IsSpread(start, targets, round, fanout, m, f)}
<1>1. 0 \in S
  <2> DEFINE r == [k \in 0..0 |-> start]
  <2>1. r = [k \in 0..0 |-> IF k = 0 THEN start ELSE Schedule(r[k - 1], targets[k], round, fanout)]
    OBVIOUS
  <2> HIDE DEF r
  <2>2. IsSpread(start, targets, round, fanout, 0, r)
    BY <2>1 DEF IsSpread
  <2> QED BY <2>2
<1>2. ASSUME NEW m \in S PROVE m + 1 \in S
  <2>1. PICK f : IsSpread(start, targets, round, fanout, m, f)
    OBVIOUS
  <2> DEFINE g == [k \in 0..(m + 1) |-> IF k = m + 1 THEN Schedule(f[m], targets[(m + 1)], round, fanout) ELSE f[k]]
  <2>2. ASSUME NEW k \in 0..(m + 1)
        PROVE  g[k] = IF k = 0 THEN start ELSE Schedule(g[k - 1], targets[k], round, fanout)
    <3>1. CASE k = m + 1
      <4>1. g[k] = Schedule(f[m], targets[(m + 1)], round, fanout) /\ g[k - 1] = f[m] /\ k # 0
        BY <3>1
      <4> HIDE DEF g
      <4> QED BY <3>1, <4>1
    <3>2. CASE k = 0
      BY <2>1, <3>2 DEF IsSpread
    <3>3. CASE k \in 1..m
      <4>1. g[k] = f[k] /\ g[k - 1] = f[k - 1] /\ k # 0 /\ k \in 0..m
        BY <3>3
      <4>2. f[k] = Schedule(f[k - 1], targets[k], round, fanout)
        BY <2>1, <4>1 DEF IsSpread
      <4> HIDE DEF g
      <4> QED BY <4>1, <4>2
    <3> QED BY <3>1, <3>2, <3>3
  <2>3. IsSpread(start, targets, round, fanout, m + 1, g)
    <3>1. g = [k \in 0..(m + 1) |-> g[k]]
      OBVIOUS
    <3> HIDE DEF g
    <3> QED BY <2>2, <3>1 DEF IsSpread
  <2> HIDE DEF g
  <2> QED BY <2>3
<1>3. S \in SUBSET Nat
  OBVIOUS
<1>4. n \in S
  <2> HIDE DEF S
  <2> QED BY <1>1, <1>2, <1>3, NatSetInduction
<1> QED BY <1>4

LEMMA SpreadSound ==
  ASSUME NEW old, Len(old) \in Nat, NEW name \in DOMAIN Defs, NEW t, Sound(old, name, t),
         NEW out, out.targets \in Seq(Ids(name)), out.join \in Ids(name) \cup {NoNode}, NEW round \in Nat
  PROVE  Sound(old, name, SpreadOut(t, out, round))
<1> DEFINE N == Len(out.targets)
           fan == [join |-> out.join, round |-> round, count |-> Len(out.targets),
                   at |-> Cardinality(t.facts.fanouts)]
           more == t.facts.fanouts \cup {fan}
           f == [t.facts EXCEPT !.fanouts = more]
           noted == IF out.join = NoNode THEN t ELSE [t EXCEPT !.facts = f]
           start == Emit(ClearCurrent(noted), Event("fanned_out"))
           yes == TRUE
           rows == CHOOSE q : IsSpread(start, out.targets, round, yes, N, q)
<1>1. SpreadOut(t, out, round) = [rows[N] EXCEPT !.todo = Done]
  <2>1. [t EXCEPT !.facts = f] = [t EXCEPT !.facts.fanouts = more]
    BY DEF Sound, Shape
  <2> QED BY <2>1, Zenon DEF SpreadOut, IsSpread
<1>2. N \in Nat /\ \A k \in 1..N : out.targets[k] \in Ids(name)
  OBVIOUS
<1>3. Sound(old, name, noted)
  <2>1. CASE out.join = NoNode
    BY <2>1
  <2>2. CASE out.join # NoNode
    <3>1. FactsOf(name, t.facts)
      BY DEF Sound
    <3>2. \A x \in more : x.join \in Ids(name) /\ x.round \in Nat /\ x.count \in Nat
      BY <1>2, <2>2, <3>1 DEF FactsOf
    <3> HIDE DEF more
    <3>3. FactsOf(name, f)
      BY <3>1, <3>2 DEF FactsOf
    <3> HIDE DEF f
    <3> QED BY <2>2, <3>3, FactsSound
  <2> QED BY <2>1, <2>2
<1> HIDE DEF noted
<1>4. Sound(old, name, start)
  <2>1. Sound(old, name, ClearCurrent(noted))
    BY <1>3, ClearSound
  <2> QED BY <2>1, EmitSound
<1> HIDE DEF start, N, yes
<1>5. IsSpread(start, out.targets, round, yes, N, rows)
  BY <1>2, SpreadExists
<1> HIDE DEF rows
<1> DEFINE S == {k \in 0..N : Sound(old, name, rows[k])}
<1>6. 0 \in S
  <2>1. 0 \in 0..N /\ rows[0] = start
    BY <1>2, <1>5 DEF IsSpread
  <2> QED BY <1>4, <2>1
<1>7. ASSUME NEW m \in 0..N, m \in S, m < N PROVE m + 1 \in S
  <2>1. m + 1 \in 1..N /\ m + 1 \in 0..N /\ m + 1 # 0 /\ (m + 1) - 1 = m
    BY <1>2, <1>7
  <2>2. rows[m + 1] = Schedule(rows[m], out.targets[m + 1], round, yes)
    BY <1>5, <2>1 DEF IsSpread
  <2>3. Sound(old, name, rows[m]) /\ out.targets[m + 1] \in Ids(name)
    BY <1>2, <1>7, <2>1
  <2>5. Sound(old, name, rows[m + 1])
    BY <2>2, <2>3, ScheduleSound
  <2> QED BY <2>1, <2>5
<1>8. Sound(old, name, rows[N])
  <2>1. \A k \in 0..N : k \in S
    <3> HIDE DEF S
    <3> QED BY <1>2, <1>6, <1>7, SegmentInduction
  <2> QED BY <1>2, <2>1
<1> DEFINE w == rows[N]
<1>9. SpreadOut(t, out, round) = [w EXCEPT !.todo = Done] /\ Sound(old, name, w)
  BY <1>1, <1>8
<1> HIDE DEF S, f, more, fan, w
<1>10. Sound(old, name, [w EXCEPT !.todo = Done])
  BY <1>9, TodoSound, DoneIsOutcome
<1> QED BY <1>9, <1>10

LEMMA StepSound ==
  ASSUME NEW old, Len(old) \in Nat \ {0}, NEW name \in DOMAIN Defs, NEW t, Sound(old, name, t),
         NEW src, NEW round \in Nat
  PROVE  Sound(old, name, ApplyStep(t, src, round))
<1> DEFINE out == t.todo
           d == Defs[t.inst.def]
           spread == SpreadOut(t, out, round)
<1>1. OutcomeOf(name, out)
  BY DEF Sound
<1>2. CASE out.kind = "advance"
  <2>1. out.node \in Ids(name)
    BY <1>1, <1>2 DEF OutcomeOf
  <2>2. ApplyStep(t, src, round) =
          IF Kind(d, out.node) = "parallel_join" THEN TryJoin(t, out.node, src, round)
          ELSE AdvanceTo(t, out.node, round)
    BY <1>2 DEF ApplyStep
  <2> HIDE DEF out, d
  <2> QED BY <2>1, <2>2, JoinSound, AdvanceSound
<1>3. CASE out.kind = "multi"
  <2>1. out.targets \in Seq(Ids(name)) /\ out.join \in Ids(name) \cup {NoNode}
    BY <1>1, <1>3 DEF OutcomeOf
  <2>2. ApplyStep(t, src, round) =
          IF out.targets = <<>> /\ out.join # NoNode THEN TryJoin(spread, out.join, NoAct, round) ELSE spread
    BY <1>3 DEF ApplyStep
  <2> HIDE DEF out
  <2>3. Sound(old, name, spread)
    BY <2>1, SpreadSound
  <2> HIDE DEF spread
  <2>4. out.join # NoNode => Sound(old, name, TryJoin(spread, out.join, NoAct, round))
    BY <2>1, <2>3, JoinSound
  <2> QED BY <2>2, <2>3, <2>4
<1>4. CASE out.kind = "complete"
  <2>1. out.result \in Results
    BY <1>1, <1>4 DEF OutcomeOf
  <2>2. ApplyStep(t, src, round) = CompleteInstance(t, out.result)
    BY <1>4 DEF ApplyStep
  <2> QED BY <2>1, <2>2, CompleteSound
<1>5. CASE out.kind = "rework"
  <2>1. out.node \in Ids(name)
    BY <1>1, <1>5 DEF OutcomeOf
  <2>2. ApplyStep(t, src, round) = HandBack(t, out.node)
    BY <1>5 DEF ApplyStep
  <2> QED BY <2>1, <2>2, HandBackSound
<1>6. CASE out.kind = "error"
  BY <1>6, FailSound DEF ApplyStep
<1>7. CASE out.kind = "done"
  BY <1>7 DEF ApplyStep
<1> QED BY <1>1, <1>2, <1>3, <1>4, <1>5, <1>6, <1>7 DEF OutcomeOf

\* The cascade of outcomes, as long as one likes.
IsCascade(t, src, round, n, f) ==
  f = [k \in 0..n |-> IF k = 0 THEN t ELSE Only({ApplyStep(u, src, round) : u \in {f[k - 1]}})]

LEMMA CascadeExists ==
  ASSUME NEW t, NEW src, NEW round, NEW n \in Nat
  PROVE  \E f : IsCascade(t, src, round, n, f)
<1> DEFINE S == {m \in Nat : \E f : IsCascade(t, src, round, m, f)}
<1>1. 0 \in S
  <2> DEFINE r == [k \in 0..0 |-> t]
  <2>1. r = [k \in 0..0 |-> IF k = 0 THEN t ELSE Only({ApplyStep(u, src, round) : u \in {r[k - 1]}})]
    OBVIOUS
  <2> HIDE DEF r
  <2>2. IsCascade(t, src, round, 0, r)
    BY <2>1 DEF IsCascade
  <2> QED BY <2>2
<1>2. ASSUME NEW m \in S PROVE m + 1 \in S
  <2>1. PICK f : IsCascade(t, src, round, m, f)
    OBVIOUS
  <2> DEFINE g == [k \in 0..(m + 1) |-> IF k = m + 1 THEN Only({ApplyStep(u, src, round) : u \in {f[m]}}) ELSE f[k]]
  <2>2. ASSUME NEW k \in 0..(m + 1)
        PROVE  g[k] = IF k = 0 THEN t ELSE Only({ApplyStep(u, src, round) : u \in {g[k - 1]}})
    <3>1. CASE k = m + 1
      <4>1. g[k] = Only({ApplyStep(u, src, round) : u \in {f[m]}}) /\ g[k - 1] = f[m] /\ k # 0
        BY <3>1
      <4> HIDE DEF g
      <4> QED BY <3>1, <4>1
    <3>2. CASE k = 0
      BY <2>1, <3>2 DEF IsCascade
    <3>3. CASE k \in 1..m
      <4>1. g[k] = f[k] /\ g[k - 1] = f[k - 1] /\ k # 0 /\ k \in 0..m
        BY <3>3
      <4>2. f[k] = Only({ApplyStep(u, src, round) : u \in {f[k - 1]}})
        BY <2>1, <4>1 DEF IsCascade
      <4> HIDE DEF g
      <4> QED BY <4>1, <4>2
    <3> QED BY <3>1, <3>2, <3>3
  <2>3. IsCascade(t, src, round, m + 1, g)
    <3>1. g = [k \in 0..(m + 1) |-> g[k]]
      OBVIOUS
    <3> HIDE DEF g
    <3> QED BY <2>2, <3>1 DEF IsCascade
  <2> HIDE DEF g
  <2> QED BY <2>3
<1>3. S \in SUBSET Nat
  OBVIOUS
<1>4. n \in S
  <2> HIDE DEF S
  <2> QED BY <1>1, <1>2, <1>3, NatSetInduction
<1> QED BY <1>4

LEMMA ApplySound ==
  ASSUME NEW old, Len(old) \in Nat \ {0}, NEW name \in DOMAIN Defs, NEW t, Sound(old, name, t),
         NEW outcome, OutcomeOf(name, outcome), NEW src, NEW round \in Nat
  PROVE  Sound(old, name, Apply(t, outcome, src, round))
<1> DEFINE N == MaxCascade
           first == [t EXCEPT !.todo = outcome]
           run == CHOOSE f : IsCascade(first, src, round, N, f)
<1>1. Apply(t, outcome, src, round) = IF run[N].todo = Done THEN run[N] ELSE Err(t)
  BY Zenon DEF Apply, IsCascade
<1>2. N \in Nat
  BY EngineAssumption
<1>3. Sound(old, name, first)
  BY TodoSound
<1> HIDE DEF first, N
<1>4. IsCascade(first, src, round, N, run)
  BY <1>2, CascadeExists
<1> HIDE DEF run
<1> DEFINE S == {k \in 0..N : Sound(old, name, run[k])}
<1>5. 0 \in S
  <2>1. 0 \in 0..N /\ run[0] = first
    BY <1>2, <1>4 DEF IsCascade
  <2> QED BY <1>3, <2>1
<1>6. ASSUME NEW m \in 0..N, m \in S, m < N PROVE m + 1 \in S
  <2>1. m + 1 \in 0..N /\ m + 1 # 0 /\ (m + 1) - 1 = m
    BY <1>2, <1>6
  <2>2. run[m + 1] = Only({ApplyStep(u, src, round) : u \in {run[m]}})
    BY <1>4, <2>1 DEF IsCascade
  <2>3. {ApplyStep(u, src, round) : u \in {run[m]}} = {ApplyStep(run[m], src, round)}
    OBVIOUS
  <2>4. run[m + 1] = ApplyStep(run[m], src, round)
    BY <2>2, <2>3 DEF Only
  <2>5. Sound(old, name, run[m])
    BY <1>6
  <2>6. Sound(old, name, run[m + 1])
    BY <2>4, <2>5, StepSound
  <2> QED BY <2>1, <2>6
<1>7. Sound(old, name, run[N])
  <2>1. \A k \in 0..N : k \in S
    <3> HIDE DEF S
    <3> QED BY <1>2, <1>5, <1>6, SegmentInduction
  <2> QED BY <1>2, <2>1
<1> QED BY <1>1, <1>7, ErrSound

----------------------------------------------------------------------------
(* The operations' own steps.                                              *)

LEMMA FinishSound ==
  ASSUME NEW old, Len(old) \in Nat, NEW name, NEW t, Sound(old, name, t), NEW a \in DOMAIN t.acts,
         a \in DOMAIN old => old[a].status = "active",
         NEW res \in Results, NEW by \in {"none", "user", "system"}
  PROVE  Sound(old, name, Finish(t, a, res, by)) /\ Finish(t, a, res, by).inst = t.inst
<1> DEFINE row == t.acts[a]
           new == [row EXCEPT !.status = "completed", !.result = res, !.by = by, !.timers = {}]
           q == [t.acts EXCEPT ![a] = new]
<1>1. Finish(t, a, res, by) = [t EXCEPT !.acts = q]
  BY DEF Finish, Sound, Shape
<1>2. row \in Row(name)
  BY CountIsNat
<1>3. new \in Row(name)
  <2>1. /\ row.node \in Ids(name) /\ row.round \in Nat /\ row.role \in {"declared", "escalated"}
        /\ row.assignee \in {"none", "user"}
        /\ DOMAIN row = {"node", "status", "result", "round", "role", "assignee", "by", "timers"}
    BY <1>2 DEF Row
  <2>2. /\ new.node = row.node /\ new.status = "completed" /\ new.result = res /\ new.round = row.round
        /\ new.role = row.role /\ new.assignee = row.assignee /\ new.by = by /\ new.timers = {}
    BY <2>1
  <2>3. new = [x \in DOMAIN row |-> new[x]]
    BY Zenon
  <2> HIDE DEF new, row
  <2>4. new = [node |-> new.node, status |-> new.status, result |-> new.result, round |-> new.round,
               role |-> new.role, assignee |-> new.assignee, by |-> new.by, timers |-> new.timers]
    BY <2>1, <2>3
  <2> QED BY <2>1, <2>2, <2>4 DEF Row, ActStatus
<1> HIDE DEF new
<1>4. Rows(old, name, q) /\ Len(q) = Len(t.acts)
  <2>1. Rows(old, name, t.acts)
    BY DEF Sound
  <2> QED BY ONLY <1>3, <2>1, Len(old) \in Nat, a \in DOMAIN old => old[a].status = "active", RowsEdit
<1> HIDE DEF q
<1> QED BY <1>1, <1>4, RowsSound

LEMMA SkipActSound ==
  ASSUME NEW old, Len(old) \in Nat, NEW name, NEW t, Sound(old, name, t), NEW a \in DOMAIN t.acts,
         a \in DOMAIN old => old[a].status = "active"
  PROVE  Sound(old, name, SkipAct(t, a))
<1> DEFINE row == t.acts[a]
           new == [row EXCEPT !.status = "skipped", !.timers = {}]
           q == [t.acts EXCEPT ![a] = new]
<1>1. SkipAct(t, a) = [t EXCEPT !.acts = q]
  BY DEF SkipAct, Sound, Shape
<1>2. row \in Row(name)
  BY CountIsNat
<1>3. new \in Row(name)
  BY <1>2 DEF Row, ActStatus
<1> HIDE DEF new
<1>4. Rows(old, name, q) /\ Len(q) = Len(t.acts)
  <2>1. Rows(old, name, t.acts)
    BY DEF Sound
  <2> QED BY ONLY <1>3, <2>1, Len(old) \in Nat, a \in DOMAIN old => old[a].status = "active", RowsEdit
<1> HIDE DEF q
<1> QED BY <1>1, <1>4, RowsSound

\* A row changes in a field that no decision is about.
LEMMA RowSound ==
  ASSUME NEW old, Len(old) \in Nat, NEW name, NEW t, Sound(old, name, t), NEW a \in DOMAIN t.acts,
         NEW row \in Row(name), row.status = t.acts[a].status, row.result = t.acts[a].result
  PROVE  /\ Sound(old, name, [t EXCEPT !.acts = [t.acts EXCEPT ![a] = row]])
         /\ Len([t.acts EXCEPT ![a] = row]) = Len(t.acts)
<1> DEFINE q == [t.acts EXCEPT ![a] = row]
<1>1. Rows(old, name, q) /\ Len(q) = Len(t.acts)
  BY RowsEdit DEF Sound
<1> HIDE DEF q
<1>2. Sound(old, name, [t EXCEPT !.acts = q])
  BY <1>1, RowsSound
<1> QED BY <1>1, <1>2 DEF q

LEMMA IntentsSound ==
  ASSUME NEW old, NEW name, NEW t, Sound(old, name, t), NEW left,
         left \subseteq (1..Len(t.acts)) \X OutboxType, Calls(t.inst, left)
  PROVE  /\ Sound(old, name, [t EXCEPT !.intents = left])
         /\ [t EXCEPT !.intents = left].inst = t.inst /\ [t EXCEPT !.intents = left].acts = t.acts
<1> DEFINE u == [t EXCEPT !.intents = left]
<1>1. /\ Shape(u) /\ u.inst = t.inst /\ u.acts = t.acts /\ u.intents = left /\ u.facts = t.facts
      /\ u.todo = t.todo
  BY DEF Sound, Shape
<1> HIDE DEF u
<1> QED BY <1>1 DEF Sound, u

LEMMA IntentSound ==
  ASSUME NEW old, NEW name, NEW t, Sound(old, name, t), NEW a \in 1..Len(t.acts),
         NEW type \in OutboxType, type # "business_callback"
  PROVE  Sound(old, name, [t EXCEPT !.intents = @ \cup {<<a, type>>}])
<1> DEFINE left == t.intents \cup {<<a, type>>}
<1>1. left \subseteq (1..Len(t.acts)) \X OutboxType
  BY DEF Sound
<1>2. Calls(t.inst, left)
  BY CallsMore DEF Sound
<1> HIDE DEF left
<1>3. Sound(old, name, [t EXCEPT !.intents = left])
  BY <1>1, <1>2, IntentsSound
<1> QED BY <1>3 DEF left

\* A transaction that changes the status of an instance that no callback is due for.
LEMMA StatusSound ==
  ASSUME NEW old, NEW name, NEW t, Sound(old, name, t), NEW s \in InstStatus,
         t.inst.status # "completed"
  PROVE  Sound(old, name, [t EXCEPT !.inst.status = s])
<1> DEFINE j == [t.inst EXCEPT !.status = s]
<1>1. [t EXCEPT !.inst.status = s] = [t EXCEPT !.inst = j]
  BY DEF Sound, Shape
<1>2. Instance(name, j, Len(t.acts)) /\ j.executed = t.inst.executed
  BY StatusEdit DEF Sound
<1> HIDE DEF j
<1>3. Calls(j, t.intents)
  BY <1>2, NothingCalled DEF Sound
<1>4. Sound(old, name, [t EXCEPT !.inst = j])
  BY <1>2, <1>3, InstanceEdit
<1> QED BY <1>1, <1>4

----------------------------------------------------------------------------
(* A transaction that commits.                                             *)

\* What a committed transaction keeps: the invariant, and every decided row.
LEMMA CommitKeeps ==
  ASSUME Safe, NEW STATE T, Sound(acts, inst.def, T), Commit(T)
  PROVE  Safe' /\ Kept(acts, acts') /\ inst'.def = inst.def
<1>1. /\ inst' = T.inst /\ acts' = T.acts /\ intents' = T.intents /\ facts' = T.facts
      /\ replay' = T.replay /\ Len(T.acts) <= MaxActs
  BY DEF Commit
<1> DEFINE name == inst.def
           yes == TRUE
           b == [inst |-> inst', acts |-> acts', intents |-> intents', facts |-> facts',
                 replay |-> replay', ok |-> yes, todo |-> Done]
<1>2. Begin' = b
  BY DEF Begin
<1> HIDE DEF yes
<1>3. /\ Shape(b) /\ b.inst = T.inst /\ b.acts = T.acts /\ b.intents = T.intents /\ b.facts = T.facts
      /\ b.todo = Done
  BY <1>1 DEF Shape
<1> HIDE DEF b
<1>4. Sound(acts, name, b)
  BY <1>3, SameTables, DoneIsOutcome
<1>5. Kept(acts, acts') /\ acts' \in Seq(Row(name)) /\ inst'.def = name /\ name \in DOMAIN Defs
  BY <1>1 DEF Sound, Rows, Instance, Safe
<1>6. Kept(acts', acts')
  BY <1>5 DEF Kept
<1>7. Sound(acts', name, b)
  BY <1>1, <1>3, <1>4, <1>5, <1>6 DEF Sound, Rows
<1>8. Sound(acts', inst'.def, Begin') /\ inst'.def \in DOMAIN Defs /\ Len(acts') <= MaxActs
  BY <1>1, <1>2, <1>5, <1>7
<1> QED BY <1>5, <1>8 DEF Safe

LEMMA SafeRows ==
  ASSUME Safe
  PROVE  /\ acts \in Seq(Row(inst.def)) /\ DOMAIN acts = 1..Len(acts) /\ Len(acts) \in Nat
         /\ inst.def \in DOMAIN Defs /\ inst.ctx \in Ctx
         /\ \A a \in DOMAIN acts : acts[a].node \in Ids(inst.def) /\ acts[a].round \in Nat
                                   /\ Len(acts) \in Nat \ {0}
         /\ Sound(acts, inst.def, Begin) /\ Begin.inst = inst /\ Begin.acts = acts /\ Begin.intents = intents
<1>1. acts \in Seq(Row(inst.def)) /\ Begin.inst = inst /\ Begin.acts = acts /\ Begin.intents = intents
  BY DEF Safe, Sound, Rows, Begin
<1>2. DOMAIN acts = 1..Len(acts) /\ Len(acts) \in Nat /\ \A a \in DOMAIN acts : acts[a] \in Row(inst.def)
  BY <1>1
<1>3. \A a \in DOMAIN acts : acts[a].node \in Ids(inst.def) /\ acts[a].round \in Nat
  BY <1>2 DEF Row
<1>4. inst.ctx \in Ctx
  BY <1>1 DEF Safe, Sound, Instance
<1> QED BY <1>1, <1>2, <1>3, <1>4 DEF Safe

LEMMA EnterSound ==
  ASSUME Safe, NEW STATE t, Sound(acts, inst.def, t), NEW STATE round, round \in Nat
  PROVE  Sound(acts, inst.def, Enter(t, round))
<1> DEFINE no == FALSE
           u == Schedule(t, DecideStart(Def), round, no)
<1>1. DecideStart(Def) \in Ids(inst.def)
  BY SafeRows, EngineAssumption DEF IsNode, Ids, Def
<1>2. Enter(t, round) = PointAtNewest(u)
  BY DEF Enter
<1> HIDE DEF no
<1>3. Sound(acts, inst.def, u)
  BY <1>1, SafeRows, ScheduleSound
<1> HIDE DEF u
<1> QED BY <1>2, <1>3, PointSound

LEMMA StartKeeps == ASSUME Safe, Start PROVE Safe' /\ Kept(acts, acts') /\ inst'.def = inst.def
<1> DEFINE t == [Begin EXCEPT !.inst.status = "active"]
           u == Emit(t, Event("started"))
           T == Enter(u, 1)
<1>1. Commit(T) /\ inst.status = "absent"
  BY DEF Start
<1>2. Sound(acts, inst.def, t)
  <2>1. "active" \in InstStatus
    BY DEF InstStatus
  <2> QED BY <1>1, <2>1, SafeRows, StatusSound
<1> HIDE DEF t
<1>3. Sound(acts, inst.def, u)
  BY <1>2, EmitSound
<1> HIDE DEF u
<1>4. Sound(acts, inst.def, T)
  BY <1>3, EnterSound
<1> HIDE DEF T
<1> QED BY <1>1, <1>4, CommitKeeps

\* The entry of another round, before the activity is there.
LEMMA ResubmitSound ==
  ASSUME Safe, Resubmit
  PROVE  LET t == [Begin EXCEPT !.inst = Closing(inst, "active", "none", inst.current)]
             u == Emit(t, Event("reactivated"))
         IN  Commit(Enter(u, MaxRound(Begin) + 1)) /\ Sound(acts, inst.def, u)
<1> DEFINE round == MaxRound(Begin) + 1
           j == Closing(inst, "active", "none", inst.current)
           t == [Begin EXCEPT !.inst = j]
           u == Emit(t, Event("reactivated"))
           T == Enter(u, round)
<1>1. inst.status = "completed" /\ inst.result = "returned"
  BY DEF Resubmit
<1>2. /\ inst.status \in InstStatus /\ inst.result \in Results /\ inst.current \in 0..Len(acts)
      /\ Instance(inst.def, inst, Len(acts)) /\ Calls(inst, intents) /\ Len(acts) \in Nat
  BY SafeRows DEF Sound, Instance
<1>3. Commit(T)
  <2>1. [inst EXCEPT !.status = "active", !.result = "none"] = j
    <3> DEFINE k == [inst EXCEPT !.status = "active", !.result = "none"]
    <3>1. /\ j.status = k.status /\ j.def = k.def /\ j.result = k.result /\ j.current = k.current
          /\ j.ctx = k.ctx /\ j.callback = k.callback /\ j.executed = k.executed
      BY <1>2 DEF Instance, Closing
    <3>2. j = [x \in DOMAIN inst |-> j[x]] /\ k = [x \in DOMAIN inst |-> k[x]]
      BY Zenon DEF Closing
    <3>3. DOMAIN inst = {"status", "def", "result", "current", "ctx", "callback", "executed"}
      BY <1>2 DEF Instance
    <3> HIDE DEF j, k
    <3>4. k = j
      BY <3>1, <3>2, <3>3
    <3> QED BY <3>4 DEF k
  <2>2. [Begin EXCEPT !.inst = [@ EXCEPT !.status = "active", !.result = "none"]] =
          [Begin EXCEPT !.inst = [inst EXCEPT !.status = "active", !.result = "none"]]
    BY SafeRows, Zenon
  <2> HIDE DEF j
  <2>3. [Begin EXCEPT !.inst = [@ EXCEPT !.status = "active", !.result = "none"]] = t
    BY <2>1, <2>2, Zenon
  <2> HIDE DEF t
  <2> QED BY <2>3, Zenon DEF Resubmit
<1>4. Instance(inst.def, j, Len(acts)) /\ j.executed = inst.executed
  <2>1. "active" \in InstStatus /\ "none" \in Results
    BY DEF InstStatus, Results
  <2> QED BY <1>2, <2>1, CloseEdit
<1> HIDE DEF j
<1>5. Calls(j, intents)
  BY <1>1, <1>2, <1>4, NothingCalled
<1>6. Sound(acts, inst.def, t)
  BY <1>4, <1>5, SafeRows, InstanceEdit
<1> HIDE DEF t
<1>7. Sound(acts, inst.def, u)
  BY <1>6, EmitSound
<1> QED BY <1>3, <1>7, Zenon DEF t, j

LEMMA ResubmitKeeps == ASSUME Safe, Resubmit PROVE Safe' /\ Kept(acts, acts') /\ inst'.def = inst.def
<1> DEFINE round == MaxRound(Begin) + 1
           t == [Begin EXCEPT !.inst = Closing(inst, "active", "none", inst.current)]
           u == Emit(t, Event("reactivated"))
           T == Enter(u, round)
<1>1. Commit(T) /\ Sound(acts, inst.def, u)
  BY ResubmitSound
<1>2. round \in Nat
  <2>1. MaxRound(Begin) \in Nat
    BY SafeRows, RoundIsNat
  <2> QED BY <2>1
<1> HIDE DEF u, round
<1>3. Sound(acts, inst.def, T)
  BY <1>1, <1>2, EnterSound
<1> HIDE DEF T
<1> QED BY <1>1, <1>3, CommitKeeps

LEMMA CtxSound ==
  ASSUME NEW old, NEW name, NEW t, Sound(old, name, t), NEW c \in Ctx
  PROVE  /\ Sound(old, name, [t EXCEPT !.inst.ctx = c])
         /\ [t EXCEPT !.inst.ctx = c].acts = t.acts
         /\ [t EXCEPT !.inst.ctx = c].inst.status = t.inst.status
<1> DEFINE j == [t.inst EXCEPT !.ctx = c]
<1>1. [t EXCEPT !.inst.ctx = c] = [t EXCEPT !.inst = j]
  BY DEF Sound, Shape
<1>2. /\ Instance(name, j, Len(t.acts))
      /\ j.status = t.inst.status /\ j.result = t.inst.result
      /\ j.callback = t.inst.callback /\ j.executed = t.inst.executed
  BY DEF Sound, Instance
<1> HIDE DEF j
<1>3. Calls(j, t.intents)
  BY <1>2, CallsOfInstance DEF Sound
<1> DEFINE u == [t EXCEPT !.inst = j]
<1>4. Sound(old, name, u) /\ u.inst = j /\ u.acts = t.acts
  BY <1>2, <1>3, InstanceEdit
<1> HIDE DEF u
<1>5. [t EXCEPT !.inst.ctx = c] = u
  BY <1>1 DEF u
<1> QED BY <1>2, <1>4, <1>5

\* A signal up to the point where its outcome is applied.
Resumed(a, sig, c) ==
  LET heard == Emit([Begin EXCEPT !.inst.ctx = c], ActEvent("signalled", a))
      left  == Emit(Finish(heard, a, SignalResult(sig), "user"),
                    [type |-> "act_completed", act |-> a, result |-> SignalResult(sig)])
  IN  IF inst.status = "returned_waiting"
      THEN Emit([left EXCEPT !.inst.status = "active"], Event("rework_resumed")) ELSE left

LEMMA ResumedSound ==
  ASSUME Safe, NEW a, NEW sig, NEW c \in Ctx, IsActive(a), sig \in SignalsFor(NodeOf(a).kind)
  PROVE  Sound(acts, inst.def, Resumed(a, sig, c))
<1> DEFINE wrote == [Begin EXCEPT !.inst.ctx = c]
           heard == Emit(wrote, ActEvent("signalled", a))
           res == SignalResult(sig)
           done == Finish(heard, a, res, "user")
           left == Emit(done, [type |-> "act_completed", act |-> a, result |-> res])
           again == [left EXCEPT !.inst.status = "active"]
           resumed == IF inst.status = "returned_waiting" THEN Emit(again, Event("rework_resumed")) ELSE left
<1>1. resumed = Resumed(a, sig, c)
  BY Zenon DEF Resumed
<1>2. a \in DOMAIN acts /\ acts[a].status = "active"
  BY DEF IsActive
<1>3. Sound(acts, inst.def, wrote) /\ wrote.acts = acts /\ wrote.inst.status = inst.status
  <2> HIDE DEF wrote, heard, done, left, again, resumed
  <2>1. Sound(acts, inst.def, Begin) /\ Begin.inst = inst /\ Begin.acts = acts
    BY SafeRows
  <2>2. Sound(acts, inst.def, [Begin EXCEPT !.inst.ctx = c]) /\ [Begin EXCEPT !.inst.ctx = c].acts = Begin.acts
        /\ [Begin EXCEPT !.inst.ctx = c].inst.status = Begin.inst.status
    BY ONLY <2>1, c \in Ctx, CtxSound
  <2> QED BY <2>1, <2>2 DEF wrote
<1> HIDE DEF wrote
<1>4. Sound(acts, inst.def, heard) /\ heard.acts = acts /\ heard.inst = wrote.inst
  BY <1>3, EmitSound, EmitFields DEF Sound
<1> HIDE DEF heard
<1>5. res \in Results
  BY DEF SignalsFor, SignalResult, Results
<1> HIDE DEF res
<1>6. Sound(acts, inst.def, done) /\ done.inst = heard.inst
  BY <1>2, <1>4, <1>5, SafeRows, FinishSound
<1> HIDE DEF done
<1>7. Sound(acts, inst.def, left) /\ left.inst = done.inst
  BY <1>6, EmitSound, EmitFields DEF Sound
<1> HIDE DEF left
<1>8. Sound(acts, inst.def, resumed)
  <2>1. CASE inst.status = "returned_waiting"
    <3>1. left.inst.status # "completed" /\ "active" \in InstStatus
      BY <1>3, <1>4, <1>6, <1>7, <2>1 DEF InstStatus
    <3>2. Sound(acts, inst.def, again)
      BY <1>7, <3>1, StatusSound
    <3> HIDE DEF again
    <3>3. Sound(acts, inst.def, Emit(again, Event("rework_resumed")))
      BY <3>2, EmitSound
    <3> QED BY <2>1, <3>3
  <2>2. CASE inst.status # "returned_waiting"
    BY <1>7, <2>2
  <2> QED BY <2>1, <2>2
<1> QED BY <1>1, <1>8

LEMMA SignalKeeps ==
  ASSUME Safe, NEW a, NEW sig, NEW c \in Ctx, Signal(a, sig, c)
  PROVE  Safe' /\ Kept(acts, acts') /\ inst'.def = inst.def
<1> DEFINE resumed == Resumed(a, sig, c)
           out == DecideAdvance(Def, acts[a].node, sig, c)
           round == acts[a].round
           T == Apply(resumed, out, a, round)
<1>1. Commit(T) /\ IsActive(a) /\ sig \in SignalsFor(NodeOf(a).kind)
  BY Zenon DEF Signal, Resumed
<1>2. a \in DOMAIN acts /\ round \in Nat
  BY <1>1, SafeRows DEF IsActive
<1>3. Sound(acts, inst.def, resumed)
  BY <1>1, ResumedSound
<1> HIDE DEF resumed
<1>4. OutcomeOf(inst.def, out)
  <2>1. out = DecideAdvance(Defs[inst.def], acts[a].node, sig, c)
    BY DEF Def
  <2> HIDE DEF out
  <2> QED BY <2>1, SafeRows, AdvanceAnswers
<1> HIDE DEF out, round
<1>5. Sound(acts, inst.def, T)
  BY <1>2, <1>3, <1>4, SafeRows, ApplySound
<1> HIDE DEF T
<1> QED BY <1>1, <1>5, CommitKeeps

LEMMA ClaimKeeps ==
  ASSUME Safe, NEW a, NEW who \in {"user", "none"}, Claim(a, who)
  PROVE  Safe' /\ Kept(acts, acts') /\ inst'.def = inst.def
<1> DEFINE row == acts[a]
           new == [row EXCEPT !.assignee = who]
           t == [Begin EXCEPT !.acts = [acts EXCEPT ![a] = new]]
           T == Emit(t, [type |-> "claimed", act |-> a, assignee |-> who])
<1>1. a \in DOMAIN acts
  BY DEF Claim, IsActive
<1>2. Commit(T)
  <2>1. [Begin EXCEPT !.acts[a].assignee = who] = t
    BY <1>1, SafeRows DEF Begin
  <2> HIDE DEF t
  <2> QED BY <2>1, Zenon DEF Claim
<1>3. new \in Row(inst.def) /\ new.status = row.status /\ new.result = row.result
  <2>1. row \in Row(inst.def)
    BY <1>1, SafeRows
  <2> QED BY <2>1 DEF Row
<1> HIDE DEF new
<1>4. Sound(acts, inst.def, t)
  BY <1>1, <1>3, SafeRows, RowSound
<1> HIDE DEF t
<1>5. Sound(acts, inst.def, T)
  BY <1>4, EmitSound
<1> HIDE DEF T
<1> QED BY <1>2, <1>5, CommitKeeps

\* A timer that rings does what is due with its activity.
LEMMA RingSound ==
  ASSUME Safe, NEW STATE t, Sound(acts, inst.def, t), NEW a \in DOMAIN acts, acts[a].status = "active",
         Len(t.acts) = Len(acts), NEW kind \in TimerKinds
  PROVE  Sound(acts, inst.def, Ring(t, a, kind))
<1>1. a \in 1..Len(t.acts) /\ a \in DOMAIN t.acts /\ DOMAIN t.acts = 1..Len(t.acts)
  BY SafeRows, CountIsNat
<1>2. CASE kind = "reminder"
  <2>1. Ring(t, a, kind) = [t EXCEPT !.intents = @ \cup {<<a, "notification_reminder">>}]
    BY <1>2 DEF Ring
  <2>2. "notification_reminder" \in OutboxType
    BY DEF OutboxType
  <2> QED BY <1>1, <2>1, <2>2, IntentSound
<1>3. CASE kind = "escalation"
  <2> DEFINE row == t.acts[a]
             new == [row EXCEPT !.role = "escalated"]
             u == [t EXCEPT !.acts = [t.acts EXCEPT ![a] = new]]
             v == [u EXCEPT !.intents = @ \cup {<<a, "notification_escalation">>}]
  <2>1. Ring(t, a, kind) = Emit(v, ActEvent("escalated", a))
    <3>1. v = [t EXCEPT !.acts[a].role = "escalated", !.intents = @ \cup {<<a, "notification_escalation">>}]
      BY DEF Sound, Shape
    <3> HIDE DEF v
    <3>2. Ring(t, a, kind) = Emit([t EXCEPT !.acts[a].role = "escalated",
                        !.intents = @ \cup {<<a, "notification_escalation">>}], ActEvent("escalated", a))
      BY <1>3 DEF Ring
    <3> QED BY <3>1, <3>2, Zenon
  <2>2. new \in Row(inst.def) /\ new.status = row.status /\ new.result = row.result
    <3>1. row \in Row(inst.def)
      BY <1>1, CountIsNat
    <3> QED BY <3>1 DEF Row
  <2> HIDE DEF new
  <2>3. Sound(acts, inst.def, u) /\ Len(u.acts) = Len(t.acts)
    <3>1. Sound(acts, inst.def, u) /\ Len([t.acts EXCEPT ![a] = new]) = Len(t.acts)
      BY <1>1, <2>2, SafeRows, RowSound
    <3>2. u.acts = [t.acts EXCEPT ![a] = new]
      BY DEF Sound, Shape
    <3> QED BY <3>1, <3>2
  <2> HIDE DEF u
  <2>4. "notification_escalation" \in OutboxType
    BY DEF OutboxType
  <2>5. Sound(acts, inst.def, v)
    BY <1>1, <2>3, <2>4, IntentSound
  <2> HIDE DEF v
  <2> QED BY <2>1, <2>5, EmitSound
<1>4. CASE kind = "timeout"
  <2> DEFINE u == Emit(SkipAct(t, a), ActEvent("act_skipped", a))
             out == DecideEventWaitTimeout(Def, acts[a].node, inst.ctx)
             round == acts[a].round
  <2>1. Ring(t, a, kind) = Apply(u, out, a, round)
    BY <1>4 DEF Ring
  <2>2. Sound(acts, inst.def, u)
    <3>1. Sound(acts, inst.def, SkipAct(t, a))
      BY <1>1, SafeRows, SkipActSound
    <3> QED BY <3>1, EmitSound
  <2>3. OutcomeOf(inst.def, out)
    <3>1. out = DecideEventWaitTimeout(Defs[inst.def], acts[a].node, inst.ctx)
      BY DEF Def
    <3> HIDE DEF out
    <3> QED BY <3>1, SafeRows, TimeoutAnswers
  <2>4. round \in Nat
    BY SafeRows
  <2> HIDE DEF u, out, round
  <2> QED BY <2>1, <2>2, <2>3, <2>4, SafeRows, ApplySound
<1> QED BY <1>2, <1>3, <1>4 DEF TimerKinds

LEMMA FireTimerKeeps ==
  ASSUME Safe, NEW a, NEW kind \in TimerKinds, FireTimer(a, kind)
  PROVE  Safe' /\ Kept(acts, acts') /\ inst'.def = inst.def
<1> DEFINE row == acts[a]
           rest == row.timers \ {kind}
           new == [row EXCEPT !.timers = rest]
           q == [acts EXCEPT ![a] = new]
           fired == [Begin EXCEPT !.acts = q]
           T == IF Live /\ IsActive(a) THEN Ring(fired, a, kind) ELSE fired
<1>1. a \in DOMAIN acts
  BY DEF FireTimer
<1>2. Commit(T)
  <2>1. [Begin EXCEPT !.acts[a].timers = @ \ {kind}] = fired
    BY <1>1, SafeRows DEF Begin
  <2>2. Commit(IF Live /\ IsActive(a) THEN Ring([Begin EXCEPT !.acts[a].timers = @ \ {kind}], a, kind)
               ELSE [Begin EXCEPT !.acts[a].timers = @ \ {kind}])
    BY Zenon DEF FireTimer
  <2> HIDE DEF fired
  <2> QED BY <2>1, <2>2, Zenon
<1>3. new \in Row(inst.def) /\ new.status = row.status /\ new.result = row.result
  <2>1. row \in Row(inst.def)
    BY <1>1, SafeRows
  <2> QED BY <2>1 DEF Row
<1> HIDE DEF new
<1>4. Sound(acts, inst.def, fired) /\ Len(fired.acts) = Len(acts)
  <2>1. Sound(acts, inst.def, fired) /\ Len(q) = Len(acts)
    BY <1>1, <1>3, SafeRows, RowSound
  <2>2. fired.acts = q
    BY DEF Begin
  <2> QED BY <2>1, <2>2
<1> HIDE DEF fired
<1>5. IsActive(a) => Sound(acts, inst.def, Ring(fired, a, kind))
  BY <1>1, <1>4, RingSound DEF IsActive
<1>6. Sound(acts, inst.def, T)
  BY <1>4, <1>5
<1> HIDE DEF T
<1> QED BY <1>2, <1>6, CommitKeeps

\* The callback was executed: it was due, so it is for an approved instance, and it is due no more.
LEMMA ExecutedSound ==
  ASSUME NEW old, NEW name, NEW t, Sound(old, name, t), NEW left, NEW call \in left,
         call[2] = "business_callback", Calls(t.inst, left), t.intents = left \ {call}
  PROVE  Sound(old, name, [t EXCEPT !.inst.executed = TRUE])
<1> DEFINE yes == TRUE
           j == [t.inst EXCEPT !.executed = yes]
<1>1. [t EXCEPT !.inst.executed = TRUE] = [t EXCEPT !.inst = j]
  BY DEF Sound, Shape
<1>2. yes \in BOOLEAN
  OBVIOUS
<1> HIDE DEF yes
<1>3. /\ Instance(name, j, Len(t.acts))
      /\ j.status = t.inst.status /\ j.result = t.inst.result /\ j.callback = t.inst.callback
  BY <1>2 DEF Sound, Instance
<1> HIDE DEF j
<1>4. \A x \in t.intents : x[2] # "business_callback"
  BY DEF Calls
<1>5. t.inst.callback /\ t.inst.status = "completed" /\ t.inst.result = "approved"
  BY DEF Calls
<1>6. Calls(j, t.intents)
  BY <1>3, <1>4, <1>5 DEF Calls
<1>7. Sound(old, name, [t EXCEPT !.inst = j])
  BY <1>3, <1>6, InstanceEdit
<1> QED BY <1>1, <1>7

LEMMA TakenSound ==
  ASSUME Safe, NEW x
  PROVE  LET taken == [Begin EXCEPT !.intents = @ \ {x}]
         IN  Sound(acts, inst.def, taken) /\ taken.inst = inst /\ taken.acts = acts
             /\ taken.intents = intents \ {x}
<1> DEFINE left == intents \ {x}
           taken == [Begin EXCEPT !.intents = left]
<1>1. Begin.intents = intents /\ Sound(acts, inst.def, Begin) /\ Begin.acts = acts /\ Begin.inst = inst
  BY SafeRows
<1>2. left \subseteq (1..Len(Begin.acts)) \X OutboxType /\ Calls(Begin.inst, left)
  BY <1>1, CallsLess DEF Sound
<1>3. taken.intents = left
  BY DEF Begin
<1> HIDE DEF left
<1>4. Sound(acts, inst.def, taken) /\ taken.inst = inst /\ taken.acts = acts
  BY <1>1, <1>2, IntentsSound
<1>5. taken = [Begin EXCEPT !.intents = @ \ {x}]
  BY <1>1 DEF left
<1> HIDE DEF taken
<1> QED BY <1>3, <1>4, <1>5 DEF left

LEMMA DeliverKeeps ==
  ASSUME Safe, NEW a, NEW type \in OutboxType, Deliver(a, type)
  PROVE  Safe' /\ Kept(acts, acts') /\ inst'.def = inst.def
<1> DEFINE taken == [Begin EXCEPT !.intents = @ \ {<<a, type>>}]
           done == Finish(taken, a, "none", "system")
           left == Emit(done, ActEvent("delivered", a))
           out == DecideAdvance(Def, acts[a].node, "completed", inst.ctx)
           round == acts[a].round
           sent == Apply(left, out, a, round)
           called == [taken EXCEPT !.inst.executed = TRUE]
           noted == type = "notification" /\ Live /\ IsActive(a) /\ NodeOf(a).kind = "notification"
           T == CASE noted -> sent
                  [] type = "business_callback" -> called
                  [] OTHER -> taken
<1>1. Commit(T) /\ <<a, type>> \in intents
  BY Zenon DEF Deliver
<1>2. /\ Sound(acts, inst.def, taken) /\ taken.inst = inst /\ taken.acts = acts
      /\ taken.intents = intents \ {<<a, type>>}
  BY TakenSound
<1> HIDE DEF taken
<1>3. ASSUME noted PROVE Sound(acts, inst.def, sent)
  <2>1. a \in DOMAIN acts /\ acts[a].status = "active" /\ round \in Nat
    BY <1>3, SafeRows DEF IsActive
  <2>2. "none" \in Results /\ "system" \in {"none", "user", "system"}
    BY DEF Results
  <2>3. Sound(acts, inst.def, done)
    BY <1>2, <2>1, <2>2, SafeRows, FinishSound
  <2> HIDE DEF done
  <2>4. Sound(acts, inst.def, left)
    BY <2>3, EmitSound
  <2>5. OutcomeOf(inst.def, out)
    <3>1. out = DecideAdvance(Defs[inst.def], acts[a].node, "completed", inst.ctx)
      BY DEF Def
    <3> HIDE DEF out
    <3> QED BY <3>1, SafeRows, AdvanceAnswers
  <2> HIDE DEF left, out, round
  <2> QED BY <2>1, <2>4, <2>5, SafeRows, ApplySound
<1>4. ASSUME type = "business_callback" PROVE Sound(acts, inst.def, called)
  <2>1. <<a, type>>[2] = "business_callback"
    BY <1>4
  <2>2. Calls(taken.inst, intents)
    BY <1>2, SafeRows DEF Sound
  <2> DEFINE call == <<a, type>>
  <2> HIDE DEF call
  <2>3. call \in intents /\ call[2] = "business_callback" /\ taken.intents = intents \ {call}
    BY <1>1, <1>2, <2>1 DEF call
  <2> QED BY <1>2, <2>2, <2>3, ExecutedSound
<1> HIDE DEF sent, called, noted
<1>5. Sound(acts, inst.def, T)
  BY <1>2, <1>3, <1>4
<1> HIDE DEF T
<1> QED BY <1>1, <1>5, CommitKeeps

LEMMA DeadLetterKeeps ==
  ASSUME Safe, NEW a, NEW type \in OutboxType, DeadLetter(a, type)
  PROVE  Safe' /\ Kept(acts, acts') /\ inst'.def = inst.def
<1> DEFINE T == [Begin EXCEPT !.intents = @ \ {<<a, type>>}]
<1>1. Commit(T)
  BY DEF DeadLetter
<1>2. Sound(acts, inst.def, T)
  BY TakenSound
<1> HIDE DEF T
<1> QED BY <1>1, <1>2, CommitKeeps

LEMMA SafeInit == Init => Safe
<1> SUFFICES ASSUME Init PROVE Safe
  OBVIOUS
<1> DEFINE yes == TRUE
           b == [inst |-> inst, acts |-> acts, intents |-> intents, facts |-> facts,
                 replay |-> replay, ok |-> yes, todo |-> Done]
<1>1. Begin = b
  BY DEF Begin
<1> HIDE DEF yes
<1>2. /\ Shape(b) /\ b.inst = inst /\ b.acts = acts /\ b.intents = intents /\ b.facts = facts
      /\ b.todo = Done
  BY DEF Shape
<1> HIDE DEF b
<1>3. acts = <<>> /\ Len(acts) = 0 /\ intents = {} /\ acts \in Seq(Row(inst.def)) /\ DOMAIN acts = 1..0
  BY DEF Init
<1>4. FactsOf(inst.def, facts)
  BY DEF Init, FactsOf
<1>5. inst \in [status : {"absent"}, def : DOMAIN Defs, result : {"none"}, current : {NoAct},
                ctx : Ctx, callback : BOOLEAN, executed : {FALSE}]
  BY DEF Init
<1>6. /\ inst.status = "absent" /\ inst.def \in DOMAIN Defs /\ inst.result = "none" /\ inst.current = 0
      /\ inst.ctx \in Ctx /\ inst.callback \in BOOLEAN /\ inst.executed = FALSE
      /\ DOMAIN inst = {"status", "def", "result", "current", "ctx", "callback", "executed"}
  BY <1>5 DEF NoAct
<1>7. inst \in [status : InstStatus, def : DOMAIN Defs, result : Results, current : Nat, ctx : Ctx,
                callback : BOOLEAN, executed : BOOLEAN]
  <2> DEFINE no == FALSE
  <2>1. inst \in [status : {"absent"}, def : DOMAIN Defs, result : {"none"}, current : {NoAct},
                  ctx : Ctx, callback : BOOLEAN, executed : {no}]
    BY <1>5
  <2>2. no \in BOOLEAN
    OBVIOUS
  <2> HIDE DEF no
  <2>3. "absent" \in InstStatus /\ "none" \in Results /\ NoAct \in Nat
    BY DEF InstStatus, Results, NoAct
  <2> QED BY <2>1, <2>2, <2>3
<1>8. Instance(inst.def, inst, 0)
  BY <1>6, <1>7 DEF Instance
<1>9. Calls(inst, {})
  BY <1>6 DEF Calls
<1>10. Kept(acts, acts) /\ OutcomeOf(inst.def, Done)
  BY <1>3, DoneIsOutcome DEF Kept
<1>11. Sound(acts, inst.def, b)
  BY <1>2, <1>3, <1>4, <1>8, <1>9, <1>10 DEF Sound, Rows
<1>12. Len(acts) <= MaxActs
  BY <1>3, EngineAssumption
<1> QED BY <1>1, <1>6, <1>11, <1>12 DEF Safe

LEMMA SafeNext == Safe /\ [Next]_vars => Safe' /\ Kept(acts, acts') /\ inst'.def = inst.def
<1> SUFFICES ASSUME Safe, [Next]_vars PROVE Safe' /\ Kept(acts, acts') /\ inst'.def = inst.def
  OBVIOUS
<1>1. CASE Start
  BY <1>1, StartKeeps
<1>2. CASE Resubmit
  BY <1>2, ResubmitKeeps
<1>3. ASSUME NEW a \in 1..MaxActs, NEW sig \in JoinIncomingSignals \cup {"rejected", "returned"},
             NEW c \in Ctx, Signal(a, sig, c)
      PROVE  Safe' /\ Kept(acts, acts') /\ inst'.def = inst.def
  BY <1>3, SignalKeeps
<1>4. ASSUME NEW a \in 1..MaxActs, NEW who \in {"user", "none"}, Claim(a, who)
      PROVE  Safe' /\ Kept(acts, acts') /\ inst'.def = inst.def
  BY <1>4, ClaimKeeps
<1>5. ASSUME NEW a \in 1..MaxActs, NEW kind \in TimerKinds, FireTimer(a, kind)
      PROVE  Safe' /\ Kept(acts, acts') /\ inst'.def = inst.def
  BY <1>5, FireTimerKeeps
<1>6. ASSUME NEW a \in 1..MaxActs, NEW type \in OutboxType, Deliver(a, type)
      PROVE  Safe' /\ Kept(acts, acts') /\ inst'.def = inst.def
  BY <1>6, DeliverKeeps
<1>7. ASSUME NEW a \in 1..MaxActs, NEW type \in OutboxType, DeadLetter(a, type)
      PROVE  Safe' /\ Kept(acts, acts') /\ inst'.def = inst.def
  BY <1>7, DeadLetterKeeps
<1>8. CASE UNCHANGED vars
  <2>1. inst' = inst /\ acts' = acts /\ intents' = intents /\ facts' = facts /\ replay' = replay
    BY <1>8 DEF vars
  <2>2. Begin' = Begin
    BY <2>1 DEF Begin
  <2>3. Safe'
    BY <2>1, <2>2 DEF Safe
  <2>4. Kept(acts, acts)
    BY DEF Safe, Sound, Rows, Begin
  <2> QED BY <2>1, <2>3, <2>4
<1> QED BY <1>1, <1>2, <1>3, <1>4, <1>5, <1>6, <1>7, <1>8 DEF Next

----------------------------------------------------------------------------
(* Serial definitions: without splits, for_each and joins an instance is   *)
(* at one activity at a time.                                              *)

Serial(d) == \A id \in DOMAIN d.cfg : Kind(d, id) \notin {"parallel_split", "for_each", "parallel_join"}

\* What people complete, and a definition whose returns lead to such an activity.
PeopleKinds == {"approval", "assignment"}

ReturnsToPeople(d) ==
  \A i \in DOMAIN d.edges : d.edges[i].on = "returned" => Kind(d, d.edges[i].to) \in PeopleKinds

\* The newest activity, and no other, is at work: somebody can be asked for it, or its
\* timer or intent is there.
AtWork(t) ==
  LET n    == Len(t.acts)
      row  == t.acts[n]
      node == Defs[t.inst.def].cfg[row.node]
  IN  /\ ActiveIn(t) = {n}
      /\ node.kind \in BranchKinds
      /\ row.timers \subseteq TimersOf(node)
      /\ "timeout" \in TimersOf(node) => "timeout" \in row.timers

\* What the log folds to when it has missed nothing.
RowField == {"node", "status", "result", "round", "role", "assignee", "by"}

Image(rows) ==
  [a \in DOMAIN rows |->
     [id |-> a, node |-> rows[a].node, status |-> rows[a].status, result |-> rows[a].result,
      round |-> rows[a].round, role |-> rows[a].role, assignee |-> rows[a].assignee, by |-> rows[a].by]]

Projected(i, rows) ==
  [status |-> IF i.status = "absent" THEN "pending" ELSE i.status, current |-> i.current,
   result |-> i.result, rows |-> Image(rows)]

Mirrored(t) == ~ Reworkable(Defs[t.inst.def]) => t.replay = Projected(t.inst, t.acts)

\* A transaction of a serial instance before it begins and after it is done.
Settled(t) ==
  /\ Mirrored(t)
  /\ t.inst.status = "active" => AtWork(t)
  /\ t.inst.status = "returned_waiting" =>
       /\ ActiveIn(t) \subseteq {Len(t.acts)}
       /\ ReturnsToPeople(Defs[t.inst.def]) =>
            AtWork(t) /\ Kind(Defs[t.inst.def], t.acts[Len(t.acts)].node) \in PeopleKinds
  /\ t.inst.status \notin {"active", "returned_waiting"} => ActiveIn(t) = {}

\* And in between, when the activity has been left and an outcome is still to be applied.
Left(t) ==
  /\ Mirrored(t)
  /\ ActiveIn(t) = {}
  /\ t.inst.status \in {"active", "returned_waiting"}
  /\ ReturnsToPeople(Defs[t.inst.def]) => t.inst.status = "active"

\* The inductive invariant.
OneAtATime == Serial(Def) => Settled(Begin)

\* The outcomes that serial definitions lead to.
Rests(name) == {Advance(id) : id \in {x \in Ids(name) : Kind(Defs[name], x) \in BranchKinds \cup {"sub_workflow"}}}
Ends(name)  == {Failed} \cup {Complete(res) : res \in Results} \cup Rests(name)

SerialOutcome(name, o) ==
  \/ o \in {Done} \cup Ends(name)
  \/ \E id \in Ids(name) : /\ o = Rework(id)
                           /\ Reworkable(Defs[name])
                           /\ ReturnsToPeople(Defs[name]) => Kind(Defs[name], id) \in PeopleKinds

----------------------------------------------------------------------------
(* The decisions in a serial definition.                                   *)

\* The least of some numbers.
LEMMA FirstExists ==
  ASSUME NEW S \in SUBSET Nat, S # {}
  PROVE  Min(S) \in S
<1> DEFINE R == OpToRel(<, Nat)
<1>1. IsWellFoundedOn(R, Nat)
  BY NatLessThanWellFounded
<1>2. \A x, y \in Nat : x < y => <<x, y>> \in R
  BY DEF OpToRel
<1> HIDE DEF R
<1>3. PICK x \in S : \A y \in S : ~ (<<y, x>> \in R)
  BY <1>1, WFMin
<1>4. ASSUME NEW y \in S PROVE x =< y
  <2>1. x \in Nat /\ y \in Nat
    OBVIOUS
  <2>2. ~ (y < x)
    BY <1>2, <1>3, <2>1, Zenon
  <2> QED BY <2>1, <2>2
<1> QED BY <1>3, <1>4 DEF Min

\* decide_start answers with an approval.
LEMMA StartIsApproval ==
  ASSUME NEW name \in DOMAIN Defs
  PROVE  DecideStart(Defs[name]) \in Ids(name) /\ Kind(Defs[name], DecideStart(Defs[name])) = "approval"
<1> DEFINE d == Defs[name]
           S == {i \in DOMAIN d.nodes : Kind(d, d.nodes[i]) = "approval"}
<1>1. DecideStart(d) = IF S = {} THEN NoNode ELSE d.nodes[Min(S)]
  BY DEF DecideStart
<1>2. d.nodes \in Seq(Ids(name)) /\ IsNode(d, DecideStart(d)) /\ NoNode \notin Ids(name)
  BY EngineAssumption DEF Ids
<1>3. S \in SUBSET Nat /\ \A i \in S : Kind(d, d.nodes[i]) = "approval"
  BY <1>2
<1>4. DecideStart(d) \in Ids(name)
  BY <1>2 DEF IsNode, Ids
<1> HIDE DEF S, d
<1>5. Min(S) \in S
  BY <1>1, <1>2, <1>3, <1>4, FirstExists
<1> QED BY <1>1, <1>3, <1>4, <1>5 DEF d

\* A return leads along an edge.
LEMMA ReturnIsEdge ==
  ASSUME NEW name \in DOMAIN Defs, NEW from, NextTarget(Defs[name], from, "returned") # NoNode
  PROVE  LET d  == Defs[name]
             to == NextTarget(d, from, "returned")
         IN  to \in Ids(name) /\ Reworkable(d) /\ (ReturnsToPeople(d) => Kind(d, to) \in PeopleKinds)
<1> DEFINE d   == Defs[name]
           out == OutEdges(d, from, "returned")
<1>1. NextTarget(d, from, "returned") = IF out = {} THEN NoNode ELSE d.edges[Min(out)].to
  BY DEF NextTarget
<1>2. \A s : IsList(s) => DOMAIN s = 1..Len(s)
  BY DEF IsList
<1>3. IsList(d.edges) /\ ValidDefinition(d)
  BY EngineAssumption
<1>4. out \in SUBSET Nat /\ \A i \in out : i \in DOMAIN d.edges /\ d.edges[i].on = "returned"
  BY <1>2, <1>3 DEF OutEdges
<1> HIDE DEF out
<1>5. Min(out) \in out
  BY <1>1, <1>4, FirstExists
<1>6. \A i \in DOMAIN d.edges : d.edges[i].to \in Ids(name)
  BY <1>3 DEF ValidDefinition, IsNode, Ids
<1> QED BY <1>1, <1>4, <1>5, <1>6 DEF Reworkable, ReturnsToPeople

\* Whatever holds of each answer of a visit holds of resolve_target's.
LEMMA ResolveIn ==
  ASSUME NEW d, NEW target, NEW ctx, NEW Good, Failed \in Good,
         \A c : Step(c) => Step(Visit(d, ctx, c)) /\ Visit(d, ctx, c).out \in Good \cup {Undecided}
  PROVE  Resolve(d, target, ctx) \in Good
<1> DEFINE N == MaxResolveDepth + 1
           c0 == [at |-> target, seen |-> {}, out |-> Undecided]
<1>1. N \in Nat
  BY DEF MaxResolveDepth
<1> DEFINE walk == CHOOSE f : IsWalk(d, ctx, c0, N, f)
<1>2. Resolve(d, target, ctx) = IF walk[N].out = Undecided THEN Failed ELSE walk[N].out
  BY Zenon DEF Resolve, IsWalk
<1>3. Step(c0) /\ c0.out \in Good \cup {Undecided}
  BY DEF Step
<1> HIDE DEF c0, N
<1>4. IsWalk(d, ctx, c0, N, walk)
  BY <1>1, WalkExists
<1> HIDE DEF walk
<1> DEFINE S == {k \in 0..N : Step(walk[k]) /\ walk[k].out \in Good \cup {Undecided}}
<1>5. 0 \in S
  <2>1. 0 \in 0..N /\ walk[0] = c0
    BY <1>1, <1>4 DEF IsWalk
  <2> QED BY <1>3, <2>1
<1>6. ASSUME NEW m \in 0..N, m \in S, m < N PROVE m + 1 \in S
  <2>1. m + 1 \in 0..N /\ m + 1 # 0 /\ (m + 1) - 1 = m
    BY <1>1, <1>6
  <2>2. walk[m + 1] = IF walk[m].out = Undecided THEN Visit(d, ctx, walk[m]) ELSE walk[m]
    BY <1>4, <2>1 DEF IsWalk
  <2>3. Step(walk[m]) /\ walk[m].out \in Good \cup {Undecided}
    BY <1>6
  <2>4. Step(Visit(d, ctx, walk[m])) /\ Visit(d, ctx, walk[m]).out \in Good \cup {Undecided}
    BY <2>3
  <2>5. Step(walk[m + 1]) /\ walk[m + 1].out \in Good \cup {Undecided}
    BY <2>2, <2>3, <2>4
  <2> QED BY <2>1, <2>5
<1>7. N \in S
  <2>1. \A k \in 0..N : k \in S
    <3> HIDE DEF S
    <3> QED BY <1>1, <1>5, <1>6, SegmentInduction
  <2> QED BY <1>1, <2>1
<1> QED BY <1>2, <1>7

\* At a node where an instance rests, resolve_target answers at its first visit.
LEMMA RestsThere ==
  ASSUME NEW d, NEW id \in DOMAIN d.cfg, Kind(d, id) \in RestingKinds, NEW ctx
  PROVE  Resolve(d, id, ctx) = Advance(id)
<1> DEFINE N == MaxResolveDepth + 1
           c0 == [at |-> id, seen |-> {}, out |-> Undecided]
<1>1. N \in Nat /\ N > 0
  BY DEF MaxResolveDepth
<1> DEFINE walk == CHOOSE f : IsWalk(d, ctx, c0, N, f)
<1>2. Resolve(d, id, ctx) = IF walk[N].out = Undecided THEN Failed ELSE walk[N].out
  BY Zenon DEF Resolve, IsWalk
<1>3. Visit(d, ctx, c0) = [c0 EXCEPT !.out = Advance(id)]
  BY DEF Visit, IsNode, Kind, RestingKinds, BranchKinds
<1>4. c0.out = Undecided /\ Visit(d, ctx, c0).out = Advance(id)
  BY <1>3
<1>5. Advance(id) # Undecided
  <2>1. Advance(id).kind = "advance" /\ Undecided.kind = "undecided"
    BY DEF Advance, Undecided, Outcome
  <2> QED BY <2>1
<1> HIDE DEF c0, N
<1>6. IsWalk(d, ctx, c0, N, walk)
  BY <1>1, WalkExists
<1> HIDE DEF walk
<1> DEFINE S == {k \in 0..N : k = 0 \/ walk[k].out = Advance(id)}
<1>7. 0 \in S /\ walk[0] = c0
  BY <1>1, <1>6 DEF IsWalk
<1>8. ASSUME NEW m \in 0..N, m \in S, m < N PROVE m + 1 \in S
  <2>1. m + 1 \in 0..N /\ m + 1 # 0 /\ (m + 1) - 1 = m
    BY <1>1, <1>8
  <2>2. walk[m + 1] = IF walk[m].out = Undecided THEN Visit(d, ctx, walk[m]) ELSE walk[m]
    BY <1>6, <2>1 DEF IsWalk
  <2>3. walk[m + 1].out = Advance(id)
    BY <1>4, <1>5, <1>7, <1>8, <2>2
  <2> QED BY <2>1, <2>3
<1>9. \A k \in 0..N : k \in S
  <2> HIDE DEF S
  <2> QED BY <1>1, <1>7, <1>8, SegmentInduction
<1>10. walk[N].out = Advance(id)
  BY <1>1, <1>9
<1> QED BY <1>2, <1>5, <1>10

\* One visit of resolve_target, case by case.
LEMMA SerialVisit ==
  ASSUME NEW name \in DOMAIN Defs, Serial(Defs[name]), NEW ctx, NEW c, Step(c)
  PROVE  Step(Visit(Defs[name], ctx, c)) /\ Visit(Defs[name], ctx, c).out \in Ends(name) \cup {Undecided}
<1> DEFINE d == Defs[name]
           n == d.cfg[c.at]
           to == NextTarget(d, c.at, "approved")
           res == IF n.result = "none" THEN "approved" ELSE n.result
<1>1. ASSUME NEW out \in Ends(name)
      PROVE  LET w == [c EXCEPT !.out = out] IN Step(w) /\ w.out \in Ends(name) \cup {Undecided}
  BY DEF Step
<1>2. ASSUME NEW id
      PROVE  LET w == [at |-> id, seen |-> c.seen \cup {c.at}, out |-> Undecided]
             IN  Step(w) /\ w.out \in Ends(name) \cup {Undecided}
  BY DEF Step
<1>3. Failed \in Ends(name)
  BY DEF Ends
<1>4. CASE c.at \in c.seen \/ ~ IsNode(d, c.at)
  BY <1>1, <1>3, <1>4 DEF Visit
<1>5. CASE c.at \notin c.seen /\ IsNode(d, c.at)
  <2>1. c.at \in Ids(name) /\ n.kind = Kind(d, c.at)
    BY <1>5 DEF IsNode, Ids, Kind
  <2>2. n.kind \notin {"parallel_split", "for_each", "parallel_join"}
    BY <2>1 DEF Serial, Ids
  <2>3. Visit(d, ctx, c) =
          CASE n.kind \in RestingKinds     -> [c EXCEPT !.out = Advance(c.at)]
            [] n.kind = "parallel_split"   -> [c EXCEPT !.out = ResolveSplit(d, n)]
            [] n.kind = "for_each"         -> [c EXCEPT !.out = ResolveForEach(d, n, ctx)]
            [] n.kind = "end"              -> [c EXCEPT !.out = Complete(IF n.result = "none" THEN "approved" ELSE n.result)]
            [] n.kind = "merge"            -> IF to = NoNode THEN [c EXCEPT !.out = Failed]
                                              ELSE [at |-> to, seen |-> c.seen \cup {c.at}, out |-> Undecided]
            [] n.kind = "condition"        -> [at |-> ConditionTarget(n, ctx), seen |-> c.seen \cup {c.at}, out |-> Undecided]
            [] OTHER                       -> [c EXCEPT !.out = Failed]
    BY <1>5, Zenon DEF Visit
  <2>4. n.kind \in RestingKinds => Advance(c.at) \in Ends(name)
    BY <2>1, <2>2 DEF Ends, Rests, RestingKinds
  <2>5. n.kind = "end" => Complete(res) \in Ends(name)
    <3>1. n.kind = "end" => n.result \in Results
      BY <2>1, EngineAssumption DEF Ids
    <3>2. n.kind = "end" => res \in Results
      BY <3>1 DEF Results
    <3> HIDE DEF res, n
    <3> QED BY <3>2 DEF Ends
  <2> HIDE DEF n, to, d
  <2>6. \/ n.kind \in RestingKinds /\ Visit(d, ctx, c) = [c EXCEPT !.out = Advance(c.at)]
        \/ n.kind = "end" /\ Visit(d, ctx, c) = [c EXCEPT !.out = Complete(res)]
        \/ Visit(d, ctx, c) = [c EXCEPT !.out = Failed]
        \/ \E id : Visit(d, ctx, c) = [at |-> id, seen |-> c.seen \cup {c.at}, out |-> Undecided]
    BY <2>2, <2>3 DEF RestingKinds, BranchKinds
  <2> HIDE DEF res
  <2> QED BY <1>1, <1>2, <1>3, <2>4, <2>5, <2>6 DEF d
<1> QED BY <1>4, <1>5

LEMMA ResolveEnds ==
  ASSUME NEW name \in DOMAIN Defs, Serial(Defs[name]), NEW target, NEW ctx
  PROVE  Resolve(Defs[name], target, ctx) \in Ends(name)
<1>1. Failed \in Ends(name)
  BY DEF Ends
<1>2. \A c : Step(c) => /\ Step(Visit(Defs[name], ctx, c))
                        /\ Visit(Defs[name], ctx, c).out \in Ends(name) \cup {Undecided}
  BY SerialVisit
<1> QED BY <1>1, <1>2, ResolveIn

LEMMA EndsAreOutcomes ==
  ASSUME NEW name, NEW o \in Ends(name)
  PROVE  SerialOutcome(name, o) /\ o # Done
<1>1. ASSUME NEW id PROVE Advance(id).kind # "done"
  BY DEF Advance, Outcome
<1>2. ASSUME NEW res PROVE Complete(res).kind # "done"
  BY DEF Complete, Outcome
<1>3. Failed.kind # "done" /\ Done.kind = "done"
  BY DEF Failed, Outcome, Done
<1> QED BY <1>1, <1>2, <1>3 DEF SerialOutcome, Ends, Rests

\* What the service is told to do when an activity completes, is returned, or times out.
LEMMA SerialAdvance ==
  ASSUME NEW name \in DOMAIN Defs, Serial(Defs[name]), NEW from, NEW sig, NEW ctx
  PROVE  LET o == DecideAdvance(Defs[name], from, sig, ctx)
         IN  SerialOutcome(name, o) /\ o # Done /\ (sig # "returned" => o \in Ends(name))
<1> DEFINE d == Defs[name]
           o == DecideAdvance(d, from, sig, ctx)
<1>1. \A x \in Ends(name) : SerialOutcome(name, x) /\ x # Done
  BY EndsAreOutcomes
<1>2. Failed \in Ends(name) /\ Complete("rejected") \in Ends(name) /\ Complete("returned") \in Ends(name)
  BY DEF Ends, Results
<1>3. \A target : Resolve(d, target, ctx) \in Ends(name)
  BY ResolveEnds
<1>4. CASE sig = "returned"
  <2> DEFINE to  == NextTarget(d, from, "returned")
             out == Resolve(d, to, ctx)
  <2>1. o = IF to = NoNode THEN Complete("returned") ELSE IF out.kind = "advance" THEN Rework(out.node) ELSE Failed
    <3>1. o = DecideReturned(d, from, ctx)
      BY <1>4 DEF DecideAdvance, JoinIncomingSignals
    <3>2. DecideReturned(d, from, ctx) =
            IF to = NoNode THEN Complete("returned") ELSE IF out.kind = "advance" THEN Rework(out.node) ELSE Failed
      BY Zenon DEF DecideReturned
    <3> HIDE DEF o, out, to
    <3> QED BY <3>1, <3>2
  <2>2. ASSUME to # NoNode, out.kind = "advance"
        PROVE  SerialOutcome(name, Rework(out.node)) /\ Rework(out.node) # Done
    <3>1. to \in Ids(name) /\ Reworkable(d) /\ (ReturnsToPeople(d) => Kind(d, to) \in PeopleKinds)
      BY <2>2, ReturnIsEdge
    <3>2. ReturnsToPeople(d) => out = Advance(to)
      BY <3>1, RestsThere DEF Ids, PeopleKinds, RestingKinds, BranchKinds
    <3>3. \A id : Advance(id).node = id
      BY DEF Advance, Outcome
    <3>4. out.node \in Ids(name)
      <4>1. out \in Ends(name)
        BY <1>3
      <4>2. out # Failed /\ \A res : out # Complete(res)
        BY <2>2 DEF Failed, Complete, Outcome
      <4> HIDE DEF out
      <4> QED BY <3>3, <4>1, <4>2 DEF Ends, Rests
    <3>5. Rework(out.node) # Done
      <4>1. \A id : Rework(id).kind = "rework"
        BY DEF Rework, Outcome
      <4> QED BY <4>1 DEF Done
    <3> HIDE DEF out, to
    <3> QED BY <3>1, <3>2, <3>3, <3>4, <3>5 DEF SerialOutcome
  <2> HIDE DEF out, to, o
  <2> QED BY <1>1, <1>2, <1>4, <2>1, <2>2 DEF o
<1>5. CASE sig # "returned"
  <2>1. o \in Ends(name)
    BY <1>2, <1>3, <1>5 DEF DecideAdvance
  <2> HIDE DEF o
  <2> QED BY <1>1, <1>5, <2>1 DEF o
<1> QED BY <1>4, <1>5

LEMMA SerialTimeout ==
  ASSUME NEW name \in DOMAIN Defs, Serial(Defs[name]), NEW from, NEW ctx
  PROVE  DecideEventWaitTimeout(Defs[name], from, ctx) \in Ends(name)
<1>1. Failed \in Ends(name)
  BY DEF Ends
<1> QED BY <1>1, ResolveEnds DEF DecideEventWaitTimeout

----------------------------------------------------------------------------
(* The folded log beside the rows.                                         *)

\* The arms of the reducer.
LEMMA FoldArms ==
  ASSUME NEW r, NEW e
  PROVE  /\ e.type = "started" => Fold(r, e) = [r EXCEPT !.status = "active"]
         /\ e.type = "scheduled" =>
              Fold(r, e) = [r EXCEPT !.rows = Append(@, NewRow(e)),
                                     !.current = IF e.fanout THEN NoAct ELSE e.act,
                                     !.status = IF @ \in TerminalStatus THEN @ ELSE "active"]
         /\ e.type = "claimed" => Fold(r, e) = EditFirst(r, e.act, [assignee |-> e.assignee])
         /\ e.type = "signalled" => Fold(r, e) = EditFirst(r, e.act, [by |-> "user"])
         /\ e.type = "act_completed" =>
              Fold(r, e) = EditFirst(r, e.act, [status |-> "completed", result |-> e.result])
         /\ e.type = "delivered" =>
              Fold(r, e) = EditFirst(r, e.act, [status |-> "completed", result |-> "none", by |-> "system"])
         /\ e.type = "act_skipped" => Fold(r, e) = EditFirst(r, e.act, [status |-> "skipped"])
         /\ e.type = "escalated" => Fold(r, e) = EditFirst(r, e.act, [role |-> "escalated"])
         /\ e.type = "completed" =>
              Fold(r, e) = [r EXCEPT !.status = "completed", !.result = e.result, !.current = NoAct]
         /\ e.type = "errored" => Fold(r, e) = [r EXCEPT !.status = "errored"]
         /\ e.type = "rework_resumed" => Fold(r, e) = [r EXCEPT !.status = "active"]
         /\ e.type = "reactivated" => Fold(r, e) = [r EXCEPT !.status = "active", !.result = "none"]
<1>1. e.type = "started" => Fold(r, e) = [r EXCEPT !.status = "active"]
  BY DEF Fold
<1>2. e.type = "scheduled" =>
        Fold(r, e) = [r EXCEPT !.rows = Append(@, NewRow(e)),
                               !.current = IF e.fanout THEN NoAct ELSE e.act,
                               !.status = IF @ \in TerminalStatus THEN @ ELSE "active"]
  BY DEF Fold
<1>3. e.type = "claimed" => Fold(r, e) = EditFirst(r, e.act, [assignee |-> e.assignee])
  BY DEF Fold
<1>4. e.type = "signalled" => Fold(r, e) = EditFirst(r, e.act, [by |-> "user"])
  BY DEF Fold
<1>5. e.type = "act_completed" =>
        Fold(r, e) = EditFirst(r, e.act, [status |-> "completed", result |-> e.result])
  BY DEF Fold
<1>6. e.type = "delivered" =>
        Fold(r, e) = EditFirst(r, e.act, [status |-> "completed", result |-> "none", by |-> "system"])
  BY DEF Fold
<1>7. e.type = "act_skipped" => Fold(r, e) = EditFirst(r, e.act, [status |-> "skipped"])
  BY DEF Fold
<1>8. e.type = "escalated" => Fold(r, e) = EditFirst(r, e.act, [role |-> "escalated"])
  BY DEF Fold
<1>9. e.type = "completed" =>
        Fold(r, e) = [r EXCEPT !.status = "completed", !.result = e.result, !.current = NoAct]
  BY DEF Fold
<1>10. e.type = "errored" => Fold(r, e) = [r EXCEPT !.status = "errored"]
  BY DEF Fold
<1>11. e.type = "rework_resumed" => Fold(r, e) = [r EXCEPT !.status = "active"]
  BY DEF Fold
<1>12. e.type = "reactivated" => Fold(r, e) = [r EXCEPT !.status = "active", !.result = "none"]
  BY DEF Fold
<1> QED BY <1>1, <1>2, <1>3, <1>4, <1>5, <1>6, <1>7, <1>8, <1>9, <1>10, <1>11, <1>12

\* A row that is added to both.
LEMMA ImageAppend ==
  ASSUME NEW rows, NEW S, rows \in Seq(S), NEW row, NEW e,
         e.act = Len(rows) + 1, e.node = row.node, e.round = row.round,
         row.status = "active", row.result = "none", row.role = "declared", row.assignee = "none", row.by = "none"
  PROVE  Append(Image(rows), NewRow(e)) = Image(Append(rows, row))
<1> DEFINE n == Len(rows)
           p == Image(rows)
           q == Append(rows, row)
           new == [id |-> n + 1, node |-> row.node, status |-> "active", result |-> "none", round |-> row.round,
                   role |-> "declared", assignee |-> "none", by |-> "none"]
<1>1. n \in Nat /\ DOMAIN rows = 1..n
  OBVIOUS
<1>2. NewRow(e) = new
  BY DEF NewRow
<1> HIDE DEF new
<1>3. DOMAIN q = 1..(n + 1) /\ q[n + 1] = row /\ \A a \in 1..n : q[a] = rows[a]
  <2>1. rows \in Seq(S \cup {row}) /\ row \in S \cup {row}
    OBVIOUS
  <2> QED BY <2>1
<1>4. p = [a \in 1..n |-> p[a]] /\ \A a \in 1..n : p[a] = Image(rows)[a]
  BY <1>1 DEF Image
<1>5. p \in Seq({p[a] : a \in 1..n} \cup {new}) /\ Len(p) = n
  <2>1. p \in [1..n -> {p[a] : a \in 1..n} \cup {new}]
    BY <1>4
  <2> HIDE DEF p
  <2> QED BY <1>1, <2>1
<1> DEFINE w == Append(p, new)
<1>6. w = [a \in 1..(n + 1) |-> w[a]] /\ w[n + 1] = new /\ \A a \in 1..n : w[a] = p[a]
  <2> DEFINE T == {p[a] : a \in 1..n} \cup {new}
  <2>1. new \in T /\ p \in Seq(T) /\ Len(p) = n
    BY <1>5
  <2> HIDE DEF p, T
  <2>2. w \in Seq(T) /\ Len(w) = n + 1 /\ w[n + 1] = new /\ \A a \in 1..n : w[a] = p[a]
    BY <1>1, <2>1, AppendProperties
  <2> HIDE DEF w
  <2>3. w \in [1..(n + 1) -> T]
    BY <1>1, <2>2
  <2> QED BY <2>2, <2>3
<1>7. Image(q) = [a \in 1..(n + 1) |-> Image(q)[a]]
  BY <1>3 DEF Image
<1>8. \A a \in 1..n : Image(q)[a] = p[a]
  BY <1>1, <1>3 DEF Image
<1>9. Image(q)[n + 1] = new
  BY <1>1, <1>3 DEF Image, new
<1> HIDE DEF q, p, w
<1>10. \A a \in 1..(n + 1) : a \in 1..n \/ a = n + 1
  BY <1>1
<1>11. \A a \in 1..(n + 1) : w[a] = Image(q)[a]
  BY <1>6, <1>8, <1>9, <1>10
<1>12. w = Image(q)
  BY <1>6, <1>7, <1>11
<1> QED BY <1>2, <1>12 DEF w, p, q

\* A row in which some fields are new.
Edited(row, new, fields) ==
  /\ "id" \notin DOMAIN fields
  /\ \A f \in RowField : new[f] = IF f \in DOMAIN fields THEN fields[f] ELSE row[f]

Imaged(r, rows) == [r EXCEPT !.rows = Image(rows)]

Replaced(rows, a, row) == [rows EXCEPT ![a] = row]

\* A row that is edited in both: the reducer finds it by its id.
LEMMA ImageEdit ==
  ASSUME NEW S, NEW rows \in Seq(S), NEW a \in DOMAIN rows, NEW new, NEW fields,
         Edited(rows[a], new, fields), NEW r, r.rows = Image(rows)
  PROVE  EditFirst(r, a, fields) = Imaged(r, Replaced(rows, a, new))
<1> DEFINE Edit(row) == [f \in DOMAIN row |-> IF f \in DOMAIN fields THEN fields[f] ELSE row[f]]
           p == Image(rows)
           q == [rows EXCEPT ![a] = new]
           w == [i \in DOMAIN p |-> IF IsFirst(p, i, a) THEN Edit(p[i]) ELSE p[i]]
<1>1. EditFirst(r, a, fields) = [r EXCEPT !.rows = w]
  BY Zenon DEF EditFirst
<1>2. DOMAIN p = DOMAIN rows /\ \A i \in DOMAIN rows : p[i].id = i
  BY DEF Image
<1>3. \A i \in DOMAIN rows : IsFirst(p, i, a) <=> i = a
  <2>1. Len(rows) \in Nat /\ DOMAIN rows = 1..Len(rows)
    OBVIOUS
  <2> HIDE DEF p
  <2> QED BY <1>2, <2>1 DEF IsFirst
<1>4. \A i \in DOMAIN rows : i # a => Image(q)[i] = p[i]
  BY DEF Image
<1>5. Image(q)[a] = Edit(p[a])
  <2> DEFINE x == p[a]
             y == Image(q)[a]
             F == {"id"} \cup RowField
  <2>1. /\ x = [id |-> a, node |-> rows[a].node, status |-> rows[a].status, result |-> rows[a].result,
               round |-> rows[a].round, role |-> rows[a].role, assignee |-> rows[a].assignee, by |-> rows[a].by]
        /\ y = [id |-> a, node |-> new.node, status |-> new.status, result |-> new.result,
               round |-> new.round, role |-> new.role, assignee |-> new.assignee, by |-> new.by]
    BY DEF Image
  <2> HIDE DEF x, y
  <2>2. DOMAIN x = F /\ DOMAIN y = F /\ x.id = a /\ y.id = a
    BY <2>1 DEF RowField
  <2>3. \A f \in RowField : x[f] = rows[a][f] /\ y[f] = new[f]
    BY <2>1 DEF RowField
  <2>4. y = [f \in F |-> y[f]]
    BY <2>1, <2>2
  <2>5. \A f \in F : y[f] = IF f \in DOMAIN fields THEN fields[f] ELSE x[f]
    BY <2>2, <2>3 DEF Edited
  <2>6. y = Edit(x)
    BY <2>2, <2>4, <2>5
  <2> QED BY <2>6 DEF x, y
<1>6. DOMAIN q = DOMAIN rows /\ Image(q) = [i \in DOMAIN rows |-> Image(q)[i]]
  BY DEF Image
<1> HIDE DEF p, q, Edit
<1>7. w = Image(q)
  BY <1>2, <1>3, <1>4, <1>5, <1>6
<1> HIDE DEF w
<1> QED BY <1>1, <1>7 DEF Imaged, Replaced, q

----------------------------------------------------------------------------
(* The steps of apply_outcome in a serial definition.                      *)

\* What a settled transaction is about.
LEMMA SettledOf ==
  ASSUME NEW t, NEW u, u.acts = t.acts, u.replay = t.replay, u.inst.def = t.inst.def,
         u.inst.status = t.inst.status, u.inst.current = t.inst.current, u.inst.result = t.inst.result
  PROVE  (Settled(t) <=> Settled(u)) /\ (Left(t) <=> Left(u)) /\ (Mirrored(t) <=> Mirrored(u))
<1>1. ActiveIn(u) = ActiveIn(t)
  BY DEF ActiveIn
<1>2. Mirrored(t) <=> Mirrored(u)
  BY DEF Mirrored, Projected
<1>3. AtWork(t) <=> AtWork(u)
  BY <1>1 DEF AtWork
<1> QED BY <1>1, <1>2, <1>3 DEF Settled, Left

\* Where nothing is handed back, every return would lead to people.
LEMMA NothingReturned ==
  ASSUME NEW d
  PROVE  Reworkable(d) \/ ReturnsToPeople(d)
BY DEF Reworkable, ReturnsToPeople

LEMMA EmitReplay ==
  ASSUME NEW t, Shape(t), NEW e
  PROVE  Emit(t, e).replay = Fold(t.replay, e)
<1> DEFINE r == Fold(t.replay, e)
<1>1. Emit(t, e) = [t EXCEPT !.replay = r]
  BY Zenon DEF Emit
<1> HIDE DEF r
<1>2. Emit(t, e).replay = r
  BY <1>1 DEF Shape
<1> QED BY <1>2 DEF r

\* schedule_activity adds an open row and its event, or returns an error.
NewAct(name, id, round) ==
  [node |-> id, status |-> "active", result |-> "none", round |-> round, role |-> "declared",
   assignee |-> "none", by |-> "none", timers |-> TimersOf(Defs[name].cfg[id])]

NewActEvent(a, id, round, fanout) ==
  [type |-> "scheduled", act |-> a, node |-> id, round |-> round, fanout |-> fanout]

LEMMA ScheduleFields ==
  ASSUME NEW name, NEW t, Shape(t), t.inst.def = name, NEW id, NEW round, NEW fanout
  PROVE  LET u == Schedule(t, id, round, fanout)
         IN  /\ Shape(u) /\ u.inst = t.inst
             /\ Kind(Defs[name], id) = "sub_workflow" => ~ u.ok
             /\ Kind(Defs[name], id) # "sub_workflow" =>
                  /\ u.acts = Append(t.acts, NewAct(name, id, round))
                  /\ u.replay = Fold(t.replay, NewActEvent(Len(t.acts) + 1, id, round, fanout))
                  /\ u.ok = t.ok /\ u.todo = t.todo
<1> DEFINE n == Defs[t.inst.def].cfg[id]
           a == Len(t.acts) + 1
           row == [node |-> id, status |-> "active", result |-> "none", round |-> round,
                   role |-> "declared", assignee |-> "none", by |-> "none", timers |-> TimersOf(n)]
           left == IF n.kind = "notification" THEN t.intents \cup {<<a, "notification">>} ELSE t.intents
           more == Append(t.acts, row)
           w == [t EXCEPT !.acts = more, !.intents = left]
           e == [type |-> "scheduled", act |-> a, node |-> id, round |-> round, fanout |-> fanout]
<1>1. Schedule(t, id, round, fanout) = IF n.kind = "sub_workflow" THEN Err(t) ELSE Emit(w, e)
  BY Zenon DEF Schedule
<1>2. n.kind = Kind(Defs[name], id) /\ more = Append(t.acts, NewAct(name, id, round))
  BY DEF Kind, NewAct
<1> HIDE DEF left, more, n
<1>3. Shape(w) /\ w.inst = t.inst /\ w.acts = more /\ w.replay = t.replay /\ w.ok = t.ok /\ w.todo = t.todo
  <2>1. w = [t EXCEPT !.acts = more, !.intents = left]
    OBVIOUS
  <2> HIDE DEF w, e, row, a
  <2> QED BY <2>1 DEF Shape
<1> HIDE DEF w
<1>4. /\ Shape(Emit(w, e)) /\ Emit(w, e).inst = t.inst /\ Emit(w, e).acts = more
      /\ Emit(w, e).ok = t.ok /\ Emit(w, e).todo = t.todo /\ Emit(w, e).replay = Fold(t.replay, e)
  BY <1>3, EmitFields, EmitReplay
<1>5. Shape(Err(t)) /\ Err(t).inst = t.inst /\ ~ Err(t).ok
  <2> DEFINE no == FALSE
  <2>1. Err(t) = [t EXCEPT !.ok = no, !.todo = Done]
    BY Zenon DEF Err
  <2>2. ~ no
    OBVIOUS
  <2> HIDE DEF no
  <2>3. Shape(Err(t)) /\ Err(t).inst = t.inst /\ Err(t).ok = no
    BY <2>1 DEF Shape
  <2> QED BY <2>2, <2>3
<1>6. e = NewActEvent(Len(t.acts) + 1, id, round, fanout)
  BY DEF NewActEvent
<1> HIDE DEF a, e
<1> QED BY <1>1, <1>2, <1>4, <1>5, <1>6

\* The only open row is the new one.
LEMMA ActiveAppend ==
  ASSUME NEW S, NEW t, t.acts \in Seq(S), ActiveIn(t) = {}, NEW row, row.status = "active",
         NEW u, u.acts = Append(t.acts, row)
  PROVE  /\ Len(t.acts) \in Nat /\ Len(u.acts) = Len(t.acts) + 1
         /\ u.acts[Len(u.acts)] = row /\ ActiveIn(u) = {Len(u.acts)}
<1> DEFINE n == Len(t.acts)
<1>1. n \in Nat /\ DOMAIN t.acts = 1..n
  OBVIOUS
<1>2. DOMAIN u.acts = 1..(n + 1) /\ u.acts[n + 1] = row /\ Len(u.acts) = n + 1
      /\ \A a \in 1..n : u.acts[a] = t.acts[a]
  <2>1. t.acts \in Seq(S \cup {row}) /\ row \in S \cup {row}
    OBVIOUS
  <2> QED BY <2>1
<1>3. \A a \in 1..n : u.acts[a].status # "active"
  BY <1>1, <1>2 DEF ActiveIn
<1>4. \A a \in 1..(n + 1) : a \in 1..n \/ a = n + 1
  BY <1>1
<1> QED BY <1>1, <1>2, <1>3, <1>4 DEF ActiveIn

\* What a scheduled row does to the folded log.
LEMMA MirrorAppend ==
  ASSUME NEW S, NEW name, NEW i, NEW rows \in Seq(S), NEW id, NEW round, NEW fanout, ~ fanout, i.status = "active",
         NEW j, j.status = "active", j.current = Len(rows) + 1, j.result = i.result
  PROVE  Fold(Projected(i, rows), NewActEvent(Len(rows) + 1, id, round, fanout)) =
           Projected(j, Append(rows, NewAct(name, id, round)))
<1> DEFINE n   == Len(rows)
           e   == NewActEvent(n + 1, id, round, fanout)
           row == NewAct(name, id, round)
           r   == Projected(i, rows)
           p   == Image(rows)
           q   == Append(p, NewRow(e))
<1>1. e.type = "scheduled" /\ e.act = n + 1 /\ e.node = id /\ e.round = round /\ ~ e.fanout
  BY DEF NewActEvent
<1>2. /\ row.node = id /\ row.status = "active" /\ row.result = "none" /\ row.round = round
      /\ row.role = "declared" /\ row.assignee = "none" /\ row.by = "none"
  BY DEF NewAct
<1>3. r = [status |-> "active", current |-> i.current, result |-> i.result, rows |-> p]
  BY DEF Projected
<1> HIDE DEF e, row, p, r
<1>4. q = Image(Append(rows, row))
  BY <1>1, <1>2, ImageAppend DEF p
<1>5. Fold(r, e) = [r EXCEPT !.rows = Append(@, NewRow(e)),
                             !.current = IF e.fanout THEN NoAct ELSE e.act,
                             !.status = IF @ \in TerminalStatus THEN @ ELSE "active"]
  BY <1>1, FoldArms
<1> HIDE DEF q
<1>6. Fold(r, e) = [r EXCEPT !.rows = q, !.current = n + 1, !.status = "active"]
  <2>1. r.rows = p /\ r.status = "active" /\ "active" \notin TerminalStatus
    BY <1>3 DEF TerminalStatus
  <2>2. (IF e.fanout THEN NoAct ELSE e.act) = n + 1
    BY <1>1
  <2> HIDE DEF n
  <2> QED BY <1>5, <2>1, <2>2, Zenon DEF q
<1>7. Fold(r, e) = [status |-> "active", current |-> n + 1, result |-> i.result, rows |-> q]
  <2> HIDE DEF n
  <2> QED BY <1>3, <1>6
<1>8. Projected(j, Append(rows, row)) =
        [status |-> IF j.status = "absent" THEN "pending" ELSE j.status, current |-> j.current,
         result |-> j.result, rows |-> q]
  BY <1>4 DEF Projected
<1> QED BY <1>7, <1>8 DEF r, e, row

LEMMA PointFields ==
  ASSUME NEW name, NEW n, NEW t, Shape(t), Instance(name, t.inst, n)
  PROVE  LET u == PointAtNewest(t)
         IN  /\ Shape(u) /\ u.acts = t.acts /\ u.replay = t.replay /\ u.ok = t.ok /\ u.todo = t.todo
             /\ u.inst.def = t.inst.def /\ u.inst.status = t.inst.status /\ u.inst.result = t.inst.result
             /\ t.inst.status = "active" => u.inst.current = Len(t.acts)
<1> DEFINE c == IF t.inst.status = "active" THEN Len(t.acts) ELSE t.inst.current
           j == [t.inst EXCEPT !.current = c]
           u == PointAtNewest(t)
<1>1. u = [t EXCEPT !.inst = j]
  BY DEF PointAtNewest, Shape
<1>2. j.def = t.inst.def /\ j.status = t.inst.status /\ j.result = t.inst.result /\ j.current = c
  BY DEF Instance
<1> HIDE DEF j, u
<1>3. Shape(u) /\ u.inst = j /\ u.acts = t.acts /\ u.replay = t.replay /\ u.ok = t.ok /\ u.todo = t.todo
  BY <1>1 DEF Shape
<1> QED BY <1>2, <1>3 DEF u

\* A new activity that the instance is pointed at: the entry, and where an outcome leads.
LEMMA EnterSettles ==
  ASSUME NEW old, NEW name \in DOMAIN Defs, NEW t, Sound(old, name, t), Left(t),
         NEW id \in Ids(name), Kind(Defs[name], id) \in BranchKinds \cup {"sub_workflow"}, NEW round
  PROVE  LET u == PointAtNewest(Schedule(t, id, round, FALSE))
         IN  Shape(u) /\ (u.ok => Settled(u))
<1> DEFINE no == FALSE
           s   == Schedule(t, id, round, no)
           u   == PointAtNewest(s)
           row == NewAct(name, id, round)
           d   == Defs[name]
<1>1. /\ Shape(t) /\ Instance(name, t.inst, Len(t.acts)) /\ t.inst.def = name
      /\ t.acts \in Seq(Row(name)) /\ Len(t.acts) \in Nat
  BY CountIsNat DEF Sound, Instance
<1>2. /\ Shape(s) /\ s.inst = t.inst
      /\ Kind(d, id) = "sub_workflow" => ~ s.ok
      /\ Kind(d, id) # "sub_workflow" =>
           /\ s.acts = Append(t.acts, row)
           /\ s.replay = Fold(t.replay, NewActEvent(Len(t.acts) + 1, id, round, no))
  <2> HIDE DEF no
  <2> QED BY <1>1, ScheduleFields
<1>3. /\ Shape(u) /\ u.acts = s.acts /\ u.replay = s.replay /\ u.ok = s.ok
      /\ u.inst.def = name /\ u.inst.status = t.inst.status /\ u.inst.result = t.inst.result
      /\ t.inst.status = "active" => u.inst.current = Len(s.acts)
  <2>1. Shape(s) /\ Instance(name, s.inst, Len(t.acts))
    BY <1>1, <1>2
  <2> HIDE DEF s
  <2>2. /\ Shape(u) /\ u.acts = s.acts /\ u.replay = s.replay /\ u.ok = s.ok
        /\ u.inst.def = s.inst.def /\ u.inst.status = s.inst.status /\ u.inst.result = s.inst.result
        /\ s.inst.status = "active" => u.inst.current = Len(s.acts)
    BY <2>1, PointFields
  <2> HIDE DEF u
  <2> QED BY <1>1, <1>2, <2>2
<1>4. ASSUME Kind(d, id) # "sub_workflow" PROVE Settled(u)
  <2>1. row.node = id /\ row.status = "active" /\ row.timers = TimersOf(d.cfg[id])
    BY DEF NewAct
  <2> HIDE DEF s, u, row
  <2>2. u.acts = Append(t.acts, row) /\ u.replay = Fold(t.replay, NewActEvent(Len(t.acts) + 1, id, round, no))
    BY <1>2, <1>3, <1>4
  <2>3. ActiveIn(t) = {} /\ t.inst.status \in {"active", "returned_waiting"} /\ Mirrored(t)
        /\ (ReturnsToPeople(d) => t.inst.status = "active")
    BY <1>1 DEF Left
  <2>4. Len(u.acts) = Len(t.acts) + 1 /\ u.acts[Len(u.acts)] = row /\ ActiveIn(u) = {Len(u.acts)}
    BY <1>1, <2>1, <2>2, <2>3, ActiveAppend
  <2>5. AtWork(u)
    <3>1. Defs[u.inst.def].cfg[u.acts[Len(u.acts)].node] = d.cfg[id] /\ d.cfg[id].kind \in BranchKinds
      BY <1>3, <1>4, <2>1, <2>4 DEF Kind
    <3> QED BY <2>1, <2>4, <3>1 DEF AtWork
  <2>6. Mirrored(u)
    <3> SUFFICES ASSUME ~ Reworkable(d) PROVE u.replay = Projected(u.inst, u.acts)
      BY <1>3 DEF Mirrored
    <3>1. t.inst.status = "active"
      BY <2>3, NothingReturned
    <3>2. t.replay = Projected(t.inst, t.acts)
      BY <1>1, <2>3 DEF Mirrored
    <3>3. u.inst.status = "active" /\ u.inst.current = Len(t.acts) + 1 /\ u.inst.result = t.inst.result
      BY <1>2, <1>3, <1>4, <2>2, <2>4, <3>1
    <3>4. Fold(Projected(t.inst, t.acts), NewActEvent(Len(t.acts) + 1, id, round, no)) =
            Projected(u.inst, Append(t.acts, NewAct(name, id, round)))
      <4>1. t.acts \in Seq(Row(name))
        BY <1>1
      <4>2. ~ no
        OBVIOUS
      <4> HIDE DEF d, no
      <4> QED BY <3>1, <3>3, <4>1, <4>2, MirrorAppend
    <3>5. u.replay = Projected(u.inst, Append(t.acts, row))
      BY <2>2, <3>2, <3>4, Zenon DEF row
    <3> QED BY <2>2, <3>5, Zenon
  <2> QED BY <1>3, <2>3, <2>4, <2>5, <2>6 DEF Settled
<1>5. Kind(d, id) = "sub_workflow" => ~ u.ok
  BY <1>2, <1>3
<1> HIDE DEF u
<1>6. Shape(u) /\ (u.ok => Settled(u))
  BY <1>3, <1>4, <1>5
<1> QED BY <1>6 DEF u

LEMMA AdvanceSettles ==
  ASSUME NEW old, NEW name \in DOMAIN Defs, NEW t, Sound(old, name, t), Left(t),
         NEW id \in Ids(name), Kind(Defs[name], id) \in BranchKinds \cup {"sub_workflow"}, NEW round
  PROVE  LET u == AdvanceTo(t, id, round) IN u.todo = Done /\ (u.ok => Settled(u))
<1> DEFINE v == PointAtNewest(Schedule(t, id, round, FALSE))
           u == [v EXCEPT !.todo = Done]
<1>1. Shape(v) /\ (v.ok => Settled(v))
  BY EnterSettles
<1>2. AdvanceTo(t, id, round) = u
  BY DEF AdvanceTo
<1> HIDE DEF v
<1>3. u.todo = Done /\ u.inst = v.inst /\ u.acts = v.acts /\ u.replay = v.replay /\ u.ok = v.ok
  BY <1>1 DEF Shape
<1> HIDE DEF u
<1>4. Settled(v) <=> Settled(u)
  BY <1>3, SettledOf
<1>5. u.todo = Done /\ (u.ok => Settled(u))
  BY <1>1, <1>3, <1>4
<1> QED BY <1>2, <1>5

LEMMA ErrFields ==
  ASSUME NEW t, Shape(t)
  PROVE  Err(t).todo = Done /\ ~ Err(t).ok
<1> DEFINE no == FALSE
<1>1. Err(t) = [t EXCEPT !.ok = no, !.todo = Done]
  BY Zenon DEF Err
<1>2. ~ no
  OBVIOUS
<1> HIDE DEF no
<1>3. Err(t).todo = Done /\ Err(t).ok = no
  BY <1>1 DEF Shape
<1> QED BY <1>2, <1>3

LEMMA CompleteSettles ==
  ASSUME NEW old, NEW name, NEW t, Sound(old, name, t), Left(t), NEW res
  PROVE  LET u == CompleteInstance(t, res) IN u.todo = Done /\ (u.ok => Settled(u))
<1> DEFINE j == [t.inst EXCEPT !.status = "completed", !.result = res, !.current = NoAct]
           left == IF res = "approved" /\ t.inst.callback
                   THEN t.intents \cup {<<Len(t.acts), "business_callback">>} ELSE t.intents
           w == [t EXCEPT !.inst = j, !.intents = left, !.todo = Done]
           e == ResultEvent("completed", res)
           u == Emit(w, e)
<1>1. CompleteInstance(t, res) = IF t.inst.status # "active" THEN Err(t) ELSE u
  BY Zenon DEF CompleteInstance
<1>2. Shape(t) /\ Instance(name, t.inst, Len(t.acts)) /\ t.inst.def = name
  BY DEF Sound, Instance
<1>3. j.status = "completed" /\ j.result = res /\ j.current = NoAct /\ j.def = name
  BY <1>2 DEF Instance
<1>4. e.type = "completed" /\ e.result = res
  BY DEF ResultEvent
<1> HIDE DEF j, left, e
<1>5. Shape(w) /\ w.inst = j /\ w.acts = t.acts /\ w.replay = t.replay /\ w.todo = Done
  <2>1. w = [t EXCEPT !.inst = j, !.intents = left, !.todo = Done]
    OBVIOUS
  <2> HIDE DEF w, u
  <2> QED BY <1>2, <2>1 DEF Shape
<1> HIDE DEF w
<1>6. u.inst = j /\ u.acts = t.acts /\ u.todo = Done /\ u.replay = Fold(t.replay, e)
  BY <1>5, EmitFields, EmitReplay
<1> HIDE DEF u
<1>7. Settled(u)
  <2>1. ActiveIn(u) = {}
    BY <1>6 DEF Left, ActiveIn
  <2>2. Mirrored(u)
    <3> SUFFICES ASSUME ~ Reworkable(Defs[name]) PROVE u.replay = Projected(u.inst, u.acts)
      BY <1>3, <1>6 DEF Mirrored
    <3>1. t.replay = Projected(t.inst, t.acts)
      BY <1>2 DEF Left, Mirrored
    <3>2. Fold(t.replay, e) = [t.replay EXCEPT !.status = "completed", !.result = e.result, !.current = NoAct]
      BY <1>4, FoldArms
    <3>3. Fold(t.replay, e) = [status |-> "completed", current |-> NoAct, result |-> res, rows |-> Image(t.acts)]
      <4> DEFINE p  == Image(t.acts)
                 st == IF t.inst.status = "absent" THEN "pending" ELSE t.inst.status
      <4>1. t.replay = [status |-> st, current |-> t.inst.current, result |-> t.inst.result, rows |-> p]
        BY <3>1 DEF Projected
      <4> HIDE DEF p, st
      <4>2. Fold(t.replay, e) = [t.replay EXCEPT !.status = "completed", !.result = res, !.current = NoAct]
        BY <1>4, <3>2
      <4> DEFINE r == t.replay
                 v == Fold(r, e)
                 none == NoAct
      <4>3. r = [status |-> st, current |-> t.inst.current, result |-> t.inst.result, rows |-> p]
            /\ v = [r EXCEPT !.status = "completed", !.result = res, !.current = none]
        BY <4>1, <4>2
      <4> HIDE DEF r, v, none
      <4>4. v.status = "completed" /\ v.current = none /\ v.result = res /\ v.rows = p
        BY <4>3
      <4>5. v = [x \in DOMAIN r |-> v[x]]
        BY <4>3, Zenon
      <4>6. v = [status |-> "completed", current |-> none, result |-> res, rows |-> p]
        BY <4>3, <4>4, <4>5
      <4> QED BY <4>6 DEF p, r, v, none
    <3>4. Projected(u.inst, u.acts) =
            [status |-> "completed", current |-> NoAct, result |-> res, rows |-> Image(t.acts)]
      BY <1>3, <1>6 DEF Projected
    <3> QED BY <1>6, <3>3, <3>4
  <2> QED BY <1>3, <1>6, <2>1, <2>2 DEF Settled
<1>8. t.inst.status = "active" => CompleteInstance(t, res) = u
  BY <1>1
<1>9. t.inst.status # "active" => CompleteInstance(t, res) = Err(t)
  BY <1>1
<1> QED BY <1>2, <1>6, <1>7, <1>8, <1>9, ErrFields

LEMMA FailSettles ==
  ASSUME NEW old, NEW name, NEW t, Sound(old, name, t), Left(t)
  PROVE  LET u == FailInstance(t) IN u.todo = Done /\ (u.ok => Settled(u))
<1> DEFINE s == IF t.inst.status = "active" THEN "errored" ELSE t.inst.status
           j == [t.inst EXCEPT !.status = s]
           w == [t EXCEPT !.inst = j, !.todo = Done]
           e == Event("errored")
           u == Emit(w, e)
<1>1. FailInstance(t) = u
  <2>1. w = [t EXCEPT !.inst.status = s, !.todo = Done]
    BY DEF Sound, Shape
  <2> QED BY <2>1, Zenon DEF FailInstance
<1>2. Shape(t) /\ Instance(name, t.inst, Len(t.acts)) /\ t.inst.def = name
  BY DEF Sound, Instance
<1>3. j.status = s /\ j.result = t.inst.result /\ j.current = t.inst.current /\ j.def = name
  BY <1>2 DEF Instance
<1>4. e.type = "errored"
  BY DEF Event
<1>5. s # "active" /\ (s \in {"errored", "returned_waiting"}) /\ (t.inst.status = "active" => s = "errored")
      /\ (t.inst.status # "active" => s = "returned_waiting")
  <2>1. t.inst.status \in {"active", "returned_waiting"}
    BY DEF Left
  <2> QED BY <2>1
<1> HIDE DEF j, s, e
<1>6. Shape(w) /\ w.inst = j /\ w.acts = t.acts /\ w.replay = t.replay /\ w.todo = Done
  <2>1. w = [t EXCEPT !.inst = j, !.todo = Done]
    OBVIOUS
  <2> HIDE DEF w, u
  <2> QED BY <1>2, <2>1 DEF Shape
<1> HIDE DEF w
<1>7. u.inst = j /\ u.acts = t.acts /\ u.todo = Done /\ u.replay = Fold(t.replay, e)
  BY <1>6, EmitFields, EmitReplay
<1> HIDE DEF u
<1>8. ActiveIn(u) = {}
  BY <1>7 DEF Left, ActiveIn
<1>9. Mirrored(u)
  <2> SUFFICES ASSUME ~ Reworkable(Defs[name]) PROVE u.replay = Projected(u.inst, u.acts)
    BY <1>3, <1>7 DEF Mirrored
  <2>1. t.replay = Projected(t.inst, t.acts) /\ t.inst.status = "active"
    BY <1>2, NothingReturned DEF Left, Mirrored
  <2>2. Fold(t.replay, e) = [t.replay EXCEPT !.status = "errored"]
    BY <1>4, FoldArms
  <2>3. Fold(t.replay, e) = [status |-> "errored", current |-> t.inst.current, result |-> t.inst.result,
                             rows |-> Image(t.acts)]
    BY <2>1, <2>2 DEF Projected
  <2> QED BY <1>3, <1>5, <1>7, <2>1, <2>3 DEF Projected
<1>10. s = "returned_waiting" => ~ ReturnsToPeople(Defs[name])
  BY <1>2, <1>5 DEF Left
<1>11. Settled(u)
  BY <1>3, <1>5, <1>7, <1>8, <1>9, <1>10 DEF Settled
<1> QED BY <1>1, <1>7, <1>11

LEMMA HandBackSettles ==
  ASSUME NEW old, NEW name \in DOMAIN Defs, NEW t, Sound(old, name, t), Left(t), NEW id \in Ids(name),
         Reworkable(Defs[name]), ReturnsToPeople(Defs[name]) => Kind(Defs[name], id) \in PeopleKinds
  PROVE  LET u == HandBack(t, id) IN u.todo = Done /\ (u.ok => Settled(u))
<1> DEFINE next == MaxRound(t) + 1
           no == FALSE
           t1 == Schedule(t, id, next, no)
           j == [t1.inst EXCEPT !.status = "returned_waiting", !.current = Len(t1.acts)]
           t2 == [t1 EXCEPT !.inst = j, !.todo = Done]
           e == [type |-> "returned_to_rework", act |-> Len(t1.acts), node |-> id, round |-> next]
           u == Emit(t2, e)
           stop == next > EffectiveLimit(Defs[t.inst.def]) \/ t.inst.status # "active"
           row == NewAct(name, id, next)
           d == Defs[name]
<1>1. HandBack(t, id) = IF stop THEN Err(t) ELSE u
  BY Zenon DEF HandBack
<1>2. /\ Shape(t) /\ Instance(name, t.inst, Len(t.acts)) /\ t.inst.def = name
      /\ t.acts \in Seq(Row(name)) /\ Len(t.acts) \in Nat
  BY CountIsNat DEF Sound, Instance
<1>3. row.node = id /\ row.status = "active" /\ row.timers = TimersOf(d.cfg[id])
  BY DEF NewAct
<1> HIDE DEF next, stop, row
<1>4. /\ Shape(t1) /\ t1.inst = t.inst
      /\ Kind(d, id) = "sub_workflow" => ~ t1.ok
      /\ Kind(d, id) # "sub_workflow" => t1.acts = Append(t.acts, row)
  <2> HIDE DEF no, j, t2, e, u
  <2> QED BY <1>2, ScheduleFields DEF row
<1> HIDE DEF t1, e
<1>5. j.status = "returned_waiting" /\ j.def = name
  BY <1>2, <1>4 DEF Instance
<1> HIDE DEF j
<1>6. Shape(t2) /\ t2.inst = j /\ t2.acts = t1.acts /\ t2.todo = Done /\ t2.ok = t1.ok
  <2>1. t2 = [t1 EXCEPT !.inst = j, !.todo = Done]
    OBVIOUS
  <2> HIDE DEF t2, u
  <2> QED BY <1>4, <2>1 DEF Shape
<1> HIDE DEF t2
<1>7. u.inst = j /\ u.acts = t1.acts /\ u.todo = Done /\ u.ok = t1.ok
  BY <1>6, EmitFields
<1> HIDE DEF u
<1>8. ASSUME Kind(d, id) # "sub_workflow" PROVE Settled(u)
  <2>1. u.acts = Append(t.acts, row) /\ ActiveIn(t) = {}
    BY <1>4, <1>7, <1>8 DEF Left
  <2>2. u.acts[Len(u.acts)] = row /\ ActiveIn(u) = {Len(u.acts)}
    <3>1. t.acts \in Seq(Row(name)) /\ row.status = "active"
      BY <1>2, <1>3
    <3> HIDE DEF d
    <3> QED BY ONLY <2>1, <3>1, ActiveAppend
  <2>3. Mirrored(u)
    BY <1>5, <1>7 DEF Mirrored
  <2>4. Defs[u.inst.def] = d
    BY <1>5, <1>7
  <2>5. ReturnsToPeople(d) => AtWork(u) /\ Kind(d, u.acts[Len(u.acts)].node) \in PeopleKinds
    BY <1>3, <2>2, <2>4 DEF AtWork, Kind, PeopleKinds, BranchKinds
  <2> QED BY <1>5, <1>7, <2>2, <2>3, <2>4, <2>5 DEF Settled
<1>9. u.todo = Done /\ (u.ok => Settled(u))
  BY <1>4, <1>7, <1>8
<1>10. stop => HandBack(t, id) = Err(t)
  BY <1>1
<1>11. ~ stop => HandBack(t, id) = u
  BY <1>1
<1> QED BY <1>2, <1>9, <1>10, <1>11, ErrFields

\* Where an outcome is still to be applied, the activity was left; where none is, the
\* transaction is settled.
Fine(name, t) ==
  /\ SerialOutcome(name, t.todo)
  /\ IF t.todo = Done THEN t.ok => Settled(t) ELSE Left(t)

LEMMA StepSettles ==
  ASSUME NEW old, NEW name \in DOMAIN Defs, Serial(Defs[name]), NEW t, Sound(old, name, t), Fine(name, t),
         NEW src, NEW round
  PROVE  LET u == ApplyStep(t, src, round) IN u.todo = Done /\ (u.ok => Settled(u))
<1> DEFINE out == t.todo
           d == Defs[t.inst.def]
           u == ApplyStep(t, src, round)
<1>1. d = Defs[name]
  BY DEF Sound, Instance
<1>2. CASE out = Done
  <2>1. out.kind = "done"
    BY <1>2 DEF Done
  <2>2. u = t
    BY <2>1 DEF ApplyStep
  <2> HIDE DEF u
  <2>3. u.todo = Done /\ (u.ok => Settled(u))
    BY <1>2, <2>2 DEF Fine
  <2> QED BY <2>3 DEF u
<1>3. ASSUME out # Done PROVE Left(t)
  BY <1>3 DEF Fine
<1>4. CASE out = Failed
  <2>1. out.kind = "error"
    BY <1>4 DEF Failed, Outcome
  <2>2. u = FailInstance(t) /\ out # Done
    BY <2>1 DEF ApplyStep, Done
  <2> HIDE DEF u
  <2>3. u.todo = Done /\ (u.ok => Settled(u))
    BY <1>3, <2>2, FailSettles
  <2> QED BY <2>3 DEF u
<1>5. ASSUME NEW res, out = Complete(res) PROVE u.todo = Done /\ (u.ok => Settled(u))
  <2>1. out.kind = "complete" /\ out.result = res
    BY <1>5 DEF Complete, Outcome
  <2>2. u = CompleteInstance(t, res) /\ out # Done
    BY <2>1 DEF ApplyStep, Done
  <2> HIDE DEF u
  <2> QED BY <1>3, <2>2, CompleteSettles
<1>6. ASSUME NEW id \in Ids(name), Kind(Defs[name], id) \in BranchKinds \cup {"sub_workflow"}, out = Advance(id)
      PROVE  u.todo = Done /\ (u.ok => Settled(u))
  <2>1. out.kind = "advance" /\ out.node = id
    BY <1>6 DEF Advance, Outcome
  <2>2. Kind(d, id) # "parallel_join"
    BY <1>1, <1>6 DEF BranchKinds
  <2>3. u = AdvanceTo(t, id, round) /\ out # Done
    BY <2>1, <2>2 DEF ApplyStep, Done
  <2> HIDE DEF u
  <2> QED BY <1>3, <1>6, <2>3, AdvanceSettles
<1>7. ASSUME NEW id \in Ids(name), out = Rework(id), Reworkable(Defs[name]),
             ReturnsToPeople(Defs[name]) => Kind(Defs[name], id) \in PeopleKinds
      PROVE  u.todo = Done /\ (u.ok => Settled(u))
  <2>1. out.kind = "rework" /\ out.node = id
    BY <1>7 DEF Rework, Outcome
  <2>2. u = HandBack(t, id) /\ out # Done
    BY <2>1 DEF ApplyStep, Done
  <2> HIDE DEF u
  <2> QED BY <1>3, <1>7, <2>2, HandBackSettles
<1> HIDE DEF u, out, d
<1>8. SerialOutcome(name, out)
  BY DEF Fine, out
<1> QED BY <1>2, <1>4, <1>5, <1>6, <1>7, <1>8 DEF SerialOutcome, Ends, Rests, u

\* However many outcomes a transaction may apply, it is settled when it commits.
LEMMA ApplySettles ==
  ASSUME NEW old, Len(old) \in Nat \ {0}, NEW name \in DOMAIN Defs, Serial(Defs[name]),
         NEW t, Sound(old, name, t), Left(t), NEW outcome, OutcomeOf(name, outcome),
         SerialOutcome(name, outcome), outcome # Done, NEW src, NEW round \in Nat
  PROVE  Apply(t, outcome, src, round).ok => Settled(Apply(t, outcome, src, round))
<1> DEFINE N == MaxCascade
           first == [t EXCEPT !.todo = outcome]
           run == CHOOSE f : IsCascade(first, src, round, N, f)
<1>1. Apply(t, outcome, src, round) = IF run[N].todo = Done THEN run[N] ELSE Err(t)
  BY Zenon DEF Apply, IsCascade
<1>2. N \in Nat
  BY EngineAssumption
<1>3. Sound(old, name, first) /\ Fine(name, first)
  <2>1. Sound(old, name, first) /\ first.todo = outcome
    BY TodoSound
  <2>2. first.inst = t.inst /\ first.acts = t.acts /\ first.replay = t.replay
    BY DEF Sound, Shape
  <2> HIDE DEF first
  <2>3. Left(first)
    BY <2>2, SettledOf
  <2> QED BY <2>1, <2>3 DEF Fine
<1> HIDE DEF first, N
<1>4. IsCascade(first, src, round, N, run)
  BY <1>2, CascadeExists
<1> HIDE DEF run
<1> DEFINE S == {k \in 0..N : Sound(old, name, run[k]) /\ Fine(name, run[k])}
<1>5. 0 \in S
  <2>1. 0 \in 0..N /\ run[0] = first
    BY <1>2, <1>4 DEF IsCascade
  <2> QED BY <1>3, <2>1
<1>6. ASSUME NEW m \in 0..N, m \in S, m < N PROVE m + 1 \in S
  <2>1. m + 1 \in 0..N /\ m + 1 # 0 /\ (m + 1) - 1 = m
    BY <1>2, <1>6
  <2>2. run[m + 1] = Only({ApplyStep(u, src, round) : u \in {run[m]}})
    BY <1>4, <2>1 DEF IsCascade
  <2>3. {ApplyStep(u, src, round) : u \in {run[m]}} = {ApplyStep(run[m], src, round)}
    OBVIOUS
  <2>4. run[m + 1] = ApplyStep(run[m], src, round)
    BY <2>2, <2>3 DEF Only
  <2>5. Sound(old, name, run[m]) /\ Fine(name, run[m])
    BY <1>6
  <2>6. Sound(old, name, run[m + 1])
    BY <2>4, <2>5, StepSound
  <2>7. Fine(name, run[m + 1])
    <3> DEFINE v == ApplyStep(run[m], src, round)
    <3>1. v.todo = Done /\ (v.ok => Settled(v))
      BY <2>5, StepSettles
    <3> HIDE DEF v
    <3>2. Fine(name, v)
      BY <3>1 DEF Fine, SerialOutcome
    <3> QED BY <2>4, <3>2 DEF v
  <2> QED BY <2>1, <2>6, <2>7
<1>7. Fine(name, run[N])
  <2>1. \A k \in 0..N : k \in S
    <3> HIDE DEF S
    <3> QED BY <1>2, <1>5, <1>6, SegmentInduction
  <2> QED BY <1>2, <2>1
<1>8. Shape(t)
  BY DEF Sound
<1> QED BY <1>1, <1>7, <1>8, ErrFields DEF Fine

----------------------------------------------------------------------------
(* The operations' own steps in a serial definition.                       *)

LEMMA ProjectedEdit ==
  ASSUME NEW name, NEW rows \in Seq(Row(name)), NEW i, NEW a \in DOMAIN rows, NEW new, NEW fields,
         Edited(rows[a], new, fields)
  PROVE  EditFirst(Projected(i, rows), a, fields) = Projected(i, Replaced(rows, a, new))
<1> DEFINE r  == Projected(i, rows)
           p  == Image(rows)
           more == Replaced(rows, a, new)
           q  == Image(more)
           st == IF i.status = "absent" THEN "pending" ELSE i.status
<1>1. r = [status |-> st, current |-> i.current, result |-> i.result, rows |-> p]
  BY DEF Projected
<1>2. Projected(i, more) = [status |-> st, current |-> i.current, result |-> i.result, rows |-> q]
  BY DEF Projected
<1> HIDE DEF st, r
<1>3. r.rows = Image(rows)
  BY <1>1
<1>5. EditFirst(r, a, fields) = [r EXCEPT !.rows = q]
  <2> HIDE DEF p
  <2>1. EditFirst(r, a, fields) = Imaged(r, more)
    BY <1>3, ImageEdit
  <2> QED BY <2>1 DEF Imaged
<1> HIDE DEF p, q
<1>6. [r EXCEPT !.rows = q] = [status |-> st, current |-> i.current, result |-> i.result, rows |-> q]
  BY <1>1
<1> QED BY <1>2, <1>5, <1>6 DEF r

\* How the operations leave a row.
Finished(row, res, by) == [row EXCEPT !.status = "completed", !.result = res, !.by = by, !.timers = {}]
Skipped(row)           == [row EXCEPT !.status = "skipped", !.timers = {}]

LEMMA RowShape ==
  ASSUME NEW name, NEW row \in Row(name)
  PROVE  DOMAIN row = RowField \cup {"timers"}
BY DEF Row, RowField

LEMMA FinishedRow ==
  ASSUME NEW name, NEW row \in Row(name), NEW res, NEW by
  PROVE  LET new == Finished(row, res, by)
         IN  /\ new.status = "completed" /\ new.result = res /\ new.by = by
             /\ \A f \in RowField \ {"status", "result", "by"} : new[f] = row[f]
<1>1. DOMAIN row = RowField \cup {"timers"}
  BY RowShape
<1> DEFINE new == Finished(row, res, by)
           w1 == [row EXCEPT !.status = "completed"]
           w2 == [w1 EXCEPT !.result = res]
           w3 == [w2 EXCEPT !.by = by]
           w4 == [w3 EXCEPT !.timers = {}]
<1>2. new = w4
  BY DEF Finished
<1> HIDE DEF new
<1>3. DOMAIN w1 = DOMAIN row /\ w1.status = "completed" /\ \A f \in DOMAIN row \ {"status"} : w1[f] = row[f]
  BY <1>1 DEF RowField
<1> HIDE DEF w1
<1>4. DOMAIN w2 = DOMAIN row /\ w2.result = res /\ \A f \in DOMAIN row \ {"result"} : w2[f] = w1[f]
  BY <1>1, <1>3 DEF RowField
<1> HIDE DEF w2
<1>5. DOMAIN w3 = DOMAIN row /\ w3.by = by /\ \A f \in DOMAIN row \ {"by"} : w3[f] = w2[f]
  BY <1>1, <1>4 DEF RowField
<1> HIDE DEF w3
<1>6. \A f \in DOMAIN row \ {"timers"} : w4[f] = w3[f]
  BY <1>1, <1>5
<1> HIDE DEF w4
<1>7. /\ new.status = "completed" /\ new.result = res /\ new.by = by
      /\ \A f \in RowField \ {"status", "result", "by"} : new[f] = row[f]
  BY <1>1, <1>2, <1>3, <1>4, <1>5, <1>6 DEF RowField
<1> QED BY <1>7 DEF new

\* Signalled and then completed.
LEMMA MirrorSignal ==
  ASSUME NEW name, NEW rows \in Seq(Row(name)), NEW i, NEW a \in DOMAIN rows, NEW res
  PROVE  Fold(Fold(Projected(i, rows), ActEvent("signalled", a)),
              [type |-> "act_completed", act |-> a, result |-> res]) =
           Projected(i, Replaced(rows, a, Finished(rows[a], res, "user")))
<1> DEFINE row  == rows[a]
           said == [row EXCEPT !.by = "user"]
           new  == Finished(row, res, "user")
           q    == Replaced(rows, a, said)
           e    == ActEvent("signalled", a)
           c    == [type |-> "act_completed", act |-> a, result |-> res]
           f1   == [by |-> "user"]
           f2   == [status |-> "completed", result |-> res]
<1>1. row \in Row(name) /\ DOMAIN row = RowField \cup {"timers"}
  <2>1. row \in Row(name)
    OBVIOUS
  <2> HIDE DEF row
  <2> QED BY <2>1, RowShape
<1>2. said \in Row(name) /\ said.by = "user" /\ \A f \in RowField \ {"by"} : said[f] = row[f]
  BY <1>1 DEF Row, RowField
<1>3. /\ new.status = "completed" /\ new.result = res /\ new.by = "user"
      /\ \A f \in RowField \ {"status", "result", "by"} : new[f] = row[f]
  BY <1>1, FinishedRow
<1>4. e.type = "signalled" /\ e.act = a /\ c.type = "act_completed" /\ c.act = a /\ c.result = res
  BY DEF ActEvent
<1>5. DOMAIN f1 = {"by"} /\ f1.by = "user" /\ DOMAIN f2 = {"status", "result"} /\ f2.status = "completed"
      /\ f2.result = res
  OBVIOUS
<1> HIDE DEF said, new, e, c
<1>6. Fold(Projected(i, rows), e) = Projected(i, q)
  <2>1. Fold(Projected(i, rows), e) = EditFirst(Projected(i, rows), a, f1)
    <3> DEFINE r == Projected(i, rows)
    <3>1. e.type = "signalled" => Fold(r, e) = EditFirst(r, e.act, [by |-> "user"])
      <4> HIDE DEF r
      <4> QED BY FoldArms
    <3> QED BY <1>4, <3>1, Zenon
  <2> HIDE DEF f1
  <2>2. Edited(rows[a], said, f1)
    BY <1>2, <1>5 DEF RowField, Edited
  <2>3. EditFirst(Projected(i, rows), a, f1) = Projected(i, q)
    BY <2>2, ProjectedEdit
  <2> QED BY <2>1, <2>3
<1>7. q \in Seq(Row(name)) /\ a \in DOMAIN q /\ q[a] = said /\ Replaced(q, a, new) = Replaced(rows, a, new)
  <2> HIDE DEF Row
  <2>1. rows \in [1..Len(rows) -> Row(name)] /\ Len(rows) \in Nat
    OBVIOUS
  <2>2. q \in [1..Len(rows) -> Row(name)] /\ a \in 1..Len(rows) /\ q[a] = said
    BY <1>2, <2>1 DEF Replaced
  <2>3. Replaced(q, a, new) = Replaced(rows, a, new)
    BY <2>1 DEF Replaced
  <2> HIDE DEF q
  <2> QED BY <2>1, <2>2, <2>3
<1>8. Fold(Projected(i, q), c) = Projected(i, Replaced(q, a, new))
  <2>1. Fold(Projected(i, q), c) = EditFirst(Projected(i, q), a, f2)
    <3> DEFINE r == Projected(i, q)
    <3>1. c.type = "act_completed" =>
            Fold(r, c) = EditFirst(r, c.act, [status |-> "completed", result |-> c.result])
      <4> HIDE DEF r
      <4> QED BY FoldArms
    <3> QED BY <1>4, <3>1, Zenon
  <2> HIDE DEF f2, q
  <2>2. Edited(q[a], new, f2)
    BY <1>2, <1>3, <1>5, <1>7 DEF RowField, Edited
  <2>3. EditFirst(Projected(i, q), a, f2) = Projected(i, Replaced(q, a, new))
    BY <1>7, <2>2, ProjectedEdit
  <2> QED BY <2>1, <2>3
<1> QED BY <1>6, <1>7, <1>8 DEF e, c, new

\* One event for one edit.
LEMMA MirrorEdit ==
  ASSUME NEW name, NEW rows \in Seq(Row(name)), NEW i, NEW a \in DOMAIN rows, NEW new, NEW fields,
         Edited(rows[a], new, fields), NEW e,
         Fold(Projected(i, rows), e) = EditFirst(Projected(i, rows), a, fields)
  PROVE  Fold(Projected(i, rows), e) = Projected(i, Replaced(rows, a, new))
BY ProjectedEdit

LEMMA MirrorDelivered ==
  ASSUME NEW name, NEW rows \in Seq(Row(name)), NEW i, NEW a \in DOMAIN rows
  PROVE  Fold(Projected(i, rows), ActEvent("delivered", a)) =
           Projected(i, Replaced(rows, a, Finished(rows[a], "none", "system")))
<1> DEFINE row == rows[a]
           new == Finished(row, "none", "system")
           e   == ActEvent("delivered", a)
           r   == Projected(i, rows)
           f   == [status |-> "completed", result |-> "none", by |-> "system"]
<1>1. row \in Row(name)
  OBVIOUS
<1>2. Edited(row, new, f)
  <2> HIDE DEF row
  <2>1. /\ new.status = "completed" /\ new.result = "none" /\ new.by = "system"
        /\ \A x \in RowField \ {"status", "result", "by"} : new[x] = row[x]
    BY <1>1, FinishedRow
  <2> HIDE DEF new
  <2> QED BY <2>1 DEF Edited, RowField
<1>3. e.type = "delivered" /\ e.act = a
  BY DEF ActEvent
<1> HIDE DEF e, new
<1>4. Fold(r, e) = EditFirst(r, a, f)
  <2>1. e.type = "delivered" => Fold(r, e) = EditFirst(r, e.act, [status |-> "completed", result |-> "none", by |-> "system"])
    <3> HIDE DEF r
    <3> QED BY FoldArms
  <2> QED BY <1>3, <2>1, Zenon
<1> HIDE DEF f
<1>5. Fold(r, e) = Projected(i, Replaced(rows, a, new))
  BY <1>2, <1>4, MirrorEdit
<1> QED BY <1>5 DEF r, e, new

LEMMA MirrorSkipped ==
  ASSUME NEW name, NEW rows \in Seq(Row(name)), NEW i, NEW a \in DOMAIN rows
  PROVE  Fold(Projected(i, rows), ActEvent("act_skipped", a)) =
           Projected(i, Replaced(rows, a, Skipped(rows[a])))
<1> DEFINE row == rows[a]
           new == Skipped(row)
           e   == ActEvent("act_skipped", a)
           r   == Projected(i, rows)
           f   == [status |-> "skipped"]
<1>1. row \in Row(name) /\ DOMAIN row = RowField \cup {"timers"}
  <2>1. row \in Row(name)
    OBVIOUS
  <2> HIDE DEF row
  <2> QED BY <2>1, RowShape
<1>2. Edited(row, new, f)
  <2> HIDE DEF row
  <2>1. new.status = "skipped" /\ \A x \in RowField \ {"status"} : new[x] = row[x]
    BY <1>1 DEF Skipped, RowField
  <2> HIDE DEF new
  <2> QED BY <2>1 DEF Edited, RowField
<1>3. e.type = "act_skipped" /\ e.act = a
  BY DEF ActEvent
<1> HIDE DEF e, new
<1>4. Fold(r, e) = EditFirst(r, a, f)
  <2>1. e.type = "act_skipped" => Fold(r, e) = EditFirst(r, e.act, [status |-> "skipped"])
    <3> HIDE DEF r
    <3> QED BY FoldArms
  <2> QED BY <1>3, <2>1, Zenon
<1> HIDE DEF f
<1>5. Fold(r, e) = Projected(i, Replaced(rows, a, new))
  BY <1>2, <1>4, MirrorEdit
<1> QED BY <1>5 DEF r, e, new

LEMMA MirrorClaimed ==
  ASSUME NEW name, NEW rows \in Seq(Row(name)), NEW i, NEW a \in DOMAIN rows, NEW who
  PROVE  Fold(Projected(i, rows), [type |-> "claimed", act |-> a, assignee |-> who]) =
           Projected(i, Replaced(rows, a, [rows[a] EXCEPT !.assignee = who]))
<1> DEFINE row == rows[a]
           new == [row EXCEPT !.assignee = who]
           e   == [type |-> "claimed", act |-> a, assignee |-> who]
           r   == Projected(i, rows)
           f   == [assignee |-> who]
<1>1. row \in Row(name) /\ DOMAIN row = RowField \cup {"timers"}
  <2>1. row \in Row(name)
    OBVIOUS
  <2> HIDE DEF row
  <2> QED BY <2>1, RowShape
<1>2. Edited(row, new, f)
  <2> HIDE DEF row
  <2>1. new.assignee = who /\ \A x \in RowField \ {"assignee"} : new[x] = row[x]
    BY <1>1 DEF RowField
  <2> HIDE DEF new
  <2> QED BY <2>1 DEF Edited, RowField
<1>3. e.type = "claimed" /\ e.act = a /\ e.assignee = who
  OBVIOUS
<1> HIDE DEF e, new
<1>4. Fold(r, e) = EditFirst(r, a, f)
  <2>1. e.type = "claimed" => Fold(r, e) = EditFirst(r, e.act, [assignee |-> e.assignee])
    <3> HIDE DEF r
    <3> QED BY FoldArms
  <2> QED BY <1>3, <2>1, Zenon
<1> HIDE DEF f
<1>5. Fold(r, e) = Projected(i, Replaced(rows, a, new))
  BY <1>2, <1>4, MirrorEdit
<1> QED BY <1>5 DEF r, e, new

LEMMA EscalatedArm ==
  ASSUME NEW r, NEW e, e.type = "escalated"
  PROVE  Fold(r, e) = EditFirst(r, e.act, [role |-> "escalated"])
BY FoldArms

LEMMA MirrorEscalated ==
  ASSUME NEW name, NEW rows \in Seq(Row(name)), NEW i, NEW a \in DOMAIN rows
  PROVE  Fold(Projected(i, rows), ActEvent("escalated", a)) =
           Projected(i, Replaced(rows, a, [rows[a] EXCEPT !.role = "escalated"]))
<1> DEFINE row == rows[a]
           new == [row EXCEPT !.role = "escalated"]
           e   == ActEvent("escalated", a)
           r   == Projected(i, rows)
           f   == [role |-> "escalated"]
<1>1. row \in Row(name) /\ DOMAIN row = RowField \cup {"timers"}
  <2>1. row \in Row(name)
    OBVIOUS
  <2> HIDE DEF row
  <2> QED BY <2>1, RowShape
<1>2. Edited(row, new, f)
  <2> HIDE DEF row
  <2>1. new.role = "escalated" /\ \A x \in RowField \ {"role"} : new[x] = row[x]
    BY <1>1 DEF RowField
  <2> HIDE DEF new
  <2> QED BY <2>1 DEF Edited, RowField
<1>3. e.type = "escalated" /\ e.act = a
  BY DEF ActEvent
<1> HIDE DEF e, new
<1>4. Fold(r, e) = EditFirst(r, a, f)
  <2> HIDE DEF r
  <2>2. Fold(r, e) = EditFirst(r, e.act, [role |-> "escalated"])
    BY <1>3, EscalatedArm
  <2> QED BY <1>3, <2>2, Zenon
<1> HIDE DEF f
<1>5. Fold(r, e) = Projected(i, Replaced(rows, a, new))
  BY <1>2, <1>4, MirrorEdit
<1> QED BY <1>5 DEF r, e, new

\* The folded log knows no timers.
LEMMA MirrorTimers ==
  ASSUME NEW name, NEW rows \in Seq(Row(name)), NEW i, NEW a \in DOMAIN rows, NEW rest
  PROVE  Projected(i, Replaced(rows, a, [rows[a] EXCEPT !.timers = rest])) = Projected(i, rows)
<1> DEFINE row == rows[a]
           new == [row EXCEPT !.timers = rest]
           q   == Replaced(rows, a, new)
<1>1. row \in Row(name) /\ DOMAIN row = RowField \cup {"timers"}
  <2>1. row \in Row(name)
    OBVIOUS
  <2> HIDE DEF row
  <2> QED BY <2>1, RowShape
<1>2. \A x \in RowField : new[x] = row[x]
  <2> HIDE DEF row
  <2> QED BY <1>1 DEF RowField
<1> HIDE DEF new
<1>3. DOMAIN q = DOMAIN rows /\ \A b \in DOMAIN rows : q[b] = IF b = a THEN new ELSE rows[b]
  BY DEF Replaced
<1>4. \A b \in DOMAIN rows : \A x \in RowField : q[b][x] = rows[b][x]
  BY <1>2, <1>3
<1> HIDE DEF q
<1>5. Image(q) = Image(rows)
  BY <1>3, <1>4 DEF Image, RowField
<1> QED BY <1>5 DEF Projected, q, new

LEMMA Leaving ==
  ASSUME NEW S, NEW t, t.acts \in Seq(S), NEW a \in DOMAIN t.acts, ActiveIn(t) \subseteq {a},
         NEW new, new.status # "active", NEW u, u.acts = Replaced(t.acts, a, new)
  PROVE  ActiveIn(u) = {}
<1>1. DOMAIN u.acts = DOMAIN t.acts /\ \A b \in DOMAIN t.acts : u.acts[b] = IF b = a THEN new ELSE t.acts[b]
  BY DEF Replaced
<1>2. \A b \in DOMAIN t.acts : b # a => t.acts[b].status # "active"
  BY DEF ActiveIn
<1>3. \A b \in DOMAIN u.acts : u.acts[b].status # "active"
  BY <1>1, <1>2
<1> QED BY <1>3 DEF ActiveIn

LEMMA BeginFields ==
  /\ Begin.inst = inst /\ Begin.acts = acts /\ Begin.intents = intents /\ Begin.replay = replay
  /\ Shape(Begin)
<1> DEFINE yes == TRUE
<1>1. Begin = [inst |-> inst, acts |-> acts, intents |-> intents, facts |-> facts, replay |-> replay,
               ok |-> yes, todo |-> Done]
  BY DEF Begin
<1> HIDE DEF yes
<1> QED BY <1>1 DEF Shape

\* What is known of an activity that is still open.
LEMMA OpenOne ==
  ASSUME Safe, Settled(Begin), Live, NEW a, IsActive(a)
  PROVE  /\ a \in DOMAIN acts /\ ActiveIn(Begin) \subseteq {a}
         /\ inst.status = "active" \/ ReturnsToPeople(Def) => acts[a].timers \subseteq TimersOf(NodeOf(a))
         /\ ReturnsToPeople(Def) /\ NodeOf(a).kind \notin PeopleKinds => inst.status = "active"
<1> DEFINE n == Len(acts)
<1>1. a \in ActiveIn(Begin) /\ a \in DOMAIN acts
  BY BeginFields DEF IsActive, ActiveIn
<1>2. inst.status = "active" \/ inst.status = "returned_waiting"
  BY DEF Live
<1>3. inst.status = "active" => AtWork(Begin)
  BY BeginFields DEF Settled
<1>4. inst.status = "returned_waiting" =>
        /\ ActiveIn(Begin) \subseteq {n}
        /\ ReturnsToPeople(Def) => AtWork(Begin) /\ Kind(Def, acts[n].node) \in PeopleKinds
  BY BeginFields DEF Settled, Def
<1>5. AtWork(Begin) => ActiveIn(Begin) = {n} /\ acts[n].timers \subseteq TimersOf(Def.cfg[acts[n].node])
  BY BeginFields DEF AtWork, Def
<1>6. ActiveIn(Begin) \subseteq {n} /\ a = n
  BY <1>1, <1>2, <1>3, <1>4, <1>5
<1> QED BY <1>1, <1>2, <1>3, <1>4, <1>5, <1>6 DEF NodeOf, Kind

\* A transaction that commits.
LEMMA CommitSettles ==
  ASSUME NEW STATE T, T.ok => Settled(T), Commit(T)
  PROVE  OneAtATime'
<1>1. /\ inst' = T.inst /\ acts' = T.acts /\ intents' = T.intents /\ facts' = T.facts
      /\ replay' = T.replay /\ T.ok
  BY DEF Commit
<1> DEFINE yes == TRUE
           b == [inst |-> inst', acts |-> acts', intents |-> intents', facts |-> facts',
                 replay |-> replay', ok |-> yes, todo |-> Done]
<1>2. Begin' = b
  BY DEF Begin
<1> HIDE DEF yes
<1>3. b.inst = T.inst /\ b.acts = T.acts /\ b.replay = T.replay
  BY <1>1
<1> HIDE DEF b
<1>4. Settled(b)
  BY <1>1, <1>3, SettledOf
<1>5. Settled(Begin')
  BY <1>2, <1>4
<1> QED BY <1>5 DEF OneAtATime

\* An edit that leaves every open activity at work.
LEMMA EditSettles ==
  ASSUME Safe, Settled(Begin), NEW a \in DOMAIN acts, NEW new,
         new.node = acts[a].node, new.status = acts[a].status, new.timers \subseteq acts[a].timers,
         Live /\ IsActive(a) /\ "timeout" \in acts[a].timers => "timeout" \in new.timers,
         NEW u, u.inst = inst, u.acts = Replaced(acts, a, new), Mirrored(u)
  PROVE  Settled(u)
<1> DEFINE n == Len(acts)
<1>1. /\ DOMAIN u.acts = DOMAIN acts /\ Len(u.acts) = n
      /\ \A b \in DOMAIN acts : u.acts[b] = IF b = a THEN new ELSE acts[b]
  <2>1. DOMAIN u.acts = DOMAIN acts /\ \A b \in DOMAIN acts : u.acts[b] = IF b = a THEN new ELSE acts[b]
    BY DEF Replaced
  <2>2. DOMAIN acts = 1..n /\ n \in Nat /\ acts \in [1..n -> Row(inst.def)]
    BY SafeRows
  <2>3. u.acts \in [1..n -> {u.acts[b] : b \in 1..n}]
    BY <2>1, <2>2 DEF Replaced
  <2>4. u.acts \in Seq({u.acts[b] : b \in 1..n}) /\ Len(u.acts) = n
    <3> DEFINE q == u.acts
               R == {u.acts[b] : b \in 1..n}
    <3>1. q \in [1..n -> R] /\ n \in Nat
      BY <2>2, <2>3
    <3> HIDE DEF q, R, n
    <3>2. q \in Seq(R) /\ Len(q) = n
      BY <3>1
    <3> QED BY <3>2 DEF q, R, n
  <2> QED BY <2>1, <2>4
<1>2. ActiveIn(u) = ActiveIn(Begin)
  BY <1>1, BeginFields DEF ActiveIn
<1>3. ASSUME AtWork(Begin), Live PROVE AtWork(u)
  <2>1. /\ ActiveIn(Begin) = {n} /\ Def.cfg[acts[n].node].kind \in BranchKinds
        /\ acts[n].timers \subseteq TimersOf(Def.cfg[acts[n].node])
        /\ "timeout" \in TimersOf(Def.cfg[acts[n].node]) => "timeout" \in acts[n].timers
    BY <1>3, BeginFields DEF AtWork, Def
  <2>2. n \in DOMAIN acts /\ IsActive(n)
    BY <2>1, BeginFields DEF ActiveIn, IsActive
  <2>3. /\ u.acts[n].node = acts[n].node /\ u.acts[n].timers \subseteq acts[n].timers
        /\ "timeout" \in acts[n].timers => "timeout" \in u.acts[n].timers
    BY <1>1, <1>3, <2>2
  <2>4. Defs[u.inst.def].cfg[u.acts[Len(u.acts)].node] = Def.cfg[acts[n].node]
    BY <1>1, <2>3 DEF Def
  <2> QED BY <1>1, <1>2, <2>1, <2>3, <2>4 DEF AtWork
<1>4. CASE inst.status = "active"
  <2>1. AtWork(u)
    BY <1>3, <1>4, BeginFields DEF Settled, Live
  <2> QED BY <1>4, <2>1 DEF Settled
<1>5. CASE inst.status = "returned_waiting"
  <2>1. ActiveIn(u) \subseteq {Len(u.acts)}
    BY <1>1, <1>2, <1>5, BeginFields DEF Settled
  <2>2. ASSUME ReturnsToPeople(Def)
        PROVE  AtWork(u) /\ Kind(Defs[u.inst.def], u.acts[Len(u.acts)].node) \in PeopleKinds
    <3>1. AtWork(Begin) /\ Kind(Def, acts[n].node) \in PeopleKinds
      BY <1>5, <2>2, BeginFields DEF Settled, Def
    <3>2. AtWork(u)
      BY <1>3, <1>5, <3>1 DEF Live
    <3>3. u.acts[n].node = acts[n].node
      <4>1. n \in DOMAIN acts
        BY <3>1, BeginFields DEF AtWork, ActiveIn
      <4> QED BY <1>1, <4>1
    <3> QED BY <1>1, <3>1, <3>2, <3>3 DEF Def
  <2> QED BY <1>5, <2>1, <2>2 DEF Settled, Def
<1>6. CASE inst.status \notin {"active", "returned_waiting"}
  BY <1>2, <1>6, BeginFields DEF Settled
<1> QED BY <1>4, <1>5, <1>6

----------------------------------------------------------------------------
(* Each operation leaves a serial instance settled.                        *)

LEMMA StillMirrored ==
  ASSUME NEW t, Mirrored(t), NEW u, u.inst.def = t.inst.def,
         t.replay = Projected(t.inst, t.acts) => u.replay = Projected(u.inst, u.acts)
  PROVE  Mirrored(u)
BY DEF Mirrored

\* Another status, and another result, in both.
LEMMA MirrorStatus ==
  ASSUME NEW i, NEW j, NEW rows, j.status # "absent", j.current = i.current, j.result = i.result
  PROVE  [Projected(i, rows) EXCEPT !.status = j.status] = Projected(j, rows)
<1> DEFINE st == IF i.status = "absent" THEN "pending" ELSE i.status
           p == Image(rows)
           x == Projected(i, rows)
<1>1. x = [status |-> st, current |-> i.current, result |-> i.result, rows |-> p]
  BY DEF Projected
<1>2. Projected(j, rows) = [status |-> j.status, current |-> j.current, result |-> j.result, rows |-> p]
  BY DEF Projected
<1> HIDE DEF st, p, x
<1>3. [x EXCEPT !.status = j.status] = [status |-> j.status, current |-> i.current, result |-> i.result, rows |-> p]
  BY <1>1
<1> QED BY <1>2, <1>3 DEF x

Noted(r, s, res) == [r EXCEPT !.status = s, !.result = res]

LEMMA MirrorResult ==
  ASSUME NEW i, NEW j, NEW rows, j.status # "absent", j.current = i.current
  PROVE  Noted(Projected(i, rows), j.status, j.result) = Projected(j, rows)
<1> DEFINE k == [status |-> j.status, current |-> i.current, result |-> i.result]
           x == Projected(i, rows)
           y == Projected(k, rows)
           p == Image(rows)
<1>1. k.status = j.status /\ k.current = i.current /\ k.result = i.result
  OBVIOUS
<1>2. y = [status |-> j.status, current |-> i.current, result |-> i.result, rows |-> p]
  BY DEF Projected
<1> HIDE DEF k, p
<1>3. [x EXCEPT !.status = j.status] = y
  <2>1. [x EXCEPT !.status = k.status] = y
    BY <1>1, MirrorStatus
  <2> HIDE DEF x, y
  <2> QED BY <1>1, <2>1
<1>4. Projected(j, rows) = [status |-> j.status, current |-> j.current, result |-> j.result, rows |-> p]
  BY DEF Projected, p
<1> HIDE DEF x, y
<1>5. [y EXCEPT !.result = j.result] = [status |-> j.status, current |-> i.current, result |-> j.result, rows |-> p]
  BY <1>2
<1>6. [x EXCEPT !.status = j.status, !.result = j.result] =
        [[x EXCEPT !.status = j.status] EXCEPT !.result = j.result]
  OBVIOUS
<1>7. [x EXCEPT !.status = j.status, !.result = j.result] = Projected(j, rows)
  BY <1>3, <1>4, <1>5, <1>6, Zenon
<1> QED BY <1>7, Zenon DEF x, Noted

\* A transaction with new rows, or a new instance row.
LEMMA RowsFields ==
  ASSUME NEW t, Shape(t), NEW q
  PROVE  LET u == [t EXCEPT !.acts = q]
         IN  /\ Shape(u) /\ u.inst = t.inst /\ u.acts = q /\ u.replay = t.replay
             /\ u.intents = t.intents /\ u.ok = t.ok /\ u.todo = t.todo
BY DEF Shape

LEMMA InstanceFields ==
  ASSUME NEW t, Shape(t), NEW j
  PROVE  LET u == [t EXCEPT !.inst = j]
         IN  /\ Shape(u) /\ u.inst = j /\ u.acts = t.acts /\ u.replay = t.replay
             /\ u.intents = t.intents /\ u.ok = t.ok /\ u.todo = t.todo
BY DEF Shape

LEMMA IntentsFields ==
  ASSUME NEW t, Shape(t), NEW left
  PROVE  LET u == [t EXCEPT !.intents = left]
         IN  /\ Shape(u) /\ u.inst = t.inst /\ u.acts = t.acts /\ u.replay = t.replay
             /\ u.ok = t.ok /\ u.todo = t.todo
BY DEF Shape

LEMMA FinishFields ==
  ASSUME NEW t, Shape(t), NEW a, NEW res, NEW by
  PROVE  LET u == Finish(t, a, res, by)
         IN  Shape(u) /\ u.inst = t.inst /\ u.acts = Replaced(t.acts, a, Finished(t.acts[a], res, by))
             /\ u.replay = t.replay
<1> DEFINE new == Finished(t.acts[a], res, by)
           q   == Replaced(t.acts, a, new)
           u   == Finish(t, a, res, by)
<1>1. u = [t EXCEPT !.acts = q]
  BY DEF Finish, Finished, Replaced, Shape
<1> HIDE DEF q, u
<1>2. Shape(u) /\ u.inst = t.inst /\ u.acts = q /\ u.replay = t.replay
  BY <1>1, RowsFields
<1> QED BY <1>2 DEF u, q

LEMMA SkipFields ==
  ASSUME NEW t, Shape(t), NEW a
  PROVE  LET u == SkipAct(t, a)
         IN  Shape(u) /\ u.inst = t.inst /\ u.acts = Replaced(t.acts, a, Skipped(t.acts[a]))
             /\ u.replay = t.replay
<1> DEFINE new == Skipped(t.acts[a])
           q   == Replaced(t.acts, a, new)
           u   == SkipAct(t, a)
<1>1. u = [t EXCEPT !.acts = q]
  BY DEF SkipAct, Skipped, Replaced, Shape
<1> HIDE DEF q, u
<1>2. Shape(u) /\ u.inst = t.inst /\ u.acts = q /\ u.replay = t.replay
  BY <1>1, RowsFields
<1> QED BY <1>2 DEF u, q

\* The only open activity is left: by a signal, a timeout, a delivery.
LEMMA LeavingLeft ==
  ASSUME Safe, Settled(Begin), Live, NEW a, IsActive(a), NEW new, new.status # "active",
         NEW u, u.inst.def = inst.def, u.acts = Replaced(acts, a, new), Mirrored(u),
         u.inst.status \in {"active", "returned_waiting"},
         ReturnsToPeople(Def) => u.inst.status = "active"
  PROVE  Left(u)
<1>1. a \in DOMAIN acts /\ ActiveIn(Begin) \subseteq {a}
  BY OpenOne
<1>2. Begin.acts = acts /\ acts \in Seq(Row(inst.def))
  BY SafeRows
<1>3. ActiveIn(u) = {}
  BY <1>1, <1>2, Leaving
<1> QED BY <1>3 DEF Left, Def

LEMMA ClaimSettles ==
  ASSUME Safe, Settled(Begin), NEW a, NEW who \in {"user", "none"}, Claim(a, who)
  PROVE  OneAtATime'
<1> DEFINE row == acts[a]
           new == [row EXCEPT !.assignee = who]
           q == Replaced(acts, a, new)
           t == [Begin EXCEPT !.acts = q]
           e == [type |-> "claimed", act |-> a, assignee |-> who]
           T == Emit(t, e)
<1>1. a \in DOMAIN acts
  BY DEF Claim, IsActive
<1>2. Commit(T)
  <2>1. [Begin EXCEPT !.acts[a].assignee = who] = t
    BY <1>1, SafeRows DEF Begin, Replaced
  <2> HIDE DEF t
  <2> QED BY <2>1, Zenon DEF Claim
<1>3. row \in Row(inst.def)
  BY <1>1, SafeRows
<1>4. new.node = row.node /\ new.status = row.status /\ new.timers = row.timers
  BY <1>3 DEF Row
<1>5. Fold(Projected(inst, acts), e) = Projected(inst, q)
  <2> HIDE DEF e
  <2>1. acts \in Seq(Row(inst.def))
    BY SafeRows
  <2>2. Fold(Projected(inst, acts), [type |-> "claimed", act |-> a, assignee |-> who]) =
          Projected(inst, Replaced(acts, a, [acts[a] EXCEPT !.assignee = who]))
    BY <1>1, <2>1, MirrorClaimed
  <2> QED BY <2>2, Zenon DEF e
<1>6. T.inst = inst /\ T.acts = q /\ T.replay = Fold(replay, e)
  <2> HIDE DEF q, e
  <2>1. Shape(t) /\ t.inst = inst /\ t.acts = q /\ t.replay = replay
    BY BeginFields, RowsFields
  <2> HIDE DEF t
  <2> QED BY <2>1, EmitFields, EmitReplay
<1> HIDE DEF T, e, new
<1>7. Mirrored(T)
  <2>1. Mirrored(Begin)
    BY DEF Settled
  <2>2. Begin.inst = inst /\ Begin.acts = acts /\ Begin.replay = replay
    BY BeginFields
  <2>3. replay = Projected(inst, acts) => T.replay = Projected(T.inst, T.acts)
    BY <1>5, <1>6, Zenon
  <2> QED BY <1>6, <2>1, <2>2, <2>3, StillMirrored
<1>8. Settled(T)
  BY <1>1, <1>4, <1>6, <1>7, EditSettles
<1> QED BY <1>2, <1>8, CommitSettles

\* Start and resubmit: from a transaction in which nothing is open and the instance is active.
LEMMA EnterOneAtATime ==
  ASSUME Safe, NEW STATE t, Sound(acts, inst.def, t), Left(t), NEW STATE round, Commit(Enter(t, round))
  PROVE  OneAtATime'
<1> DEFINE id == DecideStart(Def)
           T  == Enter(t, round)
<1>1. id \in Ids(inst.def) /\ Kind(Defs[inst.def], id) = "approval" /\ inst.def \in DOMAIN Defs
  BY SafeRows, StartIsApproval DEF Def
<1>2. Kind(Defs[inst.def], id) \in BranchKinds \cup {"sub_workflow"}
  BY <1>1 DEF BranchKinds
<1>3. T = PointAtNewest(Schedule(t, id, round, FALSE))
  BY DEF Enter
<1> HIDE DEF id, T
<1>4. T.ok => Settled(T)
  <2> DEFINE u == PointAtNewest(Schedule(t, id, round, FALSE))
  <2>1. u.ok => Settled(u)
    BY <1>1, <1>2, EnterSettles
  <2> HIDE DEF u
  <2>2. T = u
    BY <1>3 DEF u
  <2> QED BY <2>1, <2>2
<1>5. Commit(T)
  BY DEF T
<1> QED BY <1>4, <1>5, CommitSettles

LEMMA StartSettles ==
  ASSUME Safe, Settled(Begin), Start
  PROVE  OneAtATime'
<1> DEFINE j == [inst EXCEPT !.status = "active"]
           t == [Begin EXCEPT !.inst = j]
           u == Emit(t, Event("started"))
<1>1. inst.status = "absent" /\ Instance(inst.def, inst, Len(acts))
  BY SafeRows DEF Start, Sound
<1>2. [Begin EXCEPT !.inst.status = "active"] = t
  BY SafeRows DEF Begin
<1>3. Commit(Enter(u, 1))
  <2> HIDE DEF t
  <2> QED BY <1>2, Zenon DEF Start
<1>4. j.status = "active" /\ j.def = inst.def /\ j.current = inst.current /\ j.result = inst.result
  BY <1>1 DEF Instance
<1>5. Sound(acts, inst.def, u)
  <2>1. "active" \in InstStatus
    BY DEF InstStatus
  <2>2. Sound(acts, inst.def, [Begin EXCEPT !.inst.status = "active"])
    BY <1>1, <2>1, SafeRows, StatusSound
  <2> HIDE DEF t
  <2> QED BY <1>2, <2>2, EmitSound
<1> DEFINE e == Event("started")
<1>6. e.type = "started"
  BY DEF Event
<1> HIDE DEF e
<1>7. u.inst = j /\ u.acts = acts /\ u.replay = Fold(replay, e)
  <2> HIDE DEF j
  <2>1. Shape(t) /\ t.inst = j /\ t.acts = acts /\ t.replay = replay
    BY BeginFields, InstanceFields
  <2> HIDE DEF t
  <2> QED BY <2>1, EmitFields, EmitReplay DEF e
<1>8. Fold(Projected(inst, acts), e) = Projected(j, acts)
  <2> DEFINE r == Fold(Projected(inst, acts), e)
  <2>1. r = [Projected(inst, acts) EXCEPT !.status = "active"]
    BY <1>6, FoldArms
  <2> HIDE DEF r, j
  <2>2. r = [Projected(inst, acts) EXCEPT !.status = j.status]
    BY <1>4, <2>1, Zenon
  <2>3. r = Projected(j, acts)
    BY <1>4, <2>2, MirrorStatus
  <2> QED BY <2>3 DEF r
<1> HIDE DEF u, j
<1>9. Mirrored(u)
  <2>1. Mirrored(Begin) /\ Begin.inst = inst /\ Begin.acts = acts /\ Begin.replay = replay
    BY BeginFields DEF Settled
  <2>2. replay = Projected(inst, acts) => u.replay = Projected(u.inst, u.acts)
    BY <1>7, <1>8, Zenon
  <2> QED BY <1>4, <1>7, <2>1, <2>2, StillMirrored
<1>10. ActiveIn(u) = {}
  <2>1. ActiveIn(Begin) = {}
    BY <1>1, BeginFields DEF Settled
  <2> QED BY <1>7, <2>1, BeginFields DEF ActiveIn
<1>11. Left(u)
  BY <1>4, <1>7, <1>9, <1>10 DEF Left
<1> QED BY <1>3, <1>5, <1>11, EnterOneAtATime

LEMMA ResubmitSettles ==
  ASSUME Safe, Settled(Begin), Resubmit
  PROVE  OneAtATime'
<1> DEFINE round == MaxRound(Begin) + 1
           j == Closing(inst, "active", "none", inst.current)
           t == [Begin EXCEPT !.inst = j]
           e == Event("reactivated")
           u == Emit(t, e)
<1>1. inst.status = "completed"
  BY DEF Resubmit
<1>2. Commit(Enter(u, round)) /\ Sound(acts, inst.def, u)
  BY ResubmitSound
<1>3. j.status = "active" /\ j.def = inst.def /\ j.current = inst.current /\ j.result = "none"
  BY SafeRows DEF Sound, Instance, Closing
<1>4. e.type = "reactivated"
  BY DEF Event
<1> HIDE DEF e, round
<1>5. u.inst = j /\ u.acts = acts /\ u.replay = Fold(replay, e)
  <2> HIDE DEF j
  <2>1. Shape(t) /\ t.inst = j /\ t.acts = acts /\ t.replay = replay
    BY BeginFields, InstanceFields
  <2> HIDE DEF t
  <2> QED BY <2>1, EmitFields, EmitReplay
<1>6. Fold(Projected(inst, acts), e) = Projected(j, acts)
  <2> DEFINE r == Fold(Projected(inst, acts), e)
  <2>1. r = [Projected(inst, acts) EXCEPT !.status = "active", !.result = "none"]
    BY <1>4, FoldArms
  <2> HIDE DEF r, j
  <2>2. r = [Projected(inst, acts) EXCEPT !.status = j.status, !.result = j.result]
    BY <1>3, <2>1, Zenon
  <2>3. r = Projected(j, acts)
    <3>1. j.status # "absent" /\ j.current = inst.current
      BY <1>3
    <3>2. Noted(Projected(inst, acts), j.status, j.result) = Projected(j, acts)
      BY <3>1, MirrorResult
    <3> QED BY <2>2, <3>2, Zenon DEF Noted
  <2> QED BY <2>3 DEF r
<1> HIDE DEF u, j
<1>7. Mirrored(u)
  <2>1. Mirrored(Begin) /\ Begin.inst = inst /\ Begin.acts = acts /\ Begin.replay = replay
    BY BeginFields DEF Settled
  <2>2. replay = Projected(inst, acts) => u.replay = Projected(u.inst, u.acts)
    BY <1>5, <1>6, Zenon
  <2> QED BY <1>3, <1>5, <2>1, <2>2, StillMirrored
<1>8. ActiveIn(u) = {}
  <2>1. ActiveIn(Begin) = {}
    BY <1>1, BeginFields DEF Settled
  <2> QED BY <1>5, <2>1, BeginFields DEF ActiveIn
<1>9. Left(u)
  BY <1>3, <1>5, <1>7, <1>8 DEF Left
<1> QED BY <1>2, <1>9, EnterOneAtATime

LEMMA DeadLetterSettles ==
  ASSUME Safe, Settled(Begin), NEW a, NEW type, DeadLetter(a, type)
  PROVE  OneAtATime'
<1> DEFINE left == intents \ {<<a, type>>}
           T == [Begin EXCEPT !.intents = left]
<1>1. Commit(T)
  BY BeginFields DEF DeadLetter
<1> HIDE DEF left
<1>2. T.inst = inst /\ T.acts = acts /\ T.replay = replay
  BY BeginFields, IntentsFields
<1> HIDE DEF T
<1>3. Settled(T)
  BY <1>2, BeginFields, SettledOf
<1> QED BY <1>1, <1>3, CommitSettles

\* A timer that is spent, with nothing else done.
Fired(a, kind) == [Begin EXCEPT !.acts[a].timers = @ \ {kind}]

LEMMA FiredFields ==
  ASSUME Safe, NEW a \in DOMAIN acts, NEW kind
  PROVE  LET row   == acts[a]
             fired == Fired(a, kind)
             new   == [row EXCEPT !.timers = row.timers \ {kind}]
         IN  /\ Sound(acts, inst.def, fired) /\ Len(fired.acts) = Len(acts)
             /\ fired.inst = inst /\ fired.acts = Replaced(acts, a, new) /\ fired.replay = replay
             /\ new \in Row(inst.def) /\ new.timers = row.timers \ {kind}
             /\ \A f \in RowField : new[f] = row[f]
             /\ Mirrored(Begin) => Mirrored(fired)
<1> DEFINE row == acts[a]
           rest == row.timers \ {kind}
           new == [row EXCEPT !.timers = rest]
           q == [acts EXCEPT ![a] = new]
           fired == [Begin EXCEPT !.acts = q]
<1>1. Fired(a, kind) = fired
  BY SafeRows DEF Begin, Fired
<1>2. row \in Row(inst.def) /\ DOMAIN row = RowField \cup {"timers"}
  <2>1. row \in Row(inst.def)
    BY SafeRows
  <2> HIDE DEF row
  <2> QED BY <2>1, RowShape
<1>3. /\ new \in Row(inst.def) /\ new.timers = rest
      /\ \A f \in RowField : new[f] = row[f]
  BY <1>2 DEF Row, RowField
<1>4. new.status = row.status /\ new.result = row.result
  BY <1>3 DEF RowField
<1>5. Projected(inst, q) = Projected(inst, acts)
  <2>1. acts \in Seq(Row(inst.def))
    BY SafeRows
  <2> HIDE DEF rest
  <2>2. Projected(inst, Replaced(acts, a, [acts[a] EXCEPT !.timers = rest])) = Projected(inst, acts)
    BY <2>1, MirrorTimers
  <2> QED BY <2>2, Zenon DEF Replaced
<1> HIDE DEF new, rest
<1>6. Sound(acts, inst.def, fired) /\ Len(q) = Len(acts)
  BY <1>3, <1>4, SafeRows, RowSound
<1>7. fired.inst = inst /\ fired.acts = q /\ fired.replay = replay
  <2> HIDE DEF q
  <2> QED BY BeginFields, RowsFields
<1>8. q = Replaced(acts, a, new)
  BY DEF Replaced
<1> HIDE DEF fired, q
<1>9. Mirrored(Begin) => Mirrored(fired)
  <2> SUFFICES ASSUME Mirrored(Begin) PROVE Mirrored(fired)
    OBVIOUS
  <2>1. Begin.inst = inst /\ Begin.acts = acts /\ Begin.replay = replay
    BY BeginFields
  <2>2. replay = Projected(inst, acts) => fired.replay = Projected(fired.inst, fired.acts)
    BY <1>5, <1>7, Zenon
  <2> QED BY <1>7, <2>1, <2>2, StillMirrored
<1>10. /\ Sound(acts, inst.def, fired) /\ Len(fired.acts) = Len(acts)
       /\ fired.inst = inst /\ fired.acts = Replaced(acts, a, new) /\ fired.replay = replay
  BY <1>6, <1>7, <1>8
<1> QED BY <1>1, <1>3, <1>9, <1>10, Zenon DEF new, rest

\* An activity that is left by the engine's own step, and the outcome that is applied to it.
LEMMA OutcomeSettles ==
  ASSUME Safe, Serial(Def), NEW STATE t, Sound(acts, inst.def, t), Left(t), NEW a \in DOMAIN acts,
         NEW STATE out, OutcomeOf(inst.def, out), SerialOutcome(inst.def, out), out # Done
  PROVE  Apply(t, out, a, acts[a].round).ok => Settled(Apply(t, out, a, acts[a].round))
<1> DEFINE round == acts[a].round
<1>1. round \in Nat /\ inst.def \in DOMAIN Defs /\ Len(acts) \in Nat \ {0} /\ Serial(Defs[inst.def])
  BY SafeRows DEF Def
<1> HIDE DEF round
<1>2. Apply(t, out, a, round).ok => Settled(Apply(t, out, a, round))
  BY <1>1, ApplySettles
<1> QED BY <1>2 DEF round

LEMMA DeliverSettles ==
  ASSUME Safe, Serial(Def), Settled(Begin), NEW a, NEW type \in OutboxType, Deliver(a, type)
  PROVE  OneAtATime'
<1> DEFINE taken == [Begin EXCEPT !.intents = @ \ {<<a, type>>}]
           done == Finish(taken, a, "none", "system")
           e == ActEvent("delivered", a)
           left == Emit(done, e)
           out == DecideAdvance(Def, acts[a].node, "completed", inst.ctx)
           round == acts[a].round
           sent == Apply(left, out, a, round)
           called == [taken EXCEPT !.inst.executed = TRUE]
           noted == type = "notification" /\ Live /\ IsActive(a) /\ NodeOf(a).kind = "notification"
           T == CASE noted -> sent
                  [] type = "business_callback" -> called
                  [] OTHER -> taken
<1>1. Commit(T)
  BY Zenon DEF Deliver
<1>2. /\ Sound(acts, inst.def, taken) /\ Shape(taken)
      /\ taken.inst = inst /\ taken.acts = acts /\ taken.replay = replay
  <2>1. Sound(acts, inst.def, taken) /\ taken.inst = inst /\ taken.acts = acts
    BY TakenSound
  <2> DEFINE rest == intents \ {<<a, type>>}
  <2>2. taken = [Begin EXCEPT !.intents = rest]
    BY BeginFields
  <2> HIDE DEF taken, rest
  <2>3. taken.replay = replay
    BY <2>2, BeginFields, IntentsFields
  <2> QED BY <2>1, <2>3 DEF Sound
<1> HIDE DEF taken
<1>3. ASSUME noted PROVE sent.ok => Settled(sent)
  <2> DEFINE new == Finished(acts[a], "none", "system")
  <2>1. Live /\ IsActive(a) /\ NodeOf(a).kind = "notification"
    BY <1>3
  <2>2. a \in DOMAIN acts /\ acts[a].status = "active" /\ acts[a] \in Row(inst.def)
        /\ (ReturnsToPeople(Def) => inst.status = "active")
    <3>1. "notification" \notin PeopleKinds
      BY DEF PeopleKinds
    <3>2. a \in DOMAIN acts /\ (ReturnsToPeople(Def) => inst.status = "active")
      BY <2>1, <3>1, OpenOne
    <3> QED BY <2>1, <3>2, SafeRows DEF IsActive
  <2>3. "none" \in Results /\ "system" \in {"none", "user", "system"}
    BY DEF Results
  <2>4. Sound(acts, inst.def, left)
    <3>1. Sound(acts, inst.def, done)
      BY <1>2, <2>2, <2>3, SafeRows, FinishSound
    <3> HIDE DEF done
    <3> QED BY <3>1, EmitSound
  <2>5. left.inst = inst /\ left.acts = Replaced(acts, a, new) /\ left.replay = Fold(replay, e)
    <3> HIDE DEF e, new
    <3>1. Shape(done) /\ done.inst = inst /\ done.acts = Replaced(taken.acts, a, Finished(taken.acts[a], "none", "system"))
          /\ done.replay = replay
      BY <1>2, FinishFields
    <3> HIDE DEF done
    <3>2. done.acts = Replaced(acts, a, new)
      BY <1>2, <3>1, Zenon DEF new
    <3> QED BY <3>1, <3>2, EmitFields, EmitReplay
  <2>6. new.status = "completed"
    BY <2>2, FinishedRow
  <2>7. Fold(Projected(inst, acts), e) = Projected(inst, Replaced(acts, a, new))
    <3>1. acts \in Seq(Row(inst.def))
      BY SafeRows
    <3> QED BY <2>2, <3>1, MirrorDelivered
  <2>8. OutcomeOf(inst.def, out) /\ SerialOutcome(inst.def, out) /\ out # Done
    <3>1. out = DecideAdvance(Defs[inst.def], acts[a].node, "completed", inst.ctx)
      BY DEF Def
    <3> HIDE DEF out
    <3>2. Serial(Defs[inst.def]) /\ inst.def \in DOMAIN Defs
      BY SafeRows DEF Def
    <3>3. OutcomeOf(inst.def, out)
      BY <3>1, SafeRows, AdvanceAnswers
    <3> DEFINE o == DecideAdvance(Defs[inst.def], acts[a].node, "completed", inst.ctx)
    <3>4. SerialOutcome(inst.def, o) /\ o # Done
      BY <3>2, SerialAdvance
    <3> HIDE DEF o
    <3>5. out = o
      BY <3>1 DEF o
    <3> QED BY <3>3, <3>4, <3>5
  <2> HIDE DEF left, e, new, out
  <2>9. Mirrored(left)
    <3>1. Mirrored(Begin) /\ Begin.inst = inst /\ Begin.acts = acts /\ Begin.replay = replay
      BY BeginFields DEF Settled
    <3>2. replay = Projected(inst, acts) => left.replay = Projected(left.inst, left.acts)
      BY <2>5, <2>7, Zenon
    <3> QED BY <2>5, <3>1, <3>2, StillMirrored
  <2>10. Left(left)
    <3>1. left.inst.status \in {"active", "returned_waiting"} /\ left.inst.def = inst.def
          /\ (ReturnsToPeople(Def) => left.inst.status = "active") /\ new.status # "active"
      BY <2>1, <2>2, <2>5, <2>6 DEF Live
    <3> QED BY <2>1, <2>5, <2>9, <3>1, LeavingLeft
  <2> QED BY <2>2, <2>4, <2>8, <2>10, OutcomeSettles
<1>4. Settled(taken)
  BY <1>2, BeginFields, SettledOf
<1>5. ASSUME type = "business_callback" PROVE Settled(called)
  <2> DEFINE yes == TRUE
             j == [taken.inst EXCEPT !.executed = yes]
  <2>1. called = [taken EXCEPT !.inst = j]
    BY <1>2 DEF Shape
  <2>2. j.def = inst.def /\ j.status = inst.status /\ j.current = inst.current /\ j.result = inst.result
    BY <1>2 DEF Sound, Instance
  <2> HIDE DEF j, called
  <2>3. called.inst = j /\ called.acts = acts /\ called.replay = replay
    BY <1>2, <2>1, InstanceFields
  <2> QED BY <2>2, <2>3, BeginFields, SettledOf
<1> HIDE DEF sent, called, noted
<1>6. T.ok => Settled(T)
  BY <1>3, <1>4, <1>5
<1> HIDE DEF T
<1> QED BY <1>1, <1>6, CommitSettles

\* What an activity with a timeout is.
LEMMA TimeoutOfWait ==
  ASSUME NEW node, "timeout" \in TimersOf(node)
  PROVE  node.kind = "event_wait"
BY DEF TimersOf

LEMMA ReminderSettles ==
  ASSUME Safe, Settled(Begin), NEW a \in DOMAIN acts, NEW kind, kind # "timeout" \/ ~ (Live /\ IsActive(a)),
         NEW u, u.inst = inst, u.replay = replay,
         u.acts = Fired(a, kind).acts
  PROVE  Settled(u)
<1> DEFINE row   == acts[a]
           fired == Fired(a, kind)
           new   == [row EXCEPT !.timers = row.timers \ {kind}]
<1>1. /\ fired.inst = inst /\ fired.acts = Replaced(acts, a, new) /\ fired.replay = replay
      /\ new.timers = row.timers \ {kind} /\ \A f \in RowField : new[f] = row[f]
      /\ Mirrored(Begin) => Mirrored(fired)
  BY FiredFields
<1> HIDE DEF fired, new
<1>2. u.acts = fired.acts
  BY DEF fired
<1>3. Mirrored(u)
  <2>1. Mirrored(fired)
    BY <1>1 DEF Settled
  <2> QED BY <1>1, <1>2, <2>1, SettledOf
<1>4. new.node = row.node /\ new.status = row.status /\ new.timers \subseteq row.timers
      /\ (Live /\ IsActive(a) /\ "timeout" \in row.timers => "timeout" \in new.timers)
  BY <1>1 DEF RowField
<1>5. u.acts = Replaced(acts, a, new)
  BY <1>1, <1>2
<1> QED BY <1>3, <1>4, <1>5, EditSettles

Escalated(row) == [row EXCEPT !.role = "escalated"]

LEMMA ReplacedTwice ==
  ASSUME NEW R, NEW rows \in Seq(R), NEW a \in DOMAIN rows, NEW mid \in R, NEW new
  PROVE  LET q == Replaced(rows, a, mid)
         IN  q \in Seq(R) /\ a \in DOMAIN q /\ q[a] = mid /\ Replaced(q, a, new) = Replaced(rows, a, new)
<1> DEFINE q == Replaced(rows, a, mid)
           n == Len(rows)
<1>1. rows \in [1..n -> R] /\ n \in Nat /\ a \in 1..n
  OBVIOUS
<1> HIDE DEF n
<1>2. q \in [1..n -> R] /\ q[a] = mid /\ Replaced(q, a, new) = Replaced(rows, a, new)
  BY <1>1 DEF Replaced
<1> HIDE DEF q
<1>3. q \in Seq(R) /\ a \in DOMAIN q
  BY <1>1, <1>2
<1> QED BY <1>2, <1>3 DEF q

LEMMA EscalationSettles ==
  ASSUME Safe, Settled(Begin), NEW a \in DOMAIN acts,
         NEW u, u.inst = inst, u.replay = Fold(replay, ActEvent("escalated", a)),
         u.acts = Replaced(Fired(a, "escalation").acts, a, Escalated(Fired(a, "escalation").acts[a]))
  PROVE  Settled(u)
<1> DEFINE row   == acts[a]
           e     == ActEvent("escalated", a)
           fired == Fired(a, "escalation")
           rows  == fired.acts
           mid   == [row EXCEPT !.timers = row.timers \ {"escalation"}]
           new   == Escalated(mid)
<1>1. /\ fired.inst = inst /\ fired.acts = Replaced(acts, a, mid) /\ fired.replay = replay
      /\ mid \in Row(inst.def)
      /\ mid.timers = row.timers \ {"escalation"} /\ \A f \in RowField : mid[f] = row[f]
      /\ Mirrored(Begin) => Mirrored(fired)
  BY FiredFields
<1> HIDE DEF fired, mid, e
<1>2. rows = Replaced(acts, a, mid)
  BY <1>1
<1>3. rows \in Seq(Row(inst.def)) /\ a \in DOMAIN rows /\ rows[a] = mid
      /\ Replaced(rows, a, new) = Replaced(acts, a, new)
  <2> DEFINE R == Row(inst.def)
  <2>1. acts \in Seq(R)
    BY SafeRows
  <2> HIDE DEF new, R
  <2>2. mid \in R
    BY <1>1 DEF R
  <2> DEFINE q == Replaced(acts, a, mid)
  <2>3. q \in Seq(R) /\ a \in DOMAIN q /\ q[a] = mid /\ Replaced(q, a, new) = Replaced(acts, a, new)
    BY <2>1, <2>2, ReplacedTwice
  <2> HIDE DEF q, rows
  <2> QED BY <1>2, <2>3 DEF q, R
<1>4. new.timers = mid.timers /\ \A f \in RowField \ {"role"} : new[f] = mid[f]
  <2>1. DOMAIN mid = RowField \cup {"timers"}
    BY <1>1, RowShape
  <2> QED BY <2>1 DEF RowField, Escalated
<1> HIDE DEF new
<1>5. u.acts = Replaced(rows, a, new)
  BY <1>3, Zenon DEF new, rows, fired
<1> HIDE DEF rows
<1>6. Fold(Projected(inst, rows), e) = Projected(inst, u.acts)
  <2>1. Fold(Projected(inst, rows), e) = Projected(inst, Replaced(rows, a, [rows[a] EXCEPT !.role = "escalated"]))
    BY <1>3, MirrorEscalated DEF e
  <2> QED BY <1>3, <1>5, <2>1, Zenon DEF new, Escalated
<1>7. Mirrored(u)
  <2>1. Mirrored(fired)
    BY <1>1 DEF Settled
  <2>2. fired.replay = Projected(fired.inst, fired.acts) => u.replay = Projected(u.inst, u.acts)
    BY <1>1, <1>6, Zenon DEF e, rows
  <2>3. u.inst.def = fired.inst.def
    BY <1>1
  <2> QED BY <2>1, <2>2, <2>3, StillMirrored
<1>8. new.node = row.node /\ new.status = row.status /\ new.timers \subseteq row.timers
      /\ ("timeout" \in row.timers => "timeout" \in new.timers)
  BY <1>1, <1>4 DEF RowField
<1>9. u.acts = Replaced(acts, a, new)
  BY <1>3, <1>5
<1> QED BY <1>7, <1>8, <1>9, EditSettles

LEMMA TimeoutSettles ==
  ASSUME Safe, Serial(Def), Settled(Begin), Live, NEW a, IsActive(a), "timeout" \in acts[a].timers
  PROVE  LET fired == Fired(a, "timeout")
             T == Apply(Emit(SkipAct(fired, a), ActEvent("act_skipped", a)),
                        DecideEventWaitTimeout(Def, acts[a].node, inst.ctx), a, acts[a].round)
         IN  T.ok => Settled(T)
<1> DEFINE row   == acts[a]
           fired == Fired(a, "timeout")
           mid   == [row EXCEPT !.timers = row.timers \ {"timeout"}]
           new   == Skipped(mid)
           e     == ActEvent("act_skipped", a)
           done  == SkipAct(fired, a)
           left  == Emit(done, e)
           out   == DecideEventWaitTimeout(Def, acts[a].node, inst.ctx)
<1>1. a \in DOMAIN acts /\ acts[a].status = "active" /\ (ReturnsToPeople(Def) => inst.status = "active")
  <2>1. /\ a \in DOMAIN acts
        /\ inst.status = "active" \/ ReturnsToPeople(Def) => acts[a].timers \subseteq TimersOf(NodeOf(a))
        /\ ReturnsToPeople(Def) /\ NodeOf(a).kind \notin PeopleKinds => inst.status = "active"
    BY OpenOne
  <2>2. ReturnsToPeople(Def) => NodeOf(a).kind = "event_wait"
    BY <2>1, TimeoutOfWait
  <2> QED BY <2>1, <2>2 DEF PeopleKinds, IsActive
<1>2. /\ Sound(acts, inst.def, fired) /\ Len(fired.acts) = Len(acts)
      /\ fired.inst = inst /\ fired.acts = Replaced(acts, a, mid) /\ fired.replay = replay
      /\ mid \in Row(inst.def) /\ (Mirrored(Begin) => Mirrored(fired))
  BY <1>1, FiredFields
<1> HIDE DEF fired, mid
<1>3. fired.acts \in Seq(Row(inst.def)) /\ a \in DOMAIN fired.acts /\ fired.acts[a] = mid
      /\ Replaced(fired.acts, a, new) = Replaced(acts, a, new)
  <2> DEFINE R == Row(inst.def)
             q == Replaced(acts, a, mid)
  <2> HIDE DEF new, R
  <2>1. acts \in Seq(R) /\ mid \in R
    BY <1>2, SafeRows DEF R
  <2>2. q \in Seq(R) /\ a \in DOMAIN q /\ q[a] = mid /\ Replaced(q, a, new) = Replaced(acts, a, new)
    BY <1>1, <2>1, ReplacedTwice
  <2> HIDE DEF q
  <2> QED BY <1>2, <2>2 DEF q, R
<1>4. Sound(acts, inst.def, left)
  <2>1. Sound(acts, inst.def, done)
    BY <1>1, <1>2, <1>3, SafeRows, SkipActSound
  <2> HIDE DEF done
  <2> QED BY <2>1, EmitSound
<1>5. left.inst = inst /\ left.acts = Replaced(acts, a, new) /\ left.replay = Fold(replay, e)
  <2> HIDE DEF e
  <2>1. Shape(fired)
    BY <1>2 DEF Sound
  <2>2. Shape(done) /\ done.inst = inst /\ done.acts = Replaced(fired.acts, a, Skipped(fired.acts[a])) /\ done.replay = replay
    BY <1>2, <2>1, SkipFields
  <2> HIDE DEF done
  <2>3. done.acts = Replaced(acts, a, new)
    BY <1>3, <2>2, Zenon DEF new
  <2> HIDE DEF new
  <2> QED BY <2>2, <2>3, EmitFields, EmitReplay
<1>6. new.status = "skipped"
  <2>1. DOMAIN mid = RowField \cup {"timers"}
    BY <1>2, RowShape
  <2> QED BY <2>1 DEF Skipped, RowField
<1>7. Fold(Projected(inst, fired.acts), e) = Projected(inst, Replaced(acts, a, new))
  <2> DEFINE rows == fired.acts
  <2>1. rows \in Seq(Row(inst.def)) /\ a \in DOMAIN rows
    BY <1>3
  <2> HIDE DEF rows
  <2>2. Fold(Projected(inst, rows), e) = Projected(inst, Replaced(rows, a, Skipped(rows[a])))
    BY <2>1, MirrorSkipped
  <2> QED BY <1>3, <2>2, Zenon DEF rows, new
<1>8. OutcomeOf(inst.def, out) /\ SerialOutcome(inst.def, out) /\ out # Done
  <2>1. out = DecideEventWaitTimeout(Defs[inst.def], acts[a].node, inst.ctx)
    BY DEF Def
  <2> HIDE DEF out
  <2>2. Serial(Defs[inst.def]) /\ inst.def \in DOMAIN Defs
    BY SafeRows DEF Def
  <2>3. OutcomeOf(inst.def, out)
    BY <2>1, SafeRows, TimeoutAnswers
  <2>4. out \in Ends(inst.def)
    BY <2>1, <2>2, SerialTimeout
  <2>5. SerialOutcome(inst.def, out) /\ out # Done
    BY <2>2, <2>4, EndsAreOutcomes
  <2> QED BY <2>3, <2>5
<1> HIDE DEF done, left, e, new, out
<1>9. Mirrored(left)
  <2>1. Mirrored(fired)
    BY <1>2 DEF Settled
  <2>2. fired.replay = Projected(fired.inst, fired.acts) => left.replay = Projected(left.inst, left.acts)
    BY <1>2, <1>5, <1>7, Zenon
  <2>3. left.inst.def = fired.inst.def
    BY <1>2, <1>5
  <2> QED BY <2>1, <2>2, <2>3, StillMirrored
<1>10. Left(left)
  <2>1. left.inst.status \in {"active", "returned_waiting"} /\ left.inst.def = inst.def
        /\ (ReturnsToPeople(Def) => left.inst.status = "active") /\ new.status # "active"
    BY <1>1, <1>5, <1>6 DEF Live
  <2> QED BY <1>5, <1>9, <2>1, LeavingLeft
<1>11. Apply(left, out, a, acts[a].round).ok => Settled(Apply(left, out, a, acts[a].round))
  BY <1>1, <1>4, <1>8, <1>10, OutcomeSettles
<1> QED BY <1>11, Zenon DEF left, done, fired, e, out

LEMMA FireTimerSettles ==
  ASSUME Safe, Serial(Def), Settled(Begin), NEW a, NEW kind \in TimerKinds, FireTimer(a, kind)
  PROVE  OneAtATime'
<1> DEFINE fired == Fired(a, kind)
           T == IF Live /\ IsActive(a) THEN Ring(fired, a, kind) ELSE fired
<1>1. Commit(T) /\ a \in DOMAIN acts /\ kind \in acts[a].timers
  BY Zenon DEF FireTimer, Fired
<1>2. Shape(fired) /\ fired.inst = inst /\ fired.replay = replay
  BY <1>1, FiredFields DEF Sound
<1> HIDE DEF fired
<1>3. CASE ~ (Live /\ IsActive(a))
  <2>1. Settled(fired)
    <3>1. fired.acts = Fired(a, kind).acts
      BY DEF fired
    <3> QED BY <1>1, <1>2, <1>3, <3>1, ReminderSettles
  <2>2. T = fired
    BY <1>3
  <2> HIDE DEF T
  <2> QED BY <1>1, <2>1, <2>2, CommitSettles
<1>4. CASE Live /\ IsActive(a) /\ kind = "reminder"
  <2> DEFINE more == fired.intents \cup {<<a, "notification_reminder">>}
  <2>1. T = [fired EXCEPT !.intents = more]
    BY <1>4 DEF Ring
  <2> HIDE DEF T, more
  <2>2. T.inst = inst /\ T.acts = fired.acts /\ T.replay = replay
    BY <1>2, <2>1, IntentsFields
  <2>3. Settled(T)
    <3>1. T.acts = Fired(a, kind).acts /\ kind # "timeout"
      BY <1>4, <2>2 DEF fired
    <3> QED BY <1>1, <2>2, <3>1, ReminderSettles
  <2> QED BY <1>1, <2>3, CommitSettles
<1>5. CASE Live /\ IsActive(a) /\ kind = "escalation"
  <2> DEFINE more == fired.intents \cup {<<a, "notification_escalation">>}
             q == Replaced(fired.acts, a, Escalated(fired.acts[a]))
             v == [fired EXCEPT !.acts = q]
             w == [v EXCEPT !.intents = more]
             e == ActEvent("escalated", a)
  <2>1. T = Emit(w, e)
    <3>1. [fired EXCEPT !.acts[a].role = "escalated", !.intents = @ \cup {<<a, "notification_escalation">>}] = w
      BY <1>2 DEF Shape, Replaced, Escalated
    <3> HIDE DEF w
    <3>2. T = Emit([fired EXCEPT !.acts[a].role = "escalated",
                                 !.intents = @ \cup {<<a, "notification_escalation">>}], e)
      BY <1>5 DEF Ring
    <3> HIDE DEF T
    <3> QED BY <3>1, <3>2, Zenon
  <2> HIDE DEF T, more, q, e
  <2>2. Shape(v) /\ v.inst = inst /\ v.acts = q /\ v.replay = replay
    BY <1>2, RowsFields
  <2> HIDE DEF v
  <2>3. Shape(w) /\ w.inst = inst /\ w.acts = q /\ w.replay = replay
    BY <2>2, IntentsFields
  <2> HIDE DEF w
  <2>4. T.inst = inst /\ T.acts = q /\ T.replay = Fold(replay, e)
    BY <2>1, <2>3, EmitFields, EmitReplay
  <2>5. Settled(T)
    <3>1. q = Replaced(Fired(a, "escalation").acts, a, Escalated(Fired(a, "escalation").acts[a]))
      BY <1>5, Zenon DEF q, fired
    <3>2. T.acts = Replaced(Fired(a, "escalation").acts, a, Escalated(Fired(a, "escalation").acts[a]))
          /\ T.replay = Fold(replay, ActEvent("escalated", a))
      BY <2>4, <3>1, Zenon DEF e
    <3> QED BY <1>1, <2>4, <3>2, EscalationSettles
  <2> QED BY <1>1, <2>5, CommitSettles
<1>6. CASE Live /\ IsActive(a) /\ kind = "timeout"
  <2> DEFINE U == Apply(Emit(SkipAct(Fired(a, "timeout"), a), ActEvent("act_skipped", a)),
                        DecideEventWaitTimeout(Def, acts[a].node, inst.ctx), a, acts[a].round)
  <2>1. U.ok => Settled(U)
    BY <1>1, <1>6, TimeoutSettles
  <2>2. T = Ring(Fired(a, "timeout"), a, "timeout")
    BY <1>6 DEF fired
  <2>3. Ring(Fired(a, "timeout"), a, "timeout") = U
    BY DEF Ring
  <2> HIDE DEF T, U
  <2>4. T = U
    BY <2>2, <2>3, Zenon
  <2> QED BY <1>1, <2>1, <2>4, CommitSettles
<1> QED BY <1>3, <1>4, <1>5, <1>6 DEF TimerKinds

LEMMA SignalSettles ==
  ASSUME Safe, Serial(Def), Settled(Begin), NEW a, NEW sig, NEW c \in Ctx, Signal(a, sig, c)
  PROVE  OneAtATime'
<1> DEFINE back == inst.status = "returned_waiting"
           res == SignalResult(sig)
           j == [inst EXCEPT !.ctx = c]
           wrote == [Begin EXCEPT !.inst = j]
           e1 == ActEvent("signalled", a)
           heard == Emit(wrote, e1)
           done == Finish(heard, a, res, "user")
           e2 == [type |-> "act_completed", act |-> a, result |-> res]
           left == Emit(done, e2)
           k == [left.inst EXCEPT !.status = "active"]
           again == [left EXCEPT !.inst = k]
           e3 == Event("rework_resumed")
           t == Resumed(a, sig, c)
           out == DecideAdvance(Def, acts[a].node, sig, c)
           T == Apply(t, out, a, acts[a].round)
           new == Finished(acts[a], res, "user")
<1>1. Commit(T) /\ Live /\ IsActive(a) /\ sig \in SignalsFor(NodeOf(a).kind)
  BY Zenon DEF Signal, Resumed
<1>2. a \in DOMAIN acts /\ acts[a].status = "active" /\ acts[a] \in Row(inst.def) /\ acts \in Seq(Row(inst.def))
  BY <1>1, SafeRows DEF IsActive
<1>3. Sound(acts, inst.def, t)
  BY <1>1, ResumedSound
<1>4. OutcomeOf(inst.def, out) /\ SerialOutcome(inst.def, out) /\ out # Done
  <2> DEFINE o == DecideAdvance(Defs[inst.def], acts[a].node, sig, c)
  <2>1. out = o /\ Serial(Defs[inst.def]) /\ inst.def \in DOMAIN Defs
    BY SafeRows DEF Def
  <2> HIDE DEF out
  <2>2. OutcomeOf(inst.def, out)
    BY <2>1, SafeRows, AdvanceAnswers
  <2>3. SerialOutcome(inst.def, o) /\ o # Done
    BY <2>1, SerialAdvance
  <2> HIDE DEF o
  <2> QED BY <2>1, <2>2, <2>3
<1>5. j.def = inst.def /\ j.status = inst.status /\ j.current = inst.current /\ j.result = inst.result
      /\ Instance(inst.def, j, Len(acts))
  BY SafeRows DEF Sound, Instance
<1>6. t = IF back THEN Emit(again, e3) ELSE left
  <2>1. [Begin EXCEPT !.inst.ctx = c] = wrote
    BY DEF Begin
  <2>2. Shape(left)
    <3>1. Shape(wrote)
      BY BeginFields, InstanceFields
    <3>2. Shape(heard)
      BY <3>1, EmitFields
    <3>3. Shape(done)
      BY <3>2, FinishFields
    <3> HIDE DEF done, e2
    <3> QED BY <3>3, EmitFields
  <2> HIDE DEF wrote, e1, e2, e3, res
  <2>3. t = IF back THEN Emit([left EXCEPT !.inst.status = "active"], e3) ELSE left
    BY <2>1, Zenon DEF Resumed, e1, e2, e3, res
  <2> HIDE DEF left
  <2>4. [left EXCEPT !.inst.status = "active"] = again
    BY <2>2 DEF Shape
  <2> HIDE DEF again, t
  <2> QED BY <2>3, <2>4, Zenon
<1> DEFINE r == Fold(Fold(replay, e1), e2)
           q == Replaced(acts, a, new)
<1>7. Shape(left) /\ left.inst = j /\ left.acts = q /\ left.replay = r
  <2> HIDE DEF j, e1, e2, res, new
  <2>1. Shape(wrote) /\ wrote.inst = j /\ wrote.acts = acts /\ wrote.replay = replay
    BY BeginFields, InstanceFields
  <2> HIDE DEF wrote
  <2>2. Shape(heard) /\ heard.inst = j /\ heard.acts = acts /\ heard.replay = Fold(replay, e1)
    BY <2>1, EmitFields, EmitReplay
  <2> HIDE DEF heard
  <2>3. Shape(done) /\ done.inst = j /\ done.acts = Replaced(heard.acts, a, Finished(heard.acts[a], res, "user"))
        /\ done.replay = heard.replay
    BY <2>2, FinishFields
  <2> HIDE DEF done
  <2>4. done.acts = q
    BY <2>2, <2>3, Zenon DEF new
  <2> HIDE DEF q
  <2> QED BY <2>2, <2>3, <2>4, EmitFields, EmitReplay
<1>8. Fold(Fold(Projected(inst, acts), e1), e2) = Projected(inst, q)
  <2>1. Fold(Fold(Projected(inst, acts), ActEvent("signalled", a)),
             [type |-> "act_completed", act |-> a, result |-> res]) =
          Projected(inst, Replaced(acts, a, Finished(acts[a], res, "user")))
    <3> HIDE DEF res
    <3> QED BY <1>2, MirrorSignal
  <2> QED BY <2>1, Zenon
<1>9. new.status = "completed"
  BY <1>2, FinishedRow
<1>10. Projected(j, q) = Projected(inst, q)
  <2> HIDE DEF j, q
  <2> QED BY <1>5 DEF Projected
<1>11. e3.type = "rework_resumed"
  BY DEF Event
<1> HIDE DEF left, j, e1, e2, e3, out, q, new, res, t, r
<1>12. /\ k.status = "active" /\ k.def = inst.def /\ k.current = inst.current /\ k.result = inst.result
  BY <1>5, <1>7 DEF Instance
<1>13. back => t.inst = k /\ t.acts = q /\ t.replay = Fold(r, e3)
  <2> HIDE DEF k
  <2>1. Shape(again) /\ again.inst = k /\ again.acts = q /\ again.replay = r
    BY <1>7, InstanceFields
  <2> HIDE DEF again
  <2>2. Emit(again, e3).inst = k /\ Emit(again, e3).acts = q /\ Emit(again, e3).replay = Fold(r, e3)
    BY <2>1, EmitFields, EmitReplay
  <2> QED BY <1>6, <2>2
<1>14. Fold(Projected(inst, q), e3) = Projected(k, q)
  <2> HIDE DEF k
  <2>1. Fold(Projected(inst, q), e3) = [Projected(inst, q) EXCEPT !.status = "active"]
    BY <1>11, FoldArms
  <2>2. k.status # "absent" /\ k.current = inst.current /\ k.result = inst.result
    BY <1>12
  <2>3. [Projected(inst, q) EXCEPT !.status = k.status] = Projected(k, q)
    BY <2>2, MirrorStatus
  <2> QED BY <1>12, <2>1, <2>3, Zenon
<1> HIDE DEF k, again
<1>15. Mirrored(t) /\ t.acts = q /\ t.inst.def = inst.def /\ t.inst.status \in {"active", "returned_waiting"}
       /\ (ReturnsToPeople(Def) => t.inst.status = "active")
  <2>1. Mirrored(Begin) /\ Begin.inst = inst /\ Begin.acts = acts /\ Begin.replay = replay
    BY BeginFields DEF Settled
  <2>2. replay = Projected(inst, acts) => r = Projected(inst, q)
    BY <1>8, Zenon DEF r
  <2>3. CASE back
    <3>1. t.inst = k /\ t.acts = q /\ t.replay = Fold(r, e3)
      BY <1>13, <2>3
    <3>2. replay = Projected(inst, acts) => t.replay = Projected(t.inst, t.acts)
      BY <1>14, <2>2, <3>1, Zenon
    <3>3. t.inst.def = inst.def /\ t.inst.status = "active"
      BY <1>12, <3>1
    <3>4. Mirrored(t)
      BY <2>1, <3>2, <3>3, StillMirrored
    <3> QED BY <3>1, <3>3, <3>4
  <2>4. CASE ~ back
    <3>1. t = left
      BY <1>6, <2>4
    <3>2. t.inst = j /\ t.acts = q /\ t.replay = r
      BY <1>7, <3>1
    <3>3. replay = Projected(inst, acts) => t.replay = Projected(t.inst, t.acts)
      BY <1>10, <2>2, <3>2, Zenon
    <3>4. t.inst.def = inst.def /\ t.inst.status = "active"
      BY <1>1, <1>5, <2>4, <3>2 DEF Live
    <3>5. Mirrored(t)
      BY <2>1, <3>3, <3>4, StillMirrored
    <3> QED BY <3>2, <3>4, <3>5
  <2> QED BY <2>3, <2>4
<1>16. Left(t)
  <2>1. t.acts = Replaced(acts, a, new) /\ new.status # "active"
    BY <1>9, <1>15 DEF q
  <2> QED BY <1>1, <1>15, <2>1, LeavingLeft
<1>17. T.ok => Settled(T)
  BY <1>2, <1>3, <1>4, <1>16, OutcomeSettles
<1> HIDE DEF T
<1> QED BY <1>1, <1>17, CommitSettles

LEMMA OneInit == Init => OneAtATime
<1> SUFFICES ASSUME Init PROVE Settled(Begin)
  BY DEF OneAtATime
<1>1. acts = <<>> /\ replay = EmptyProjection
  BY DEF Init
<1>2. inst.status = "absent" /\ inst.result = "none" /\ inst.current = NoAct
  <2>1. inst \in [status : {"absent"}, def : DOMAIN Defs, result : {"none"}, current : {NoAct},
                  ctx : Ctx, callback : BOOLEAN, executed : {FALSE}]
    BY DEF Init
  <2> QED BY <2>1
<1>3. DOMAIN acts = {} /\ ActiveIn(Begin) = {}
  BY <1>1, BeginFields DEF ActiveIn
<1>4. Image(acts) = <<>>
  BY <1>1, <1>3 DEF Image
<1>5. Projected(inst, acts) = EmptyProjection
  BY <1>2, <1>4 DEF Projected, EmptyProjection
<1>6. Mirrored(Begin)
  BY <1>1, <1>5, BeginFields DEF Mirrored
<1> QED BY <1>2, <1>3, <1>6, BeginFields DEF Settled

LEMMA OneNext == Safe /\ OneAtATime /\ [Next]_vars => OneAtATime'
<1> SUFFICES ASSUME Safe, OneAtATime, [Next]_vars, Serial(Def)' PROVE OneAtATime'
  BY DEF OneAtATime
<1>1. Serial(Def) /\ Settled(Begin)
  <2>1. inst'.def = inst.def
    BY SafeNext
  <2>2. Def' = Def
    BY <2>1 DEF Def
  <2> QED BY <2>2 DEF Serial, OneAtATime
<1>2. CASE Start
  BY <1>1, <1>2, StartSettles
<1>3. CASE Resubmit
  BY <1>1, <1>3, ResubmitSettles
<1>4. ASSUME NEW a \in 1..MaxActs, NEW sig \in JoinIncomingSignals \cup {"rejected", "returned"},
             NEW c \in Ctx, Signal(a, sig, c)
      PROVE  OneAtATime'
  BY <1>1, <1>4, SignalSettles
<1>5. ASSUME NEW a \in 1..MaxActs, NEW who \in {"user", "none"}, Claim(a, who)
      PROVE  OneAtATime'
  BY <1>1, <1>5, ClaimSettles
<1>6. ASSUME NEW a \in 1..MaxActs, NEW kind \in TimerKinds, FireTimer(a, kind)
      PROVE  OneAtATime'
  BY <1>1, <1>6, FireTimerSettles
<1>7. ASSUME NEW a \in 1..MaxActs, NEW type \in OutboxType, Deliver(a, type)
      PROVE  OneAtATime'
  BY <1>1, <1>7, DeliverSettles
<1>8. ASSUME NEW a \in 1..MaxActs, NEW type \in OutboxType, DeadLetter(a, type)
      PROVE  OneAtATime'
  BY <1>1, <1>8, DeadLetterSettles
<1>9. CASE UNCHANGED vars
  <2>1. inst' = inst /\ acts' = acts /\ intents' = intents /\ facts' = facts /\ replay' = replay
    BY <1>9 DEF vars
  <2>2. Begin' = Begin
    BY <2>1 DEF Begin
  <2>3. Settled(Begin')
    BY <1>1, <2>2
  <2> QED BY <2>3 DEF OneAtATime
<1> QED BY <1>2, <1>3, <1>4, <1>5, <1>6, <1>7, <1>8, <1>9 DEF Next

LEMMA SerialInvariant == Spec => [](Safe /\ OneAtATime)
BY SafeInit, SafeNext, OneInit, OneNext, PTL DEF Spec

----------------------------------------------------------------------------
(* Theorems.                                                               *)

\* Whatever a signal, a timer, a delivery or a resubmission does to an instance, its rows
\* stay a sound transaction that did nothing yet.
THEOREM SafeIsInvariant == Spec => []Safe
BY SafeInit, SafeNext, PTL DEF Spec

\* The rows that WorkflowService writes have the shapes that the tables of hetuflow-sqlx
\* give them, for every set of valid definitions: the instance points at one of its own
\* activities, and its activities, joins and fan-outs are of its own definition's nodes.
THEOREM TypeIsInvariant == Spec => []TypeOK
<1>1. Safe => TypeOK
  <2> SUFFICES ASSUME Safe PROVE TypeOK
    OBVIOUS
  <2> DEFINE d == inst.def
  <2>1. /\ Instance(d, inst, Len(acts)) /\ acts \in Seq(Row(d)) /\ FactsOf(d, facts)
        /\ intents \subseteq (1..Len(acts)) \X OutboxType /\ d \in DOMAIN Defs /\ Len(acts) <= MaxActs
    BY DEF Safe, Sound, Rows, Begin
  <2>2. /\ inst.status \in InstStatus /\ inst.result \in Results /\ inst.current \in 0..Len(acts)
        /\ inst.ctx \in Ctx /\ inst.callback \in BOOLEAN /\ inst.executed \in BOOLEAN
    BY <2>1 DEF Instance
  <2>3. \A a \in DOMAIN acts : /\ acts[a].node \in DOMAIN Def.cfg /\ acts[a].status \in ActStatus
                               /\ acts[a].result \in Results /\ acts[a].round \in Nat
                               /\ acts[a].timers \subseteq TimerKinds
    <3> TAKE a \in DOMAIN acts
    <3>1. acts[a] \in Row(d)
      BY <2>1
    <3> QED BY <3>1 DEF Row, Ids, Def
  <2>4. /\ \A f \in facts.fanouts : f.join \in DOMAIN Def.cfg /\ f.round \in Nat /\ f.count \in Nat
        /\ \A f \in facts.satisfied : f.join \in DOMAIN Def.cfg /\ f.round \in Nat
    BY <2>1 DEF FactsOf, Ids, Def
  <2> QED BY <2>1, <2>2, <2>3, <2>4 DEF TypeOK
<1> QED BY <1>1, SafeIsInvariant, PTL

\* complete_instance leaves the business callback, and the outbox dispatcher executes it,
\* only for an approved instance that asked for one; it is never due again afterwards.
THEOREM CallbackIsEarned == Spec => []CallbackAfterApproval
<1>1. Safe => CallbackAfterApproval
  BY DEF Safe, Sound, Begin, Calls, CallbackAfterApproval
<1> QED BY <1>1, SafeIsInvariant, PTL

\* An activity that was completed or skipped is never decided again, by no signal that
\* comes late, no timer, no delivery of the outbox, no join that sweeps its siblings.
THEOREM DecisionsStand == Spec => DecidedOnce
<1>1. Safe /\ [Next]_vars =>
        [\A a \in DOMAIN acts : ~ IsActive(a) =>
           acts'[a].status = acts[a].status /\ acts'[a].result = acts[a].result]_vars
  BY SafeNext DEF Kept, IsActive
<1> QED BY <1>1, SafeIsInvariant, PTL DEF Spec, DecidedOnce

\* A signal, a timeout, a return or a routing error that ends the instance of a serial
\* definition (complete_instance, fail_instance) leaves no activity that still waits.
THEOREM SerialEndsClean == Spec => [](Serial(Def) => NothingLeftOpen)
<1>1. OneAtATime => (Serial(Def) => NothingLeftOpen)
  <2> SUFFICES ASSUME Settled(Begin) PROVE NothingLeftOpen
    BY DEF OneAtATime
  <2>1. ActiveNow = ActiveIn(Begin)
    BY BeginFields DEF ActiveNow, ActiveIn
  <2>2. inst.status \in TerminalStatus => ActiveIn(Begin) = {}
    BY BeginFields DEF Settled, TerminalStatus
  <2> QED BY <2>1, <2>2 DEF NothingLeftOpen
<1> QED BY <1>1, SerialInvariant, PTL

\* An active instance of a serial definition always has its one open activity, and somebody
\* who can act on it, or its timeout or notification is still due; where returns lead to
\* people, so has one that waits for rework.
THEOREM SerialNeverStranded ==
  Spec => [](Serial(Def) /\ (inst.status = "active" \/ ReturnsToPeople(Def)) => NeverStranded)
<1>1. OneAtATime =>
        (Serial(Def) /\ (inst.status = "active" \/ ReturnsToPeople(Def)) => NeverStranded)
  <2> SUFFICES ASSUME Settled(Begin), inst.status = "active" \/ ReturnsToPeople(Def), Live
               PROVE  WaitsForPeople \/ MovesByItself
    BY DEF OneAtATime, NeverStranded
  <2> DEFINE n == Len(acts)
  <2>1. AtWork(Begin)
    BY BeginFields DEF Settled, Live, Def
  <2>2. ActiveIn(Begin) = {n} /\ NodeOf(n).kind \in BranchKinds
        /\ ("timeout" \in TimersOf(NodeOf(n)) => "timeout" \in acts[n].timers)
    BY <2>1, BeginFields DEF AtWork, NodeOf, Def
  <2>3. n \in ActiveNow
    BY <2>2, BeginFields DEF ActiveNow, ActiveIn
  <2>4. NodeOf(n).kind = "event_wait" /\ NodeOf(n).timeout => "timeout" \in TimersOf(NodeOf(n))
    BY DEF TimersOf, TimerKinds
  <2> HIDE DEF n
  <2>5. CASE NodeOf(n).kind \in {"approval", "assignment"}
    BY <2>3, <2>5 DEF WaitsForPeople
  <2>6. CASE NodeOf(n).kind = "event_wait"
    BY <2>2, <2>3, <2>4, <2>6 DEF WaitsForPeople, MovesByItself
  <2>7. CASE NodeOf(n).kind = "notification"
    BY <2>3, <2>7 DEF WaitsForPeople, MovesByItself
  <2> QED BY <2>2, <2>5, <2>6, <2>7 DEF BranchKinds
<1> QED BY <1>1, SerialInvariant, PTL

\* The event log of a serial definition that hands nothing back misses nothing: folded, it
\* is the projection that the tables hold.
THEOREM SerialReplayKeepsUp == Spec => [](Serial(Def) => ReplayKeepsUp)
<1>1. OneAtATime => (Serial(Def) => ReplayKeepsUp)
  <2> SUFFICES ASSUME Settled(Begin), ~ Reworkable(Def), inst.status # "absent"
               PROVE  Agrees(replay, inst, acts)
    BY DEF OneAtATime, ReplayKeepsUp, ReplayMatches
  <2>1. replay = Projected(inst, acts)
    BY BeginFields DEF Settled, Mirrored, Def
  <2> DEFINE p == Image(acts)
  <2>2. replay.status = inst.status /\ replay.current = inst.current /\ replay.result = inst.result
        /\ replay.rows = p
    BY <2>1 DEF Projected
  <2>3. DOMAIN p = DOMAIN acts /\ \A a \in DOMAIN acts : p[a].id = a /\ SameRow(p[a], acts[a])
    BY DEF Image, SameRow
  <2> HIDE DEF p
  <2> QED BY <2>2, <2>3 DEF Agrees
<1> QED BY <1>1, SerialInvariant, PTL

============================================================================

--------------------------- MODULE HetuflowEngine ---------------------------
(***************************************************************************)
(* One workflow instance under hetuflow-service: WorkflowService over the  *)
(* tables of hetuflow-sqlx, deciding with hetuflow-runtime.                *)
(*                                                                         *)
(* Every operation runs in one database transaction of its caller.  A      *)
(* transaction is built as a record t of the rows it would leave, by the   *)
(* service's own steps in their order; an operation that returns an error  *)
(* rolls back, so it is no step (t.ok is FALSE).  Transactions are atomic  *)
(* here.  The event log is kept folded (HetuflowReplay).                   *)
(***************************************************************************)
EXTENDS HetuflowDefinition, HetuflowReplay

CONSTANTS
  Defs,        \* definition name -> definition
  Ctx,         \* contexts an instance may hold
  HardLimit,   \* max_round_hard_limit after its clamp
  MaxActs,     \* bound on the activity rows of the instance
  MaxCascade   \* bound on the outcomes one transaction applies

Results == {"none", "approved", "rejected", "returned", "completed"}

ASSUME EngineAssumption ==
  /\ Ctx # {}
  /\ HardLimit \in 1..20
  /\ MaxActs \in Nat /\ MaxCascade \in Nat
  /\ \A n \in DOMAIN Defs :
       /\ ValidDefinition(Defs[n]) /\ IsNode(Defs[n], DecideStart(Defs[n]))
       /\ NoNode \notin DOMAIN Defs[n].cfg
       /\ Defs[n].nodes \in Seq(DOMAIN Defs[n].cfg) /\ IsList(Defs[n].edges)
       /\ \A id \in DOMAIN Defs[n].cfg :      \* the fields that outcomes carry on
            LET node == Defs[n].cfg[id]
            IN  /\ node.kind = "end" => node.result \in Results
                /\ node.kind = "parallel_split" => node.branches \in Seq(DOMAIN Defs[n].cfg)
                /\ node.kind = "for_each" => node.items \in [Ctx -> Nat]

VARIABLES
  inst,      \* the workflow_instances row
  acts,      \* the activity_instances rows in creation order, each with its pending timers
  intents,   \* outbox rows not settled yet: <<activity, type>>
  facts,     \* what later transactions read back from the event log
  replay     \* the projection the event log folds to

vars == <<inst, acts, intents, facts, replay>>

Def == Defs[inst.def]

InstStatus == {"absent", "active", "returned_waiting", "completed", "errored"}
ActStatus  == {"active", "completed", "skipped"}
TimerKinds == {"reminder", "escalation", "timeout"}
OutboxType == {"notification", "notification_reminder", "notification_escalation", "business_callback"}

\* The rows and what the log keeps have the shapes that the tables give them: the
\* instance points at an existing activity, and timers, fan-outs and joins are of the
\* definition's nodes.
TypeOK ==
  /\ inst.status \in InstStatus
  /\ inst.def \in DOMAIN Defs
  /\ inst.result \in Results
  /\ inst.current \in 0..Len(acts)
  /\ inst.ctx \in Ctx
  /\ inst.callback \in BOOLEAN /\ inst.executed \in BOOLEAN
  /\ Len(acts) <= MaxActs
  /\ \A a \in DOMAIN acts :
       /\ acts[a].node \in DOMAIN Def.cfg
       /\ acts[a].status \in ActStatus
       /\ acts[a].result \in Results
       /\ acts[a].round \in Nat
       /\ acts[a].timers \subseteq TimerKinds
  /\ intents \subseteq (1..Len(acts)) \X OutboxType
  /\ \A f \in facts.fanouts : f.join \in DOMAIN Def.cfg /\ f.round \in Nat /\ f.count \in Nat
  /\ \A f \in facts.satisfied : f.join \in DOMAIN Def.cfg /\ f.round \in Nat

Init ==
  /\ inst \in [status : {"absent"}, def : DOMAIN Defs, result : {"none"}, current : {NoAct},
               ctx : Ctx, callback : BOOLEAN, executed : {FALSE}]
  /\ acts = <<>>
  /\ intents = {}
  /\ facts = [fanouts |-> {}, satisfied |-> {}, refired |-> {}]
  /\ replay = EmptyProjection

----------------------------------------------------------------------------
(* Transactions.                                                           *)

Done == [kind |-> "done"]

Begin == [inst |-> inst, acts |-> acts, intents |-> intents, facts |-> facts, replay |-> replay,
          ok |-> TRUE, todo |-> Done]

\* (The quantifier makes TLC evaluate the transaction once.)
Commit(transaction) ==
  \E t \in {transaction} :
    /\ t.ok /\ Len(t.acts) <= MaxActs
    /\ inst' = t.inst
    /\ acts' = t.acts
    /\ intents' = t.intents
    /\ facts' = t.facts
    /\ replay' = t.replay

Err(t) == [t EXCEPT !.ok = FALSE, !.todo = Done]

Emit(t, e) == [t EXCEPT !.replay = Fold(@, e)]

Event(type)            == [type |-> type]
ActEvent(type, a)      == [type |-> type, act |-> a]
ResultEvent(type, res) == [type |-> type, result |-> res]

MaxRound(t) ==
  IF t.acts = <<>> THEN 0
  ELSE CHOOSE r \in {t.acts[a].round : a \in DOMAIN t.acts} : \A a \in DOMAIN t.acts : r >= t.acts[a].round

\* check_round: the definition's limit, if it declares one, under the framework's.
EffectiveLimit(d) == IF d.maxRound > 0 /\ d.maxRound < HardLimit THEN d.maxRound ELSE HardLimit

----------------------------------------------------------------------------
(* Activities.                                                             *)

\* Mutant of TimersOf: an event wait is scheduled without its timeout.
TimersOfApproval(n) == {k \in {"reminder", "escalation"} : n.kind = "approval" /\ n.sla}

TimersOf(n) ==
  {k \in TimerKinds : \/ k = "reminder"   /\ n.kind = "approval" /\ n.sla
                      \/ k = "escalation" /\ n.kind = "approval" /\ n.escalates
                      \/ k = "timeout"    /\ n.kind = "event_wait" /\ n.timeout}

\* schedule_activity: the row, its event, its timers, a notification's intent.
Schedule(t, id, round, fanout) ==
  LET n == Defs[t.inst.def].cfg[id]
      a == Len(t.acts) + 1
      row == [node |-> id, status |-> "active", result |-> "none", round |-> round,
              role |-> "declared", assignee |-> "none", by |-> "none", timers |-> TimersOf(n)]
      inserted == [t EXCEPT !.acts = Append(@, row),
                            !.intents = IF n.kind = "notification" THEN @ \cup {<<a, "notification">>} ELSE @]
  IN  IF n.kind = "sub_workflow" THEN Err(t)
      ELSE Emit(inserted, [type |-> "scheduled", act |-> a, node |-> id, round |-> round, fanout |-> fanout])

\* update_current_activity holds only for an active instance.
PointAtNewest(t) ==
  [t EXCEPT !.inst.current = IF t.inst.status = "active" THEN Len(t.acts) ELSE @]

ClearCurrent(t) == [t EXCEPT !.inst.current = NoAct]

\* complete_activity_cas and cancel_timers_for_activity on an active row.
Finish(t, a, res, by) ==
  [t EXCEPT !.acts[a] = [@ EXCEPT !.status = "completed", !.result = res, !.by = by, !.timers = {}]]

SkipAct(t, a) == [t EXCEPT !.acts[a] = [@ EXCEPT !.status = "skipped", !.timers = {}]]

ActiveIn(t) == {a \in DOMAIN t.acts : t.acts[a].status = "active"}

\* Mutant of SkipOthers: the skipped siblings leave no event.
SkipOthersSilently(t, src) ==
  [t EXCEPT !.acts = [a \in DOMAIN @ |->
     IF a \in ActiveIn(t) \ {src} THEN [@[a] EXCEPT !.status = "skipped", !.timers = {}] ELSE @[a]]]

\* skip_other_active_activities, with its event only if a row was skipped.
SkipOthers(t, src) ==
  LET others == ActiveIn(t) \ {src}
      skipped == [t EXCEPT !.acts = [a \in DOMAIN @ |->
                    IF a \in others THEN [@[a] EXCEPT !.status = "skipped", !.timers = {}] ELSE @[a]]]
  IN  IF others = {} THEN t ELSE Emit(skipped, Event("rest_skipped"))

----------------------------------------------------------------------------
(* apply_outcome: each step takes the outcome in t.todo and leaves the next *)
(* one.  src is the activity that was left, round its round.               *)

FailInstance(t) ==
  Emit([t EXCEPT !.inst.status = IF @ = "active" THEN "errored" ELSE @, !.todo = Done], Event("errored"))

\* Mutant of CompleteInstance: every result leaves the business callback.
CompleteAndCall(t, res) ==
  IF t.inst.status # "active" THEN Err(t)
  ELSE Emit([t EXCEPT !.inst = [@ EXCEPT !.status = "completed", !.result = res, !.current = NoAct],
                      !.intents = IF t.inst.callback THEN @ \cup {<<Len(t.acts), "business_callback">>} ELSE @,
                      !.todo = Done], ResultEvent("completed", res))

\* complete_instance: an approved instance leaves its business callback to the outbox.
CompleteInstance(t, res) ==
  LET closed == [t EXCEPT !.inst = [@ EXCEPT !.status = "completed", !.result = res, !.current = NoAct],
                          !.intents = IF res = "approved" /\ t.inst.callback
                                      THEN @ \cup {<<Len(t.acts), "business_callback">>} ELSE @,
                          !.todo = Done]
  IN  IF t.inst.status # "active" THEN Err(t) ELSE Emit(closed, ResultEvent("completed", res))

AdvanceTo(t, id, round) ==
  [PointAtNewest(Schedule(t, id, round, FALSE)) EXCEPT !.todo = Done]

\* The rework target gets a row in the next round, and the instance waits for it.
HandBack(t, id) ==
  LET next == MaxRound(t) + 1
      t1   == Schedule(t, id, next, FALSE)
      t2   == [t1 EXCEPT !.inst = [@ EXCEPT !.status = "returned_waiting", !.current = Len(t1.acts)],
                         !.todo = Done]
  IN  IF next > EffectiveLimit(Defs[t.inst.def]) \/ t.inst.status # "active" THEN Err(t)
      ELSE Emit(t2, [type |-> "returned_to_rework", act |-> Len(t1.acts), node |-> id, round |-> next])

\* The latest fan-out count a for_each recorded for this join and round, if any.
Fanouts(t, join, round) == {f \in t.facts.fanouts : f.join = join /\ f.round = round}
Latest(S) == CHOOSE f \in S : \A g \in S : f.at >= g.at

Branches(t, join, round) ==
  LET d == Defs[t.inst.def]
  IN  IF Fanouts(t, join, round) # {}
      THEN {ForEachTemplate(d, join)}
      ELSE {d.edges[i].from : i \in IncomingEdges(d, join)}

\* Mutant of Expected: the static edges count for a for_each too.
ExpectedStatic(t, join, round) == Cardinality(IncomingEdges(Defs[t.inst.def], join))

Expected(t, join, round) ==
  IF Fanouts(t, join, round) # {}
  THEN Latest(Fanouts(t, join, round)).count
  ELSE Cardinality(IncomingEdges(Defs[t.inst.def], join))

\* Mutant of Arrived: branches of every round count.
ArrivedEver(t, join, round) ==
  Cardinality({a \in DOMAIN t.acts : /\ t.acts[a].status = "completed"
                                     /\ t.acts[a].result \notin {"rejected", "returned"}
                                     /\ t.acts[a].node \in Branches(t, join, round)})

\* count_completed_branches
Arrived(t, join, round) ==
  Cardinality({a \in DOMAIN t.acts : /\ t.acts[a].status = "completed"
                                     /\ t.acts[a].result \notin {"rejected", "returned"}
                                     /\ t.acts[a].round = round
                                     /\ t.acts[a].node \in Branches(t, join, round)})

\* try_satisfy_join
TryJoin(t, join, src, round) ==
  LET d == Defs[t.inst.def]
      strategy == d.cfg[join].strategy
      key   == [join |-> join, round |-> round]
      fired == [t EXCEPT !.facts.satisfied = @ \cup {key},
                         !.facts.refired = @ \cup ({key} \cap t.facts.satisfied)]
      swept == IF SkipsRemaining(strategy) THEN SkipOthers(fired, src) ELSE fired
  IN  IF IsSatisfied(strategy, Arrived(t, join, round), Expected(t, join, round))
      THEN [swept EXCEPT !.todo = DecideAdvance(d, join, "approved", t.inst.ctx)]
      ELSE [ClearCurrent(t) EXCEPT !.todo = Done]

\* fan_out: one activity per target; without targets a for_each tries its join at once.
SpreadOut(t, out, round) ==
  LET noted == IF out.join = NoNode THEN t
               ELSE [t EXCEPT !.facts.fanouts =
                       @ \cup {[join |-> out.join, round |-> round, count |-> Len(out.targets),
                                at |-> Cardinality(@)]}]
      start == Emit(ClearCurrent(noted), Event("fanned_out"))
      rows[k \in 0..Len(out.targets)] ==
        IF k = 0 THEN start ELSE Schedule(rows[k - 1], out.targets[k], round, TRUE)
  IN  [rows[Len(out.targets)] EXCEPT !.todo = Done]

ApplyStep(t, src, round) ==
  LET out == t.todo
      d   == Defs[t.inst.def]
  IN  CASE out.kind = "advance" /\ Kind(d, out.node) = "parallel_join" -> TryJoin(t, out.node, src, round)
        [] out.kind = "advance" /\ Kind(d, out.node) # "parallel_join" -> AdvanceTo(t, out.node, round)
        [] out.kind = "multi" ->
             LET spread == SpreadOut(t, out, round)
             IN  IF out.targets = <<>> /\ out.join # NoNode
                 THEN TryJoin(spread, out.join, NoAct, round) ELSE spread
        [] out.kind = "complete" -> CompleteInstance(t, out.result)
        [] out.kind = "rework"   -> HandBack(t, out.node)
        [] out.kind = "error"    -> FailInstance(t)
        [] out.kind = "done"     -> t

\* (Only makes TLC evaluate each step once.)
Only(S) == CHOOSE x \in S : TRUE

Apply(t, outcome, src, round) ==
  LET run[k \in 0..MaxCascade] ==
        IF k = 0 THEN [t EXCEPT !.todo = outcome]
        ELSE Only({ApplyStep(u, src, round) : u \in {run[k - 1]}})
  IN  IF run[MaxCascade].todo = Done THEN run[MaxCascade] ELSE Err(t)

----------------------------------------------------------------------------
(* Operations.                                                             *)

Live == inst.status \in {"active", "returned_waiting"}

IsActive(a) == a \in DOMAIN acts /\ acts[a].status = "active"

NodeOf(a) == Def.cfg[acts[a].node]

\* Enter(t, round): schedule the entry approval and point the instance at it.
Enter(t, round) == PointAtNewest(Schedule(t, DecideStart(Def), round, FALSE))

Start ==
  /\ inst.status = "absent"
  /\ Commit(Enter(Emit([Begin EXCEPT !.inst.status = "active"], Event("started")), 1))

\* resubmit: a completed(returned) instance enters again in a new round.
Resubmit ==
  LET round == MaxRound(Begin) + 1
      t == [Begin EXCEPT !.inst = [@ EXCEPT !.status = "active", !.result = "none"]]
  IN  /\ inst.status = "completed" /\ inst.result = "returned"
      /\ round <= EffectiveLimit(Def)
      /\ Commit(Enter(Emit(t, Event("reactivated")), round))

\* The signals check_signal_against_node lets through.
SignalsFor(kind) ==
  CASE kind = "approval"   -> {"approved", "rejected", "returned"}
    [] kind = "event_wait" -> {"event_received"}
    [] OTHER               -> {"completed"}

SignalResult(sig) == IF sig = "event_received" THEN "none" ELSE sig

\* signal, the graph-moving kinds: a is left with sig, and the context becomes c
\* where its node declares context_writes.
Signal(a, sig, c) ==
  LET wrote   == [Begin EXCEPT !.inst.ctx = c]
      heard   == Emit(wrote, ActEvent("signalled", a))
      left    == Emit(Finish(heard, a, SignalResult(sig), "user"),
                      [type |-> "act_completed", act |-> a, result |-> SignalResult(sig)])
      resumed == IF inst.status = "returned_waiting"
                 THEN Emit([left EXCEPT !.inst.status = "active"], Event("rework_resumed")) ELSE left
  IN  /\ Live /\ IsActive(a)
      /\ sig \in SignalsFor(NodeOf(a).kind)
      /\ c = inst.ctx \/ Writes(NodeOf(a))
      /\ Commit(Apply(resumed, DecideAdvance(Def, acts[a].node, sig, c), a, acts[a].round))

\* signal, claimed and reassigned.
Claim(a, who) ==
  /\ Live /\ IsActive(a)
  /\ NodeOf(a).kind \in {"approval", "assignment"}
  /\ Commit(Emit([Begin EXCEPT !.acts[a].assignee = who],
                 [type |-> "claimed", act |-> a, assignee |-> who]))

\* fire_timer.  The timer is spent even where it has nothing left to do.
Ring(t, a, kind) ==
  CASE kind = "reminder" -> [t EXCEPT !.intents = @ \cup {<<a, "notification_reminder">>}]
    [] kind = "escalation" ->
         Emit([t EXCEPT !.acts[a].role = "escalated",
                        !.intents = @ \cup {<<a, "notification_escalation">>}], ActEvent("escalated", a))
    [] kind = "timeout" ->
         Apply(Emit(SkipAct(t, a), ActEvent("act_skipped", a)),
               DecideEventWaitTimeout(Def, acts[a].node, inst.ctx), a, acts[a].round)

FireTimer(a, kind) ==
  LET fired == [Begin EXCEPT !.acts[a].timers = @ \ {kind}]
  IN  /\ a \in DOMAIN acts /\ kind \in acts[a].timers
      /\ Commit(IF Live /\ IsActive(a) THEN Ring(fired, a, kind) ELSE fired)

\* Mutant of Deliver: the activity's status is not read before it is completed.
DeliverUnchecked(a, type) ==
  LET taken == [Begin EXCEPT !.intents = @ \ {<<a, type>>}]
      left  == Emit(Finish(taken, a, "none", "system"), ActEvent("delivered", a))
  IN  /\ <<a, type>> \in intents
      /\ Commit(CASE type = "notification" /\ Live /\ NodeOf(a).kind = "notification" ->
                       Apply(left, DecideAdvance(Def, acts[a].node, "completed", inst.ctx), a, acts[a].round)
                  [] type = "business_callback" -> [taken EXCEPT !.inst.executed = TRUE]
                  [] OTHER -> taken)

\* The outbox settled an intent (settle_success) and runs its follow-up.
Deliver(a, type) ==
  LET taken == [Begin EXCEPT !.intents = @ \ {<<a, type>>}]
      left  == Emit(Finish(taken, a, "none", "system"), ActEvent("delivered", a))
  IN  /\ <<a, type>> \in intents
      /\ Commit(CASE type = "notification" /\ Live /\ IsActive(a) /\ NodeOf(a).kind = "notification" ->
                       Apply(left, DecideAdvance(Def, acts[a].node, "completed", inst.ctx), a, acts[a].round)
                  [] type = "business_callback" -> [taken EXCEPT !.inst.executed = TRUE]
                  [] OTHER -> taken)

\* on_outbox_dead_letter: the failure is only noted.
DeadLetter(a, type) ==
  /\ <<a, type>> \in intents
  /\ Commit([Begin EXCEPT !.intents = @ \ {<<a, type>>}])

Next ==
  \/ Start
  \/ Resubmit
  \/ \E a \in 1..MaxActs :
       \/ \E sig \in JoinIncomingSignals \cup {"rejected", "returned"}, c \in Ctx : Signal(a, sig, c)
       \/ \E who \in {"user", "none"} : Claim(a, who)
       \/ \E kind \in TimerKinds : FireTimer(a, kind)
       \/ \E type \in OutboxType : Deliver(a, type) \/ DeadLetter(a, type)

Spec == Init /\ [][Next]_vars

----------------------------------------------------------------------------
(* Properties.                                                             *)

ActiveNow == {a \in DOMAIN acts : acts[a].status = "active"}

\* What an instance can wait for in good order: a person, an event without timeout, or a
\* notification that was given up.
WaitsForPeople ==
  \E a \in ActiveNow : \/ NodeOf(a).kind \in {"approval", "assignment"}
                       \/ NodeOf(a).kind = "event_wait" /\ ~ NodeOf(a).timeout
                       \/ NodeOf(a).kind = "notification" /\ <<a, "notification">> \notin intents

\* What the poller and the dispatcher still find of it.
MovesByItself ==
  \E a \in ActiveNow : "timeout" \in acts[a].timers \/ <<a, "notification">> \in intents

\* A live instance is never stranded: whatever timers, deliveries, joins, reworks and
\* resubmissions did, an open activity waits for somebody, or its timer or intent is there.
NeverStranded == Live => WaitsForPeople \/ MovesByItself

\* Once an activity is completed or skipped, no late signal, timer or delivery
\* decides it again.
DecidedOnce ==
  [][\A a \in DOMAIN acts : ~ IsActive(a) =>
       acts'[a].status = acts[a].status /\ acts'[a].result = acts[a].result]_vars

\* The business callback is due or executed only for an approved instance that
\* asked for it, and never due again after it was executed.
CallbackAfterApproval ==
  LET asked == \E i \in intents : i[2] = "business_callback"
  IN  /\ asked \/ inst.executed =>
           inst.callback /\ inst.status = "completed" /\ inst.result = "approved"
      /\ ~ (asked /\ inst.executed)

\* A join lets its instance pass at most once in a round.
JoinFiresOnce == facts.refired = {}

\* A wait_all join fires only when no branch of its round is still at work.
WaitAllIsWhole ==
  [][\A f \in facts'.satisfied \ facts.satisfied :
       Def.cfg[f.join].strategy.mode = "wait_all" =>
         \A a \in DOMAIN acts' :
           acts'[a].round = f.round /\ acts'[a].node \in Branches(Begin, f.join, f.round)
             => acts'[a].status # "active"]_vars

\* The projection rebuilt from the event log is the live one.
ReplayMatches == inst.status # "absent" => Agrees(replay, inst, acts)

\* A definition in which a return leads back to an activity.
Reworkable(d) == \E i \in DOMAIN d.edges : d.edges[i].on = "returned"

\* A definition in which a branch of a split can end the instance, its siblings open.
Abandons(d) ==
  \E s \in NodesOf(d, "parallel_split") :
    \E i \in DOMAIN d.cfg[s].branches : Kind(d, d.cfg[s].branches[i]) = "approval"

\* Where nothing is handed back or left open, the events that signals, timers, deliveries,
\* joins and resubmissions leave are enough to rebuild the projection.
ReplayKeepsUp == ~ Reworkable(Def) /\ ~ Abandons(Def) => ReplayMatches

\* A terminal instance leaves no activity that still waits for somebody, whatever join,
\* timeout or return ended it, where no branch can be rejected beside an open one.
NothingLeftOpen == ~ Abandons(Def) /\ inst.status \in TerminalStatus => ActiveNow = {}

=============================================================================

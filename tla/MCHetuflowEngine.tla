-------------------------- MODULE MCHetuflowEngine --------------------------
(***************************************************************************)
(* Instances of HetuflowEngine for TLC: families of workflow definitions.  *)
(***************************************************************************)
EXTENDS HetuflowEngine, TLC

TwoCtx == {"low", "high"}

(* Nodes. *)
StartNode          == [kind |-> "start"]
EndNode(res)       == [kind |-> "end", result |-> res]
MergeNode          == [kind |-> "merge"]
Approval           == [kind |-> "approval", writes |-> FALSE, sla |-> FALSE, escalates |-> FALSE]
WatchedApproval    == [Approval EXCEPT !.sla = TRUE, !.escalates = TRUE]
WritingApproval    == [Approval EXCEPT !.writes = TRUE]
Assignment         == [kind |-> "assignment", writes |-> FALSE]
Notification       == [kind |-> "notification", writes |-> FALSE]
EventWait(target)  == [kind |-> "event_wait", writes |-> FALSE, timeout |-> target # NoNode, target |-> target]
Condition(c, then, default) ==
  [kind |-> "condition", branches |-> <<[holds |-> {c}, fails |-> {}, target |-> then]>>, default |-> default]
Split(branches)    == [kind |-> "parallel_split", branches |-> branches]
WaitAll            == [mode |-> "wait_all", n |-> 0]
WaitAny            == [mode |-> "wait_any", n |-> 0]
NOfM(n)            == [mode |-> "n_of_m", n |-> n]
Join(strategy)     == [kind |-> "parallel_join", strategy |-> strategy]
ForEach(items, template, join) ==
  [kind |-> "for_each", items |-> items, badItems |-> {}, template |-> template, join |-> join, cap |-> 0]

Edge(from, on, to) == [from |-> from, on |-> on, to |-> to]

----------------------------------------------------------------------------
(* Serial definitions.                                                     *)

\* A watched approval that writes the context, a condition, a second approval that
\* may return to the first, a notification.
Leave ==
  [nodes |-> <<"start", "lead", "size", "boss", "tell", "end">>,
   cfg   |-> "start" :> StartNode @@ "lead" :> [WatchedApproval EXCEPT !.writes = TRUE]
             @@ "size" :> Condition("high", "boss", "tell") @@ "boss" :> Approval
             @@ "tell" :> Notification @@ "end" :> EndNode("none"),
   edges |-> <<Edge("start", "approved", "lead"), Edge("lead", "approved", "size"),
               Edge("boss", "approved", "tell"), Edge("boss", "returned", "lead"),
               Edge("tell", "completed", "end")>>,
   maxRound |-> 2]

\* The same without an edge for "returned": every return completes the instance.
LeaveNoRework == [Leave EXCEPT !.edges = SelectSeq(@, LAMBDA e : e.on # "returned")]

\* An approval, an external event with a timeout, a merge of both ways, an assignment.
Order ==
  [nodes |-> <<"start", "lead", "pay", "remind", "meet", "ship", "end">>,
   cfg   |-> "start" :> StartNode @@ "lead" :> Approval @@ "pay" :> EventWait("remind")
             @@ "remind" :> Notification @@ "meet" :> MergeNode @@ "ship" :> Assignment
             @@ "end" :> EndNode("completed"),
   edges |-> <<Edge("start", "approved", "lead"), Edge("lead", "approved", "pay"),
               Edge("pay", "event_received", "meet"), Edge("remind", "completed", "meet"),
               Edge("meet", "approved", "ship"), Edge("ship", "completed", "end")>>,
   maxRound |-> 0]

SerialDefs == "leave" :> Leave @@ "order" :> Order

----------------------------------------------------------------------------
(* Parallel definitions.                                                   *)

\* Branches that meet in one join, with an assignment behind it.
Fork(strategy, kinds) ==
  LET names == <<"b1", "b2", "b3">>
      ids   == [i \in DOMAIN kinds |-> names[i]]
      node(id) == kinds[CHOOSE i \in DOMAIN kinds : ids[i] = id]
  IN  [nodes |-> <<"start", "lead", "fork">> \o ids \o <<"join", "file", "end">>,
       cfg   |-> "start" :> StartNode @@ "lead" :> Approval @@ "fork" :> Split(ids)
                 @@ [id \in {ids[i] : i \in DOMAIN ids} |-> node(id)]
                 @@ "join" :> Join(strategy) @@ "file" :> Assignment @@ "end" :> EndNode("none"),
       edges |-> <<Edge("start", "approved", "lead"), Edge("lead", "approved", "fork")>>
                 \o [i \in DOMAIN ids |-> Edge(ids[i], CompletionSignal(kinds[i].kind), "join")]
                 \o <<Edge("join", "approved", "file"), Edge("file", "completed", "end")>>,
       maxRound |-> 2]

Machines == <<Assignment, Notification, EventWait(NoNode)>>

ForkDefs == "all" :> Fork(WaitAll, Machines) @@ "any" :> Fork(WaitAny, Machines)
            @@ "two" :> Fork(NOfM(2), Machines)

\* Both branches may return the instance to its lead.
ReworkFork ==
  [Fork(WaitAll, <<Approval, Approval>>) EXCEPT
     !.edges = @ \o <<Edge("b1", "returned", "lead"), Edge("b2", "returned", "lead")>>]

ReworkForkDefs == "rework" :> ReworkFork

\* One assignment per item of the context, then an approval.
Each(strategy) ==
  [nodes |-> <<"start", "lead", "each", "task", "join", "boss", "end">>,
   cfg   |-> "start" :> StartNode @@ "lead" :> WritingApproval
             @@ "each" :> ForEach([c \in TwoCtx |-> IF c = "low" THEN 0 ELSE 2], "task", "join")
             @@ "task" :> Assignment @@ "join" :> Join(strategy) @@ "boss" :> Approval
             @@ "end" :> EndNode("none"),
   edges |-> <<Edge("start", "approved", "lead"), Edge("lead", "approved", "each"),
               Edge("task", "completed", "join"), Edge("join", "approved", "boss"),
               Edge("boss", "approved", "end"), Edge("boss", "returned", "lead")>>,
   maxRound |-> 2]

EachDefs == "each" :> Each(WaitAll)

----------------------------------------------------------------------------
(* Families that a run checks together.                                    *)

\* (An approval beside an assignment: a rejection leaves the assignment open.)
AllDefs ==
  SerialDefs @@ "once" :> LeaveNoRework @@ ForkDefs @@ EachDefs @@ ReworkForkDefs
  @@ "sign" :> Fork(WaitAll, <<[Approval EXCEPT !.sla = TRUE], Assignment>>)

=============================================================================

--------------------------- MODULE MCHetuflowWalk ---------------------------
(***************************************************************************)
(* Drafts for HetuflowWalk: every way to wire a small set of nodes.        *)
(***************************************************************************)
EXTENDS HetuflowWalk, SequencesExt, TLC

TwoCtx == {"low", "high"}

Edge(from, on, to) == [from |-> from, on |-> on, to |-> to]

\* No edge where the choice is NoNode.
EdgesTo(choices) == SelectSeq(choices, LAMBDA e : e.to # NoNode)

Activity(kind) == [kind |-> kind, writes |-> FALSE]

Listed(rest, cfg, edges) ==
  [nodes |-> <<"start", "lead">> \o rest, cfg |-> cfg, edges |-> EdgesTo(edges), maxRound |-> 0]

Draft(cfg, edges) == Listed(SetToSeq(DOMAIN cfg \ {"start", "lead"}), cfg, edges)

Base == "start" :> [kind |-> "start"] @@ "lead" :> [Activity("approval") EXCEPT !.writes = TRUE]
        @@ "end" :> [kind |-> "end", result |-> "none"]

\* An approval, a condition whose guard may fail, a merge, and an event wait with or
\* without a timeout, a timeout target (that nothing else may lead to) and an event edge.
RoutedDrafts ==
  LET cfg(then, fails, default, timeout, target) ==
        Base @@ "size" :> [kind |-> "condition", default |-> default,
                           branches |-> <<[holds |-> {"high"}, fails |-> fails, target |-> then]>>]
             @@ "meet" :> [kind |-> "merge"]
             @@ "pay" :> [kind |-> "event_wait", writes |-> FALSE, timeout |-> timeout, target |-> target]
             @@ "late" :> Activity("assignment")
  IN  {Draft(cfg(then, fails, default, timeout, target),
             <<Edge("start", "approved", "lead"), Edge("lead", "approved", next), Edge("lead", "returned", back),
               Edge("meet", "approved", on), Edge("pay", "event_received", paid),
               Edge("late", "completed", "end")>>) :
         then \in {"meet", "pay", "lead"}, fails \in {{}, {"low"}}, default \in {NoNode, "meet", "end"},
         timeout \in BOOLEAN, target \in {NoNode, "size", "meet", "late"},
         next \in {NoNode, "size", "meet", "pay"}, back \in {NoNode, "size"},
         on \in {NoNode, "size", "end", "start"}, paid \in {NoNode, "meet", "end"}}

\* Routing nodes in a row, as many as the depth guard lets pass and one more.
Row == <<"m1", "m2", "m3", "m4", "m5", "m6", "m7", "m8", "m9">>

RowDrafts ==
  LET after(i, n) == IF i = n THEN "end" ELSE Row[i + 1]
      node(kind, i, n) == IF kind = "merge" THEN [kind |-> kind]
                          ELSE [kind |-> kind, default |-> after(i, n), branches |-> <<>>]
      cfg(kind, n) == Base @@ [m \in {Row[i] : i \in 1..n} |-> node(kind, CHOOSE i \in 1..n : Row[i] = m, n)]
  IN  {Listed(SubSeq(Row, 1, n) \o <<"end">>, cfg(kind, n),
              <<Edge("start", "approved", "lead"), Edge("lead", "approved", "m1")>>
                \o [i \in 1..n |-> Edge(Row[i], "approved", after(i, n))]) :
         kind \in {"merge", "condition"}, n \in {MaxResolveDepth, MaxResolveDepth + 1}}

\* A split with an assignment and an approval, and two joins.
ForkedDrafts ==
  LET all == [mode |-> "wait_all", n |-> 0]
      cfg == Base @@ "fork" :> [kind |-> "parallel_split", branches |-> <<"do", "sign">>]
                  @@ "do" :> Activity("assignment") @@ "sign" :> Activity("approval")
                  @@ "join" :> [kind |-> "parallel_join", strategy |-> all]
                  @@ "other" :> [kind |-> "parallel_join", strategy |-> all]
  IN  {Draft(cfg, <<Edge("start", "approved", "lead"), Edge("lead", "approved", "fork"),
                    Edge("do", "completed", done), Edge("sign", "approved", signed),
                    Edge("sign", "completed", "other"), Edge("do", "approved", "other"),
                    Edge("do", "event_received", "join"), Edge("sign", "event_received", "join"),
                    Edge("join", "approved", on), Edge("other", "approved", "end")>>) :
         done \in {NoNode, "join", "other", "end"}, signed \in {NoNode, "join", "other", "lead"},
         on \in {NoNode, "end", "lead"}}

\* A for_each over assignments, each with an edge for two signals; its items may be no
\* array in one context, and more than its cap in the other.
EachDrafts ==
  LET cfg(bad, cap) == Base @@ "each" :> [kind |-> "for_each", items |-> [c \in TwoCtx |-> IF c = "low" THEN 0 ELSE 2],
                                badItems |-> bad, cap |-> cap, template |-> "task", join |-> "gather"]
                  @@ "task" :> Activity("assignment")
                  @@ "gather" :> [kind |-> "parallel_join", strategy |-> [mode |-> "wait_all", n |-> 0]]
  IN  {Draft(cfg(bad, cap), <<Edge("start", "approved", "lead"), Edge("lead", "approved", "each"),
                    Edge("task", "completed", done), Edge("task", "approved", signed),
                    Edge("gather", "approved", "end")>>) :
         done \in {NoNode, "gather", "end"}, signed \in {NoNode, "gather", "end"},
         bad \in {{}, {"low"}}, cap \in {0, 1}}

WiredDrafts == RoutedDrafts \cup RowDrafts \cup ForkedDrafts \cup EachDrafts

=============================================================================

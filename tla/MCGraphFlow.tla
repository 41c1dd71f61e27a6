----------------------------- MODULE MCGraphFlow -----------------------------
(***************************************************************************)
(* Instances of GraphFlow: a task that asks, a fan-out, an end; with a     *)
(* conditional edge, a chain, jumps, and an edge that leads nowhere.       *)
(***************************************************************************)
EXTENDS GraphFlow, TLC

Edge(from, to, cond) == [from |-> from, to |-> to, cond |-> cond]

Acts(ask, fan, end) == "ask" :> ask @@ "fan" :> fan @@ "end" :> end

G(edges, acts) == [start |-> "ask", tasks |-> {"ask", "fan", "end"}, fans |-> {"fan"}, edges |-> edges, acts |-> acts]

MCGraphs == {
  \* Step by step, back to the question once.
  G(<<Edge("ask", "fan", ""), Edge("fan", "ask", ""), Edge("fan", "end", "ask")>>,
    Acts({"Continue", "WaitForInput"}, {"Continue"}, {"End"})),
  \* In one chain, to a task that does not exist.
  G(<<Edge("ask", "fan", ""), Edge("fan", "end", ""), Edge("end", "nowhere", "")>>,
    Acts({"ContinueAndExecute"}, {"ContinueAndExecute"}, {"Continue"})),
  \* With jumps.
  G(<<Edge("ask", "end", "")>>,
    Acts({"fan", "nowhere"}, {"end", "GoBack"}, {"ContinueAndExecute"})) }

Requests == Permutations(Run) \cup Permutations(Child)

=============================================================================

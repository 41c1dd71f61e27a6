---------------------------- MODULE MCHetuflowTxn ----------------------------
(***************************************************************************)
(* Instances of HetuflowTxn: one event wait or notification, and splits of *)
(* two branches.                                                           *)
(***************************************************************************)
EXTENDS HetuflowTxn, TLC

Of(kinds, join, ends) == [kind |-> kinds, join |-> join, ends |-> ends]

One(kind)    == "a" :> kind
Two(k, l)    == "a" :> k @@ "b" :> l

Cases ==
  {Of(One(kind), "none", FALSE) : kind \in {"event_wait", "notification"}}
  \cup {Of(Two(k, "assignment"), "wait_any", FALSE) : k \in {"event_wait", "notification"}}
  \cup {Of(Two(k, "notification"), "wait_all", ends) : k \in {"assignment", "notification"}, ends \in BOOLEAN}

\* Two requests complete an activity, one claims it.
Requests ==
  "k1" :> [act |-> "a", claims |-> FALSE] @@ "k2" :> [act |-> "b", claims |-> FALSE]
  @@ "k3" :> [act |-> "b", claims |-> TRUE]


Keys == DOMAIN Requests

Sessions == Permutations(Client) \cup Permutations(Worker)

=============================================================================

----------------------- MODULE FusionApplicationProofs -----------------------
(***************************************************************************)
(* Proofs about FusionApplication: what holds however many servers, tasks, *)
(* hooks and plugins there are.                                            *)
(***************************************************************************)
EXTENDS FusionApplication, TLAPS

State == {"idle", "calls", "serves", "asks", "stops", "awaits", "hooks", "hangs", "done", "refused",
          "panicked"}

\* The shapes of the variables of the shutdown.
ClosingTypes ==
  /\ pc \in [Task -> State] /\ line \in Seq(Task) /\ pair \in BOOLEAN
  /\ hooks \in Seq({"ok", "err", "panic", "asks"}) /\ ran \in Seq(Nat)

\* Who awaits the shutdown holds the mutex, and has the pair.
Guarded == \A t \in Task : pc[t] \in {"awaits", "hooks", "hangs"} => Holds(t) /\ ~ pair /\ t \in Waiter

\* From the first hook on no receiver is left, and none can be had.
Emptied == (ran # <<>> \/ \E t \in Task : pc[t] \in {"hooks", "hangs"}) => receivers = {} /\ ~ pair

\* The hooks that have run are the first ones; who returned had run them all.
Numbered == Len(ran) <= Len(hooks) /\ \A i \in DOMAIN ran : ran[i] = i
Finished == \A t \in Waiter : pc[t] = "done" => Len(ran) = Len(hooks)

\* A waiter is never a server, stopped or serving.
Apart == \A t \in Waiter : pc[t] \notin {"serves", "asks", "stops"}

ClosingInv == ClosingTypes /\ Guarded /\ Emptied /\ Numbered /\ Finished /\ Apart

\* At the start nobody has called, and no hook has run.
LEMMA ClosingInit == Init => ClosingInv
  BY ApplicationAssumption
  DEF Init, ClosingInv, ClosingTypes, Guarded, Emptied, Numbered, Finished, Apart, State, Task

\* The queue of the mutex: who holds it keeps it when others queue up, and the queue stays one.
LEMMA Queue ==
  ASSUME NEW S, NEW q \in Seq(S), NEW t \in S
  PROVE  /\ Append(q, t) \in Seq(S) /\ Append(q, t) # <<>>
         /\ q # <<>> => Head(Append(q, t)) = Head(q)
         /\ q # <<>> => Tail(q) \in Seq(S)
<1>1. Append(q, t) \in Seq(S) /\ Len(Append(q, t)) = Len(q) + 1 /\ Len(q) \in Nat
  OBVIOUS
<1>2. Append(q, t) # <<>>
  BY <1>1
<1>3. ASSUME q # <<>> PROVE Head(Append(q, t)) = Head(q) /\ Tail(q) \in Seq(S)
  <2>1. 1 \in 1..Len(q)
    BY <1>1, <1>3
  <2>2. Append(q, t)[1] = q[1]
    BY <2>1
  <2>3. Head(Append(q, t)) = Append(q, t)[1] /\ Head(q) = q[1]
    BY <1>1, <1>2, <1>3
  <2>4. Tail(q) \in Seq(S)
    BY <1>3
  <2> QED BY <2>2, <2>3, <2>4
<1> QED BY <1>1, <1>2, <1>3

\* A list of hooks that have run, and the next one.
LEMMA NextRan ==
  ASSUME NEW r \in Seq(Nat), \A i \in DOMAIN r : r[i] = i
  PROVE  /\ Append(r, Len(r) + 1) \in Seq(Nat) /\ Append(r, Len(r) + 1) # <<>>
         /\ Len(Append(r, Len(r) + 1)) = Len(r) + 1
         /\ \A i \in DOMAIN Append(r, Len(r) + 1) : Append(r, Len(r) + 1)[i] = i
<1> DEFINE q == Append(r, Len(r) + 1)
<1>1. Len(r) \in Nat /\ Len(r) + 1 \in Nat
  OBVIOUS
<1>2. q \in Seq(Nat) /\ Len(q) = Len(r) + 1
  BY <1>1
<1>3. q # <<>>
  BY <1>1, <1>2
<1>4. ASSUME NEW i \in DOMAIN q PROVE q[i] = i
  <2>1. CASE i = Len(r) + 1
    BY <2>1, <1>1
  <2>2. CASE i # Len(r) + 1
    <3>1. i \in 1..Len(r) /\ i \in DOMAIN r
      BY <2>2, <1>1, <1>2
    <3>2. q[i] = r[i]
      BY <3>1
    <3> QED BY <3>1, <3>2
  <2> QED BY <2>1, <2>2
<1> QED BY <1>2, <1>3, <1>4

\* No step of the builder, an adder, a server, a stopper, a waiter or a hook breaks the invariant.
LEMMA ClosingNext == ClosingInv /\ [Next]_vars => ClosingInv'
<1> SUFFICES ASSUME ClosingInv, [Next]_vars PROVE ClosingInv'
  OBVIOUS
<1> USE DEF ClosingInv, ClosingTypes, State
<1>1. CASE UNCHANGED closing
  BY <1>1 DEF closing, Guarded, Emptied, Numbered, Finished, Apart, Holds
<1>2. ASSUME NEW t \in Task, Call(t) PROVE ClosingInv'
  <2>1. ClosingTypes' /\ line' # <<>> /\ (line # <<>> => Head(line') = Head(line))
    BY <1>2, Queue DEF Call
  <2>2. Guarded' /\ Emptied' /\ Numbered' /\ Finished' /\ Apart'
    BY <1>2, <2>1 DEF Call, Guarded, Emptied, Numbered, Finished, Apart, Holds
  <2> QED BY <2>1, <2>2
<1>3. ASSUME NEW t \in Task, Stop(t) PROVE ClosingInv'
  <2>0. t \notin Waiter
    BY <1>3, ApplicationAssumption DEF Stop
  <2>1. /\ pc'[t] \in {"asks", "stops"} /\ pc' \in [Task -> State]
        /\ \A u \in Task : u # t => pc'[u] = pc[u]
    BY <1>3 DEF Stop
  <2>2. line' \in Seq(Task) /\ (line # <<>> => line' # <<>> /\ Head(line') = Head(line))
    <3>1. CASE line' = line
      BY <3>1
    <3>2. CASE line' = Append(line, t)
      BY <3>2, Queue
    <3> QED BY <1>3, <3>1, <3>2 DEF Stop
  <2>3. UNCHANGED <<pair, receivers, hooks, ran>>
    BY <1>3 DEF Stop
  <2>4. Guarded' /\ Emptied' /\ Numbered'
    BY <2>1, <2>2, <2>3 DEF Guarded, Emptied, Numbered, Holds
  <2>5. Finished' /\ Apart'
    BY <2>0, <2>1, <2>3 DEF Finished, Apart, Task
  <2> QED BY <2>1, <2>2, <2>3, <2>4, <2>5
<1>4. ASSUME NEW t \in Task, Shutdown(t) \/ ShutdownRecv(t) \/ IsShutdown(t) \/ FindNothing(t)
      PROVE ClosingInv'
  <2>1. ClosingTypes'
    BY <1>4, Queue DEF Shutdown, ShutdownRecv, IsShutdown, FindNothing, Release, Holds
  <2>2. \A u \in Task : pc[u] \notin {"awaits", "hooks", "hangs"}
    BY <1>4 DEF Shutdown, ShutdownRecv, IsShutdown, FindNothing, Guarded, Holds
  <2>3. /\ UNCHANGED <<pair, hooks, ran>> /\ (~ pair => UNCHANGED receivers)
        /\ pc'[t] \in {"done", "serves", "refused", "stops"} /\ \A u \in Task : u # t => pc'[u] = pc[u]
    BY <1>4 DEF Shutdown, ShutdownRecv, IsShutdown, FindNothing
  <2>4. t \in Waiter => pc'[t] = "refused"
    BY <1>4, ApplicationAssumption DEF Shutdown, ShutdownRecv, IsShutdown, FindNothing, Apart
  <2>5. Guarded' /\ Emptied' /\ Numbered'
    BY <2>2, <2>3 DEF Guarded, Emptied, Numbered
  <2>6. Finished' /\ Apart'
    BY <2>3, <2>4 DEF Finished, Apart, Task
  <2> QED BY <2>1, <2>5, <2>6
<1>5. ASSUME NEW t \in Task, DropReceiver(t) PROVE ClosingInv'
  BY <1>5 DEF DropReceiver, Guarded, Emptied, Numbered, Finished, Apart, Holds
<1>6. ASSUME NEW t \in Task, TakePair(t) PROVE ClosingInv'
  <2>1. ran = <<>> /\ \A u \in Task : pc[u] \notin {"awaits", "hooks", "hangs"}
    BY <1>6 DEF TakePair, Guarded, Emptied
  <2>2. /\ t \in Waiter /\ Holds(t) /\ pc' = [pc EXCEPT ![t] = "awaits"] /\ pair' = FALSE
        /\ UNCHANGED <<line, hooks, ran>>
    BY <1>6 DEF TakePair
  <2>3. ClosingTypes' /\ Guarded' /\ Emptied'
    BY <2>1, <2>2 DEF Guarded, Emptied, Holds
  <2>4. Numbered' /\ Finished' /\ Apart'
    BY <2>2 DEF Numbered, Finished, Apart, Task
  <2> QED BY <2>3, <2>4
<1>7. ASSUME NEW t \in Task, AllStopped(t) PROVE ClosingInv'
  BY <1>7 DEF AllStopped, Guarded, Emptied, Numbered, Finished, Apart, Holds
<1>8. ASSUME NEW t \in Task, RunHook(t) PROVE ClosingInv'
  <2>1. Holds(t) /\ ~ pair /\ receivers = {} /\ t \in Waiter
    BY <1>8 DEF RunHook, Guarded, Emptied
  <2>2. Numbered' /\ ran' \in Seq(Nat) /\ ran' # <<>>
    BY <1>8, NextRan DEF RunHook, Numbered
  <2>3. NextHook \in {"ok", "err", "panic", "asks"}
    BY <1>8 DEF RunHook, NextHook
  <2>4. \/ UNCHANGED <<pc, line>>
        \/ pc' = [pc EXCEPT ![t] = "panicked"] /\ line' = Tail(line)
        \/ pc' = [pc EXCEPT ![t] = "hangs"] /\ UNCHANGED line
    BY <1>8, <2>3 DEF RunHook, Release
  <2>5. pc[t] = "hooks" /\ UNCHANGED <<hooks, pair, receivers>>
    BY <1>8 DEF RunHook
  <2>6. \A u \in Task : u # t => pc[u] \notin {"awaits", "hooks", "hangs"}
    BY <2>1 DEF Guarded, Holds
  <2>7. ClosingTypes'
    BY <2>1, <2>2, <2>4, <2>5, Queue DEF Holds
  <2>8. Guarded' /\ Emptied' /\ Apart'
    BY <2>1, <2>2, <2>4, <2>5, <2>6 DEF Guarded, Emptied, Apart, Holds, Task
  <2>9. Finished'
    BY <1>8, <2>4, <2>5 DEF RunHook, Finished, Task
  <2> QED BY <2>2, <2>7, <2>8, <2>9
<1>9. ASSUME NEW t \in Task, Return(t) PROVE ClosingInv'
  <2>1. Holds(t) /\ ~ pair /\ receivers = {} /\ t \in Waiter
    BY <1>9 DEF Return, Guarded, Emptied
  <2>2. ClosingTypes'
    BY <1>9, <2>1, Queue DEF Return, Release, Holds
  <2>3. \A u \in Task : u # t => pc[u] \notin {"awaits", "hooks", "hangs"}
    BY <2>1 DEF Guarded, Holds
  <2>4. Guarded' /\ Emptied' /\ Numbered' /\ Finished' /\ Apart'
    BY <1>9, <2>1, <2>2, <2>3 DEF Return, Guarded, Emptied, Numbered, Finished, Apart, Task
  <2> QED BY <2>2, <2>4
<1>10. ASSUME NEW a \in Adder, Check(a) \/ Insert(a) PROVE UNCHANGED closing
  BY <1>10 DEF Check, Insert
<1>11. CASE Visit \/ EndRound
  BY <1>1, <1>11 DEF Visit, EndRound
<1> QED
  BY <1>1, <1>2, <1>3, <1>4, <1>5, <1>6, <1>7, <1>8, <1>9, <1>10, <1>11 DEF Next, Proceed, vars

\* The shutdown hooks run in their order, each once, whoever awaits the shutdown and with however
\* many servers, and only after every receiver is gone; await_shutdown that returns has run them
\* all (Application::await_shutdown, run_shutdown_hooks).
THEOREM HooksLast == Spec => []HooksRunLast
<1>1. ClosingInv => HooksRunLast
  BY DEF ClosingInv, Emptied, Numbered, Finished, HooksRunLast
<1> QED BY ClosingInit, ClosingNext, <1>1, PTL DEF Spec

----------------------------------------------------------------------------
(* The component registry.                                                 *)

\* Who is between check and insert beside another one that is, or that has inserted, is crowded,
\* and so is the other one.
AddingInv ==
  /\ adds \in [Adder -> {"idle", "checked", "ok", "refused"}]
  /\ AddedStays
  /\ \A a \in Adder : adds[a] = "ok" => Taken
  /\ \A a, b \in Adder : a # b /\ adds[a] \in {"checked", "ok"} /\ adds[b] = "checked" => a \in crowded

\* No look-up and no insert breaks it.
LEMMA AddingNext == AddingInv /\ [Next]_vars => AddingInv'
<1> SUFFICES ASSUME AddingInv, [Next]_vars PROVE AddingInv'
  OBVIOUS
<1>1. CASE UNCHANGED adding
  BY <1>1 DEF adding, AddingInv, AddedStays, Taken
<1>2. ASSUME NEW a \in Adder, Check(a) PROVE AddingInv'
  BY <1>2, ApplicationAssumption DEF Check, AddingInv, AddedStays, Taken
<1>3. ASSUME NEW a \in Adder, Insert(a) PROVE AddingInv'
  BY <1>3, ApplicationAssumption DEF Insert, AddingInv, AddedStays, Taken
<1>4. ASSUME NEW t \in Task, Call(t) \/ Stop(t) \/ Proceed(t) PROVE UNCHANGED adding
  BY <1>4 DEF Call, Stop, Proceed, Shutdown, ShutdownRecv, IsShutdown, DropReceiver, TakePair,
              FindNothing, AllStopped, RunHook, Return
<1>5. CASE Visit \/ EndRound
  BY <1>1, <1>5 DEF Visit, EndRound
<1> QED BY <1>1, <1>2, <1>3, <1>4, <1>5 DEF Next, vars

\* However many register one component at a time, who was told Ok keeps its component unless it
\* ran beside another one (Application::try_add_component).
THEOREM OkKeepsItsPlace == Spec => []AddedStays
<1>1. Init => AddingInv
  BY DEF Init, AddingInv, AddedStays, Taken
<1>2. AddingInv => AddedStays
  BY DEF AddingInv
<1> QED BY <1>1, <1>2, AddingNext, PTL DEF Spec

----------------------------------------------------------------------------
(* The builder.                                                            *)

Unit == Plugins \cup Derived

\* What the stage at hand is about.
Staged == phase \in {"plugins", "components"}
Stage  == IF phase = "plugins" THEN Plugins ELSE Derived

Distinct(list) == \A i, j \in DOMAIN list : i # j => list[i] # list[j]

\* The shapes of the builder's variables.
BuilderTypes ==
  /\ wiring \in Wirings /\ phase \in {"plugins", "components", "running", "panicked", "failed"}
  /\ built \in Seq(Unit) /\ todo \in Seq(Unit) /\ pending \in Seq(Unit)

\* Each unit of the stage is still to be visited, put off or built, and only one of these; in the
\* stage of the components all plugins are built.
Divided ==
  Staged =>
    /\ ToSet(todo) \cup ToSet(pending) \cup (Built \cap Stage) = Stage
    /\ ToSet(todo) \cap ToSet(pending) = {} /\ (ToSet(todo) \cup ToSet(pending)) \cap Built = {}
    /\ Distinct(todo) /\ Distinct(pending)
    /\ IF phase = "plugins" THEN Built \subseteq Plugins ELSE Plugins \subseteq Built

GivenBy(gives, S) == UNION {gives[p] : p \in S}

\* What is registered is what was built: a plugin's components, or the component itself.
Registered == parts = GivenBy(wiring.gives, Built \cap Plugins) \cup (Built \cap Derived)

\* Nothing that was built registers what something else does, or lacks its configuration.
NoneTwice ==
  /\ \A p, q \in Built \cap Plugins : p # q => wiring.gives[p] \cap wiring.gives[q] = {}
  /\ Built \cap Derived \cap Given = {}
  /\ Built \cap wiring.unset = {}

\* As long as a round has moved nothing, what it has put off still cannot be built.
PutOff == Staged /\ ~ progress => \A u \in ToSet(pending) : ~ Ready(u)

\* Everything was built after what it depends on.
InOrder ==
  \A i \in DOMAIN built :
    LET before == ToSet(SubSeq(built, 1, i - 1))
    IN  IF built[i] \in Plugins THEN wiring.deps[built[i]] \subseteq before
                                ELSE wiring.needs[built[i]] \subseteq before \cup Given

\* Why a build fails.
Refused ==
  \/ Clash \/ wiring.unset # {}
  \/ Buildable(Plugins, wiring.deps, {}) # Plugins
  \/ Buildable(Derived, wiring.needs, Given) # Derived

Ended ==
  /\ phase = "running" => Built = Unit
  /\ phase \in {"panicked", "failed"} => Refused

BuildInv ==
  /\ BuilderTypes /\ Divided /\ Registered /\ NoneTwice /\ PutOff
  /\ Distinct(built) /\ InOrder /\ Ended

\* A list of distinct units without its first one.
LEMMA Rest ==
  ASSUME NEW S, NEW q \in Seq(S), q # <<>>, Distinct(q)
  PROVE  /\ Tail(q) \in Seq(S) /\ Distinct(Tail(q)) /\ Head(q) \in S
         /\ ToSet(q) = ToSet(Tail(q)) \cup {Head(q)} /\ Head(q) \notin ToSet(Tail(q))
<1>1. Len(q) \in Nat \ {0} /\ Head(q) = q[1] /\ DOMAIN q = 1..Len(q)
  OBVIOUS
<1>2. Tail(q) \in Seq(S) /\ Len(Tail(q)) = Len(q) - 1 /\ DOMAIN Tail(q) = 1..(Len(q) - 1)
  BY <1>1
<1>3. \A i \in 1..(Len(q) - 1) : Tail(q)[i] = q[i + 1]
  BY <1>1
<1>4. Distinct(Tail(q))
  <2> SUFFICES ASSUME NEW i \in 1..(Len(q) - 1), NEW j \in 1..(Len(q) - 1), i # j
               PROVE  Tail(q)[i] # Tail(q)[j]
    BY <1>2 DEF Distinct
  <2>1. i + 1 \in DOMAIN q /\ j + 1 \in DOMAIN q /\ i + 1 # j + 1
    BY <1>1
  <2> QED BY <1>3, <2>1 DEF Distinct
<1>5. ToSet(q) = ToSet(Tail(q)) \cup {Head(q)}
  <2>1. ASSUME NEW x \in ToSet(q) PROVE x \in ToSet(Tail(q)) \cup {Head(q)}
    <3>1. PICK i \in 1..Len(q) : q[i] = x
      BY <1>1 DEF ToSet
    <3>2. CASE i = 1
      BY <1>1, <3>1, <3>2
    <3>3. CASE i # 1
      <4>1. i - 1 \in 1..(Len(q) - 1) /\ Tail(q)[i - 1] = q[i]
        BY <1>1, <1>3, <3>3
      <4> QED BY <1>2, <3>1, <4>1 DEF ToSet
    <3> QED BY <3>2, <3>3
  <2>2. ASSUME NEW x \in ToSet(Tail(q)) PROVE x \in ToSet(q)
    <3>1. PICK i \in 1..(Len(q) - 1) : Tail(q)[i] = x
      BY <1>2 DEF ToSet
    <3>2. i + 1 \in DOMAIN q /\ q[i + 1] = x
      BY <1>1, <1>3, <3>1
    <3> QED BY <3>2 DEF ToSet
  <2>3. Head(q) \in ToSet(q)
    BY <1>1 DEF ToSet
  <2> QED BY <2>1, <2>2, <2>3
<1>6. Head(q) \notin ToSet(Tail(q))
  <2> SUFFICES ASSUME NEW i \in 1..(Len(q) - 1), Tail(q)[i] = Head(q) PROVE FALSE
    BY <1>2 DEF ToSet
  <2>1. i + 1 \in DOMAIN q /\ 1 \in DOMAIN q /\ i + 1 # 1 /\ q[i + 1] = q[1]
    BY <1>1, <1>3
  <2> QED BY <2>1 DEF Distinct
<1> QED BY <1>1, <1>2, <1>4, <1>5, <1>6

\* A list with one more unit.
LEMMA OneMore ==
  ASSUME NEW S, NEW q \in Seq(S), NEW u \in S
  PROVE  /\ Append(q, u) \in Seq(S) /\ ToSet(Append(q, u)) = ToSet(q) \cup {u}
         /\ Distinct(q) /\ u \notin ToSet(q) => Distinct(Append(q, u))
<1> DEFINE d == Append(q, u)
<1>1. /\ Len(q) \in Nat /\ d \in Seq(S) /\ DOMAIN d = 1..(Len(q) + 1) /\ DOMAIN q = 1..Len(q)
      /\ d[Len(q) + 1] = u /\ \A i \in 1..Len(q) : d[i] = q[i]
  OBVIOUS
<1> HIDE DEF d
<1>2. \A i \in DOMAIN d : i = Len(q) + 1 \/ i \in DOMAIN q
  BY <1>1
<1>3. Len(q) + 1 \in DOMAIN d /\ \A i \in DOMAIN q : i \in DOMAIN d
  BY <1>1
<1>4. ToSet(d) = ToSet(q) \cup {u}
  <2>1. ASSUME NEW x \in ToSet(d) PROVE x \in ToSet(q) \cup {u}
    BY <1>1, <1>2 DEF ToSet
  <2>2. ASSUME NEW x \in ToSet(q) PROVE x \in ToSet(d)
    BY <1>1, <1>3 DEF ToSet
  <2>3. u \in ToSet(d)
    BY <1>1, <1>3 DEF ToSet
  <2> QED BY <2>1, <2>2, <2>3
<1>5. ASSUME Distinct(q), u \notin ToSet(q) PROVE Distinct(d)
  <2>1. \A i \in DOMAIN q : q[i] # u
    BY <1>5 DEF ToSet
  <2> QED BY <1>1, <1>2, <1>5, <2>1 DEF Distinct
<1> QED BY <1>1, <1>4, <1>5 DEF d

\* What was built before stays before.
LEMMA Before ==
  ASSUME NEW S, NEW q \in Seq(S), NEW u
  PROVE  /\ \A i \in DOMAIN q : SubSeq(Append(q, u), 1, i - 1) = SubSeq(q, 1, i - 1)
         /\ SubSeq(Append(q, u), 1, Len(q)) = q
<1>1. Len(q) \in Nat /\ Len(Append(q, u)) = Len(q) + 1 /\ \A i \in 1..Len(q) : Append(q, u)[i] = q[i]
  OBVIOUS
<1>2. ASSUME NEW i \in DOMAIN q PROVE SubSeq(Append(q, u), 1, i - 1) = SubSeq(q, 1, i - 1)
  OBVIOUS
<1>3. SubSeq(Append(q, u), 1, Len(q)) = q
  OBVIOUS
<1> QED BY <1>2, <1>3

\* Nothing is listed in an empty list.
LEMMA NoneListed == ToSet(<<>>) = {} /\ Distinct(<<>>) /\ \A S : <<>> \in Seq(S)
BY DEF ToSet, Distinct

\* What the assumption says of the wiring at hand.
LEMMA WiringFacts ==
  ASSUME wiring \in Wirings
  PROVE  /\ wiring.plugins \in Seq(Plugins) /\ Distinct(wiring.plugins)
         /\ wiring.derived \in Seq(Derived) /\ Distinct(wiring.derived)
         /\ Plugins \cap Derived = {} /\ wiring.unset \subseteq Derived
<1>1. \A list \in {wiring.plugins, wiring.derived} :
         list \in Seq(ToSet(list)) /\ \A i, j \in DOMAIN list : i # j => list[i] # list[j]
  BY ApplicationAssumption
<1>2. ToSet(wiring.plugins) \cap ToSet(wiring.derived) = {} /\ wiring.unset \subseteq ToSet(wiring.derived)
  BY ApplicationAssumption
<1> QED BY <1>1, <1>2 DEF Plugins, Derived, Distinct

\* At the start all plugins are to be visited.
LEMMA BuildInit == Init => BuildInv
<1> SUFFICES ASSUME Init PROVE BuildInv
  OBVIOUS
<1>1. /\ wiring \in Wirings /\ phase = "plugins" /\ todo = wiring.plugins /\ pending = <<>>
      /\ built = <<>> /\ parts = {}
  BY DEF Init
<1>2. Built = {} /\ ToSet(pending) = {} /\ ToSet(todo) = Plugins /\ Stage = Plugins /\ Distinct(pending)
  BY <1>1, NoneListed DEF Built, Plugins, Stage
<1>3. BuilderTypes
  BY <1>1, WiringFacts, NoneListed DEF BuilderTypes, Unit
<1>4. Divided
  BY <1>1, <1>2, WiringFacts DEF Divided
<1>5. Registered /\ NoneTwice
  BY <1>1, <1>2 DEF Registered, NoneTwice, GivenBy
<1>6. PutOff /\ Distinct(built) /\ InOrder /\ Ended
  BY <1>1, <1>2, NoneListed DEF PutOff, InOrder, Ended
<1> QED BY <1>3, <1>4, <1>5, <1>6 DEF BuildInv

LEMMA InGiven == \A g, S, x : x \in GivenBy(g, S) <=> \E p \in S : x \in g[p]
BY DEF GivenBy

\* Who has registered a component.
LEMMA PartsOf ==
  ASSUME BuildInv, NEW x
  PROVE  /\ x \in parts <=> (\E p \in Built \cap Plugins : x \in wiring.gives[p]) \/ x \in Built \cap Derived
         /\ x \in Given <=> \E p \in Plugins : x \in wiring.gives[p]
<1>1. parts = GivenBy(wiring.gives, Built \cap Plugins) \cup (Built \cap Derived)
  BY DEF BuildInv, Registered
<1>2. Given = GivenBy(wiring.gives, Plugins)
  BY DEF Given, GivenBy
<1> QED BY <1>1, <1>2, InGiven

\* The unit at hand, which is neither built nor put off.
LEMMA AtHand ==
  ASSUME BuildInv, Staged, todo # <<>>
  PROVE  /\ Head(todo) \in Stage /\ Head(todo) \in Unit /\ Head(todo) \notin Built
         /\ Head(todo) \notin ToSet(pending) /\ Head(todo) \notin ToSet(Tail(todo))
         /\ Tail(todo) \in Seq(Unit) /\ Distinct(Tail(todo))
         /\ ToSet(todo) = ToSet(Tail(todo)) \cup {Head(todo)}
<1>1. todo \in Seq(Unit) /\ Distinct(todo)
  BY DEF BuildInv, BuilderTypes, Divided
<1>2. /\ Tail(todo) \in Seq(Unit) /\ Distinct(Tail(todo)) /\ Head(todo) \in Unit
      /\ ToSet(todo) = ToSet(Tail(todo)) \cup {Head(todo)} /\ Head(todo) \notin ToSet(Tail(todo))
  BY <1>1, Rest
<1> QED BY <1>2 DEF BuildInv, Divided

\* A unit that is not ready is put off.
LEMMA VisitOff == ASSUME BuildInv, Visit, ~ Ready(Head(todo)) PROVE BuildInv'
<1> DEFINE u == Head(todo)
<1>1. /\ Staged /\ todo # <<>> /\ pending' = Append(pending, u) /\ todo' = Tail(todo)
      /\ UNCHANGED <<wiring, phase, progress, built, parts>>
  BY DEF Visit, Staged
<1>2. /\ u \in Stage /\ u \in Unit /\ u \notin Built /\ u \notin ToSet(pending)
      /\ u \notin ToSet(todo') /\ todo' \in Seq(Unit) /\ Distinct(todo')
      /\ ToSet(todo) = ToSet(todo') \cup {u}
  BY <1>1, AtHand
<1> HIDE DEF u
<1>3. pending' \in Seq(Unit) /\ ToSet(pending') = ToSet(pending) \cup {u} /\ Distinct(pending')
  BY <1>1, <1>2, OneMore DEF BuildInv, BuilderTypes, Divided
<1>4. Unit' = Unit /\ Stage' = Stage /\ Plugins' = Plugins /\ Derived' = Derived
      /\ Built' = Built /\ Staged' = Staged /\ Given' = Given
  BY <1>1 DEF Unit, Stage, Plugins, Derived, Built, Staged, Given
<1>5. BuilderTypes'
  BY <1>1, <1>2, <1>3, <1>4 DEF BuildInv, BuilderTypes
<1>6. Divided'
  BY <1>1, <1>2, <1>3, <1>4 DEF BuildInv, Divided
<1>7. Registered' /\ NoneTwice' /\ Distinct(built)'
  BY <1>1, <1>4 DEF BuildInv, Registered, NoneTwice
<1>8. PutOff'
  <2> SUFFICES ASSUME ~ progress, NEW v \in ToSet(pending') PROVE ~ Ready(v)'
    BY <1>1 DEF PutOff
  <2>1. ~ Ready(v)
    BY <1>1, <1>3 DEF BuildInv, PutOff, u
  <2> QED BY <1>1, <1>4, <2>1 DEF Ready
<1>9. InOrder'
  BY <1>1, <1>4 DEF BuildInv, InOrder
<1>10. Ended'
  BY <1>1 DEF Ended, Staged
<1> QED BY <1>5, <1>6, <1>7, <1>8, <1>9, <1>10 DEF BuildInv

\* A component that is registered already, or has no configuration, ends the build: two units
\* register the same.
LEMMA VisitRefused ==
  ASSUME BuildInv, Visit, Ready(Head(todo)), Gives(Head(todo)) \cap parts # {} \/ Head(todo) \in wiring.unset
  PROVE  BuildInv'
<1> DEFINE u == Head(todo)
<1>1. /\ Staged /\ todo # <<>> /\ todo' = Tail(todo) /\ phase' \in {"panicked", "failed"}
      /\ UNCHANGED <<wiring, progress, built, parts, pending>>
  BY DEF Visit, Staged
<1>2. u \in Stage /\ u \in Unit /\ u \notin Built /\ todo' \in Seq(Unit)
  BY <1>1, AtHand
<1>3. Unit' = Unit /\ Plugins' = Plugins /\ Derived' = Derived /\ Built' = Built /\ ~ Staged' /\ Given' = Given
  BY <1>1 DEF Unit, Plugins, Derived, Built, Staged, Given
<1>4. BuilderTypes'
  BY <1>1, <1>2, <1>3 DEF BuildInv, BuilderTypes
<1>5. Divided' /\ PutOff'
  BY <1>3 DEF Divided, PutOff
<1>6. Registered' /\ NoneTwice' /\ Distinct(built)'
  BY <1>1, <1>3 DEF BuildInv, Registered, NoneTwice
<1>7. InOrder'
  BY <1>1, <1>3 DEF BuildInv, InOrder
<1>8. Clash \/ wiring.unset # {}
  <2> HIDE DEF u
  <2> SUFFICES ASSUME Gives(u) \cap parts # {} PROVE Clash
    BY DEF u
  <2>1. PICK x \in Gives(u) : x \in parts
    OBVIOUS
  <2>2. CASE phase = "plugins"
    <3>1. u \in Plugins /\ Gives(u) = wiring.gives[u] /\ Built \subseteq Plugins /\ Plugins \cap Derived = {}
      BY <1>1, <1>2, <2>2, WiringFacts DEF Stage, Gives, BuildInv, BuilderTypes, Divided
    <3>2. PICK p \in Built \cap Plugins : x \in wiring.gives[p]
      <4>1. x \notin Built \cap Derived
        BY <3>1
      <4> QED BY <2>1, <4>1, PartsOf
    <3> QED BY <1>2, <2>1, <3>1, <3>2 DEF Clash
  <2>3. CASE phase # "plugins"
    <3>1. u \in Derived /\ x = u
      BY <1>2, <2>1, <2>3 DEF Stage, Gives
    <3>2. u \in parts /\ u \notin Built
      BY <1>2, <2>1, <3>1
    <3>3. u \in Given
      BY <3>2, PartsOf
    <3> QED BY <3>1, <3>3 DEF Clash
  <2> QED BY <2>2, <2>3
<1>9. Ended'
  <2>1. Clash' = Clash
    BY <1>1, <1>3 DEF Clash
  <2> QED BY <1>1, <1>8, <2>1 DEF Ended, Refused
<1> QED BY <1>4, <1>5, <1>6, <1>7, <1>9 DEF BuildInv

\* A unit that is ready is built, and registers what nothing before it did.
LEMMA VisitBuilds ==
  ASSUME BuildInv, Visit, Ready(Head(todo)), Gives(Head(todo)) \cap parts = {}, Head(todo) \notin wiring.unset
  PROVE  BuildInv'
<1> DEFINE u == Head(todo)
<1>1. /\ Staged /\ todo # <<>> /\ todo' = Tail(todo) /\ progress' = TRUE
      /\ built' = Append(built, u) /\ parts' = parts \cup Gives(u)
      /\ UNCHANGED <<wiring, phase, pending>>
  BY DEF Visit, Staged
<1>2. /\ u \in Stage /\ u \in Unit /\ u \notin Built /\ u \notin ToSet(pending)
      /\ u \notin ToSet(todo') /\ todo' \in Seq(Unit) /\ Distinct(todo')
      /\ ToSet(todo) = ToSet(todo') \cup {u}
  BY <1>1, AtHand
<1>3. Ready(u) /\ Gives(u) \cap parts = {} /\ u \notin wiring.unset
  OBVIOUS
<1> HIDE DEF u
<1>4. Unit' = Unit /\ Stage' = Stage /\ Plugins' = Plugins /\ Derived' = Derived
      /\ Staged' = Staged /\ Given' = Given
  BY <1>1 DEF Unit, Stage, Plugins, Derived, Staged, Given
<1>5. built \in Seq(Unit) /\ built' \in Seq(Unit) /\ Built' = Built \cup {u} /\ Distinct(built')
  BY <1>1, <1>2, OneMore DEF BuildInv, BuilderTypes, Built
<1>6. /\ wiring \in Wirings /\ Plugins \cap Derived = {} /\ wiring.unset \subseteq Derived
      /\ u \in Plugins => phase = "plugins" /\ Gives(u) = wiring.gives[u] /\ Built \subseteq Plugins
      /\ u \notin Plugins => phase # "plugins" /\ u \in Derived /\ Gives(u) = {u} /\ Plugins \subseteq Built
  BY <1>1, <1>2, WiringFacts DEF BuildInv, BuilderTypes, Divided, Stage, Gives
<1>7. BuilderTypes'
  BY <1>1, <1>2, <1>4, <1>5 DEF BuildInv, BuilderTypes
<1>8. Divided'
  BY <1>1, <1>2, <1>4, <1>5, <1>6 DEF BuildInv, Divided, Stage
<1>9. Registered'
  <2> DEFINE ps == GivenBy(wiring.gives, Built \cap Plugins)
             qs == GivenBy(wiring.gives, Built' \cap Plugins)
  <2>1. parts = ps \cup (Built \cap Derived)
    BY DEF BuildInv, Registered
  <2>2. CASE u \in Plugins
    <3>1. Built' \cap Plugins = (Built \cap Plugins) \cup {u} /\ Built' \cap Derived = Built \cap Derived
      BY <1>5, <1>6, <2>2
    <3>2. qs = ps \cup wiring.gives[u]
      BY <3>1, InGiven
    <3> HIDE DEF ps, qs
    <3>3. parts' = qs \cup (Built' \cap Derived)
      BY <1>1, <1>6, <2>1, <2>2, <3>1, <3>2
    <3> QED BY <1>1, <1>4, <3>3 DEF Registered, qs
  <2>3. CASE u \notin Plugins
    <3>1. Built' \cap Plugins = Built \cap Plugins /\ Built' \cap Derived = (Built \cap Derived) \cup {u}
      BY <1>5, <1>6, <2>3
    <3>2. qs = ps
      BY <3>1
    <3> HIDE DEF ps, qs
    <3>3. parts' = qs \cup (Built' \cap Derived)
      BY <1>1, <1>6, <2>1, <2>3, <3>1, <3>2
    <3> QED BY <1>1, <1>4, <3>3 DEF Registered, qs
  <2> QED BY <2>2, <2>3
<1>10. NoneTwice'
  <2>1. \A p \in Built \cap Plugins : u \in Plugins =>
           wiring.gives[p] \cap wiring.gives[u] = {} /\ wiring.gives[u] \cap wiring.gives[p] = {}
    BY <1>3, <1>6, PartsOf
  <2>2. \A p, q \in Built' \cap Plugins : p # q => wiring.gives[p] \cap wiring.gives[q] = {}
    BY <1>5, <2>1 DEF BuildInv, NoneTwice
  <2>3. Built' \cap Derived \cap Given = {}
    <3>1. u \in Derived => u \notin Plugins /\ u \notin parts /\ Plugins \subseteq Built
      BY <1>3, <1>6
    <3>2. Plugins \subseteq Built => Given \subseteq parts
      BY PartsOf
    <3> QED BY <1>5, <3>1, <3>2 DEF BuildInv, NoneTwice
  <2>4. Built' \cap wiring.unset = {}
    BY <1>3, <1>5 DEF BuildInv, NoneTwice
  <2> QED BY <1>1, <1>4, <2>2, <2>3, <2>4 DEF NoneTwice
<1>11. PutOff'
  BY <1>1 DEF PutOff
<1>12. InOrder'
  <2> SUFFICES ASSUME NEW i \in DOMAIN built'
               PROVE  LET before == ToSet(SubSeq(built', 1, i - 1))
                      IN  IF built'[i] \in Plugins THEN wiring.deps[built'[i]] \subseteq before
                                                   ELSE wiring.needs[built'[i]] \subseteq before \cup Given
    BY <1>1, <1>4 DEF InOrder
  <2>1. CASE i \in DOMAIN built
    <3>1. SubSeq(built', 1, i - 1) = SubSeq(built, 1, i - 1) /\ built'[i] = built[i]
      BY <1>1, <1>5, <2>1, Before
    <3> QED BY <2>1, <3>1 DEF BuildInv, InOrder
  <2>2. CASE i \notin DOMAIN built
    <3>1. i = Len(built) + 1 /\ built'[i] = u /\ i - 1 = Len(built)
      BY <1>1, <1>5, <2>2
    <3>2. SubSeq(built', 1, Len(built)) = built
      BY <1>1, <1>5, Before
    <3>3. ToSet(SubSeq(built', 1, i - 1)) = Built
      BY <3>1, <3>2 DEF Built
    <3>4. u \in Plugins => wiring.deps[u] \subseteq Built
      BY <1>3, <1>6 DEF Ready
    <3>5. u \notin Plugins => wiring.needs[u] \subseteq Built \cup Given
      <4>1. parts \subseteq Built \cup Given
        BY PartsOf
      <4> QED BY <1>3, <1>6, <4>1 DEF Ready
    <3> QED BY <3>1, <3>3, <3>4, <3>5
  <2> QED BY <2>1, <2>2
<1>13. Ended'
  BY <1>1 DEF Ended, Staged
<1> QED BY <1>5, <1>7, <1>8, <1>9, <1>10, <1>11, <1>12, <1>13 DEF BuildInv

\* A round that built nothing leaves only what cannot be built in any order: what was built is
\* closed under building.
LEMMA RoundStuck ==
  ASSUME BuildInv, Staged, todo = <<>>, pending # <<>>, ~ progress PROVE Refused
<1>1. pending \in Seq(Unit) /\ ToSet(todo) = {}
  BY NoneListed DEF BuildInv, BuilderTypes
<1>2. PICK u \in ToSet(pending) : TRUE
  <2>1. 1 \in DOMAIN pending
    BY <1>1
  <2> QED BY <2>1 DEF ToSet
<1>3. \A v \in Stage \ Built : ~ Ready(v)
  BY <1>1 DEF BuildInv, Divided, PutOff
<1>4. u \in Stage /\ u \notin Built
  BY <1>2 DEF BuildInv, Divided
<1>5. CASE phase = "plugins"
  <2> DEFINE S == Built \cap Plugins
  <2>1. u \in Plugins /\ \A v \in Plugins : wiring.deps[v] \subseteq S \cup {} => v \in S
    BY <1>3, <1>4, <1>5 DEF Stage, Ready
  <2>2. S \in SUBSET Plugins /\ u \notin S
    BY <1>4
  <2> HIDE DEF S
  <2>3. u \notin Buildable(Plugins, wiring.deps, {})
    BY <2>1, <2>2 DEF Buildable
  <2> QED BY <2>1, <2>3 DEF Refused
<1>6. CASE phase # "plugins"
  <2> DEFINE S == Built \cap Derived
  <2>1. Plugins \subseteq Built
    BY <1>6 DEF BuildInv, Divided
  <2>2. parts = Given \cup S
    <3>1. Built \cap Plugins = Plugins
      BY <2>1
    <3>2. \A x : x \in parts <=> x \in Given \cup S
      BY <3>1, PartsOf
    <3> QED BY <3>2
  <2>3. u \in Derived /\ \A v \in Derived : wiring.needs[v] \subseteq S \cup Given => v \in S
    BY <1>3, <1>4, <1>6, <2>2 DEF Stage, Ready
  <2>4. S \in SUBSET Derived /\ u \notin S
    BY <1>4
  <2> HIDE DEF S
  <2>5. u \notin Buildable(Derived, wiring.needs, Given)
    BY <2>3, <2>4 DEF Buildable
  <2> QED BY <2>3, <2>5 DEF Refused
<1> QED BY <1>5, <1>6

\* The round is over.
LEMMA RoundEnds == ASSUME BuildInv, EndRound PROVE BuildInv'
<1>1. /\ Staged /\ todo = <<>> /\ progress' = FALSE /\ pending' = <<>>
      /\ UNCHANGED <<wiring, built, parts>>
      /\ phase \in {"plugins", "components"}
  BY DEF EndRound, Staged
<1>2. Unit' = Unit /\ Plugins' = Plugins /\ Derived' = Derived /\ Built' = Built /\ Given' = Given
  BY <1>1 DEF Unit, Plugins, Derived, Built, Given
<1>3. /\ pending \in Seq(Unit) /\ todo \in Seq(Unit) /\ ToSet(todo) = {}
      /\ ToSet(pending') = {} /\ pending' \in Seq(Unit) /\ Distinct(pending')
  BY <1>1, NoneListed DEF BuildInv, BuilderTypes
<1>4. Registered' /\ NoneTwice' /\ Distinct(built)' /\ InOrder'
  <2>1. Registered' /\ NoneTwice' /\ Distinct(built)'
    BY <1>1, <1>2 DEF BuildInv, Registered, NoneTwice
  <2>2. InOrder'
    BY <1>1, <1>2 DEF BuildInv, InOrder
  <2> QED BY <2>1, <2>2
<1>5. PutOff'
  BY <1>3 DEF PutOff
<1>6. CASE pending # <<>> /\ progress
  <2>1. todo' = pending /\ phase' = phase
    BY <1>6 DEF EndRound
  <2>2. Stage' = Stage /\ Staged' = Staged
    BY <1>2, <2>1 DEF Stage, Staged
  <2>3. BuilderTypes' /\ Divided'
    BY <1>1, <1>2, <1>3, <2>1, <2>2 DEF BuildInv, BuilderTypes, Divided
  <2>4. Ended'
    BY <1>1, <2>1 DEF Ended
  <2> QED BY <1>4, <1>5, <2>3, <2>4 DEF BuildInv
<1>7. CASE pending # <<>> /\ ~ progress
  <2>1. todo' = todo /\ phase' = "panicked"
    BY <1>7 DEF EndRound
  <2>2. ~ Staged'
    BY <2>1 DEF Staged
  <2>3. BuilderTypes' /\ Divided'
    BY <1>1, <1>2, <1>3, <2>1, <2>2 DEF BuildInv, BuilderTypes, Divided
  <2>4. Refused
    BY <1>1, <1>7, RoundStuck DEF BuildInv, BuilderTypes
  <2>5. Ended'
    BY <1>1, <1>2, <2>1, <2>4 DEF Ended, Refused, Clash
  <2> QED BY <1>4, <1>5, <2>3, <2>5 DEF BuildInv
<1>8. CASE pending = <<>> /\ phase = "plugins"
  <2>1. phase' = "components" /\ todo' = wiring.derived
    BY <1>8 DEF EndRound
  <2>2. Stage = Plugins /\ Stage' = Derived /\ Staged' /\ Derived \subseteq Unit
    BY <1>2, <1>8, <2>1 DEF Stage, Staged, Unit
  <2>3. ToSet(pending) = {}
    BY <1>8, NoneListed
  <2>4. Built = Plugins
    BY <1>1, <1>3, <1>8, <2>2, <2>3 DEF BuildInv, Divided
  <2>5. /\ wiring.derived \in Seq(Derived) /\ Distinct(wiring.derived) /\ Plugins \cap Derived = {}
        /\ ToSet(wiring.derived) = Derived
    BY WiringFacts DEF BuildInv, BuilderTypes, Derived
  <2>6. BuilderTypes'
    <3>1. todo' \in Seq(Unit)
      BY <2>1, <2>2, <2>5
    <3> QED BY <1>1, <1>2, <1>3, <2>1, <3>1 DEF BuildInv, BuilderTypes
  <2>7. Divided'
    BY <1>2, <1>3, <2>1, <2>2, <2>4, <2>5 DEF Divided
  <2>8. Ended'
    BY <2>1 DEF Ended
  <2> QED BY <1>4, <1>5, <2>6, <2>7, <2>8 DEF BuildInv
<1>9. CASE pending = <<>> /\ phase # "plugins"
  <2>1. phase' = "running" /\ todo' = todo
    BY <1>9 DEF EndRound
  <2>2. Stage = Derived /\ ~ Staged'
    BY <1>9, <2>1 DEF Stage, Staged
  <2>3. ToSet(pending) = {}
    BY <1>9, NoneListed
  <2>4. Plugins \subseteq Built /\ Derived \subseteq Built
    BY <1>1, <1>3, <1>9, <2>2, <2>3 DEF BuildInv, Divided
  <2>5. Built \subseteq Unit
    BY DEF BuildInv, BuilderTypes, Built, ToSet
  <2>6. BuilderTypes' /\ Divided'
    BY <1>1, <1>2, <1>3, <2>1, <2>2 DEF BuildInv, BuilderTypes, Divided
  <2>7. Ended'
    BY <1>2, <2>1, <2>4, <2>5 DEF Ended, Unit
  <2> QED BY <1>4, <1>5, <2>6, <2>7 DEF BuildInv
<1> QED BY <1>6, <1>7, <1>8, <1>9

\* The invariant holds throughout: nobody but the builder touches what it speaks of.
LEMMA BuildNext == BuildInv /\ [Next]_vars => BuildInv'
<1> SUFFICES ASSUME BuildInv, [Next]_vars PROVE BuildInv'
  OBVIOUS
<1>1. CASE UNCHANGED building
  <2> USE <1>1 DEF building
  <2>1. /\ Unit' = Unit /\ Plugins' = Plugins /\ Derived' = Derived /\ Built' = Built /\ Given' = Given
        /\ Stage' = Stage /\ Staged' = Staged /\ \A u : Ready(u)' = Ready(u)
    BY DEF Unit, Plugins, Derived, Built, Given, Stage, Staged, Ready
  <2>2. BuilderTypes' /\ Divided' /\ Registered' /\ NoneTwice' /\ PutOff' /\ Distinct(built)'
    BY <2>1 DEF BuildInv, BuilderTypes, Divided, Registered, NoneTwice, PutOff
  <2>3. InOrder'
    BY <2>1 DEF BuildInv, InOrder
  <2>4. Ended'
    BY <2>1 DEF BuildInv, Ended, Refused, Clash
  <2> QED BY <2>2, <2>3, <2>4 DEF BuildInv
<1>2. ASSUME NEW a \in Adder, Check(a) \/ Insert(a) PROVE UNCHANGED building
  BY <1>2 DEF Check, Insert
<1>3. ASSUME NEW t \in Task, Call(t) \/ Stop(t) \/ Proceed(t) PROVE UNCHANGED building
  BY <1>3 DEF Call, Stop, Proceed, Shutdown, ShutdownRecv, IsShutdown, DropReceiver, TakePair,
              FindNothing, AllStopped, RunHook, Return
<1>4. CASE Visit
  BY <1>4, VisitOff, VisitRefused, VisitBuilds
<1> QED BY <1>1, <1>2, <1>3, <1>4, RoundEnds DEF Next, vars

\* For any plugins, components and dependencies, and whatever order the maps yield them in, the
\* rounds build each unit once after all that it depends on, and fail exactly when there is no
\* such order or something would be registered twice (ApplicationBuilder::build).
THEOREM RoundsBuild == Spec => []BuildsWhatCanBeBuilt
<1>1. BuildInv => BuildsWhatCanBeBuilt
  <2> SUFFICES ASSUME BuildInv PROVE BuildsWhatCanBeBuilt
    OBVIOUS
  <2>1. \A i \in DOMAIN built : \A j \in DOMAIN built : i # j => built[i] # built[j]
    BY DEF BuildInv, Distinct
  <2>2. phase = "running" => Built = Plugins \cup Derived /\ ~ Clash /\ wiring.unset = {}
    <3> SUFFICES ASSUME phase = "running" PROVE Built = Plugins \cup Derived /\ ~ Clash /\ wiring.unset = {}
      OBVIOUS
    <3>1. Built = Plugins \cup Derived
      BY DEF BuildInv, Ended, Unit
    <3>2. ~ Clash
      BY <3>1 DEF BuildInv, NoneTwice, Clash
    <3>3. wiring.unset \subseteq Derived
      BY WiringFacts DEF BuildInv, BuilderTypes
    <3> QED BY <3>1, <3>2, <3>3 DEF BuildInv, NoneTwice
  <2> QED BY <2>1, <2>2 DEF BuildInv, InOrder, Ended, Refused, BuildsWhatCanBeBuilt
<1> QED BY <1>1, BuildInit, BuildNext, PTL DEF Spec

=============================================================================

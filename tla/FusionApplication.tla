-------------------------- MODULE FusionApplication --------------------------
(***************************************************************************)
(* The application of fusion-core: ApplicationBuilder::build with its      *)
(* plugins and derived components, and then the shared Application: its    *)
(* component registry and its shutdown.                                    *)
(*                                                                         *)
(* Plugins and components are reduced to what they depend on and what they *)
(* register, tasks to their calls of the application.  The shutdown pair   *)
(* lies behind a mutex that serves its callers in their order; the guard   *)
(* of await_shutdown lives until the hooks have run.                       *)
(***************************************************************************)
EXTENDS Naturals, SequencesExt

CONSTANTS
  Wirings,    \* what Init chooses from: [plugins, deps, gives, derived, needs, unset]
  HookLists,  \* sequences of hooks: "ok", "err", "panic" or "asks"
  Server,     \* tasks that take a shutdown receiver and serve until the signal
  Stopper,    \* tasks that call shutdown
  Waiter,     \* tasks that call await_shutdown
  Adder       \* tasks that call try_add_component, all with the same component type

Task == Server \cup Stopper \cup Waiter

App == "app"       \* the application, which holds a receiver itself
None == "none"     \* no adder

ASSUME ApplicationAssumption ==
  /\ Server \cap Stopper = {} /\ Server \cap Waiter = {} /\ Stopper \cap Waiter = {}
  /\ None \notin Adder
  /\ \A list \in HookLists : list \in Seq({"ok", "err", "panic", "asks"})
  /\ \A w \in Wirings :       \* each plugin and each component type is listed once
       /\ \A list \in {w.plugins, w.derived} :
            list \in Seq(ToSet(list)) /\ \A i, j \in DOMAIN list : i # j => list[i] # list[j]
       /\ ToSet(w.plugins) \cap ToSet(w.derived) = {}
       /\ w.unset \subseteq ToSet(w.derived)

VARIABLES
  wiring, phase,                    \* the builder
  todo, pending, progress, built,   \* its rounds: to_register, next_round; what was built, in order
  parts,                            \* components that are registered
  pair, signalled, receivers,       \* the shutdown pair; who holds a receiver
  line,                             \* callers of the mutex; the first holds it
  pc, curious,                      \* tasks; servers that ask for the pair before they stop
  hooks, ran,                       \* the hooks, and which of them have been run
  adds, owner, crowded              \* adders, whose component is registered, who met another adder

building == <<wiring, phase, todo, pending, progress, built, parts>>
closing  == <<pair, signalled, receivers, line, pc, curious, hooks, ran>>
adding   == <<adds, owner, crowded>>
vars     == <<building, closing, adding>>

TypeOK ==
  /\ hooks \in HookLists /\ ToSet(todo) \cup ToSet(pending) \subseteq ToSet(wiring.plugins) \cup ToSet(wiring.derived)
  /\ phase \in {"plugins", "components", "running", "panicked", "failed"}
  /\ progress \in BOOLEAN /\ pair \in BOOLEAN /\ signalled \in BOOLEAN
  /\ receivers \subseteq Server \cup {App}
  /\ \A i \in DOMAIN line : line[i] \in Task
  /\ \A t \in Task : pc[t] \in {"idle", "calls", "serves", "asks", "stops", "awaits", "hooks", "hangs",
                                "done", "refused", "panicked"}
  /\ adds \in [Adder -> {"idle", "checked", "ok", "refused"}] /\ owner \in Adder \cup {None}

\* Plugins added to the builder, in the order in which its map yields them.
Init ==
  /\ wiring \in Wirings /\ phase = "plugins"
  /\ todo = wiring.plugins /\ pending = <<>> /\ progress = FALSE /\ built = <<>> /\ parts = {}
  /\ pair = TRUE /\ signalled = FALSE /\ receivers = {App} /\ line = <<>>
  /\ pc = [t \in Task |-> "idle"] /\ curious \in SUBSET Server
  /\ hooks \in HookLists /\ ran = <<>>
  /\ adds = [a \in Adder |-> "idle"] /\ owner = None /\ crowded = {}

----------------------------------------------------------------------------
(* ApplicationBuilder::build.                                              *)

Built == ToSet(built)

\* Mutant of Ready: one of the dependencies is enough.
ReadyAny(u) ==
  LET needs == IF phase = "plugins" THEN wiring.deps[u] ELSE wiring.needs[u]
      there == IF phase = "plugins" THEN Built ELSE parts
  IN  needs = {} \/ needs \cap there # {}

\* Every plugin that u depends on is built, or every component registered.
Ready(u) == IF phase = "plugins" THEN wiring.deps[u] \subseteq Built ELSE wiring.needs[u] \subseteq parts

\* What a plugin's build or a component's installation registers.
Gives(u) == IF phase = "plugins" THEN wiring.gives[u] ELSE {u}

\* The next plugin or component of the round.  add_component panics in a plugin when the type
\* is registered already; the installation of a derived component returns that error, or that
\* its configuration is not set.
Visit ==
  /\ phase \in {"plugins", "components"} /\ todo # <<>>
  /\ LET u == Head(todo)
     IN  IF ~ Ready(u)
         THEN pending' = Append(pending, u) /\ UNCHANGED <<phase, progress, built, parts>>
         ELSE IF Gives(u) \cap parts # {} \/ u \in wiring.unset
         THEN phase' = (IF phase = "plugins" THEN "panicked" ELSE "failed")
              /\ UNCHANGED <<pending, progress, built, parts>>
         ELSE /\ built' = Append(built, u) /\ parts' = parts \cup Gives(u) /\ progress' = TRUE
              /\ UNCHANGED <<phase, pending>>
  /\ todo' = Tail(todo)
  /\ UNCHANGED <<wiring, closing, adding>>

\* The round is over: another one, the next stage, or a panic when nothing moved.
EndRound ==
  /\ phase \in {"plugins", "components"} /\ todo = <<>>
  /\ progress' = FALSE /\ pending' = <<>>
  /\ CASE pending # <<>> /\ progress   -> todo' = pending /\ UNCHANGED phase
       [] pending # <<>> /\ ~ progress -> phase' = "panicked" /\ UNCHANGED todo
       [] pending = <<>> ->
            IF phase = "plugins" THEN phase' = "components" /\ todo' = wiring.derived
                                 ELSE phase' = "running" /\ UNCHANGED todo
  /\ UNCHANGED <<wiring, built, parts, closing, adding>>

----------------------------------------------------------------------------
(* Application::try_add_component on the shared application.               *)

Taken == owner # None

\* Mutant of Check: the name is not looked up.
CheckNothing(a) ==
  /\ phase = "running" /\ adds[a] = "idle"
  /\ adds' = [adds EXCEPT ![a] = "checked"]
  /\ UNCHANGED <<building, closing, owner, crowded>>

\* contains_key.
Check(a) ==
  /\ phase = "running" /\ adds[a] = "idle"
  /\ adds' = [adds EXCEPT ![a] = IF Taken THEN "refused" ELSE "checked"]
  /\ LET others == {b \in Adder : adds[b] = "checked"}
     IN  crowded' = IF Taken \/ others = {} THEN crowded ELSE crowded \cup others \cup {a}
  /\ UNCHANGED <<building, closing, owner>>

\* insert, which replaces.
Insert(a) ==
  /\ adds[a] = "checked"
  /\ adds' = [adds EXCEPT ![a] = "ok"] /\ owner' = a
  /\ UNCHANGED <<building, closing, crowded>>

----------------------------------------------------------------------------
(* The mutex over the shutdown pair.                                       *)

Holds(t) == line # <<>> /\ Head(line) = t

\* A call that locks the pair.
Call(t) ==
  /\ phase = "running" /\ pc[t] = "idle"
  /\ pc' = [pc EXCEPT ![t] = "calls"] /\ line' = Append(line, t)
  /\ UNCHANGED <<building, adding, pair, signalled, receivers, curious, hooks, ran>>

Release == line' = Tail(line)

\* Application::shutdown.
Shutdown(t) ==
  /\ t \in Stopper /\ pc[t] = "calls" /\ Holds(t)
  /\ signalled' = (signalled \/ pair)
  /\ pc' = [pc EXCEPT ![t] = "done"] /\ Release
  /\ UNCHANGED <<building, adding, pair, receivers, curious, hooks, ran>>

\* Application::shutdown_recv.
ShutdownRecv(t) ==
  /\ t \in Server /\ pc[t] = "calls" /\ Holds(t)
  /\ pc' = [pc EXCEPT ![t] = IF pair THEN "serves" ELSE "refused"]
  /\ receivers' = IF pair THEN receivers \cup {t} ELSE receivers
  /\ Release
  /\ UNCHANGED <<building, adding, pair, signalled, curious, hooks, ran>>

\* The signal, or an end of its own, stops a server; a curious one asks is_shutdown first.
Stop(t) ==
  /\ t \in Server /\ pc[t] = "serves"
  /\ IF t \in curious THEN pc' = [pc EXCEPT ![t] = "asks"] /\ line' = Append(line, t)
                      ELSE pc' = [pc EXCEPT ![t] = "stops"] /\ UNCHANGED line
  /\ UNCHANGED <<building, adding, pair, signalled, receivers, curious, hooks, ran>>

\* Application::is_shutdown.
IsShutdown(t) ==
  /\ pc[t] = "asks" /\ Holds(t)
  /\ pc' = [pc EXCEPT ![t] = "stops"] /\ Release
  /\ UNCHANGED <<building, adding, pair, signalled, receivers, curious, hooks, ran>>

DropReceiver(t) ==
  /\ pc[t] = "stops"
  /\ pc' = [pc EXCEPT ![t] = "done"] /\ receivers' = receivers \ {t}
  /\ UNCHANGED <<building, adding, pair, signalled, line, curious, hooks, ran>>

----------------------------------------------------------------------------
(* Application::await_shutdown.                                            *)

\* Mutant of TakePair: the application keeps its own receiver.
TakePairOnly(t) ==
  /\ t \in Waiter /\ pc[t] = "calls" /\ Holds(t) /\ pair
  /\ pair' = FALSE /\ pc' = [pc EXCEPT ![t] = "awaits"]
  /\ UNCHANGED <<building, adding, receivers, signalled, line, curious, hooks, ran>>

\* The pair is taken, the receiver of the application dropped; the guard stays.
TakePair(t) ==
  /\ t \in Waiter /\ pc[t] = "calls" /\ Holds(t) /\ pair
  /\ pair' = FALSE /\ receivers' = receivers \ {App}
  /\ pc' = [pc EXCEPT ![t] = "awaits"]
  /\ UNCHANGED <<building, adding, signalled, line, curious, hooks, ran>>

\* Another await_shutdown came first.
FindNothing(t) ==
  /\ t \in Waiter /\ pc[t] = "calls" /\ Holds(t) /\ ~ pair
  /\ pc' = [pc EXCEPT ![t] = "refused"] /\ Release
  /\ UNCHANGED <<building, adding, pair, signalled, receivers, curious, hooks, ran>>

\* ShutdownSend::await_shutdown: every receiver is gone.
AllStopped(t) ==
  /\ pc[t] = "awaits" /\ receivers = {}
  /\ pc' = [pc EXCEPT ![t] = "hooks"]
  /\ UNCHANGED <<building, adding, pair, signalled, receivers, line, curious, hooks, ran>>

NextHook == hooks[Len(ran) + 1]

\* Mutant of RunHook: the first hook that fails ends the loop.
RunHookStrict(t) ==
  /\ pc[t] = "hooks" /\ Len(ran) < Len(hooks)
  /\ ran' = Append(ran, Len(ran) + 1)
  /\ IF NextHook \in {"err", "panic"} THEN pc' = [pc EXCEPT ![t] = "done"] /\ Release
                                      ELSE UNCHANGED <<pc, line>>
  /\ UNCHANGED <<building, adding, pair, signalled, receivers, curious, hooks>>

\* The next hook: it ends, with Ok or an error; it panics, and with it the caller of
\* await_shutdown; or it asks the application it was given about its shutdown, and waits for
\* the guard that its own caller holds.
RunHook(t) ==
  /\ pc[t] = "hooks" /\ Len(ran) < Len(hooks)
  /\ ran' = Append(ran, Len(ran) + 1)
  /\ CASE NextHook \in {"ok", "err"} -> UNCHANGED <<pc, line>>
       [] NextHook = "panic" -> pc' = [pc EXCEPT ![t] = "panicked"] /\ Release
       [] NextHook = "asks"  -> pc' = [pc EXCEPT ![t] = "hangs"] /\ UNCHANGED line
  /\ UNCHANGED <<building, adding, pair, signalled, receivers, curious, hooks>>

Return(t) ==
  /\ pc[t] = "hooks" /\ Len(ran) = Len(hooks)
  /\ pc' = [pc EXCEPT ![t] = "done"] /\ Release
  /\ UNCHANGED <<building, adding, pair, signalled, receivers, curious, hooks, ran>>

----------------------------------------------------------------------------

\* What a task does that is in a call.
Proceed(t) ==
  \/ Shutdown(t) \/ ShutdownRecv(t) \/ IsShutdown(t) \/ DropReceiver(t)
  \/ TakePair(t) \/ FindNothing(t) \/ AllStopped(t) \/ RunHook(t) \/ Return(t)

Next ==
  \/ Visit \/ EndRound
  \/ \E a \in Adder : Check(a) \/ Insert(a)
  \/ \E t \in Task : Call(t) \/ Stop(t) \/ Proceed(t)

Spec == Init /\ [][Next]_vars

\* The runtime runs tasks that can go on, and a server stops once it is told to.
FairSpec ==
  /\ Spec
  /\ \A t \in Task : WF_vars(Proceed(t)) /\ WF_vars(signalled /\ Stop(t))

----------------------------------------------------------------------------
(* Properties.                                                             *)

\* What can be built in some order: what is in every set that has each unit all of whose
\* dependencies it has.
Buildable(units, needs, given) ==
  {u \in units : \A S \in SUBSET units :
     (\A v \in units : needs[v] \subseteq S \cup given => v \in S) => u \in S}

Plugins == ToSet(wiring.plugins)
Derived == ToSet(wiring.derived)
Given   == UNION {wiring.gives[p] : p \in Plugins}

\* Two units register the same component.
Clash ==
  \/ Given \cap Derived # {}
  \/ \E p, q \in Plugins : p # q /\ wiring.gives[p] \cap wiring.gives[q] # {}

\* In whatever order the maps yield plugins and components, the rounds end with each of them
\* built once after all it depends on, exactly when there is such an order and no component is
\* registered twice; a cycle or a missing dependency panics instead of looping.
BuildsWhatCanBeBuilt ==
  /\ \A i \in DOMAIN built : \A j \in DOMAIN built : i # j => built[i] # built[j]
  /\ \A i \in DOMAIN built :
       LET before == ToSet(SubSeq(built, 1, i - 1))
       IN  IF built[i] \in Plugins THEN wiring.deps[built[i]] \subseteq before
                                   ELSE wiring.needs[built[i]] \subseteq before \cup Given
  /\ phase = "running" => Built = Plugins \cup Derived /\ ~ Clash /\ wiring.unset = {}
  /\ phase \in {"panicked", "failed"} =>
       \/ Clash \/ wiring.unset # {}
       \/ Buildable(Plugins, wiring.deps, {}) # Plugins
       \/ Buildable(Derived, wiring.needs, Given) # Derived

\* An adder that was told Ok keeps its component, and only one is told so, unless another
\* one was between its check and its insert at the same time.
AddedStays == \A a \in Adder : adds[a] = "ok" => owner = a \/ a \in crowded

\* The hooks run in their order, each once, whoever awaits the shutdown, and only after every
\* receiver is gone; await_shutdown returns true after the last one, though some failed.
HooksRunLast ==
  /\ \A i \in DOMAIN ran : ran[i] = i
  /\ ran # <<>> => receivers = {} /\ ~ pair
  /\ \A t \in Waiter : pc[t] = "done" => Len(ran) = Len(hooks)

\* The guard of t is kept from somebody who has to end first: a server that asks about the
\* shutdown while t awaits it, or a hook that does.
HoldsUp(t) == pc[t] = "hangs" \/ (pc[t] = "awaits" /\ \E s \in Server : pc[s] = "asks")

\* A shutdown that is signalled before it is awaited ends, unless somebody who has to end first
\* waits for the guard of await_shutdown.
ShutdownEnds ==
  \A t \in Waiter : pc[t] = "awaits" /\ signalled ~> pc[t] \in {"done", "panicked"} \/ HoldsUp(t)

=============================================================================

------------------------ MODULE MCFusionApplication ------------------------
(***************************************************************************)
(* Instances of FusionApplication for TLC.                                 *)
(***************************************************************************)
EXTENDS FusionApplication, TLC

\* Three plugins with every dependency among them and on one that is missing, in one order;
\* derived components that need one another or what a plugin gives.
Three == <<"db", "rpc", "api">>

Wiring(deps, gives, needs, unset) ==
  [plugins |-> Three, deps |-> deps, gives |-> gives, derived |-> <<"Users", "Auth">>,
   needs |-> needs, unset |-> unset]

Gives0 == "db" :> {"Db"} @@ "rpc" :> {} @@ "api" :> {"Router"}
Needs0 == "Users" :> {"Auth"} @@ "Auth" :> {"Db"}
Chain  == "db" :> {} @@ "rpc" :> {"api"} @@ "api" :> {"db"}

Needs == [{"Users", "Auth"} -> SUBSET {"Users", "Auth", "Db", "Cache"}]
Deps  == [{"db", "rpc", "api"} -> SUBSET {"db", "rpc", "api"}] \cup {[Chain EXCEPT !["db"] = {"tls"}]}

\* Every way in which plugins or components cannot be built, two clashes, a configuration that
\* is not set, and an application that can.
AllWirings ==
  {Wiring(deps, Gives0, Needs0, {}) : deps \in {d \in Deps : Buildable(ToSet(Three), d, {}) # ToSet(Three)}}
  \cup {Wiring(Chain, Gives0, needs, {}) :
          needs \in {n \in Needs : Buildable({"Users", "Auth"}, n, {"Db", "Router"}) # {"Users", "Auth"}}}
  \cup {Wiring(Chain, [Gives0 EXCEPT !["rpc"] = {"Db"}], Needs0, {}),
         Wiring(Chain, [Gives0 EXCEPT !["rpc"] = {"Auth"}], Needs0, {}),
         Wiring(Chain, Gives0, Needs0, {"Auth"}),
         Wiring(Chain, Gives0, Needs0, {})}

Hooks == {<<"err", "ok">>, <<"ok", "asks">>, <<"panic", "ok">>}

=============================================================================

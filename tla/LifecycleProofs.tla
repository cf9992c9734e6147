-------------------------- MODULE LifecycleProofs --------------------------
(***************************************************************************)
(* The process on its signals, proved for any number of requests, edits of *)
(* the file and connections, and any timeouts.                             *)
(*                                                                         *)
(* Reload: because the router is stored first and loaded last, a request   *)
(* that has loaded its config will find a router at least as new, and an   *)
(* attempt ends, or leaks, on the router it has started on (ReloadInv).    *)
(*                                                                         *)
(* Shutdown: a request in a drain is no younger than the drain, because a  *)
(* connection that has not been told can take one only while the clock     *)
(* still stands where the drain began; and no timer is overdue (ServerInv).*)
(***************************************************************************)
EXTENDS ConfigReload, Server, FiniteSetTheorems, TLAPS

-----------------------------------------------------------------------------
(* Reload. *)

(* ReloadInv without the counts. *)
Ordered ==
  /\ RTypeOK
  /\ Settled
  /\ InOrder
  /\ RoutesNeverOlder

(***************************************************************************)
(* At the start everything is of generation 0 and nothing is under way.    *)
(***************************************************************************)
LEMMA ReloadInit == RInit => ReloadInv
<1> SUFFICES ASSUME RInit PROVE ReloadInv
  OBVIOUS
<1>1. Ordered
  <2>1. Cardinality(Requests) \in Nat
    BY ReloadAssumption, FS_CardinalityType
  <2>2. 0 \in Generations /\ 0 \in 0 .. USIZE - 1
    BY <2>1, ReloadAssumption DEF Generations
  <2>3. reloader \in Reloader /\ task \in [Requests -> Task]
    BY <2>2 DEF RInit, Reloader, Task
  <2>4. RTypeOK
    BY <2>2, <2>3 DEF RInit, RTypeOK
  <2>5. Settled /\ InOrder /\ RoutesNeverOlder
    BY DEF RInit, Settled, InOrder, RoutesNeverOlder
  <2> QED
    BY <2>4, <2>5 DEF Ordered
<1>2. ASSUME NEW g \in Generations PROVE OnRouter(g) = {}
  BY DEF RInit, OnRouter
<1>3. ActiveByGeneration
  BY <1>2, FS_EmptySet DEF ActiveByGeneration, RInit
<1> QED
  BY <1>1, <1>3 DEF ReloadInv, Ordered

-----------------------------------------------------------------------------
(* The operator and the SIGHUP task leave the requests alone, so their     *)
(* snapshots and counts stay as they are (config_reloader.rs:10-59).       *)
LEMMA ReloaderOrdered ==
  ASSUME Ordered, UNCHANGED <<active, task>>,
         \/ \E parses \in BOOLEAN : Edit(parses)
         \/ Hangup
         \/ Reload
  PROVE  Ordered'
<1> USE ReloadAssumption
<1>1. ASSUME NEW parses \in BOOLEAN, Edit(parses) PROVE Ordered'
  BY <1>1
  DEF Edit, appstate, Ordered, RTypeOK, Settled, InOrder, RoutesNeverOlder, Reloader, Generations
<1>2. ASSUME Hangup PROVE Ordered'
  BY <1>2
  DEF Hangup, appstate, Ordered, RTypeOK, Settled, InOrder, RoutesNeverOlder, Reloader, Generations
<1>3. ASSUME Recv PROVE Ordered'
  <2>1. reloader' \in Reloader /\ reloader'.pc = "read"
    BY <1>3 DEF Recv, Ordered, RTypeOK, Reloader
  <2>2. RTypeOK'
    BY <1>3, <2>1 DEF Recv, appstate, Ordered, RTypeOK
  <2>3. Settled' /\ InOrder' /\ RoutesNeverOlder'
    BY <1>3, <2>1 DEF Recv, appstate, Ordered, Settled, InOrder, RoutesNeverOlder
  <2> QED
    BY <2>2, <2>3 DEF Ordered
<1>4. ASSUME reload_config PROVE Ordered'
  <2>0. file.gen \in Generations /\ reloader \in Reloader
    BY DEF Ordered, RTypeOK
  <2>1. /\ reloader' \in Reloader
        /\ \/ reloader'.pc = "store_router" /\ reloader'.config = file.gen
           \/ reloader'.pc = "recv"
    <3>1. CASE file.parses
      BY <1>4, <2>0, <3>1 DEF reload_config, Reloader
    <3>2. CASE ~file.parses
      BY <1>4, <2>0, <3>2 DEF reload_config, Reloader
    <3> QED
      BY <3>1, <3>2
  <2>2. RTypeOK'
    BY <1>4, <2>1 DEF reload_config, appstate, operator, Ordered, RTypeOK
  <2>3. config = router
    BY <1>4 DEF reload_config, Ordered, Settled
  <2>4. Settled' /\ RoutesNeverOlder'
    BY <1>4, <2>1, <2>3 DEF reload_config, appstate, Ordered, Settled, RoutesNeverOlder
  <2>5. file.gen <= file.gen
    BY <2>0 DEF Generations
  <2>6. InOrder'
    BY <1>4, <2>1, <2>3, <2>5 DEF reload_config, appstate, operator, Ordered, InOrder
  <2> QED
    BY <2>2, <2>4, <2>6 DEF Ordered
<1>5. ASSUME StoreRouter PROVE Ordered'
  <2>1. /\ router' = reloader.config /\ router <= reloader.config
        /\ reloader' = [reloader EXCEPT !.pc = "store_config"]
        /\ reloader.pc = "store_router"
        /\ UNCHANGED <<file, hangup, hup_gen, config, active, task>>
    BY <1>5 DEF StoreRouter, operator, Ordered, InOrder
  <2>2. /\ reloader' \in Reloader /\ reloader'.pc = "store_config"
        /\ reloader'.config = reloader.config /\ reloader.config \in Generations
    BY <2>1 DEF Ordered, RTypeOK, Reloader
  <2>3. RTypeOK'
    BY <2>1, <2>2 DEF Ordered, RTypeOK
  <2>4. Settled' /\ RoutesNeverOlder'
    BY <2>1, <2>2 DEF Ordered, Settled, RoutesNeverOlder
  <2>5. ASSUME NEW r \in Requests, task[r].pc = "load_router" PROVE task[r].config <= router'
    BY <2>1, <2>2, <2>5 DEF Ordered, RTypeOK, InOrder, Task, Generations
  <2>6. InOrder'
    BY <2>1, <2>2, <2>5 DEF Ordered, InOrder
  <2> QED
    BY <2>3, <2>4, <2>6 DEF Ordered
<1>6. ASSUME StoreConfig PROVE Ordered'
  <2>1. /\ config' = reloader.config /\ router = reloader.config
        /\ reloader' = [reloader EXCEPT !.pc = "recv"]
        /\ UNCHANGED <<file, hangup, hup_gen, router, active, task>>
    BY <1>6 DEF StoreConfig, operator, Ordered, InOrder
  <2>2. reloader' \in Reloader /\ reloader'.pc = "recv" /\ reloader.config \in Generations
    BY <2>1 DEF Ordered, RTypeOK, Reloader
  <2>3. RTypeOK'
    BY <2>1, <2>2 DEF Ordered, RTypeOK
  <2>4. Settled' /\ RoutesNeverOlder'
    BY <2>1, <2>2 DEF Ordered, Settled, RoutesNeverOlder
  <2>5. InOrder'
    BY <2>1, <2>2 DEF Ordered, InOrder, Generations
  <2> QED
    BY <2>3, <2>4, <2>5 DEF Ordered
<1> QED
  BY <1>1, <1>2, <1>3, <1>4, <1>5, <1>6 DEF Reload

(* The two loads of a request (proxy.rs:119-120). *)
LEMMA LoadOrdered ==
  ASSUME Ordered, ActiveByGeneration, NEW r \in Requests, LoadConfig(r) \/ LoadRouter(r)
  PROVE  Ordered' /\ ActiveByGeneration'
<1> USE ReloadAssumption
<1>1. PICK t \in Task :
        /\ task' = [task EXCEPT ![r] = t]
        /\ \/ task[r].pc = "new" /\ t.pc = "load_router" /\ t.config = config
           \/ /\ task[r].pc = "load_router" /\ t.pc = "start"
              /\ t.config = task[r].config /\ t.router = router
  <2>0. task[r] \in Task /\ config \in Generations /\ router \in Generations
    BY DEF Ordered, RTypeOK
  <2>1. CASE LoadConfig(r)
    <3> DEFINE t == [task[r] EXCEPT !.pc = "load_router", !.config = config]
    <3>1. t \in Task /\ t.pc = "load_router" /\ t.config = config
      BY <2>0 DEF Task
    <3>2. task' = [task EXCEPT ![r] = t]
      BY <2>1 DEF LoadConfig, Ordered, RTypeOK, Task
    <3> QED
      BY <2>1, <3>1, <3>2 DEF LoadConfig
  <2>2. CASE LoadRouter(r)
    <3> DEFINE t == [task[r] EXCEPT !.pc = "start", !.router = router]
    <3>1. t \in Task /\ t.pc = "start" /\ t.config = task[r].config /\ t.router = router
      BY <2>0 DEF Task
    <3>2. task' = [task EXCEPT ![r] = t]
      BY <2>2 DEF LoadRouter, Ordered, RTypeOK, Task
    <3> QED
      BY <2>2, <3>1, <3>2 DEF LoadRouter
  <2> QED
    BY <2>1, <2>2
<1>2. UNCHANGED <<file, hangup, hup_gen, reloader, router, config, active>>
  BY DEF LoadConfig, LoadRouter, operator, appstate
<1>3. ASSUME NEW q \in Requests PROVE task'[q] = IF q = r THEN t ELSE task[q]
  BY <1>1 DEF Ordered, RTypeOK
<1>4. RTypeOK' /\ Settled'
  BY <1>1, <1>2 DEF Ordered, RTypeOK, Settled
<1>5. InOrder' /\ RoutesNeverOlder'
  BY <1>1, <1>2, <1>3 DEF Ordered, RTypeOK, InOrder, RoutesNeverOlder
<1>6. ASSUME NEW g \in Generations PROVE OnRouter(g)' = OnRouter(g)
  BY <1>1, <1>3 DEF OnRouter
<1> QED
  BY <1>2, <1>4, <1>5, <1>6 DEF Ordered, ActiveByGeneration

-----------------------------------------------------------------------------
(* A start, an end or a drop changes where a request is and not what it    *)
(* has loaded (proxy.rs:252, 265).                                         *)
LEMMA MoveOrdered ==
  ASSUME Ordered, NEW r \in Requests, NEW pc \in {"forward", "done", "dropped"},
         task[r].pc \in {"start", "forward"},
         task' = [task EXCEPT ![r].pc = pc],
         active' \in [Generations -> 0 .. USIZE - 1],
         UNCHANGED <<file, hangup, hup_gen, reloader, router, config>>
  PROVE  Ordered'
<1>1. ASSUME NEW q \in Requests
      PROVE  /\ task'[q].pc = IF q = r THEN pc ELSE task[q].pc
             /\ task'[q].config = task[q].config
             /\ task'[q].router = task[q].router
  BY DEF Ordered, RTypeOK, Task
<1>2. task' \in [Requests -> Task]
  BY DEF Ordered, RTypeOK, Task
<1>3. RTypeOK' /\ Settled'
  BY <1>2 DEF Ordered, RTypeOK, Settled
<1>4. InOrder' /\ RoutesNeverOlder'
  BY <1>1 DEF Ordered, InOrder, RoutesNeverOlder
<1> QED
  BY <1>3, <1>4 DEF Ordered

(* As many requests can be on a router as there are. *)
LEMMA OnRouterFinite ==
  ASSUME NEW g
  PROVE  /\ IsFiniteSet(OnRouter(g))
         /\ Cardinality(OnRouter(g)) \in Nat
         /\ Cardinality(OnRouter(g)) < USIZE
<1>1. OnRouter(g) \subseteq Requests
  BY DEF OnRouter
<1>2. /\ IsFiniteSet(OnRouter(g))
      /\ Cardinality(OnRouter(g)) \in Nat
      /\ Cardinality(OnRouter(g)) <= Cardinality(Requests)
      /\ Cardinality(Requests) \in Nat
  BY <1>1, ReloadAssumption, FS_Subset, FS_CardinalityType
<1> QED
  BY <1>2, ReloadAssumption

(* record_start on a balancer of the request's own router. *)
LEMMA StartCounted ==
  ASSUME Ordered, ActiveByGeneration, NEW r \in Requests, Start(r)
  PROVE  Ordered' /\ ActiveByGeneration'
<1>1. PICK g \in Generations : g = task[r].router
  BY DEF Ordered, RTypeOK, Task
<1>2. ASSUME NEW q \in Requests
      PROVE  /\ task'[q].pc = IF q = r THEN "forward" ELSE task[q].pc
             /\ task'[q].router = task[q].router
  BY DEF Start, Ordered, RTypeOK, Task
<1>3. task[r].pc = "start"
  BY DEF Start
<1>4. OnRouter(g)' = OnRouter(g) \cup {r} /\ r \notin OnRouter(g)
  BY <1>1, <1>2, <1>3 DEF OnRouter
<1>5. ASSUME NEW h \in Generations, h # g PROVE OnRouter(h)' = OnRouter(h)
  BY <1>1, <1>2, <1>3, <1>5 DEF OnRouter
<1>6. Cardinality(OnRouter(g)') = Cardinality(OnRouter(g)) + 1
  BY <1>4, OnRouterFinite, FS_AddElement
<1>7. Cardinality(OnRouter(g)') < USIZE
  <2>1. OnRouter(g)' \subseteq Requests
    BY DEF OnRouter
  <2>2. Cardinality(OnRouter(g)') <= Cardinality(Requests) /\ Cardinality(OnRouter(g)') \in Nat
    BY <2>1, ReloadAssumption, FS_Subset, FS_CardinalityType
  <2> QED
    BY <2>2, ReloadAssumption, FS_CardinalityType
<1>8. (active[g] + 1) % USIZE = active[g] + 1 /\ active[g] + 1 \in 0 .. USIZE - 1
  <2> DEFINE c == Cardinality(OnRouter(g))
  <2>1. active[g] = c /\ c \in Nat /\ c + 1 < USIZE /\ USIZE \in Nat
    BY <1>6, <1>7, OnRouterFinite, ReloadAssumption DEF ActiveByGeneration
  <2> QED
    BY <2>1
<1>9. active' = [active EXCEPT ![g] = active[g] + 1]
  BY <1>1, <1>8 DEF Start
<1>10. active' \in [Generations -> 0 .. USIZE - 1]
  BY <1>8, <1>9 DEF Ordered, RTypeOK
<1>11. Ordered'
  BY <1>3, <1>10, MoveOrdered DEF Start, operator, appstate
<1> QED
  BY <1>5, <1>6, <1>9, <1>11 DEF ActiveByGeneration, Ordered, RTypeOK

(* record_done takes it off the same one, from a count above zero. *)
LEMMA FinishCounted ==
  ASSUME Ordered, ActiveByGeneration, NEW r \in Requests, Finish(r)
  PROVE  Ordered' /\ ActiveByGeneration'
<1>1. PICK g \in Generations : g = task[r].router
  BY DEF Ordered, RTypeOK, Task
<1>2. ASSUME NEW q \in Requests
      PROVE  /\ task'[q].pc = IF q = r THEN "done" ELSE task[q].pc
             /\ task'[q].router = task[q].router
  BY DEF Finish, Ordered, RTypeOK, Task
<1>3. task[r].pc = "forward"
  BY DEF Finish
<1>4. OnRouter(g)' = OnRouter(g) \ {r} /\ r \in OnRouter(g)
  BY <1>1, <1>2, <1>3 DEF OnRouter
<1>5. ASSUME NEW h \in Generations, h # g PROVE OnRouter(h)' = OnRouter(h)
  BY <1>1, <1>2, <1>3, <1>5 DEF OnRouter
<1>6. Cardinality(OnRouter(g)') = Cardinality(OnRouter(g)) - 1
  BY <1>4, OnRouterFinite, FS_RemoveElement
<1>7. Cardinality(OnRouter(g)) # 0
  BY <1>4, OnRouterFinite, FS_EmptySet
<1>8. (active[g] - 1) % USIZE = active[g] - 1 /\ active[g] - 1 \in 0 .. USIZE - 1
  <2> DEFINE c == Cardinality(OnRouter(g))
  <2>1. active[g] = c /\ c \in Nat /\ c # 0 /\ c < USIZE /\ USIZE \in Nat
    BY <1>7, OnRouterFinite, ReloadAssumption DEF ActiveByGeneration
  <2> QED
    BY <2>1
<1>9. active' = [active EXCEPT ![g] = active[g] - 1]
  BY <1>1, <1>8 DEF Finish
<1>10. active' \in [Generations -> 0 .. USIZE - 1]
  BY <1>8, <1>9 DEF Ordered, RTypeOK
<1>11. Ordered'
  BY <1>3, <1>10, MoveOrdered DEF Finish, operator, appstate
<1> QED
  BY <1>5, <1>6, <1>9, <1>11 DEF ActiveByGeneration, Ordered, RTypeOK

(* Without an attempt nothing is counted; a drop leaves the count and the  *)
(* request where they are (proxy.rs:254).                                  *)
LEMMA UncountedMove ==
  ASSUME Ordered, ActiveByGeneration, NEW r \in Requests, Pass(r) \/ Drop(r)
  PROVE  Ordered' /\ ActiveByGeneration'
<1>1. PICK pc \in {"done", "dropped"} :
        /\ task' = [task EXCEPT ![r].pc = pc]
        /\ pc = "done" => task[r].pc = "start"
        /\ pc = "dropped" => task[r].pc = "forward"
  BY DEF Pass, Drop
<1>2. UNCHANGED <<file, hangup, hup_gen, reloader, router, config, active>>
  BY DEF Pass, Drop, operator, appstate
<1>3. Ordered'
  BY <1>1, <1>2, MoveOrdered DEF Ordered, RTypeOK
<1>4. ASSUME NEW q \in Requests
      PROVE  /\ task'[q].pc = IF q = r THEN pc ELSE task[q].pc
             /\ task'[q].router = task[q].router
  BY <1>1 DEF Ordered, RTypeOK, Task
<1>5. ASSUME NEW g \in Generations PROVE OnRouter(g)' = OnRouter(g)
  BY <1>1, <1>4 DEF OnRouter
<1> QED
  BY <1>2, <1>3, <1>5 DEF ActiveByGeneration

-----------------------------------------------------------------------------
(***************************************************************************)
(* Every step of the operator, the SIGHUP task and the requests preserves  *)
(* ReloadInv.                                                              *)
(***************************************************************************)
LEMMA ReloadStep == ReloadInv /\ [RNext]_rvars => ReloadInv'
<1> SUFFICES ASSUME ReloadInv, [RNext]_rvars PROVE Ordered' /\ ActiveByGeneration'
  BY DEF ReloadInv, Ordered
<1>0. Ordered /\ ActiveByGeneration
  BY DEF ReloadInv, Ordered
<1>1. ASSUME UNCHANGED <<active, task>> PROVE ActiveByGeneration'
  <2>1. ASSUME NEW g \in Generations PROVE OnRouter(g)' = OnRouter(g)
    BY <1>1 DEF OnRouter
  <2> QED
    BY <1>0, <1>1, <2>1 DEF ActiveByGeneration
<1>2. ASSUME (\E parses \in BOOLEAN : Edit(parses)) \/ Hangup \/ Reload
      PROVE  Ordered' /\ ActiveByGeneration'
  <2>1. UNCHANGED <<active, task>>
    BY <1>2 DEF Edit, Hangup, Reload, Recv, reload_config, StoreRouter, StoreConfig
  <2> QED
    BY <1>0, <1>1, <1>2, <2>1, ReloaderOrdered
<1>3. ASSUME NEW r \in Requests, Handle(r) PROVE Ordered' /\ ActiveByGeneration'
  BY <1>0, <1>3, LoadOrdered, StartCounted, FinishCounted, UncountedMove DEF Handle
<1>4. ASSUME UNCHANGED rvars PROVE Ordered' /\ ActiveByGeneration'
  BY <1>0, <1>1, <1>4 DEF rvars, Ordered, RTypeOK, Settled, InOrder, RoutesNeverOlder
<1> QED
  BY <1>2, <1>3, <1>4 DEF RNext

(***************************************************************************)
(* Between reloads router and config agree, within one the router is the   *)
(* newer (config_reloader.rs:25-26), in every reachable state.             *)
(***************************************************************************)
THEOREM ReloadInvariant == RSpec => []ReloadInv
<1> QED
  BY ReloadInit, ReloadStep, PTL DEF RSpec

(***************************************************************************)
(* A request never routes by an older file than the one its limits are     *)
(* from (proxy.rs:119-120).                                                *)
(***************************************************************************)
THEOREM SnapshotTheorem == RSpec => []RoutesNeverOlder
<1>1. ReloadInv => RoutesNeverOlder
  BY DEF ReloadInv
<1> QED
  BY <1>1, ReloadInvariant, PTL

(***************************************************************************)
(* Each generation's count is the number of requests that have started on  *)
(* it and have not ended, the dropped ones included, whatever is reloaded  *)
(* in between (balancer.rs:73-83).                                         *)
(***************************************************************************)
THEOREM GenerationTheorem == RSpec => []ActiveByGeneration
<1>1. ReloadInv => ActiveByGeneration
  BY DEF ReloadInv
<1> QED
  BY <1>1, ReloadInvariant, PTL

-----------------------------------------------------------------------------
(* Shutdown. *)

(***************************************************************************)
(* A server that has just started (server.rs:20) has no connections.       *)
(***************************************************************************)
LEMMA ServerInit == SInit => ServerInv
BY ServerAssumption
DEF SInit, ServerInv, STypeOK, Phases, ConnInv, DrainInv, Live, CutOnlyAfterDrain, HandlersFinish

(***************************************************************************)
(* While the server is up nobody has been cut, so a step of a connection   *)
(* c that leaves the others and the phase alone has only c to account for. *)
(***************************************************************************)
LEMMA ConnStep ==
  ASSUME ServerInv, NEW c \in Conns, Up,
         UNCHANGED <<now, server, since>>,
         conn' \in [Conns -> [pc : Phases, since : Nat, told : BOOLEAN]],
         \A d \in Conns \ {c} : conn'[d] = conn[d],
         conn'[c].pc \notin {"cut_handler", "cut_body"},
         ConnInv(c)', server = "draining" => DrainInv(c)'
  PROVE  ServerInv'
<1>1. STypeOK' /\ (since <= now)' /\ (server = "draining" => now <= since + drain_timeout)'
  BY DEF ServerInv, STypeOK
<1>2. ASSUME NEW d \in Conns PROVE ConnInv(d)' /\ (server = "draining" => DrainInv(d)')
  <2>1. CASE d = c
    BY <2>1
  <2>2. CASE d # c
    <3>1. conn'[d] = conn[d]
      BY <2>2
    <3> QED
      BY <3>1 DEF ServerInv, ConnInv, DrainInv, Live
  <2> QED
    BY <2>1, <2>2
<1>3. \A d \in Conns : conn'[d].pc \notin {"cut_handler", "cut_body"}
  BY DEF ServerInv, CutOnlyAfterDrain, Up
<1>4. CutOnlyAfterDrain' /\ HandlersFinish'
  BY <1>3 DEF CutOnlyAfterDrain, HandlersFinish
<1> QED
  BY <1>1, <1>2, <1>4 DEF ServerInv

(***************************************************************************)
(* Every step of the connections, the signal and the drain (server.rs:20   *)
(* to 80) preserves ServerInv.                                             *)
(***************************************************************************)
LEMMA ServerStep == ServerInv /\ [SNext]_svars => ServerInv'
<1> SUFFICES ASSUME ServerInv, [SNext]_svars PROVE ServerInv'
  OBVIOUS
<1> USE ServerAssumption
<1>0. STypeOK /\ since \in Nat /\ now \in Nat /\ conn \in [Conns -> [pc : Phases, since : Nat, told : BOOLEAN]]
  BY DEF ServerInv, STypeOK
<1>1. ASSUME NEW c \in Conns, Accept(c) PROVE ServerInv'
  <2>1. Up
    BY <1>1 DEF Accept, Up
  <2>2. conn' = [conn EXCEPT ![c].pc = "idle"] /\ UNCHANGED <<now, server, since>>
    BY <1>1 DEF Accept, Move
  <2>3. ConnInv(c)' /\ server # "draining"
    BY <1>0, <1>1, <2>1, <2>2 DEF Accept, ServerInv, ConnInv
  <2> QED
    BY <1>0, <2>1, <2>2, <2>3, ConnStep DEF Phases
<1>2. ASSUME NEW c \in Conns, Request(c) PROVE ServerInv'
  <2>1. Up /\ conn[c].pc = "idle" /\ ConnInv(c) /\ (server = "draining" => DrainInv(c))
    BY <1>2 DEF Request, ServerInv
  <2>2. conn' = [conn EXCEPT ![c] = [@ EXCEPT !.pc = "handler", !.since = now]] /\ UNCHANGED <<now, server, since>>
    BY <1>2 DEF Request
  <2>3. conn'[c].pc = "handler" /\ conn'[c].since = now /\ conn'[c].told = conn[c].told
    BY <1>0, <2>2
  <2>4. ConnInv(c)'
    BY <1>0, <2>1, <2>2, <2>3 DEF ConnInv
  <2>5. server = "draining" => DrainInv(c)'
    BY <1>0, <2>1, <2>2, <2>3 DEF DrainInv, ConnInv, Live
  <2> QED
    BY <1>0, <2>1, <2>2, <2>3, <2>4, <2>5, ConnStep DEF Phases
<1>3. ASSUME NEW c \in Conns, NEW pc \in {"body", "idle", "closed"}, Up, Live(c), Move(c, pc),
             pc = "idle" => conn[c].pc = "body" /\ ~conn[c].told
      PROVE  ServerInv'
  <2>1. ConnInv(c) /\ (server = "draining" => DrainInv(c))
    BY <1>3 DEF ServerInv
  <2>2. conn' = [conn EXCEPT ![c].pc = pc] /\ UNCHANGED <<now, server, since>>
    BY <1>3 DEF Move
  <2>3. conn'[c].pc = pc /\ conn'[c].since = conn[c].since /\ conn'[c].told = conn[c].told
    BY <1>0, <2>2
  <2>4. ConnInv(c)'
    BY <1>3, <2>1, <2>2, <2>3 DEF ConnInv
  <2>5. server = "draining" => DrainInv(c)'
    BY <1>3, <2>1, <2>2, <2>3 DEF DrainInv, Live
  <2> QED
    BY <1>0, <1>3, <2>2, <2>3, <2>4, <2>5, ConnStep DEF Phases
<1>4. ASSUME NEW c \in Conns, Answer(c) \/ OverallTimeout(c) PROVE ServerInv'
  BY <1>3, <1>4 DEF Answer, OverallTimeout, Live
<1>5. ASSUME NEW c \in Conns, Sent(c) PROVE ServerInv'
  BY <1>0, <1>3, <1>5 DEF Sent, Live
<1>6. ASSUME NEW c \in Conns, ClientCloses(c) PROVE ServerInv'
  BY <1>3, <1>6 DEF ClientCloses
<1>7. ASSUME NEW c \in Conns, Told(c) PROVE ServerInv'
  <2>1. Up /\ Live(c) /\ ConnInv(c) /\ DrainInv(c) /\ server = "draining"
    BY <1>7 DEF Told, ServerInv, Up
  <2>2. /\ conn' = [conn EXCEPT ![c].told = TRUE, ![c].pc = IF @ = "idle" THEN "closed" ELSE @]
        /\ UNCHANGED <<now, server, since>>
    BY <1>7 DEF Told
  <2>3. /\ conn'[c].pc = IF conn[c].pc = "idle" THEN "closed" ELSE conn[c].pc
        /\ conn'[c].since = conn[c].since
        /\ conn'[c].told = TRUE
        /\ conn' \in [Conns -> [pc : Phases, since : Nat, told : BOOLEAN]]
        /\ \A d \in Conns \ {c} : conn'[d] = conn[d]
    BY <1>0, <2>2 DEF Phases
  <2>4. ConnInv(c)' /\ DrainInv(c)'
    BY <2>1, <2>2, <2>3 DEF ConnInv, DrainInv, Live
  <2> QED
    BY <2>1, <2>2, <2>3, <2>4, ConnStep DEF Live
<1>8. ASSUME Signal PROVE ServerInv'
  BY <1>0, <1>8
  DEF Signal, Enter, ServerInv, STypeOK, Up, ConnInv, CutOnlyAfterDrain, HandlersFinish
<1>9. ASSUME Drain PROVE ServerInv'
  BY <1>0, <1>9
  DEF Drain, Enter, ServerInv, STypeOK, Up, ConnInv, DrainInv, Live, CutOnlyAfterDrain, HandlersFinish
<1>10. ASSUME GracefulExit PROVE ServerInv'
  BY <1>0, <1>10
  DEF GracefulExit, Enter, ServerInv, STypeOK, Up, CutOnlyAfterDrain, HandlersFinish
<1>11. ASSUME ForcedExit PROVE ServerInv'
  <2>1. /\ server = "draining" /\ server' = "forced" /\ since' = now /\ now' = now
        /\ now >= since + drain_timeout
    BY <1>11 DEF ForcedExit, Enter
  <2>2. ASSUME NEW c \in Conns
        PROVE  /\ conn'[c] \in [pc : Phases, since : Nat, told : BOOLEAN]
               /\ conn'[c].since = conn[c].since
               /\ conn'[c].pc = "cut_handler" => conn[c].pc = "handler"
    <3>1. conn[c].pc # "cut_handler"
      BY <2>1 DEF ServerInv, CutOnlyAfterDrain
    <3>2. conn'[c] = [conn[c] EXCEPT !.pc = Cut(conn[c].pc)]
      BY <1>11 DEF ForcedExit
    <3> QED
      BY <1>0, <3>1, <3>2 DEF Cut, Phases
  <2>3. STypeOK'
    <3>1. conn' = [c \in Conns |-> conn'[c]]
      BY <1>11 DEF ForcedExit
    <3> QED
      BY <1>0, <2>1, <2>2, <3>1 DEF STypeOK
  <2>4. ASSUME NEW c \in Conns PROVE now - conn[c].since >= drain_timeout
    BY <1>0, <2>1 DEF ServerInv, DrainInv
  <2>5. CutOnlyAfterDrain'
    BY <2>1, <2>2, <2>4 DEF CutOnlyAfterDrain
  <2>6. HandlersFinish'
    <3> SUFFICES ASSUME overall_timeout < drain_timeout, NEW c \in Conns, conn'[c].pc = "cut_handler"
                 PROVE  FALSE
      BY DEF HandlersFinish
    <3>1. conn[c].pc = "handler" /\ ConnInv(c)
      BY <2>1, <2>2 DEF ServerInv, Up
    <3> QED
      BY <1>0, <2>4, <3>1 DEF ConnInv
  <2> QED
    BY <1>0, <2>1, <2>3, <2>5, <2>6 DEF ServerInv, Up
<1>12. ASSUME Tick PROVE ServerInv'
  <2>1. /\ now' = now + 1 /\ UNCHANGED <<server, since, conn>>
        /\ server = "draining" => now < since + drain_timeout
        /\ server = "draining" => \A c \in Conns : Live(c) => conn[c].told
        /\ \A c \in Conns : conn[c].pc = "handler" => now < conn[c].since + overall_timeout
    BY <1>12 DEF Tick
  <2>2. STypeOK' /\ (since <= now)' /\ (server = "draining" => now <= since + drain_timeout)'
    BY <1>0, <2>1 DEF ServerInv, STypeOK
  <2>3. (Up => \A c \in Conns : ConnInv(c))'
    BY <1>0, <2>1 DEF ServerInv, ConnInv, Up
  <2>4. (server = "draining" => \A c \in Conns : DrainInv(c))'
    BY <1>0, <2>1 DEF ServerInv, DrainInv, Live
  <2>5. CutOnlyAfterDrain' /\ HandlersFinish'
    BY <2>1 DEF ServerInv, CutOnlyAfterDrain, HandlersFinish
  <2> QED
    BY <2>2, <2>3, <2>4, <2>5 DEF ServerInv
<1>13. ASSUME UNCHANGED svars PROVE ServerInv'
  BY <1>13
  DEF svars, ServerInv, STypeOK, Up, ConnInv, DrainInv, Live, CutOnlyAfterDrain, HandlersFinish
<1> QED
  BY <1>1, <1>2, <1>4, <1>5, <1>6, <1>7, <1>8, <1>9, <1>10, <1>11, <1>12, <1>13 DEF SNext

(***************************************************************************)
(* No timer is overdue and no request is younger than the drain it is in   *)
(* (server.rs:54-80, middleware.rs:160-173), in every reachable state.     *)
(***************************************************************************)
THEOREM ServerInvariant == SSpec => []ServerInv
<1> QED
  BY ServerInit, ServerStep, PTL DEF SSpec

(***************************************************************************)
(* A request is cut only after the whole drain timeout (server.rs:73).     *)
(***************************************************************************)
THEOREM DrainTheorem == SSpec => []CutOnlyAfterDrain
<1>1. ServerInv => CutOnlyAfterDrain
  BY DEF ServerInv
<1> QED
  BY <1>1, ServerInvariant, PTL

(***************************************************************************)
(* A drain timeout longer than the overall timeout lets every handler      *)
(* finish (server.rs:75, middleware.rs:165).                               *)
(***************************************************************************)
THEOREM HandlerTheorem == SSpec => []HandlersFinish
<1>1. ServerInv => HandlersFinish
  BY DEF ServerInv
<1> QED
  BY <1>1, ServerInvariant, PTL
=============================================================================

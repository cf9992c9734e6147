---------------------------- MODULE ConfigReload ----------------------------
(***************************************************************************)
(* Hot reload: the SIGHUP task and apply_config, src/src/config_reloader.rs, *)
(* beside the request tasks, which load the two ArcSwaps of AppState one   *)
(* after the other (src/src/proxy.rs).                                     *)
(*                                                                         *)
(* A configuration is its generation: how often config.yaml has been       *)
(* edited.  The router of generation g has the balancers of generation g,  *)
(* new ones whose connection counts start at zero; of each generation one  *)
(* upstream's count is kept, as Proxy has the others.  Each store and each *)
(* load of an ArcSwap is a step, and a task may be dropped where it awaits.*)
(***************************************************************************)
EXTENDS Integers, FiniteSets

CONSTANTS
  Requests,  \* the requests that may arrive, one task each
  MaxEdits,  \* bound: how often the file is edited
  USIZE      \* 2^64, the modulus of AtomicUsize

Generations == 0 .. MaxEdits

ASSUME ReloadAssumption ==
  /\ IsFiniteSet(Requests)
  /\ MaxEdits \in Nat
  /\ USIZE \in Nat
  /\ USIZE > Cardinality(Requests)

VARIABLES
  file,      \* config.yaml: its generation, and whether it parses
  hangup,    \* a SIGHUP has come since the task last returned from recv
  hup_gen,   \* history: the generation of the file at the last SIGHUP
  reloader,  \* the SIGHUP task: where it is, and the config it has parsed
  router,    \* AppState.router
  config,    \* AppState.config
  active,    \* the connection count of each generation's balancer
  task       \* each request: where it is, and its two snapshots

rvars == <<file, hangup, hup_gen, reloader, router, config, active, task>>

Reloader == [pc : {"recv", "read", "store_router", "store_config"},
             config : Generations]

Task == [pc : {"new", "load_router", "start", "forward", "done", "dropped"},
         config : Generations, router : Generations]

(* main has read generation 0 and has spawned the SIGHUP task. *)
RInit ==
  /\ file = [gen |-> 0, parses |-> TRUE]
  /\ hangup = FALSE
  /\ hup_gen = 0
  /\ reloader = [pc |-> "recv", config |-> 0]
  /\ router = 0
  /\ config = 0
  /\ active = [g \in Generations |-> 0]
  /\ task = [r \in Requests |-> [pc |-> "new", config |-> 0, router |-> 0]]

RTypeOK ==
  /\ file \in [gen : Generations, parses : BOOLEAN]
  /\ hangup \in BOOLEAN
  /\ hup_gen \in Generations
  /\ reloader \in Reloader
  /\ router \in Generations
  /\ config \in Generations
  /\ active \in [Generations -> 0 .. USIZE - 1]
  /\ task \in [Requests -> Task]

-----------------------------------------------------------------------------
appstate == <<router, config>>
operator == <<file, hangup, hup_gen>>

(* The operator edits the file, well or badly, ... *)
Edit(parses) ==
  /\ file.gen < MaxEdits
  /\ file' = [gen |-> file.gen + 1, parses |-> parses]
  /\ UNCHANGED <<hangup, hup_gen, reloader, appstate, active, task>>

(* ... and sends SIGHUP.  Signals that meet a pending one are merged. *)
Hangup ==
  /\ hangup' = TRUE
  /\ hup_gen' = file.gen
  /\ UNCHANGED <<file, reloader, appstate, active, task>>

Recv ==
  /\ reloader.pc = "recv"
  /\ hangup
  /\ hangup' = FALSE
  /\ reloader' = [reloader EXCEPT !.pc = "read"]
  /\ UNCHANGED <<file, hup_gen, appstate, active, task>>

(* read_to_string and from_str; an error is logged and the loop goes on. *)
reload_config ==
  /\ reloader.pc = "read"
  /\ reloader' = IF file.parses
                   THEN [pc |-> "store_router", config |-> file.gen]
                   ELSE [reloader EXCEPT !.pc = "recv"]
  /\ UNCHANGED <<operator, appstate, active, task>>

(* Mutant of StoreRouter: the config is stored before the router. *)
StoreRouter_config_first ==
  /\ reloader.pc = "store_router"
  /\ config' = reloader.config
  /\ reloader' = [reloader EXCEPT !.pc = "store_config"]
  /\ UNCHANGED <<operator, router, active, task>>

(* The two stores of apply_config. *)
StoreRouter ==
  /\ reloader.pc = "store_router"
  /\ router' = reloader.config
  /\ reloader' = [reloader EXCEPT !.pc = "store_config"]
  /\ UNCHANGED <<operator, config, active, task>>

(* Mutants of StoreConfig: a SIGHUP that came meanwhile is thrown away; *)
(* the store is forgotten.                                              *)
StoreConfig_drops_hangup ==
  /\ reloader.pc = "store_config"
  /\ config' = reloader.config
  /\ hangup' = FALSE
  /\ reloader' = [reloader EXCEPT !.pc = "recv"]
  /\ UNCHANGED <<file, hup_gen, router, active, task>>

StoreConfig_forgotten ==
  /\ reloader.pc = "store_config"
  /\ reloader' = [reloader EXCEPT !.pc = "recv"]
  /\ UNCHANGED <<operator, appstate, active, task>>

StoreConfig ==
  /\ reloader.pc = "store_config"
  /\ config' = reloader.config
  /\ reloader' = [reloader EXCEPT !.pc = "recv"]
  /\ UNCHANGED <<operator, router, active, task>>

Reload == Recv \/ reload_config \/ StoreRouter \/ StoreConfig

-----------------------------------------------------------------------------
(* The two loads of proxy_request. *)
LoadConfig(r) ==
  /\ task[r].pc = "new"
  /\ task' = [task EXCEPT ![r].pc = "load_router", ![r].config = config]
  /\ UNCHANGED <<operator, reloader, appstate, active>>

LoadRouter(r) ==
  /\ task[r].pc = "load_router"
  /\ task' = [task EXCEPT ![r].pc = "start", ![r].router = router]
  /\ UNCHANGED <<operator, reloader, appstate, active>>

(* record_start and record_done on a balancer of the request's own router. *)
Start(r) ==
  LET g == task[r].router IN
  /\ task[r].pc = "start"
  /\ active' = [active EXCEPT ![g] = (@ + 1) % USIZE]
  /\ task' = [task EXCEPT ![r].pc = "forward"]
  /\ UNCHANGED <<operator, reloader, appstate>>

(* Mutant of Finish: the end is recorded with the router of the moment. *)
Finish_current_router(r) ==
  /\ task[r].pc = "forward"
  /\ active' = [active EXCEPT ![router] = (@ - 1) % USIZE]
  /\ task' = [task EXCEPT ![r].pc = "done"]
  /\ UNCHANGED <<operator, reloader, appstate>>

Finish(r) ==
  LET g == task[r].router IN
  /\ task[r].pc = "forward"
  /\ active' = [active EXCEPT ![g] = (@ - 1) % USIZE]
  /\ task' = [task EXCEPT ![r].pc = "done"]
  /\ UNCHANGED <<operator, reloader, appstate>>

(* No attempt is made on this upstream: no route, no body, another chosen, *)
(* or the task dropped at an await before the attempt.                     *)
Pass(r) ==
  /\ task[r].pc = "start"
  /\ task' = [task EXCEPT ![r].pc = "done"]
  /\ UNCHANGED <<operator, reloader, appstate, active>>

(* The task is dropped while it awaits the upstream, by the overall        *)
(* timeout or because its client is gone: record_done never runs.          *)
Drop(r) ==
  /\ task[r].pc = "forward"
  /\ task' = [task EXCEPT ![r].pc = "dropped"]
  /\ UNCHANGED <<operator, reloader, appstate, active>>

Handle(r) ==
  LoadConfig(r) \/ LoadRouter(r) \/ Start(r) \/ Finish(r) \/ Pass(r) \/ Drop(r)

RNext ==
  \/ \E parses \in BOOLEAN : Edit(parses)
  \/ Hangup
  \/ Reload
  \/ \E r \in Requests : Handle(r)

RSpec == RInit /\ [][RNext]_rvars

(* The runtime polls the SIGHUP task whenever it can go on. *)
RFairness == WF_rvars(Reload)

-----------------------------------------------------------------------------
(***************************************************************************)
(* config_reloader.rs:25 with proxy.rs:119 - stores and loads run in       *)
(* opposite orders, so however many reloads fall between its two loads, a  *)
(* request never routes by an older file than the one it has its limits    *)
(* and timeouts from.                                                      *)
(***************************************************************************)
RoutesNeverOlder ==
  \A r \in Requests :
    task[r].pc \in {"start", "forward", "done", "dropped"} =>
      task[r].config <= task[r].router

(***************************************************************************)
(* balancer.rs:79 - a reload in the middle of a request does not upset the *)
(* connection counts, neither of the balancers replaced nor of the new     *)
(* ones: each counts the requests that have started on its own router and  *)
(* have not ended, those that were dropped there included, and none wraps  *)
(* below zero.  So a leaked connection stays with the balancer it leaked   *)
(* on, and a reload begins without any.                                    *)
(***************************************************************************)
OnRouter(g) ==
  {r \in Requests : task[r].pc \in {"forward", "dropped"} /\ task[r].router = g}

ActiveByGeneration ==
  \A g \in Generations : active[g] = Cardinality(OnRouter(g))

(***************************************************************************)
(* The inductive invariant: between reloads the two agree, within one the  *)
(* router is ahead of the config or level with it, and nothing runs ahead  *)
(* of the file.  A failed reload leaves no half behind.                    *)
(***************************************************************************)
Settled == reloader.pc \in {"recv", "read"} => config = router

InOrder ==
  /\ config <= router
  /\ router <= file.gen
  /\ reloader.pc = "store_router" =>
       config = router /\ router <= reloader.config /\ reloader.config <= file.gen
  /\ reloader.pc = "store_config" => router = reloader.config
  /\ \A r \in Requests : task[r].pc = "load_router" => task[r].config <= router

ReloadInv ==
  /\ RTypeOK
  /\ Settled
  /\ InOrder
  /\ RoutesNeverOlder
  /\ ActiveByGeneration

(***************************************************************************)
(* config_reloader.rs:49 - no SIGHUP is lost, not one that comes in the    *)
(* middle of a reload or after a failed one: once the operator has stopped *)
(* with a good file and a SIGHUP after it, that file is what runs.         *)
(***************************************************************************)
ReloadTakesEffect ==
  <>[](file.parses /\ hup_gen = file.gen => router = file.gen /\ config = file.gen)
=============================================================================

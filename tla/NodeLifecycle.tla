---------------------------- MODULE NodeLifecycle ----------------------------
(***************************************************************************)
(* main: the database, the workers that are configured, started one after  *)
(* the other, the wait for a signal, and the wait for every worker.  The   *)
(* DHT's workers need the engine, which may not start; a worker may die,   *)
(* at its bind or later, and the others go on.                             *)
(*                                                                         *)
(* What the workers do is in the other modules; here they stop once they   *)
(* see the token.  NodeFaults bounds what goes wrong.                      *)
(***************************************************************************)
EXTENDS Naturals, Sequences

CONSTANTS Deployments,  \* sets of worker names that --workers may give
          Enabled,      \* workers whose setting is on
          NodeFaults

ASSUME NodeLifecycleAssumption == NodeFaults \in Nat

VARIABLES
  main,        \* "database", "starting", "waiting", "joining", "exited"
  deployment,  \* the names given
  next,        \* the worker main starts next, in StartOrder
  engine,      \* the DHT's: "none", "up" or "failed"
  worker,      \* per worker: "off", "running" or "ended"
  ready,       \* AppState.ready
  request,     \* the web port: "none", "splash" or "served", being answered
  download,    \* the sync port has a connection in use
  token,       \* the cancellation token
  nodeFaults

nodeVars == <<main, deployment, next, engine, worker, ready, request, download, token, nodeFaults>>

StartOrder == <<"http", "sync_api", "ingest", "resolver", "refresher", "sampler",
                "announcer", "xmpp", "sync">>
WorkerNames == {StartOrder[i] : i \in DOMAIN StartOrder}
Turn == IF next > Len(StartOrder) THEN "none" ELSE StartOrder[next]
NeedsDht == deployment \cap {"dht_crawler", "resolver", "peer_refresher", "bep51_sampler"} # {}
OnDht == {"ingest", "resolver", "refresher", "sampler"}
Running == {w \in WorkerNames : worker[w] = "running"}
NodeFault == nodeFaults < NodeFaults /\ nodeFaults' = nodeFaults + 1
AllEnd == worker' = [w \in WorkerNames |-> IF worker[w] = "off" THEN "off" ELSE "ended"]

\* The worker is asked for by its name and its setting.
Requested(w) ==
  w \in Enabled /\
  CASE w \in {"http", "sync_api"} -> "http_server" \in deployment
    [] w = "ingest" -> NeedsDht
    [] w = "refresher" -> "peer_refresher" \in deployment
    [] w = "sampler" -> deployment \cap {"dht_crawler", "bep51_sampler"} # {}
    [] w \in {"xmpp", "sync"} -> "sync" \in deployment
    [] OTHER -> w \in deployment

\* Mutant of Startable: the engine is not looked at.
StartableWithout(w) == Requested(w)

Startable(w) == Requested(w) /\ (w \in OnDht => engine = "up")

\* init_db; an error, or a signal before main listens for one, ends main.
InitDatabase ==
  /\ main = "database"
  /\ \/ main' = "starting" /\ UNCHANGED nodeFaults
     \/ main' = "exited" /\ NodeFault
  /\ UNCHANGED <<deployment, next, engine, worker, ready, request, download, token>>

\* Before the ingest's turn: an engine that fails is logged, and its workers
\* are passed over.
StartEngine ==
  /\ main = "starting" /\ Turn = "ingest" /\ NeedsDht /\ engine = "none"
  /\ \/ engine' = "up" /\ UNCHANGED nodeFaults
     \/ engine' = "failed" /\ NodeFault
  /\ UNCHANGED <<main, deployment, next, worker, ready, request, download, token>>

StartWorker ==
  LET w == Turn
  IN  /\ main = "starting" /\ w # "none"
      /\ (w = "ingest" /\ NeedsDht) => engine # "none"
      /\ worker' = IF Startable(w) THEN [worker EXCEPT ![w] = "running"] ELSE worker
      /\ next' = next + 1
  /\ UNCHANGED <<main, deployment, engine, ready, request, download, token, nodeFaults>>

\* TrackerDiscovery cannot bind its socket: expect ends the process.
StartPanics ==
  /\ main = "starting" /\ Turn = "resolver" /\ Startable("resolver") /\ NodeFault
  /\ main' = "exited" /\ AllEnd
  /\ UNCHANGED <<deployment, next, engine, ready, request, download, token>>

\* No workers to run, or wait for the token.
AllStarted ==
  /\ main = "starting" /\ Turn = "none"
  /\ main' = IF \A w \in WorkerNames : worker[w] = "off" THEN "exited" ELSE "waiting"
  /\ UNCHANGED <<deployment, next, engine, worker, ready, request, download, token, nodeFaults>>

SetReady ==
  /\ main \notin {"database", "exited"} /\ ~ready /\ ready' = TRUE
  /\ UNCHANGED <<main, deployment, next, engine, worker, request, download, token, nodeFaults>>

\* A worker ends by itself: its port is taken, or it panics.
WorkerDies(w) ==
  /\ w \in Running /\ NodeFault
  /\ worker' = [worker EXCEPT ![w] = "ended"]
  /\ request' = IF w = "http" THEN "none" ELSE request
  /\ download' = (download /\ w # "sync_api")
  /\ UNCHANGED <<main, deployment, next, engine, ready, token>>

\* startup_splash_middleware: until ready only health and identity are served.
WebRequest(early) ==
  /\ "http" \in Running /\ ~token /\ request = "none"
  /\ request' = IF ready \/ early THEN "served" ELSE "splash"
  /\ UNCHANGED <<main, deployment, next, engine, worker, ready, download, token, nodeFaults>>

WebAnswered ==
  /\ request # "none" /\ request' = "none"
  /\ UNCHANGED <<main, deployment, next, engine, worker, ready, download, token, nodeFaults>>

\* A node connects to the sync port, and is answered or cut off when no byte
\* has moved for a while.
SyncConnects ==
  /\ "sync_api" \in Running /\ ~token /\ ~download /\ download' = TRUE
  /\ UNCHANGED <<main, deployment, next, engine, worker, ready, request, token, nodeFaults>>

SyncEnds ==
  /\ download /\ download' = FALSE
  /\ UNCHANGED <<main, deployment, next, engine, worker, ready, request, token, nodeFaults>>

\* SIGINT or SIGTERM.
Signalled ==
  /\ main # "exited" /\ ~token
  /\ IF main = "database" THEN main' = "exited" /\ UNCHANGED token
                          ELSE token' = TRUE /\ UNCHANGED main
  /\ UNCHANGED <<deployment, next, engine, worker, ready, request, download, nodeFaults>>

\* A worker sees the token; the servers first answer what they were asked.
WorkerStops(w) ==
  /\ token /\ w \in Running
  /\ w = "http" => request = "none"
  /\ w = "sync_api" => ~download
  /\ worker' = [worker EXCEPT ![w] = "ended"]
  /\ UNCHANGED <<main, deployment, next, engine, ready, request, download, token, nodeFaults>>

ShutDown ==
  /\ main = "waiting" /\ token /\ main' = "joining"
  /\ UNCHANGED <<deployment, next, engine, worker, ready, request, download, token, nodeFaults>>

\* Mutant of Joined: every worker asked for is waited for.
JoinedRequested == \A w \in WorkerNames : Requested(w) => worker[w] = "ended"

\* The handles main holds are those of the workers it started.
Joined == Running = {}

ExitNode ==
  /\ main = "joining" /\ Joined
  /\ main' = "exited"
  /\ UNCHANGED <<deployment, next, engine, worker, ready, request, download, token, nodeFaults>>

NodeInit ==
  /\ main = "database" /\ deployment \in Deployments /\ next = 1 /\ engine = "none"
  /\ worker = [w \in WorkerNames |-> "off"]
  /\ ready = FALSE /\ request = "none" /\ download = FALSE /\ token = FALSE /\ nodeFaults = 0

\* What main and the workers do by themselves.
NodeStep ==
  \/ InitDatabase \/ StartEngine \/ StartWorker \/ AllStarted \/ ShutDown \/ ExitNode
  \/ SyncEnds
  \/ \E w \in WorkerNames : WorkerStops(w)

NodeNext ==
  \/ NodeStep \/ StartPanics \/ SetReady \/ WebAnswered \/ SyncConnects \/ Signalled
  \/ \E w \in WorkerNames : WorkerDies(w)
  \/ \E early \in BOOLEAN : WebRequest(early)

NodeSpec == NodeInit /\ [][NodeNext]_nodeVars

\* Tasks that can go on are run.  Clients of the main port need not let a
\* request end; those of the sync port are subject to its idle timeout.
FairNodeSpec == NodeSpec /\ WF_nodeVars(NodeStep)

---------------------------------------------------------------------------
(* Properties *)

\* Types; a worker of the DHT never runs without the engine, and nothing
\* runs once main has returned.
NodeTypeOK ==
  /\ main \in {"database", "starting", "waiting", "joining", "exited"}
  /\ deployment \in Deployments /\ next \in 1..Len(StartOrder) + 1
  /\ worker \in [WorkerNames -> {"off", "running", "ended"}]
  /\ request \in {"none", "splash", "served"} /\ download \in BOOLEAN
  /\ Running \cap OnDht # {} => engine = "up"
  /\ main = "exited" => Running = {}

\* A signal, at whatever moment of the start and whatever did not start or
\* died before, ends the process, unless a request of the main port, which
\* has no timeout, is never finished.
NodeStops == <>[](request # "none") \/ (token ~> main = "exited")
=============================================================================

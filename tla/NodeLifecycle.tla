---------------------------- MODULE NodeLifecycle ----------------------------
(***************************************************************************)
(* The life of a node's process, from main() to its return (main.cpp,      *)
(* Node::start, Node::stop, NetworkManager::start and stop), composed with *)
(* NetworkManager: the components its role calls for, the acceptor, the io *)
(* thread, the producer loops, and the shutdown a signal asks for.         *)
(*                                                                         *)
(* NetworkManager opens a node in one step and ends it in another; here    *)
(* both are taken apart, and every step is one of NetworkManager's or      *)
(* leaves its variables alone.                                             *)
(***************************************************************************)
EXTENDS NetworkManager

CONSTANT RoleOf  \* node_role_ of each node

ASSUME RoleAssumption == RoleOf \in [Nodes -> {"time", "value", "dual"}]

VARIABLES
    stage,           \* the main thread, see Stages; within "started" the
                     \* phase of NetworkManager tells more
    chains,          \* chains whose consensus object is there, per node
    managerRunning,  \* NetworkManager::running_
    armed,           \* an async_accept is pending
    io,              \* the io thread: "none", "runs", "stopping" or "done"
    nodeRunning,     \* Node::running_
    loop             \* the producer loop of each chain: "none", "runs" or "done"

lifeVars == <<stage, chains, managerRunning, armed, io, nodeRunning, loop>>
allVars == <<vars, lifeVars>>

Chains == {"time", "value"}

(* The stages in their order. *)
Stages == {"boot", "initialised", "opened", "flagged", "started", "waiting",
           "quitting", "joining", "joined", "unflagged", "joinIo", "returned",
           "dead"}

ChainsOf(role) == CASE role = "dual" -> Chains [] OTHER -> {role}

LifeInit ==
    /\ Init
    /\ stage = [n \in Nodes |-> "boot"]
    /\ chains = [n \in Nodes |-> {}]
    /\ managerRunning = [n \in Nodes |-> FALSE]
    /\ armed = [n \in Nodes |-> FALSE]
    /\ io = [n \in Nodes |-> "none"]
    /\ nodeRunning = [n \in Nodes |-> FALSE]
    /\ loop = [n \in Nodes |-> [k \in Chains |-> "none"]]

(* The main thread of n goes from one stage to the next. *)
Pass(n, from, to) ==
    /\ Alive(n) \/ phase[n] = "off"
    /\ stage[n] = from
    /\ stage' = [stage EXCEPT ![n] = to]

(* The process ends before main() returns: nothing is left of its threads. *)
Vanish(n) ==
    /\ stage' = [stage EXCEPT ![n] = "dead"]
    /\ chains' = [chains EXCEPT ![n] = {}]
    /\ managerRunning' = [managerRunning EXCEPT ![n] = FALSE]
    /\ armed' = [armed EXCEPT ![n] = FALSE]
    /\ io' = [io EXCEPT ![n] = "none"]
    /\ nodeRunning' = [nodeRunning EXCEPT ![n] = FALSE]
    /\ loop' = [loop EXCEPT ![n] = [k \in Chains |-> "none"]]

-----------------------------------------------------------------------------
(* Node::start. *)

(* A slip the checks must notice: only one of the chains is initialized. *)
InitializeTimeChain(n) ==
    /\ Pass(n, "boot", "initialised")
    /\ chains' = [chains EXCEPT ![n] = ChainsOf(RoleOf[n]) \cap {"time"}]
    /\ UNCHANGED <<vars, managerRunning, armed, io, nodeRunning, loop>>

InitializeComponents(n) ==
    /\ Pass(n, "boot", "initialised")
    /\ chains' = [chains EXCEPT ![n] = ChainsOf(RoleOf[n])]
    /\ UNCHANGED <<vars, managerRunning, armed, io, nodeRunning, loop>>

(* A storage, a genesis block or the port fails: start() answers false and *)
(* main() returns.                                                         *)
StartUpFails(n) ==
    /\ stage[n] \in {"boot", "initialised"}
    /\ StartFails(n)
    /\ Vanish(n)

(* NetworkManager::start: the acceptor and its first async_accept, ... *)
OpenAcceptor(n) ==
    /\ Pass(n, "initialised", "opened")
    /\ Start(n)
    /\ armed' = [armed EXCEPT ![n] = TRUE]
    /\ UNCHANGED <<chains, managerRunning, io, nodeRunning, loop>>

(* A slip the checks must notice: the io thread is there before running_.  *)
StartThreadFirst(n) ==
    /\ \/ /\ Pass(n, "opened", "flagged")
          /\ io' = [io EXCEPT ![n] = "runs"]
          /\ UNCHANGED managerRunning
       \/ /\ Pass(n, "flagged", "started")
          /\ managerRunning' = [managerRunning EXCEPT ![n] = TRUE]
          /\ UNCHANGED io
    /\ UNCHANGED <<vars, chains, armed, nodeRunning, loop>>

(* ... running_, and the io thread. *)
StartThread(n) ==
    /\ \/ /\ Pass(n, "opened", "flagged")
          /\ managerRunning' = [managerRunning EXCEPT ![n] = TRUE]
          /\ UNCHANGED io
       \/ /\ Pass(n, "flagged", "started")
          /\ io' = [io EXCEPT ![n] = "runs"]
          /\ UNCHANGED managerRunning
    /\ UNCHANGED <<vars, chains, armed, nodeRunning, loop>>

(* The callback and the known peers. *)
Dial(n) ==
    /\ stage[n] = "started"
    /\ SetCallback(n) \/ Connect(n) \/ ConnectThrows(n)
    /\ UNCHANGED lifeVars

(* running_ and the loops of the role; start() returns, and main() installs*)
(* its signal handler.                                                     *)
StartLoops(n) ==
    /\ Pass(n, "started", "waiting")
    /\ Run(n)
    /\ nodeRunning' = [nodeRunning EXCEPT ![n] = TRUE]
    /\ loop' = [loop EXCEPT ![n] = [k \in Chains |->
                  IF k \in ChainsOf(RoleOf[n]) THEN "runs" ELSE "none"]]
    /\ UNCHANGED <<chains, managerRunning, armed, io>>

-----------------------------------------------------------------------------
(* main() and Node::stop. *)

Quietly(n, from, to) ==
    /\ Pass(n, from, to)
    /\ UNCHANGED <<vars, chains, managerRunning, armed, io, nodeRunning, loop>>

(* SIGINT or SIGTERM, and main() wakes from its sleep. *)
Signal(n) == Quietly(n, "waiting", "quitting")

(* A signal before its handler is there, or one that has none. *)
Kill(n) ==
    /\ Stop(n)
    /\ Vanish(n)

(* A slip the checks must notice: the loops are not told. *)
StopLoopsUntold(n) == Quietly(n, "quitting", "joining")

StopLoops(n) ==
    /\ Pass(n, "quitting", "joining")
    /\ nodeRunning' = [nodeRunning EXCEPT ![n] = FALSE]
    /\ UNCHANGED <<vars, chains, managerRunning, armed, io, loop>>

(* A slip the checks must notice: the second loop is not waited for. *)
JoinTimeLoop(n) == loop[n]["time"] # "runs" /\ Quietly(n, "joining", "joined")

(* Both loops are joined, one after the other. *)
JoinLoops(n) ==
    /\ \A k \in Chains : loop[n][k] # "runs"
    /\ Quietly(n, "joining", "joined")

(* NetworkManager::stop. *)
Unflag(n) ==
    /\ Pass(n, "joined", "unflagged")
    /\ managerRunning' = [managerRunning EXCEPT ![n] = FALSE]
    /\ UNCHANGED <<vars, chains, armed, io, nodeRunning, loop>>

StopContext(n) ==
    /\ Pass(n, "unflagged", "joinIo")
    /\ io' = [io EXCEPT ![n] = "stopping"]
    /\ UNCHANGED <<vars, chains, managerRunning, armed, nodeRunning, loop>>

(* The io thread is joined, and main() returns. *)
JoinIo(n) ==
    /\ io[n] = "done"
    /\ Pass(n, "joinIo", "returned")
    /\ Stop(n)
    /\ UNCHANGED <<chains, managerRunning, armed, io, nodeRunning, loop>>

-----------------------------------------------------------------------------
(* The other threads. *)

LoopEnds(n, k) ==
    /\ Alive(n)
    /\ loop[n][k] = "runs"
    /\ ~nodeRunning[n]
    /\ loop' = [loop EXCEPT ![n][k] = "done"]
    /\ UNCHANGED <<vars, stage, chains, managerRunning, armed, io, nodeRunning>>

(* The accept handler arms the acceptor again while running_ is set. *)
Accept(n, c) ==
    /\ armed[n]
    /\ Accepted(n, c)
    /\ armed' = [armed EXCEPT ![n] = managerRunning[n]]
    /\ UNCHANGED <<stage, chains, managerRunning, io, nodeRunning, loop>>

OtherHandler(n, c) ==
    /\ Connected(n, c) \/ ReadError(n, c)
    /\ UNCHANGED lifeVars

Die(n, c) ==
    /\ n = Callee(c) => armed[n]
    /\ HandlerDies(n, c)
    /\ Vanish(n)

Handler(n) ==
    /\ io[n] = "runs"
    /\ \E c \in Connections : Accept(n, c) \/ OtherHandler(n, c) \/ Die(n, c)

(* io_context::stop: run() returns behind the handler it is in. *)
IoReturns(n) ==
    /\ Alive(n)
    /\ io[n] = "stopping"
    /\ io' = [io EXCEPT ![n] = "done"]
    /\ UNCHANGED <<vars, stage, chains, managerRunning, armed, nodeRunning, loop>>

Io(n) == Handler(n) \/ IoReturns(n)

-----------------------------------------------------------------------------
StartUp(n) == OpenAcceptor(n) \/ StartThread(n) \/ Dial(n) \/ StartLoops(n)

ShutDown(n) ==
    \/ StopLoops(n) \/ JoinLoops(n) \/ Unflag(n) \/ StopContext(n) \/ JoinIo(n)

LifeNext ==
    \/ \E n \in Nodes :
          \/ InitializeComponents(n) \/ StartUpFails(n) \/ StartUp(n)
          \/ Signal(n) \/ Kill(n) \/ ShutDown(n)
          \/ Io(n) \/ \E k \in Chains : LoopEnds(n, k)
    \/ \E c \in Connections : (Tcp(c) \/ Break(c)) /\ UNCHANGED lifeVars

LifeSpec == LifeInit /\ [][LifeNext]_allVars

(* The threads of a process run, a loop looks at running_ again after its  *)
(* sleep, and TCP answers a dial.  Nobody has to start a node or to send   *)
(* it a signal.                                                            *)
LifeFairness ==
    /\ \A n \in Nodes :
          /\ WF_allVars(StartUp(n) \/ ShutDown(n))
          /\ WF_allVars(Io(n))
          /\ WF_allVars(\E k \in Chains : LoopEnds(n, k))
    /\ \A c \in Connections : WF_allVars(Tcp(c) /\ UNCHANGED lifeVars)

LifeFairSpec == LifeSpec /\ LifeFairness

-----------------------------------------------------------------------------
LifeTypeOK ==
    /\ TypeOK
    /\ stage \in [Nodes -> Stages]
    /\ chains \in [Nodes -> SUBSET Chains]
    /\ managerRunning \in [Nodes -> BOOLEAN]
    /\ armed \in [Nodes -> BOOLEAN]
    /\ io \in [Nodes -> {"none", "runs", "stopping", "done"}]
    /\ nodeRunning \in [Nodes -> BOOLEAN]
    /\ loop \in [Nodes -> [Chains -> {"none", "runs", "done"}]]

(* While the manager runs, somebody who dials is accepted: no handler finds*)
(* running_ unset and leaves the acceptor without an async_accept, though  *)
(* the first may run as soon as the io thread does (NetworkManager::start, *)
(* do_accept).                                                             *)
AcceptStaysArmed ==
    \A n \in Nodes : Alive(n) /\ managerRunning[n] /\ io[n] = "runs" => armed[n]

(* A message is handled, and a block produced, only by a node whose        *)
(* consensus objects are all there (Node::start: initialize_components     *)
(* comes before the network manager and the loops).                        *)
HandlersFindComponents ==
    \A n \in Nodes :
        (\/ \E c \in Connections : session[n][c] = "hearing"
         \/ \E k \in Chains : loop[n][k] = "runs")
            => chains[n] = ChainsOf(RoleOf[n])

(* A loop may produce and broadcast to its last round: the manager is not  *)
(* stopped before the loops have ended, nor is anything left running when  *)
(* main() destroys the node (Node::stop, ~Node).                           *)
ShutdownOrder ==
    \A n \in Nodes :
        /\ (\E k \in Chains : loop[n][k] = "runs") /\ Alive(n)
               => managerRunning[n] /\ io[n] = "runs"
        /\ stage[n] = "returned"
               => io[n] = "done" /\ \A k \in Chains : loop[n][k] # "runs"

(* A node that is asked to stop ends, whatever its peers and its threads   *)
(* are doing.                                                              *)
QuitEnds == \A n \in Nodes : (stage[n] = "quitting") ~> ~Alive(n)
=============================================================================

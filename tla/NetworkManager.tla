--------------------------- MODULE NetworkManager ---------------------------
(***************************************************************************)
(* Who is connected to whom: NetworkManager (src/src/networking/           *)
(* network_manager.cpp) of several nodes, and the part of Node::start and  *)
(* Node::stop that uses it.                                                *)
(*                                                                         *)
(* In each node two threads act.  The main thread opens the acceptor, sets *)
(* the receive callback and dials the known peers.  The io thread runs the *)
(* completion handlers, from the moment the acceptor is open: it makes a   *)
(* session of every connection, enters it in peers_ under the address of   *)
(* the other side, and starts it with a copy of the callback it finds.     *)
(*                                                                         *)
(* A node dials a known peer at most once with success, so a connection is *)
(* named by the two nodes <<caller, callee>>.  A program that is started   *)
(* again is another node, perhaps with the same address.  What is written  *)
(* to a session is the subject of PeerSession.                             *)
(***************************************************************************)
EXTENDS Naturals, Sequences, SequencesExt

CONSTANTS
    Nodes,
    AddressOf,     \* the IP address of each node; several may share one
    Known,         \* known_peers_: for each node, a sequence of nodes
    NoConnection,  \* peers_ has no entry
    Attempts,      \* retries in Node::start (5)
    MaxFaults      \* bound: failures of a name, a port or a connection

ASSUME NodeAssumption ==
    /\ Known \in [Nodes -> Seq(Nodes)]
    /\ \A n \in Nodes : n \notin ToSet(Known[n]) /\ IsInjective(Known[n])
ASSUME BoundAssumption == Attempts \in Nat \ {0} /\ MaxFaults \in Nat

Addresses == {AddressOf[n] : n \in Nodes}
Connections == {c \in Nodes \X Nodes : c[1] # c[2]}
Caller(c) == c[1]
Callee(c) == c[2]
Other(n, c) == IF n = c[1] THEN c[2] ELSE c[1]

ASSUME ConnectionAssumption == NoConnection \notin Connections

VARIABLES
    phase,    \* the main thread of each node, see Phases
    index,    \* Node::start: position in known_peers_
    retries,  \* Node::start: attempts left for this peer
    link,     \* the state of each connection, see LinkStates
    session,  \* what each node made of each connection, see SessionStates
    peers,    \* peers_ of each node
    faults    \* history: failures so far

mainVars == <<phase, index, retries>>
vars == <<mainVars, link, session, peers, faults>>

(* "setting": inside the assignment of receive_callback_. *)
Phases == {"off", "listening", "setting", "connecting", "running", "ended"}
LinkStates == {"none", "dialling", "refused", "up", "gone"}
(* "deaf": started with an empty callback, which it keeps for good. *)
SessionStates == {"none", "deaf", "hearing", "closed"}

Fault ==
    /\ faults < MaxFaults
    /\ faults' = faults + 1

(* A slip the checks must notice: the acceptor is opened last. *)
ListensWhenRunning(n) == phase[n] = "running"

(* The acceptor is open until the process ends. *)
Listens(n) == phase[n] \in {"listening", "setting", "connecting", "running"}

Alive(n) == phase[n] \notin {"off", "ended"}

-----------------------------------------------------------------------------
Init ==
    /\ phase = [n \in Nodes |-> "off"]
    /\ index = [n \in Nodes |-> 1]
    /\ retries = [n \in Nodes |-> Attempts]
    /\ link = [c \in Connections |-> "none"]
    /\ session = [n \in Nodes |-> [c \in Connections |-> "none"]]
    /\ peers = [n \in Nodes |-> [a \in Addresses |-> NoConnection]]
    /\ faults = 0

(* NetworkManager::start: acceptor, first do_accept, io thread. *)
Start(n) ==
    /\ phase[n] = "off"
    /\ phase' = [phase EXCEPT ![n] = "listening"]
    /\ UNCHANGED <<index, retries, link, session, peers, faults>>

(* The port is taken: start() answers false and the program ends. *)
StartFails(n) ==
    /\ phase[n] = "off"
    /\ Fault
    /\ phase' = [phase EXCEPT ![n] = "ended"]
    /\ UNCHANGED <<index, retries, link, session, peers>>

(* set_receive_callback: a plain assignment, while the io thread may be    *)
(* copying the same object.                                                *)
SetCallback(n) ==
    /\ \/ phase[n] = "listening" /\ phase' = [phase EXCEPT ![n] = "setting"]
       \/ phase[n] = "setting" /\ phase' = [phase EXCEPT ![n] = "connecting"]
    /\ UNCHANGED <<index, retries, link, session, peers, faults>>

(* A slip the checks must notice: the attempts left are carried over. *)
NextPeerAddsUp(n) ==
    /\ index' = [index EXCEPT ![n] = @ + 1]
    /\ retries' = [retries EXCEPT ![n] = @ + Attempts]

NextPeer(n) ==
    /\ index' = [index EXCEPT ![n] = @ + 1]
    /\ retries' = [retries EXCEPT ![n] = Attempts]

Dialled(n) == <<n, Known[n][index[n]]>>

(* A slip the checks must notice: peers are dialled before the callback is *)
(* set.                                                                    *)
ConnectEarly(n) ==
    /\ phase[n] \in {"listening", "connecting"}
    /\ index[n] <= Len(Known[n])
    /\ link' = [link EXCEPT ![Dialled(n)] = "dialling"]
    /\ NextPeer(n)
    /\ UNCHANGED <<phase, session, peers, faults>>

(* connect_to_peer starts an asynchronous connect and answers true, which  *)
(* ends the retry loop of Node::start for this peer.                       *)
Connect(n) ==
    /\ phase[n] = "connecting"
    /\ index[n] <= Len(Known[n])
    /\ link' = [link EXCEPT ![Dialled(n)] = "dialling"]
    /\ NextPeer(n)
    /\ UNCHANGED <<phase, session, peers, faults>>

(* A slip the checks must notice: one attempt too many. *)
ConnectThrowsOnceMore(n) ==
    /\ phase[n] = "connecting"
    /\ index[n] <= Len(Known[n])
    /\ Fault
    /\ IF retries[n] = 0
       THEN NextPeer(n)
       ELSE retries' = [retries EXCEPT ![n] = @ - 1] /\ UNCHANGED index
    /\ UNCHANGED <<phase, link, session, peers>>

(* connect_to_peer answers false only when resolving the address throws.   *)
ConnectThrows(n) ==
    /\ phase[n] = "connecting"
    /\ index[n] <= Len(Known[n])
    /\ Fault
    /\ IF retries[n] = 1
       THEN NextPeer(n)
       ELSE retries' = [retries EXCEPT ![n] = @ - 1] /\ UNCHANGED index
    /\ UNCHANGED <<phase, link, session, peers>>

(* The producer threads are started. *)
Run(n) ==
    /\ phase[n] = "connecting"
    /\ index[n] > Len(Known[n])
    /\ phase' = [phase EXCEPT ![n] = "running"]
    /\ UNCHANGED <<index, retries, link, session, peers, faults>>

(* The process ends, and with it its sockets. *)
End(n) ==
    /\ phase' = [phase EXCEPT ![n] = "ended"]
    /\ link' = [c \in Connections |->
                  CASE n \in {c[1], c[2]} /\ link[c] = "up" -> "gone"
                    [] n = Caller(c) /\ link[c] = "dialling" -> "refused"
                    [] OTHER -> link[c]]
    /\ session' = [session EXCEPT ![n] = [c \in Connections |->
                     IF @[c] = "none" THEN "none" ELSE "closed"]]
    /\ UNCHANGED <<index, retries, peers>>

(* Node::stop, or a signal before its handler is installed. *)
Stop(n) ==
    /\ Alive(n)
    /\ End(n)
    /\ UNCHANGED faults

-----------------------------------------------------------------------------
(* TCP. *)

Establish(c) ==
    /\ link[c] = "dialling"
    /\ Listens(Callee(c))
    /\ link' = [link EXCEPT ![c] = "up"]
    /\ UNCHANGED <<mainVars, session, peers, faults>>

(* Nobody listens.  The handler of async_connect logs that, and no more.   *)
Refuse(c) ==
    /\ link[c] = "dialling"
    /\ ~Listens(Callee(c))
    /\ link' = [link EXCEPT ![c] = "refused"]
    /\ UNCHANGED <<mainVars, session, peers, faults>>

Break(c) ==
    /\ link[c] = "up"
    /\ Fault
    /\ link' = [link EXCEPT ![c] = "gone"]
    /\ UNCHANGED <<mainVars, session, peers>>

-----------------------------------------------------------------------------
(* The io thread. *)

HandlerRuns(n, c) ==
    /\ Alive(n)
    /\ link[c] \in {"up", "gone"}
    /\ session[n][c] = "none"

(* What a handler can copy of receive_callback_, as a session state: it is *)
(* empty, set, or just being assigned.                                     *)
Callback(n) ==
    CASE phase[n] = "listening" -> {"deaf"}
      [] phase[n] = "setting" -> {"deaf", "hearing"}
      [] OTHER -> {"hearing"}

StartSession(n, c) ==
    /\ \E heard \in Callback(n) : session' = [session EXCEPT ![n][c] = heard]
    /\ UNCHANGED <<mainVars, link, faults>>

(* peers_[ip] = peer: a session that was there under the same address is   *)
(* not in the map any more.                                                *)
Register(n, c) == peers' = [peers EXCEPT ![n][AddressOf[Other(n, c)]] = c]

(* The handler of async_connect. *)
Connected(n, c) ==
    /\ n = Caller(c)
    /\ HandlerRuns(n, c)
    /\ Register(n, c)
    /\ StartSession(n, c)

(* A slip the checks must notice: only dialled peers are entered. *)
AcceptedUnregistered(n, c) ==
    /\ n = Callee(c)
    /\ HandlerRuns(n, c)
    /\ StartSession(n, c)
    /\ UNCHANGED peers

(* The handler of async_accept, which also accepts the next connection. *)
Accepted(n, c) ==
    /\ n = Callee(c)
    /\ HandlerRuns(n, c)
    /\ Register(n, c)
    /\ StartSession(n, c)

(* The other side is gone before the session is made: remote_endpoint()    *)
(* throws, nobody catches, and the process is terminated.  The same may    *)
(* come of copying a callback that is half assigned.                       *)
HandlerDies(n, c) ==
    /\ n \in {c[1], c[2]}
    /\ HandlerRuns(n, c)
    /\ link[c] = "gone" \/ phase[n] = "setting"
    /\ End(n)
    /\ UNCHANGED faults

(* The handler of async_read_some: the socket is closed.  The session      *)
(* stays in peers_.                                                        *)
ReadError(n, c) ==
    /\ Alive(n)
    /\ link[c] = "gone"
    /\ session[n][c] \in {"deaf", "hearing"}
    /\ session' = [session EXCEPT ![n][c] = "closed"]
    /\ UNCHANGED <<mainVars, link, peers, faults>>

MainThread(n) == SetCallback(n) \/ Connect(n) \/ ConnectThrows(n) \/ Run(n)

IoThread(n) ==
    \E c \in Connections :
        Connected(n, c) \/ Accepted(n, c) \/ HandlerDies(n, c) \/ ReadError(n, c)

Tcp(c) == Establish(c) \/ Refuse(c)

Next ==
    \/ \E n \in Nodes :
          Start(n) \/ StartFails(n) \/ Stop(n) \/ MainThread(n) \/ IoThread(n)
    \/ \E c \in Connections : Tcp(c) \/ Break(c)

Spec == Init /\ [][Next]_vars

(* The two threads of a node keep running, and TCP answers a dial.  Nobody *)
(* has to start a node or to stop it.                                      *)
Fairness ==
    /\ \A n \in Nodes : WF_vars(MainThread(n)) /\ WF_vars(IoThread(n))
    /\ \A c \in Connections : WF_vars(Tcp(c))

FairSpec == Spec /\ Fairness

-----------------------------------------------------------------------------
TypeOK ==
    /\ phase \in [Nodes -> Phases]
    /\ index \in [Nodes -> Nat \ {0}]
    /\ retries \in [Nodes -> 1..Attempts]
    /\ link \in [Connections -> LinkStates]
    /\ session \in [Nodes -> [Connections -> SessionStates]]
    /\ peers \in [Nodes -> [Addresses -> Connections \cup {NoConnection}]]
    /\ faults \in Nat

(* A session that still carries what is written to it. *)
Live(n, c) == link[c] = "up" /\ session[n][c] \in {"deaf", "hearing"}

Between(n, m) == {<<n, m>>, <<m, n>>}

(* broadcast_data of n writes to a live session with m. *)
Reaches(n, m) ==
    \E a \in Addresses : peers[n][a] \in Between(n, m) /\ Live(n, peers[n][a])

Hears(n, m) == \E c \in Between(n, m) : Live(n, c) /\ session[n][c] = "hearing"

NoneGone(n, m) == \A c \in Between(n, m) : link[c] # "gone"

(* A node that dials hears what comes back, whatever the io threads did    *)
(* while the callback was being set: only accepted sessions can be deaf.   *)
DialledSessionsHear ==
    \A c \in Connections : session[Caller(c)][c] # "deaf"

(* network_manager.hpp: broadcast_data "broadcasts data to all connected   *)
(* peers".  With an address for each node, a second connection of the same *)
(* two nodes that takes the first one's place in peers_ loses nobody, as   *)
(* long as none of the connections between the two breaks.                 *)
BroadcastReachesPeers ==
    \A n, m \in Nodes :
        (n # m /\ NoneGone(n, m) /\ \E c \in Between(n, m) : Live(n, c))
            => Reaches(n, m)

(* Two nodes that know each other, as the two of main.cpp do, meet in the  *)
(* end whichever starts first: each has a live session on which it hears   *)
(* the other, unless one of them ends, a connection breaks, or failures    *)
(* can have used up all attempts.                                          *)
Mutual(n, m) == n \in ToSet(Known[m]) /\ m \in ToSet(Known[n])

MutualPeersMeet ==
    \A n \in Nodes : \A m \in ToSet(Known[n]) :
        (Mutual(n, m) /\ phase[n] = "running" /\ phase[m] = "running")
            ~> \/ Hears(n, m) /\ Hears(m, n)
               \/ ~Alive(n) \/ ~Alive(m) \/ ~NoneGone(n, m)
               \/ faults >= Attempts

(* Node::start: "Connect to known peers with retry logic": a known peer    *)
(* that is up is connected in the end.                                     *)
KnownPeersConnected ==
    \A n \in Nodes : \A m \in ToSet(Known[n]) :
        (phase[n] = "running" /\ phase[m] = "running")
            ~> (Reaches(n, m) \/ ~Alive(n) \/ ~Alive(m))

(* network_manager.hpp: set_receive_callback "sets the callback function   *)
(* for received data": what a node broadcasts is heard by every running    *)
(* node it is written to.                                                  *)
BroadcastIsHeard ==
    \A n, m \in Nodes : \A a \in Addresses :
        LET c == peers[n][a] IN
        (c \in Between(n, m) /\ Live(n, c) /\ Live(m, c) /\ phase[m] = "running")
            => session[m][c] = "hearing"
=============================================================================

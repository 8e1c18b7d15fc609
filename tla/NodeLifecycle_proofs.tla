------------------------- MODULE NodeLifecycle_proofs -------------------------
(***************************************************************************)
(* Proofs about NetworkManager and about NodeLifecycle, which composes it. *)
(* Of NetworkManager, for any number of nodes, whatever they know of each  *)
(* other: its type invariant, that the sessions a node dialled hear, and,  *)
(* when every node has an address of its own, that a broadcast reaches     *)
(* every peer.  Of NodeLifecycle, for nodes of any role: that it implements *)
(* NetworkManager, so that the theorems about NetworkManager hold of whole *)
(* processes; its type invariant; and the order in which a process starts  *)
(* and stops its threads.                                                  *)
(***************************************************************************)
EXTENDS NodeLifecycle, TLAPS

-----------------------------------------------------------------------------
(* NetworkManager. *)

LEMMA ConnectionEnds ==
    \A c \in Connections :
        /\ Caller(c) \in Nodes /\ Callee(c) \in Nodes /\ Caller(c) # Callee(c)
        /\ \A n \in Nodes : Other(n, c) \in Nodes
        /\ \A n \in {c[1], c[2]} : n # Other(n, c) /\ c \in Between(n, Other(n, c))
  BY DEF Connections, Caller, Callee, Other, Between

LEMMA AddressIsAddress == \A n \in Nodes : AddressOf[n] \in Addresses
  BY DEF Addresses

(* The counters of the retry loop stay in their ranges. *)
CountersTyped == index \in [Nodes -> Nat \ {0}] /\ retries \in [Nodes -> 1..Attempts]

LEMMA NextPeerTyped ==
    ASSUME CountersTyped, NEW n \in Nodes, NextPeer(n)
    PROVE  CountersTyped'
  BY BoundAssumption DEF CountersTyped, NextPeer

LEMMA RetryTyped ==
    ASSUME CountersTyped, NEW n \in Nodes, ConnectThrows(n)
    PROVE  CountersTyped'
<1>1. CASE retries[n] = 1
  BY <1>1, NextPeerTyped DEF ConnectThrows
<1>2. CASE retries[n] # 1
  <2>1. retries' = [retries EXCEPT ![n] = @ - 1] /\ index' = index
    BY <1>2 DEF ConnectThrows
  <2> QED
    BY <1>2, <2>1, BoundAssumption DEF CountersTyped
<1> QED
  BY <1>1, <1>2

LEMMA IndexGrows ==
    ASSUME CountersTyped, NEW n \in Nodes, ConnectThrows(n)
    PROVE  \A m \in Nodes : \A i \in 1..Len(Known[m]) : i >= index'[m] => i >= index[m]
<1> SUFFICES ASSUME NEW m \in Nodes, NEW i \in Int, i >= index'[m]
             PROVE  i >= index[m]
  OBVIOUS
<1>1. index' = index \/ index' = [index EXCEPT ![n] = @ + 1]
  BY DEF ConnectThrows, NextPeer
<1>2. index \in [Nodes -> Nat]
  BY DEF CountersTyped
<1> HIDE DEF CountersTyped, ConnectThrows
<1> QED
  BY <1>1, <1>2

(* Every variable has its type. *)
THEOREM Typing == Spec => []TypeOK
<1>1. Init => TypeOK
  BY BoundAssumption DEF Init, TypeOK, Phases, LinkStates, SessionStates
<1>2. TypeOK /\ [Next]_vars => TypeOK'
  <2> SUFFICES ASSUME TypeOK, [Next]_vars
               PROVE  TypeOK'
    OBVIOUS
  <2> USE BoundAssumption DEF TypeOK, Phases, LinkStates, SessionStates, Fault, mainVars
  <2>1. ASSUME NEW n \in Nodes, Start(n) \/ StartFails(n) \/ SetCallback(n) \/ Run(n)
        PROVE  TypeOK'
    <3>1. /\ phase' \in [Nodes -> Phases]
          /\ faults' \in Nat
          /\ UNCHANGED <<index, retries, link, session, peers>>
      <4>1. CASE Start(n)
        BY <4>1 DEF Start
      <4>2. CASE StartFails(n)
        BY <4>2 DEF StartFails
      <4>3. CASE SetCallback(n)
        BY <4>3 DEF SetCallback
      <4>4. CASE Run(n)
        BY <4>4 DEF Run
      <4> QED
        BY <2>1, <4>1, <4>2, <4>3, <4>4
    <3> QED
      BY <3>1
  <2>2. ASSUME NEW n \in Nodes, Connect(n)
        PROVE  TypeOK'
    <3>1. CountersTyped'
      BY <2>2, NextPeerTyped DEF Connect, CountersTyped
    <3>2. link' \in [Connections -> LinkStates]
      BY <2>2 DEF Connect
    <3> QED
      BY <2>2, <3>1, <3>2 DEF Connect, CountersTyped
  <2>3. ASSUME NEW n \in Nodes, ConnectThrows(n)
        PROVE  TypeOK'
    <3>1. CountersTyped'
      BY <2>3, RetryTyped DEF CountersTyped
    <3> QED
      BY <2>3, <3>1 DEF ConnectThrows, CountersTyped
  <2>4. ASSUME NEW n \in Nodes, End(n), faults' = faults
        PROVE  TypeOK'
    BY <2>4 DEF End
  <2>5. ASSUME NEW n \in Nodes, NEW c \in Connections, Connected(n, c) \/ Accepted(n, c)
        PROVE  TypeOK'
    <3>1. PICK heard \in Callback(n) : session' = [session EXCEPT ![n][c] = heard]
      BY <2>5 DEF Connected, Accepted, StartSession
    <3>2. session' \in [Nodes -> [Connections -> SessionStates]]
      BY <3>1 DEF Callback
    <3>3. peers' \in [Nodes -> [Addresses -> Connections \cup {NoConnection}]]
      <4>1. peers' = [peers EXCEPT ![n][AddressOf[Other(n, c)]] = c]
        BY <2>5 DEF Connected, Accepted, Register
      <4>2. AddressOf[Other(n, c)] \in Addresses
        BY ConnectionEnds, AddressIsAddress
      <4> QED
        BY <4>1, <4>2
    <3> QED
      BY <2>5, <3>2, <3>3 DEF Connected, Accepted, StartSession
  <2>6. ASSUME NEW n \in Nodes, NEW c \in Connections, ReadError(n, c)
        PROVE  TypeOK'
    BY <2>6 DEF ReadError
  <2>7. ASSUME NEW c \in Connections, Tcp(c) \/ Break(c)
        PROVE  TypeOK'
    <3>1. CASE Tcp(c)
      BY <2>7, <3>1 DEF Tcp, Establish, Refuse
    <3>2. CASE Break(c)
      BY <2>7, <3>2 DEF Break
    <3> QED
      BY <2>7, <3>1, <3>2
  <2>8. CASE UNCHANGED vars
    BY <2>8 DEF vars
  <2> QED
    BY <2>1, <2>2, <2>3, <2>4, <2>5, <2>6, <2>7, <2>8
    DEF Next, Stop, MainThread, IoThread, HandlerDies
<1> QED
  BY <1>1, <1>2, PTL DEF Spec

-----------------------------------------------------------------------------
(* A node dials only when its callback is set and each peer only once; a    *)
(* connection has no sessions before it is dialled, and closed ones only   *)
(* when it is gone.                                                        *)
CallbackSet(n) == phase[n] \in {"connecting", "running", "ended"}

NotDialledYet ==
    \A n \in Nodes : \A i \in 1..Len(Known[n]) :
        i >= index[n] => link[<<n, Known[n][i]>>] = "none"

SessionsFollowLink ==
    \A c \in Connections : \A n \in Nodes :
        /\ session[n][c] # "none" => n \in {c[1], c[2]} /\ link[c] \in {"up", "gone"}
        /\ session[n][c] = "closed" => link[c] = "gone"

DialInv ==
    /\ \A c \in Connections : link[c] # "none" => CallbackSet(Caller(c))
    /\ NotDialledYet
    /\ SessionsFollowLink
    /\ DialledSessionsHear

HearInv == TypeOK /\ DialInv

LEMMA KnownPeers ==
    \A n \in Nodes : \A i, j \in 1..Len(Known[n]) :
        /\ <<n, Known[n][i]>> \in Connections
        /\ Known[n][i] = Known[n][j] => i = j
  BY NodeAssumption DEF Connections, ToSet, IsInjective

LEMMA InitHears == Init => DialInv
  BY BoundAssumption, ConnectionEnds, KnownPeers
  DEF Init, DialInv, NotDialledYet, SessionsFollowLink, DialledSessionsHear

(* Every step keeps the invariant. *)
LEMMA NextHears ==
    ASSUME HearInv, [Next]_vars
    PROVE  DialInv'
<1> USE ConnectionEnds
    DEF HearInv, DialInv, TypeOK, mainVars, CallbackSet, NotDialledYet,
        SessionsFollowLink, DialledSessionsHear
<1>1. ASSUME NEW n \in Nodes, Start(n) \/ StartFails(n) \/ SetCallback(n) \/ Run(n)
      PROVE  DialInv'
  <2>1. /\ \A m \in Nodes : CallbackSet(m) => CallbackSet(m)'
        /\ UNCHANGED <<index, link, session>>
    BY <1>1 DEF Start, StartFails, SetCallback, Run, Phases
  <2> QED
    BY <2>1
<1>2. ASSUME NEW n \in Nodes, Connect(n)
      PROVE  DialInv'
  <2>1. /\ index[n] \in 1..Len(Known[n])
        /\ Dialled(n) = <<n, Known[n][index[n]]>>
        /\ Dialled(n) \in Connections /\ Caller(Dialled(n)) = n
        /\ link[Dialled(n)] = "none"
    BY <1>2, KnownPeers, NodeAssumption DEF Connect, Dialled, Caller
  <2>2. /\ link' = [link EXCEPT ![Dialled(n)] = "dialling"]
        /\ index' = [index EXCEPT ![n] = @ + 1]
        /\ UNCHANGED <<phase, session>>
        /\ CallbackSet(n)
    BY <1>2 DEF Connect, NextPeer
  <2>3. NotDialledYet'
    <3> SUFFICES ASSUME NEW m \in Nodes, NEW i \in 1..Len(Known[m]), i >= index'[m]
                 PROVE  link'[<<m, Known[m][i]>>] = "none"
      OBVIOUS
    <3>1. i >= index[m] /\ (m = n => i # index[n])
      BY <2>1, <2>2
    <3>2. <<m, Known[m][i]>> # Dialled(n)
      <4>1. CASE m = n
        BY <2>1, <3>1, <4>1, KnownPeers
      <4>2. CASE m # n
        BY <2>1, <4>2
      <4> QED
        BY <4>1, <4>2
    <3>3. link[<<m, Known[m][i]>>] = "none"
      BY <3>1
    <3> QED
      BY <2>2, <3>2, <3>3, KnownPeers
  <2>4. SessionsFollowLink'
    BY <2>1, <2>2
  <2>5. \A c \in Connections : link'[c] # "none" => CallbackSet(Caller(c))'
    <3>1. \A c \in Connections : c # Dialled(n) => link'[c] = link[c]
      BY <2>2
    <3> QED
      BY <2>1, <2>2, <3>1
  <2>6. DialledSessionsHear'
    BY <2>2
  <2> QED
    BY <2>3, <2>4, <2>5, <2>6
<1>3. ASSUME NEW n \in Nodes, ConnectThrows(n)
      PROVE  DialInv'
  <2>1. UNCHANGED <<phase, link, session>>
    BY <1>3 DEF ConnectThrows
  <2>2. NotDialledYet'
    <3> SUFFICES ASSUME NEW m \in Nodes, NEW i \in 1..Len(Known[m]), i >= index'[m]
                 PROVE  link[<<m, Known[m][i]>>] = "none"
      BY <2>1
    <3>1. i >= index[m]
      BY <1>3, IndexGrows DEF CountersTyped
    <3> QED
      BY <3>1
  <2> QED
    BY <2>1, <2>2
<1>4. ASSUME NEW n \in Nodes, End(n)
      PROVE  DialInv'
  <2>1. \A c \in Connections :
           /\ link'[c] = "none" <=> link[c] = "none"
           /\ link[c] = "gone" => link'[c] = "gone"
           /\ link[c] = "up" => link'[c] \in {"up", "gone"}
           /\ link[c] \in {"up", "gone"} /\ n \in {c[1], c[2]} => link'[c] = "gone"
    BY <1>4 DEF End, LinkStates
  <2>2. \A m \in Nodes : \A c \in Connections :
           session'[m][c] = IF m = n /\ session[m][c] # "none" THEN "closed"
                            ELSE session[m][c]
    BY <1>4 DEF End
  <2>3. \A m \in Nodes : phase'[m] = IF m = n THEN "ended" ELSE phase[m]
    BY <1>4 DEF End
  <2>4. NotDialledYet'
    BY <1>4, <2>1, KnownPeers DEF End
  <2> QED
    BY <2>1, <2>2, <2>3, <2>4
<1>5. ASSUME NEW n \in Nodes, NEW c \in Connections, Connected(n, c) \/ Accepted(n, c)
      PROVE  DialInv'
  <2>1. PICK heard \in Callback(n) : session' = [session EXCEPT ![n][c] = heard]
    BY <1>5 DEF Connected, Accepted, StartSession
  <2>2. /\ UNCHANGED <<phase, index, link>>
        /\ n \in {c[1], c[2]} /\ link[c] \in {"up", "gone"}
        /\ n = Caller(c) \/ n = Callee(c)
    BY <1>5 DEF Connected, Accepted, StartSession, HandlerRuns, Caller, Callee
  <2>3. heard \in {"deaf", "hearing"}
    BY <2>1 DEF Callback
  <2>4. n = Caller(c) => heard = "hearing"
    BY <2>1, <2>2 DEF Callback
  <2> QED
    BY <2>1, <2>2, <2>3, <2>4
<1>6. ASSUME NEW n \in Nodes, NEW c \in Connections, ReadError(n, c)
      PROVE  DialInv'
  BY <1>6 DEF ReadError
<1>7. ASSUME NEW c \in Connections, Tcp(c) \/ Break(c)
      PROVE  DialInv'
  <2>1. /\ \A d \in Connections :
              /\ link'[d] = "none" <=> link[d] = "none"
              /\ link[d] = "gone" => link'[d] = "gone"
              /\ link[d] = "up" => link'[d] \in {"up", "gone"}
        /\ UNCHANGED <<phase, index, session>>
    BY <1>7 DEF Tcp, Establish, Refuse, Break
  <2>2. NotDialledYet'
    BY <2>1, KnownPeers
  <2> QED
    BY <2>1, <2>2
<1>8. CASE UNCHANGED vars
  BY <1>8 DEF vars
<1> QED
  BY <1>1, <1>2, <1>3, <1>4, <1>5, <1>6, <1>7, <1>8
  DEF Next, Stop, MainThread, IoThread, HandlerDies

(* Sessions that a node dialled are never deaf: the callback is set before *)
(* the first peer is dialled.                                              *)
THEOREM DialledHear == Spec => []DialledSessionsHear
<1>1. DialInv => DialledSessionsHear
  BY DEF DialInv
<1> QED
  BY <1>1, Typing, InitHears, NextHears, PTL DEF Spec, HearInv

-----------------------------------------------------------------------------
(* Every session a node ever made has an entry in peers_ under the address *)
(* of its peer: itself, or another session of the same two nodes.          *)
Entry(n, m) == peers[n][AddressOf[m]]

Registered ==
    \A n \in Nodes : \A c \in Connections :
        session[n][c] # "none" =>
            /\ Entry(n, Other(n, c)) \in Between(n, Other(n, c)) \cap Connections
            /\ session[n][Entry(n, Other(n, c))] # "none"

OneAddressEach == \A n, m \in Nodes : AddressOf[n] = AddressOf[m] => n = m

LEMMA NextRegisters ==
    ASSUME OneAddressEach, HearInv, Registered, [Next]_vars
    PROVE  Registered'
<1> USE ConnectionEnds DEF HearInv, TypeOK, mainVars, Registered, Entry
<1>1. ASSUME \A m \in Nodes : \A d \in Connections :
                session'[m][d] = "none" <=> session[m][d] = "none",
             UNCHANGED peers
      PROVE  Registered'
  BY <1>1
<1>2. ASSUME NEW n \in Nodes, NEW c \in Connections, Connected(n, c) \/ Accepted(n, c)
      PROVE  Registered'
  <2>1. PICK heard \in {"deaf", "hearing"} : session' = [session EXCEPT ![n][c] = heard]
    BY <1>2 DEF Connected, Accepted, StartSession, Callback
  <2>2. /\ n \in {c[1], c[2]}
        /\ peers' = [peers EXCEPT ![n][AddressOf[Other(n, c)]] = c]
    BY <1>2 DEF Connected, Accepted, Register, Caller, Callee
  <2>3. SUFFICES ASSUME NEW m \in Nodes, NEW d \in Connections, session'[m][d] # "none"
                 PROVE  /\ Entry(m, Other(m, d))' \in Between(m, Other(m, d)) \cap Connections
                        /\ session'[m][Entry(m, Other(m, d))'] # "none"
    OBVIOUS
  <2>4. \A e \in Connections : session[m][e] # "none" => session'[m][e] # "none"
    BY <2>1
  <2>5. AddressOf[Other(m, d)] \in Addresses /\ AddressOf[Other(n, c)] \in Addresses
    BY AddressIsAddress
  <2>6. CASE m = n /\ AddressOf[Other(m, d)] = AddressOf[Other(n, c)]
    <3>1. Other(m, d) = Other(n, c)
      BY <2>6 DEF OneAddressEach
    <3>2. Entry(m, Other(m, d))' = c
      BY <2>2, <2>5, <2>6
    <3>3. session'[m][c] # "none"
      BY <2>1, <2>6
    <3> QED
      BY <2>2, <2>6, <3>1, <3>2, <3>3
  <2>7. CASE ~(m = n /\ AddressOf[Other(m, d)] = AddressOf[Other(n, c)])
    <3>1. Entry(m, Other(m, d))' = Entry(m, Other(m, d))
      BY <2>2, <2>5, <2>7
    <3>2. session[m][d] # "none"
      BY <2>1, <2>3, <2>7
    <3> QED
      BY <2>4, <3>1, <3>2
  <2> QED
    BY <2>6, <2>7
<1>3. ASSUME NEW n \in Nodes, End(n)
      PROVE  Registered'
  BY <1>1, <1>3 DEF End
<1>4. ASSUME NEW n \in Nodes, NEW c \in Connections, ReadError(n, c)
      PROVE  Registered'
  BY <1>1, <1>4 DEF ReadError
<1>5. CASE UNCHANGED <<session, peers>>
  BY <1>1, <1>5
<1> QED
  BY <1>2, <1>3, <1>4, <1>5
  DEF Next, Stop, MainThread, IoThread, HandlerDies, Start, StartFails, SetCallback,
      Connect, ConnectThrows, Run, Tcp, Establish, Refuse, Break, vars

LEMMA RegisteredReaches ==
    ASSUME HearInv, Registered
    PROVE  BroadcastReachesPeers
<1> SUFFICES ASSUME NEW n \in Nodes, NEW m \in Nodes, n # m, NoneGone(n, m),
                    NEW c \in Between(n, m), Live(n, c)
             PROVE  Reaches(n, m)
  BY DEF BroadcastReachesPeers
<1> DEFINE d == Entry(n, m)
<1>1. c \in Connections /\ Other(n, c) = m
  BY DEF Between, Connections, Other
<1>2. d \in Between(n, m) \cap Connections /\ session[n][d] # "none"
  BY <1>1 DEF Live, Registered
<1>3. link[d] = "up"
  BY <1>2 DEF HearInv, DialInv, SessionsFollowLink, NoneGone
<1>4. session[n][d] \in {"deaf", "hearing"}
  BY <1>2, <1>3 DEF HearInv, DialInv, SessionsFollowLink, TypeOK, SessionStates
<1> QED
  BY <1>2, <1>3, <1>4, AddressIsAddress DEF Reaches, Live, Entry

(* When every node has an address of its own, a broadcast reaches every    *)
(* peer with which there is a live session, unless a connection between    *)
(* the two broke.                                                          *)
THEOREM BroadcastsReach ==
    ASSUME OneAddressEach
    PROVE  Spec => []BroadcastReachesPeers
<1>1. Init => Registered
  BY DEF Init, Registered
<1>2. HearInv /\ Registered /\ [Next]_vars => Registered'
  BY NextRegisters
<1>3. HearInv /\ Registered => BroadcastReachesPeers
  BY RegisteredReaches
<1> QED
  BY <1>1, <1>2, <1>3, Typing, InitHears, NextHears, PTL DEF Spec, HearInv

-----------------------------------------------------------------------------
(* NodeLifecycle. *)

(* A step of a process is a step of NetworkManager or leaves its variables *)
(* alone.                                                                  *)
LEMMA LifeStep == [LifeNext]_allVars => [Next]_vars
<1> SUFFICES ASSUME [LifeNext]_allVars
             PROVE  Next \/ UNCHANGED vars
  OBVIOUS
<1>1. ASSUME NEW n \in Nodes,
             \/ InitializeComponents(n) \/ StartThread(n) \/ Signal(n)
             \/ StopLoops(n) \/ JoinLoops(n) \/ Unflag(n) \/ StopContext(n)
             \/ IoReturns(n) \/ \E k \in Chains : LoopEnds(n, k)
      PROVE  UNCHANGED vars
  BY <1>1 DEF InitializeComponents, StartThread, Signal, StopLoops, JoinLoops, Unflag,
              StopContext, IoReturns, LoopEnds, Quietly
<1>2. ASSUME NEW n \in Nodes, StartUpFails(n) \/ OpenAcceptor(n) \/ Kill(n) \/ JoinIo(n)
      PROVE  Next
  BY <1>2 DEF StartUpFails, OpenAcceptor, Kill, JoinIo, Next
<1>3. ASSUME NEW n \in Nodes, Dial(n) \/ StartLoops(n)
      PROVE  Next
  BY <1>3 DEF Dial, StartLoops, MainThread, Next
<1>4. ASSUME NEW n \in Nodes, Handler(n)
      PROVE  Next
  <2>1. IoThread(n)
    BY <1>4 DEF Handler, Accept, OtherHandler, Die, IoThread
  <2> QED
    BY <2>1 DEF Next
<1>5. ASSUME NEW c \in Connections, Tcp(c) \/ Break(c)
      PROVE  Next
  BY <1>5 DEF Next
<1>6. CASE UNCHANGED allVars
  BY <1>6 DEF allVars
<1> QED
  BY <1>1, <1>2, <1>3, <1>4, <1>5, <1>6 DEF LifeNext, StartUp, ShutDown, Io

(* Processes, with their threads started and joined one by one, implement  *)
(* NetworkManager.                                                         *)
THEOREM Refinement == LifeSpec => Spec
<1>1. LifeInit => Init
  BY DEF LifeInit
<1> QED
  BY <1>1, LifeStep, PTL DEF LifeSpec, Spec

(* The theorems about NetworkManager, of processes: a session that was     *)
(* dialled has a callback, ...                                             *)
THEOREM LifeDialledHear == LifeSpec => []DialledSessionsHear
  BY Refinement, DialledHear, PTL

(* ... and a broadcast reaches every peer with a live session.             *)
THEOREM LifeBroadcastsReach ==
    ASSUME OneAddressEach
    PROVE  LifeSpec => []BroadcastReachesPeers
  BY Refinement, BroadcastsReach, PTL

-----------------------------------------------------------------------------
LifeTyped ==
    /\ stage \in [Nodes -> Stages]
    /\ chains \in [Nodes -> SUBSET Chains]
    /\ managerRunning \in [Nodes -> BOOLEAN]
    /\ armed \in [Nodes -> BOOLEAN]
    /\ io \in [Nodes -> {"none", "runs", "stopping", "done"}]
    /\ nodeRunning \in [Nodes -> BOOLEAN]
    /\ loop \in [Nodes -> [Chains -> {"none", "runs", "done"}]]

LEMMA RolesHaveChains == \A n \in Nodes : ChainsOf(RoleOf[n]) \subseteq Chains
<1> SUFFICES ASSUME NEW n \in Nodes
             PROVE  ChainsOf(RoleOf[n]) \subseteq Chains
  OBVIOUS
<1>1. RoleOf[n] \in {"time", "value", "dual"}
  BY RoleAssumption
<1> QED
  BY <1>1 DEF ChainsOf, Chains

LEMMA LifeTypedHolds == LifeSpec => []LifeTyped
<1>1. LifeInit => LifeTyped
  BY DEF LifeInit, LifeTyped, Stages
<1>2. LifeTyped /\ [LifeNext]_allVars => LifeTyped'
  <2> SUFFICES ASSUME LifeTyped, [LifeNext]_allVars
               PROVE  LifeTyped'
    OBVIOUS
  <2> USE DEF LifeTyped, Stages, Pass
  <2>1. ASSUME NEW n \in Nodes, InitializeComponents(n)
        PROVE  LifeTyped'
    BY <2>1, RolesHaveChains DEF InitializeComponents
  <2>2. ASSUME NEW n \in Nodes, Vanish(n)
        PROVE  LifeTyped'
    BY <2>2 DEF Vanish
  <2>3. ASSUME NEW n \in Nodes, OpenAcceptor(n) \/ StartThread(n) \/ Unflag(n) \/ StopContext(n)
        PROVE  LifeTyped'
    BY <2>3 DEF OpenAcceptor, StartThread, Unflag, StopContext
  <2>4. ASSUME NEW n \in Nodes, StartLoops(n)
        PROVE  LifeTyped'
    BY <2>4 DEF StartLoops
  <2>5. ASSUME NEW n \in Nodes, Signal(n) \/ StopLoops(n) \/ JoinLoops(n) \/ JoinIo(n)
        PROVE  LifeTyped'
    BY <2>5 DEF Signal, StopLoops, JoinLoops, JoinIo, Quietly
  <2>6. ASSUME NEW n \in Nodes, NEW c \in Connections, Accept(n, c)
        PROVE  LifeTyped'
    BY <2>6 DEF Accept
  <2>7. ASSUME NEW n \in Nodes, IoReturns(n)
        PROVE  LifeTyped'
    BY <2>7 DEF IoReturns
  <2>8. ASSUME NEW n \in Nodes, NEW k \in Chains, LoopEnds(n, k)
        PROVE  LifeTyped'
    BY <2>8 DEF LoopEnds
  <2>9. CASE UNCHANGED lifeVars
    BY <2>9 DEF lifeVars
  <2> QED
    BY <2>1, <2>2, <2>3, <2>4, <2>5, <2>6, <2>7, <2>8, <2>9
    DEF LifeNext, StartUp, ShutDown, Io, Handler, StartUpFails, Kill, Die, OtherHandler,
        Dial, allVars
<1> QED
  BY <1>1, <1>2, PTL DEF LifeSpec

(* Every variable has its type. *)
THEOREM LifeTyping == LifeSpec => []LifeTypeOK
<1>1. TypeOK /\ LifeTyped => LifeTypeOK
  BY DEF LifeTyped, LifeTypeOK
<1> QED
  BY <1>1, Refinement, Typing, LifeTypedHolds, PTL

-----------------------------------------------------------------------------
(* How far the main thread is tells what the other threads may be doing.   *)
Managing == {"flagged", "started", "waiting", "quitting", "joining", "joined"}

StageInv(n) ==
    /\ phase[n] = "off" <=> stage[n] \in {"boot", "initialised"}
    /\ phase[n] = "ended" <=> stage[n] \in {"returned", "dead"}
    /\ stage[n] \notin {"boot", "dead"} => chains[n] = ChainsOf(RoleOf[n])
    /\ managerRunning[n] => stage[n] \in Managing
    /\ stage[n] \in Managing => managerRunning[n]
    /\ stage[n] \in Managing \cup {"opened"} => armed[n]
    /\ io[n] = "runs" => stage[n] \in (Managing \ {"flagged"}) \cup {"unflagged"}
    /\ stage[n] \in (Managing \ {"flagged"}) \cup {"unflagged"} => io[n] = "runs"
    /\ stage[n] = "returned" => io[n] = "done"
    /\ \A k \in Chains :
          loop[n][k] = "runs" => stage[n] \in {"waiting", "quitting", "joining"}
    /\ \A c \in Connections : session[n][c] = "hearing" => phase[n] \notin {"off", "ended"}

LifeInv == TypeOK /\ LifeTyped /\ \A n \in Nodes : StageInv(n)

(* A step of one node leaves the others where they are. *)
OthersKept(n) ==
    \A m \in Nodes \ {n} :
        /\ phase'[m] = phase[m] /\ session'[m] = session[m]
        /\ stage'[m] = stage[m] /\ chains'[m] = chains[m]
        /\ managerRunning'[m] = managerRunning[m] /\ armed'[m] = armed[m]
        /\ io'[m] = io[m] /\ loop'[m] = loop[m]

LEMMA OneNodeSteps ==
    ASSUME LifeInv, NEW n \in Nodes, OthersKept(n), StageInv(n)'
    PROVE  \A m \in Nodes : StageInv(m)'
<1> SUFFICES ASSUME NEW m \in Nodes \ {n}
             PROVE  StageInv(m)'
  OBVIOUS
<1>1. StageInv(m)
  BY DEF LifeInv
<1> QED
  BY <1>1 DEF OthersKept, StageInv

LEMMA LifeInvStep ==
    ASSUME LifeInv, [LifeNext]_allVars, TypeOK', LifeTyped'
    PROVE  \A n \in Nodes : StageInv(n)'
<1> USE DEF LifeTyped, Stages, Pass, Managing, OthersKept, Alive
<1>1. ASSUME NEW n \in Nodes, InitializeComponents(n)
      PROVE  OthersKept(n) /\ StageInv(n)'
  BY <1>1 DEF LifeInv, StageInv, InitializeComponents, vars, mainVars
<1>2. ASSUME NEW n \in Nodes, StartUpFails(n)
      PROVE  OthersKept(n) /\ StageInv(n)'
  BY <1>2 DEF LifeInv, StageInv, TypeOK, StartUpFails, StartFails, Vanish
<1>3. ASSUME NEW n \in Nodes, OpenAcceptor(n)
      PROVE  OthersKept(n) /\ StageInv(n)'
  <2>1. phase' = [phase EXCEPT ![n] = "listening"] /\ UNCHANGED session
    BY <1>3 DEF OpenAcceptor, Start
  <2>2. OthersKept(n)
    BY <2>1, <1>3 DEF LifeInv, TypeOK, OpenAcceptor
  <2>3. StageInv(n)'
    BY <2>1, <1>3 DEF LifeInv, StageInv, TypeOK, OpenAcceptor
  <2> QED
    BY <2>2, <2>3
<1>4. ASSUME NEW n \in Nodes, StartThread(n)
      PROVE  OthersKept(n) /\ StageInv(n)'
  BY <1>4 DEF LifeInv, StageInv, StartThread, vars, mainVars
<1>5. ASSUME NEW n \in Nodes, Dial(n)
      PROVE  OthersKept(n) /\ StageInv(n)'
  <2>1. UNCHANGED <<session, lifeVars>>
    BY <1>5 DEF Dial, SetCallback, Connect, ConnectThrows
  <2>2. /\ \A m \in Nodes \ {n} : phase'[m] = phase[m]
        /\ phase[n] \notin {"off", "ended"} /\ phase'[n] \notin {"off", "ended"}
    BY <1>5 DEF LifeInv, TypeOK, StageInv, Dial, SetCallback, Connect, ConnectThrows
  <2> QED
    BY <2>1, <2>2 DEF LifeInv, StageInv, lifeVars
<1>6. ASSUME NEW n \in Nodes, StartLoops(n)
      PROVE  OthersKept(n) /\ StageInv(n)'
  <2>1. phase' = [phase EXCEPT ![n] = "running"] /\ UNCHANGED session
    BY <1>6 DEF StartLoops, Run
  <2>2. OthersKept(n)
    BY <2>1, <1>6 DEF LifeInv, TypeOK, StartLoops
  <2>3. \A k \in Chains : loop'[n][k] \in {"runs", "none"}
    BY <1>6 DEF LifeInv, StartLoops
  <2>4. StageInv(n)'
    BY <2>1, <2>3, <1>6 DEF LifeInv, StageInv, TypeOK, StartLoops
  <2> QED
    BY <2>2, <2>4
<1>7. ASSUME NEW n \in Nodes, Signal(n) \/ StopLoops(n) \/ JoinLoops(n)
      PROVE  OthersKept(n) /\ StageInv(n)'
  BY <1>7 DEF LifeInv, StageInv, Signal, StopLoops, JoinLoops, Quietly, vars, mainVars
<1>8. ASSUME NEW n \in Nodes, Unflag(n) \/ StopContext(n) \/ IoReturns(n)
      PROVE  OthersKept(n) /\ StageInv(n)'
  BY <1>8 DEF LifeInv, StageInv, Unflag, StopContext, IoReturns, vars, mainVars
<1>9. ASSUME NEW n \in Nodes, End(n)
      PROVE  /\ \A m \in Nodes \ {n} : phase'[m] = phase[m] /\ session'[m] = session[m]
             /\ phase'[n] = "ended" /\ \A c \in Connections : session'[n][c] # "hearing"
  BY <1>9 DEF LifeInv, TypeOK, End
<1>10. ASSUME NEW n \in Nodes, Kill(n) \/ \E c \in Connections : Die(n, c)
       PROVE  OthersKept(n) /\ StageInv(n)'
  <2>1. End(n) /\ Vanish(n)
    BY <1>10 DEF Kill, Stop, Die, HandlerDies
  <2> QED
    BY <2>1, <1>9 DEF LifeInv, StageInv, Vanish
<1>11. ASSUME NEW n \in Nodes, JoinIo(n)
       PROVE  OthersKept(n) /\ StageInv(n)'
  <2>1. End(n)
    BY <1>11 DEF JoinIo, Stop
  <2> QED
    BY <2>1, <1>9, <1>11 DEF LifeInv, StageInv, JoinIo
<1>12. ASSUME NEW n \in Nodes, NEW c \in Connections, Connected(n, c) \/ Accepted(n, c) \/ ReadError(n, c)
       PROVE  /\ phase' = phase /\ Alive(n)
              /\ \A m \in Nodes \ {n} : session'[m] = session[m]
  BY <1>12 DEF LifeInv, TypeOK, Connected, Accepted, ReadError, HandlerRuns, StartSession, mainVars
<1>13. ASSUME NEW n \in Nodes, Handler(n), ~\E c \in Connections : Die(n, c)
       PROVE  OthersKept(n) /\ StageInv(n)'
  <2>1. PICK c \in Connections : Accept(n, c) \/ OtherHandler(n, c)
    BY <1>13 DEF Handler
  <2>2. phase' = phase /\ Alive(n) /\ \A m \in Nodes \ {n} : session'[m] = session[m]
    BY <2>1, <1>12 DEF Accept, OtherHandler
  <2>3. CASE Accept(n, c)
    <3>1. StageInv(n) /\ managerRunning[n] \in BOOLEAN
      BY DEF LifeInv
    <3>2. armed' = [armed EXCEPT ![n] = managerRunning[n]]
          /\ UNCHANGED <<stage, chains, managerRunning, io, loop>>
      BY <2>3 DEF Accept
    <3>3. OthersKept(n)
      BY <2>2, <3>2 DEF LifeInv
    <3>4. armed'[n] = managerRunning[n]
      BY <3>2 DEF LifeInv
    <3>5. stage[n] # "opened"
      BY <1>13, <3>1 DEF StageInv, Handler
    <3> QED
      BY <2>2, <3>1, <3>2, <3>3, <3>4, <3>5 DEF StageInv
  <2>4. CASE OtherHandler(n, c)
    BY <2>2, <2>4 DEF LifeInv, StageInv, OtherHandler, lifeVars
  <2> QED
    BY <2>1, <2>3, <2>4
<1>14. ASSUME NEW n \in Nodes, NEW k \in Chains, LoopEnds(n, k)
       PROVE  OthersKept(n) /\ StageInv(n)'
  BY <1>14 DEF LifeInv, StageInv, LoopEnds, vars, mainVars
<1>15. ASSUME UNCHANGED <<phase, session, lifeVars>>
       PROVE  \A n \in Nodes : StageInv(n)'
  BY <1>15 DEF LifeInv, StageInv, lifeVars
<1>16. ASSUME NEW c \in Connections, Tcp(c) \/ Break(c), UNCHANGED lifeVars
       PROVE  \A n \in Nodes : StageInv(n)'
  BY <1>15, <1>16 DEF Tcp, Establish, Refuse, Break, mainVars
<1>17. CASE UNCHANGED allVars
  BY <1>15, <1>17 DEF allVars, vars, mainVars
<1> HIDE DEF LifeTyped, Stages, Pass, Managing, OthersKept, Alive
<1> QED
  BY OneNodeSteps, <1>1, <1>2, <1>3, <1>4, <1>5, <1>6, <1>7, <1>8, <1>10, <1>11, <1>13,
     <1>14, <1>16, <1>17
  DEF LifeNext, StartUp, ShutDown, Io

LEMMA LifeInvHolds == LifeSpec => []LifeInv
<1>1. LifeInit => \A n \in Nodes : StageInv(n)
  BY DEF LifeInit, Init, StageInv, Managing
<1>2. LifeInv /\ [LifeNext]_allVars /\ TypeOK' /\ LifeTyped' => LifeInv'
  BY LifeInvStep DEF LifeInv
<1>3. TypeOK /\ LifeTyped /\ (\A n \in Nodes : StageInv(n)) => LifeInv
  BY DEF LifeInv
<1> QED
  BY <1>1, <1>2, <1>3, Refinement, Typing, LifeTypedHolds, PTL DEF LifeSpec

(* While the manager runs, the acceptor always has an async_accept.        *)
THEOREM AcceptsGoOn == LifeSpec => []AcceptStaysArmed
<1>1. LifeInv => AcceptStaysArmed
  BY DEF LifeInv, StageInv, AcceptStaysArmed
<1> QED
  BY <1>1, LifeInvHolds, PTL

(* Whoever handles a message or produces a block has all the consensus     *)
(* objects of its role.                                                    *)
THEOREM ComponentsAreThere == LifeSpec => []HandlersFindComponents
<1>1. LifeInv => HandlersFindComponents
  BY DEF LifeInv, StageInv, HandlersFindComponents
<1> QED
  BY <1>1, LifeInvHolds, PTL

(* Loops end before the manager is stopped, and every thread before main() *)
(* returns.                                                                *)
THEOREM StopsInOrder == LifeSpec => []ShutdownOrder
<1>1. LifeInv => ShutdownOrder
  BY DEF LifeInv, StageInv, ShutdownOrder, Managing
<1> QED
  BY <1>1, LifeInvHolds, PTL
=============================================================================

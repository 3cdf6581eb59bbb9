---------------------------- MODULE DaemonProofs ----------------------------
(***************************************************************************)
(* Proofs about Daemon, for any connections, devices, releases and times.  *)
(***************************************************************************)
EXTENDS Daemon, TLAPS

ConnTypeOK(f) ==
    /\ f \in [Conn -> ConnState]
    /\ \A c \in Conn : f[c].pc # "idle" => f[c].dev \in Device
    /\ \A c \in Conn : f[c].pc \in Claiming => f[c].req \in ClientRequest

(* One connection moves on: it keeps its request and device, or is closed. *)
LEMMA ConnMoves ==
    ASSUME TypeOK, NEW c \in Conn,
           \/ End(c)
           \/ \E pc \in Holding \union {"lock"} :
                 /\ \/ conn[c].pc \in Claiming
                    \/ conn[c].pc # "idle" /\ pc \in {"release", "unlock"}
                 /\ \/ conn' = [conn EXCEPT ![c].pc = pc]
                    \/ conn' = [conn EXCEPT ![c].pc = pc, ![c].ok = TRUE]
                    \/ conn' = [conn EXCEPT ![c].pc = pc, ![c].ok = FALSE]
    PROVE  ConnTypeOK(conn')
  <1>1. CASE End(c)
    BY <1>1 DEF TypeOK, ConnTypeOK, End, Closed, ConnState, Claiming, Holding
  <1>2. ASSUME NEW pc \in Holding \union {"lock"},
               \/ conn[c].pc \in Claiming
               \/ conn[c].pc # "idle" /\ pc \in {"release", "unlock"},
               \/ conn' = [conn EXCEPT ![c].pc = pc]
               \/ conn' = [conn EXCEPT ![c].pc = pc, ![c].ok = TRUE]
               \/ conn' = [conn EXCEPT ![c].pc = pc, ![c].ok = FALSE]
        PROVE  ConnTypeOK(conn')
    <2>1. conn' \in [Conn -> ConnState]
      <3>1. /\ conn \in [Conn -> ConnState] /\ conn[c] \in ConnState
            /\ pc \in Holding \union {"idle", "new", "lock", "rlock"}
        BY <1>2 DEF TypeOK
      <3>2. CASE conn' = [conn EXCEPT ![c].pc = pc]
        BY <3>1, <3>2 DEF ConnState
      <3>3. CASE conn' = [conn EXCEPT ![c].pc = pc, ![c].ok = TRUE]
        BY <3>1, <3>3 DEF ConnState
      <3>4. CASE conn' = [conn EXCEPT ![c].pc = pc, ![c].ok = FALSE]
        BY <3>1, <3>4 DEF ConnState
      <3> QED
        BY <1>2, <3>2, <3>3, <3>4
    <2>2. /\ conn'[c].pc = pc /\ conn'[c].dev = conn[c].dev
          /\ conn'[c].req = conn[c].req
      BY <1>2 DEF TypeOK, ConnState
    <2>3. \A b \in Conn \ {c} : conn'[b] = conn[b]
      BY <1>2 DEF TypeOK
    <2>4. conn[c].pc # "idle"
      BY <1>2 DEF Claiming, Holding
    <2> QED
      BY <1>2, <2>1, <2>2, <2>3, <2>4 DEF TypeOK, ConnTypeOK, Claiming, Holding
  <1> QED
    BY <1>1, <1>2

(***************************************************************************)
(* Every variable keeps its type.                                          *)
(***************************************************************************)
LEMMA TypeInit == Init => TypeOK
  <1> SUFFICES ASSUME Init PROVE TypeOK
    OBVIOUS
  <1>1. conn \in [Conn -> ConnState] /\ \A c \in Conn : conn[c].pc = "idle"
    BY DEF Init, Closed, ConnState
  <1>2. peer \in PeerState /\ peer.pc = "idle"
    BY DEF Init, Quiet, PeerState
  <1>3. /\ peers \in [Release -> [reply : Answer, ttl : Nat]]
        /\ watch \in [Release -> [on : BOOLEAN, ttl : Nat]]
    BY DEF Init, Forgotten, Unwatched, Answer
  <1>4. log \in [ClientRequest -> [accepted : BOOLEAN, final : SUBSET {"ok", "failed"}]]
    BY DEF Init
  <1> QED
    <2>1. online \in BOOLEAN /\ raced \in BOOLEAN
      BY DEF Init
    <2>2. /\ token \in [Device -> 0..1] /\ guards \in [Device -> Nat]
          /\ claims \in [ClientRequest -> {"unknown", "accepted", "ok", "failed"}]
          /\ settled \in [Release -> Nat]
      BY DEF Init
    <2> QED
      BY <1>1, <1>2, <1>3, <1>4, <2>1, <2>2 DEF TypeOK, Claiming, Holding

(* The token of a device moves between its channel and a holder. *)
LEMMA TokenType ==
    ASSUME TypeOK, NEW d \in Device, TryLock(d) \/ Unlock(d)
    PROVE  token' \in [Device -> 0..1]
  BY DEF TypeOK, TryLock, Unlock

LogType == [ClientRequest -> [accepted : BOOLEAN, final : SUBSET {"ok", "failed"}]]

(* What is appended to the log keeps it a log. *)
LEMMA AcceptedTyped ==
    ASSUME TypeOK, NEW q \in ClientRequest
    PROVE  log \in LogType /\ [log EXCEPT ![q].accepted = TRUE] \in LogType
  BY DEF TypeOK, LogType

(* A logged result leaves the log a log.                                   *)
LEMMA FinalTyped ==
    ASSUME TypeOK, NEW q \in ClientRequest, NEW outcome \in {"ok", "failed"}
    PROVE  log \in LogType /\ [log EXCEPT ![q].final = @ \union {outcome}] \in LogType
  <1>1. log \in LogType /\ log[q].final \union {outcome} \in SUBSET {"ok", "failed"}
    BY DEF TypeOK, LogType
  <1>2. [log[q] EXCEPT !.final = @ \union {outcome}] \in
            [accepted : BOOLEAN, final : SUBSET {"ok", "failed"}]
    BY <1>1 DEF LogType
  <1> QED
    BY <1>1, <1>2 DEF LogType

(* Every step keeps the types.                                             *)
LEMMA TypeStep == TypeOK /\ [Next]_vars => TypeOK'
  <1> SUFFICES ASSUME TypeOK, [Next]_vars PROVE TypeOK'
    OBVIOUS
  <1> USE DEF othersOfConn, othersOfPeer, peerVars
  <1>1. ASSUME NEW c \in Conn, NEW q \in ClientRequest, NEW d \in Device,
               NEW b \in 1..MaxBudget, ClaimArrives(c, q, d, b)
        PROVE  TypeOK'
    <2>1. b \in Nat
      BY DaemonAssumption
    <2>2. conn' \in [Conn -> ConnState]
      BY <1>1, <2>1 DEF ClaimArrives, TypeOK, ConnState
    <2>3. /\ conn'[c].dev = d /\ conn'[c].req = q
          /\ \A a \in Conn \ {c} : conn'[a] = conn[a]
      BY <1>1 DEF ClaimArrives, TypeOK
    <2> QED
      BY <1>1, <2>2, <2>3 DEF ClaimArrives, TypeOK
  <1>2. ASSUME NEW c \in Conn, NEW d \in Device, ReleaseArrives(c, d) PROVE TypeOK'
    <2>1. conn' \in [Conn -> ConnState]
      BY <1>2 DEF ReleaseArrives, TypeOK, ConnState, Closed
    <2>2. /\ conn'[c].dev = d /\ conn'[c].pc = "rlock"
          /\ \A a \in Conn \ {c} : conn'[a] = conn[a]
      BY <1>2 DEF ReleaseArrives, TypeOK, Closed
    <2> QED
      BY <1>2, <2>1, <2>2 DEF ReleaseArrives, TypeOK, Claiming, Holding
  <1>3. ASSUME NEW x \in Release, PeerArrives(x) PROVE TypeOK'
    BY <1>3 DEF PeerArrives, TypeOK, PeerState
  <1>4. ASSUME NEW c \in Conn, ConnStep(c) PROVE TypeOK'
    <2>1. CASE ClaimReplayed(c) \/ ClaimRefused(c) \/ LockRefused(c) \/ ClaimNew(c)
      <3>1. ConnTypeOK(conn')
        BY <2>1, ConnMoves DEF ClaimReplayed, ClaimRefused, LockRefused, ClaimNew,
           At, Go, Claiming
      <3> QED
        BY <2>1, <3>1 DEF ConnTypeOK, TypeOK, ClaimReplayed, ClaimRefused, LockRefused,
           ClaimNew
    <2>2. CASE ClaimTryLock(c) \/ ReleaseTryLock(c) \/ ConnUnlock(c)
      <3>1. ConnTypeOK(conn')
        BY <2>2, ConnMoves DEF ClaimTryLock, ReleaseTryLock, ConnUnlock, At, Go,
           Claiming, Holding
      <3>2. conn[c].dev \in Device
        BY <2>2 DEF TypeOK, ClaimTryLock, ReleaseTryLock, ConnUnlock, At
      <3>3. token' \in [Device -> 0..1]
        BY <2>2, <3>2, TokenType DEF ClaimTryLock, ReleaseTryLock, ConnUnlock
      <3> QED
        BY <2>2, <3>1, <3>3 DEF ConnTypeOK, TypeOK, ClaimTryLock, ReleaseTryLock,
           ConnUnlock
    <2>3. CASE ClaimAccept(c) \/ ClaimUnlogged(c)
      <3>1. ConnTypeOK(conn')
        BY <2>3, ConnMoves DEF ClaimAccept, ClaimUnlogged, At, Go, Claiming, Holding
      <3>2. conn[c].req \in ClientRequest
        BY <2>3 DEF TypeOK, ClaimAccept, ClaimUnlogged, At, Claiming, Holding
      <3>3. log' \in LogType
        BY <2>3, <3>2, AcceptedTyped DEF ClaimAccept, ClaimUnlogged
      <3> QED
        BY <2>3, <3>1, <3>3 DEF ConnTypeOK, TypeOK, LogType, ClaimAccept, ClaimUnlogged
    <2>4. CASE ClaimRemember(c) \/ RememberFinal(c)
      <3>1. ConnTypeOK(conn')
        BY <2>4, ConnMoves DEF ClaimRemember, RememberFinal, At, Go, Claiming, Holding
      <3> QED
        BY <2>4, <3>1 DEF ConnTypeOK, TypeOK, ClaimRemember, RememberFinal, Outcome
    <2>5. CASE \/ ClaimFails(c) \/ AlreadyConnected(c) \/ AskCoordinator(c)
               \/ Proceed(c) \/ ProceedNoPeer(c)
      <3>1. ConnTypeOK(conn')
        BY <2>5, ConnMoves DEF ClaimFails, AlreadyConnected, AskCoordinator, Proceed,
           ProceedNoPeer, At, Go, Claiming, Holding
      <3> QED
        BY <2>5, <3>1 DEF ConnTypeOK, TypeOK, ClaimFails, AlreadyConnected,
           AskCoordinator, Proceed, ProceedNoPeer
    <2>6. CASE \/ ConnectedMeanwhile(c) \/ StartAcquire(c) \/ Acquired(c)
               \/ GuardUnlogged(c) \/ ReleaseEnds(c)
      <3>1. ConnTypeOK(conn')
        BY <2>6, ConnMoves DEF ConnectedMeanwhile, StartAcquire, Acquired,
           GuardUnlogged, ReleaseEnds, At, Go, Claiming, Holding
      <3> QED
        BY <2>6, <3>1 DEF ConnTypeOK, TypeOK, ConnectedMeanwhile, StartAcquire,
           Acquired, GuardUnlogged, ReleaseEnds
    <2>7. CASE Guarded(c)
      <3>1. ConnTypeOK(conn')
        BY <2>7, ConnMoves DEF Guarded, At, Claiming, Holding
      <3>2. conn[c].ttl \in Nat /\ raced' \in BOOLEAN
        BY <2>7 DEF TypeOK, ConnState, Guarded
      <3> QED
        BY <2>7, <3>1, <3>2 DEF ConnTypeOK, TypeOK, Guarded
    <2>8. CASE FinalLogged(c) \/ FinalUnlogged(c)
      <3>1. ConnTypeOK(conn')
        BY <2>8, ConnMoves DEF FinalLogged, FinalUnlogged, At, Go, Claiming, Holding
      <3>2. Outcome(c) \in {"ok", "failed"} /\ conn[c].req \in ClientRequest
        BY <2>8 DEF Outcome, TypeOK, FinalLogged, FinalUnlogged, At, Claiming, Holding
      <3>3. log' \in LogType
        <4>1. /\ log \in LogType
              /\ [log EXCEPT ![conn[c].req].final = @ \union {Outcome(c)}] \in LogType
          BY <3>2, FinalTyped
        <4> QED
          BY <2>8, <4>1 DEF FinalLogged, FinalUnlogged
      <3> QED
        BY <2>8, <3>1, <3>3 DEF ConnTypeOK, TypeOK, LogType, FinalLogged, FinalUnlogged
    <2> QED
      BY <1>4, <2>1, <2>2, <2>3, <2>4, <2>5, <2>6, <2>7, <2>8 DEF ConnStep, ClaimStep
  <1>5. CASE PeerStep
    <2>1. CASE PeerReplayed \/ PeerStale \/ PeerNew \/ PeerGuarded \/ PeerUnguarded
      <3>1. peer' \in PeerState /\ (peer'.pc # "idle" => peer'.rel \in Release)
        BY <2>1 DEF PeerReplayed, PeerStale, PeerNew, PeerGuarded, PeerUnguarded,
           TypeOK, PeerState, Quiet
      <3>2. raced' \in BOOLEAN
        BY <2>1 DEF PeerReplayed, PeerStale, PeerNew, PeerGuarded, PeerUnguarded, TypeOK
      <3> QED
        BY <2>1, <3>1, <3>2 DEF PeerReplayed, PeerStale, PeerNew, PeerGuarded,
           PeerUnguarded, TypeOK
    <2>2. CASE PeerTryLock \/ PeerConnected
      <3>1. peer.rel \in Release /\ Asked \in Device
        BY <2>2, DaemonAssumption DEF PeerTryLock, PeerConnected, TypeOK, Asked
      <3>2. peer' \in PeerState /\ peer'.rel = peer.rel
        BY <2>2 DEF PeerTryLock, PeerConnected, TypeOK, PeerState
      <3>3. token' \in [Device -> 0..1]
        BY <2>2, <3>1, TokenType DEF PeerTryLock, PeerConnected, TypeOK
      <3> QED
        BY <2>2, <3>1, <3>2, <3>3 DEF PeerTryLock, PeerConnected, TypeOK
    <2>3. CASE PeerLockRefused \/ PeerFails \/ PeerDisconnected \/ PeerUnpaired
      <3>1. /\ peer.rel \in Release /\ Asked \in Device
            /\ ReplayTime \in Nat /\ ReleaseTTL \in Nat
        BY <2>3, DaemonAssumption DEF PeerLockRefused, PeerFails, PeerDisconnected,
           PeerUnpaired, TypeOK, Asked
      <3>2. peers' \in [Release -> [reply : Answer, ttl : Nat]]
        <4>1. PICK reply \in Answer : RememberPeer(reply)
          BY <2>3 DEF PeerLockRefused, PeerFails, PeerDisconnected, PeerUnpaired, Answer
        <4>2. [reply |-> reply, ttl |-> ReplayTime] \in [reply : Answer, ttl : Nat]
          BY <3>1
        <4> QED
          BY <4>1, <4>2, <3>1 DEF RememberPeer, TypeOK
      <3>3. peer' \in PeerState /\ peer'.pc = "idle"
        BY <2>3 DEF PeerLockRefused, PeerFails, PeerDisconnected, PeerUnpaired,
           PeerState, Quiet
      <3>4. token' \in [Device -> 0..1]
        BY <2>3, <3>1, TokenType DEF PeerLockRefused, PeerFails, PeerDisconnected,
           PeerUnpaired, TypeOK
      <3>5. watch' \in [Release -> [on : BOOLEAN, ttl : Nat]]
        <4>1. [on |-> TRUE, ttl |-> ReleaseTTL] \in [on : BOOLEAN, ttl : Nat]
          BY <3>1
        <4> QED
          BY <2>3, <3>1, <4>1 DEF PeerLockRefused, PeerFails, PeerDisconnected,
             PeerUnpaired, TypeOK
      <3>6. settled' \in [Release -> Nat]
        BY <2>3, <3>1 DEF PeerLockRefused, PeerFails, PeerDisconnected, PeerUnpaired,
           TypeOK
      <3> QED
        BY <2>3, <3>2, <3>3, <3>4, <3>5, <3>6 DEF PeerLockRefused, PeerFails,
           PeerDisconnected, PeerUnpaired, TypeOK
    <2> QED
      BY <1>5, <2>1, <2>2, <2>3 DEF PeerStep
  <1>6. ASSUME NEW x \in Release, WatchEnds(x) PROVE TypeOK'
    <2>1. ReleasedDevice[x] \in Device
      BY DaemonAssumption
    <2>2. token' \in [Device -> 0..1]
      BY <1>6, <2>1, TokenType DEF WatchEnds
    <2>3. watch' \in [Release -> [on : BOOLEAN, ttl : Nat]]
      BY <1>6 DEF WatchEnds, TypeOK, Unwatched
    <2> QED
      BY <1>6, <2>2, <2>3 DEF WatchEnds, TypeOK
  <1>7. CASE Connect
    BY <1>7 DEF Connect, TypeOK
  <1>8. CASE Tick
    <2>1. \A t \in Nat : Less(t) \in Nat
      BY DEF Less
    <2>2. conn' \in [Conn -> ConnState]
      <3>1. ASSUME NEW c \in Conn PROVE [conn[c] EXCEPT !.ttl = Less(@)] \in ConnState
        <4>1. conn[c] \in ConnState /\ Less(conn[c].ttl) \in Nat
          BY <2>1 DEF TypeOK, ConnState
        <4> QED
          BY <4>1 DEF ConnState
      <3> QED
        BY <1>8, <3>1 DEF Tick
    <2>3. \A c \in Conn : /\ conn'[c].pc = conn[c].pc /\ conn'[c].dev = conn[c].dev
                          /\ conn'[c].req = conn[c].req
      BY <1>8 DEF Tick, TypeOK, ConnState
    <2>4. peers' \in [Release -> [reply : Answer, ttl : Nat]]
      <3>1. \A x \in Release : peers'[x] \in [reply : Answer, ttl : Nat]
        <4> SUFFICES ASSUME NEW x \in Release
                     PROVE  peers'[x] \in [reply : Answer, ttl : Nat]
          OBVIOUS
        <4>1. CASE peers[x].ttl <= 1
          BY <1>8, <4>1 DEF Tick, Forgotten, Answer
        <4>2. CASE ~ peers[x].ttl <= 1
          <5>1. peers[x] \in [reply : Answer, ttl : Nat] /\ peers[x].ttl - 1 \in Nat
            BY <4>2 DEF TypeOK
          <5> QED
            BY <1>8, <4>2, <5>1 DEF Tick
        <4> QED
          BY <4>1, <4>2
      <3> QED
        BY <1>8, <3>1 DEF Tick
    <2>5. watch' \in [Release -> [on : BOOLEAN, ttl : Nat]]
      <3>1. ASSUME NEW x \in Release
            PROVE  [watch[x] EXCEPT !.ttl = Less(@)] \in [on : BOOLEAN, ttl : Nat]
        <4>1. watch[x] \in [on : BOOLEAN, ttl : Nat] /\ Less(watch[x].ttl) \in Nat
          BY <2>1 DEF TypeOK
        <4> QED
          BY <4>1
      <3> QED
        BY <1>8, <3>1 DEF Tick
    <2> QED
      BY <1>8, <2>1, <2>2, <2>3, <2>4, <2>5 DEF Tick, TypeOK
  <1>9. CASE UNCHANGED vars
    BY <1>9 DEF vars, TypeOK
  <1> QED
    BY <1>1, <1>2, <1>3, <1>4, <1>5, <1>6, <1>7, <1>8, <1>9
       DEF Next, Arrivals, DeviceGone, WatchExpires

(* Daemon's variables have their types in every reachable state.           *)
THEOREM DaemonTypes == Spec => []TypeOK
  BY TypeInit, TypeStep, PTL DEF Spec

(***************************************************************************)
(* Who holds a device, in the three ways there are.  A step of one         *)
(* connection changes Holders by that connection at most, a step of the    *)
(* callback or of one of its goroutines by that release at most.           *)
(***************************************************************************)
ConnHolds(c, d) == conn[c].pc \in Holding /\ conn[c].dev = d

PeerHolds(x, d) ==
    /\ peer.pc \in {"check", "unpair"}
    /\ peer.rel = x /\ ReleasedDevice[x] = d

WatchHolds(x, d) == watch[x].on /\ ReleasedDevice[x] = d

(* The holders of a device are of three kinds.                             *)
LEMMA HoldersByKind ==
    ASSUME NEW d
    PROVE  \A u : u \in Holders(d) <=>
               \/ \E c \in Conn : u = <<"conn", c>> /\ ConnHolds(c, d)
               \/ \E x \in Release : u = <<"watch", x>> /\ WatchHolds(x, d)
               \/ \E x \in Release : u = <<"peer", x>> /\ PeerHolds(x, d)
  BY DEF Holders, ConnHolds, WatchHolds, PeerHolds

(* So they are after a step.                                               *)
LEMMA HoldersByKindNext ==
    ASSUME NEW d
    PROVE  \A u : u \in Holders(d)' <=>
               \/ \E c \in Conn : u = <<"conn", c>> /\ ConnHolds(c, d)'
               \/ \E x \in Release : u = <<"watch", x>> /\ WatchHolds(x, d)'
               \/ \E x \in Release : u = <<"peer", x>> /\ PeerHolds(x, d)'
  BY DEF Holders, ConnHolds, WatchHolds, PeerHolds

(* A step that changes none of the three changes no holder.                *)
LEMMA HoldersSame ==
    ASSUME NEW d,
           \A c \in Conn : ConnHolds(c, d)' <=> ConnHolds(c, d),
           \A x \in Release : WatchHolds(x, d)' <=> WatchHolds(x, d),
           \A x \in Release : PeerHolds(x, d)' <=> PeerHolds(x, d)
    PROVE  Holders(d)' = Holders(d)
  <1>1. \A u : u \in Holders(d)' <=> u \in Holders(d)
    BY HoldersByKind, HoldersByKindNext DEF ConnHolds, WatchHolds, PeerHolds
  <1> QED
    BY <1>1

(***************************************************************************)
(* The four things that a step may do to the lock of a device.             *)
(***************************************************************************)
LEMMA Keeps ==
    ASSUME LockAccounted, token' = token,
           \A d \in Device : Holders(d)' = Holders(d)
    PROVE  LockAccounted'
  BY DEF LockAccounted

(* A free device is taken by one holder.                                   *)
LEMMA Takes ==
    ASSUME TypeOK, LockAccounted, NEW d \in Device, NEW u, TryLock(d),
           Holders(d)' = Holders(d) \union {u},
           \A e \in Device \ {d} : Holders(e)' = Holders(e)
    PROVE  LockAccounted'
  <1>1. Holders(d)' = {u} /\ token'[d] = 0
    BY DEF TypeOK, LockAccounted, TryLock
  <1>2. \A e \in Device \ {d} : token'[e] = token[e]
    BY DEF TypeOK, TryLock
  <1> QED
    BY <1>1, <1>2 DEF LockAccounted

(* Its only holder gives a device back.                                    *)
LEMMA Gives ==
    ASSUME TypeOK, LockAccounted, NEW d \in Device, NEW u \in Holders(d), Unlock(d),
           Holders(d)' = Holders(d) \ {u},
           \A e \in Device \ {d} : Holders(e)' = Holders(e)
    PROVE  LockAccounted'
  <1>1. Holders(d)' = {} /\ token'[d] = 1
    BY DEF TypeOK, LockAccounted, Unlock
  <1>2. \A e \in Device \ {d} : token'[e] = token[e]
    BY DEF TypeOK, Unlock
  <1> QED
    BY <1>1, <1>2 DEF LockAccounted

(* Its only holder leaves a device to another.                             *)
LEMMA HandsOn ==
    ASSUME LockAccounted, NEW d \in Device, NEW u \in Holders(d), NEW v, token' = token,
           Holders(d)' = (Holders(d) \ {u}) \union {v},
           \A e \in Device \ {d} : Holders(e)' = Holders(e)
    PROVE  LockAccounted'
  <1>1. token[d] # 1 /\ Holders(d)' = {v}
    BY DEF LockAccounted
  <1> QED
    BY <1>1 DEF LockAccounted

(* A step of one connection changes no other holder.                       *)
LEMMA ConnFrame ==
    ASSUME NEW c \in Conn, \A b \in Conn \ {c} : conn'[b] = conn[b],
           UNCHANGED <<peer, watch>>, NEW d
    PROVE  /\ (ConnHolds(c, d)' <=> ConnHolds(c, d)) => Holders(d)' = Holders(d)
           /\ ConnHolds(c, d)' => Holders(d)' = Holders(d) \union {<<"conn", c>>}
           /\ ~ ConnHolds(c, d)' => Holders(d)' = Holders(d) \ {<<"conn", c>>}
  <1>1. \A b \in Conn \ {c} : ConnHolds(b, d)' <=> ConnHolds(b, d)
    BY DEF ConnHolds
  <1>2. \A x \in Release : /\ WatchHolds(x, d)' <=> WatchHolds(x, d)
                           /\ PeerHolds(x, d)' <=> PeerHolds(x, d)
    BY DEF WatchHolds, PeerHolds
  <1>3. \A u : u # <<"conn", c>> => (u \in Holders(d)' <=> u \in Holders(d))
    BY <1>1, <1>2, HoldersByKind, HoldersByKindNext
  <1>4. <<"conn", c>> \in Holders(d)' <=> ConnHolds(c, d)'
    BY HoldersByKindNext
  <1>5. <<"conn", c>> \in Holders(d) <=> ConnHolds(c, d)
    BY HoldersByKind
  <1> QED
    BY <1>3, <1>4, <1>5

(* A connection that takes, keeps or gives back the lock of its device.    *)
LEMMA ConnLock ==
    ASSUME TypeOK, LockAccounted, NEW c \in Conn, ConnStep(c)
    PROVE  LockAccounted'
  <1> USE DEF othersOfConn, peerVars
  <1>0. /\ UNCHANGED <<peer, watch>>
        /\ \A b \in Conn \ {c} : conn'[b] = conn[b]
    BY DEF TypeOK, ConnStep, ClaimStep, ClaimReplayed, ClaimRefused, ClaimNew, ClaimTryLock,
       LockRefused, ClaimAccept, ClaimUnlogged, ClaimRemember, ClaimFails,
       AlreadyConnected, AskCoordinator, Proceed, ProceedNoPeer, ConnectedMeanwhile,
       StartAcquire, Acquired, Guarded, GuardUnlogged, FinalLogged, FinalUnlogged,
       RememberFinal, ReleaseTryLock, ReleaseEnds, ConnUnlock, Go, End
  <1>1. CASE ClaimTryLock(c) \/ ReleaseTryLock(c)
    <2>0. PICK d \in Device : d = conn[c].dev
      BY <1>1 DEF TypeOK, ClaimTryLock, ReleaseTryLock, At
    <2>1. TryLock(d)
      BY <1>1, <2>0 DEF TypeOK, ClaimTryLock, ReleaseTryLock, At
    <2>2. conn'[c].dev = d /\ conn'[c].pc \in Holding /\ conn[c].pc \notin Holding
      BY <1>1, <2>0 DEF TypeOK, ConnState, ClaimTryLock, ReleaseTryLock, At, Go, Holding
    <2>3. Holders(d)' = Holders(d) \union {<<"conn", c>>}
      BY <1>0, <2>2, ConnFrame DEF ConnHolds
    <2>4. \A e \in Device \ {d} : Holders(e)' = Holders(e)
      BY <1>0, <2>2, ConnFrame DEF ConnHolds
    <2> QED
      BY <2>1, <2>3, <2>4, Takes
  <1>2. CASE ConnUnlock(c)
    <2>0. PICK d \in Device : d = conn[c].dev
      BY <1>2 DEF TypeOK, ConnUnlock, At
    <2>1. Unlock(d) /\ ConnHolds(c, d)
      BY <1>2, <2>0 DEF TypeOK, ConnUnlock, At, ConnHolds, Holding
    <2>2. conn'[c].pc = "idle"
      BY <1>2 DEF TypeOK, ConnUnlock, End, Closed
    <2>3. <<"conn", c>> \in Holders(d)
      BY <2>1, HoldersByKind
    <2>4. Holders(d)' = Holders(d) \ {<<"conn", c>>}
      BY <1>0, <2>2, ConnFrame DEF ConnHolds, Holding
    <2>5. \A e \in Device \ {d} : Holders(e)' = Holders(e)
      BY <1>0, <2>0, <2>2, ConnFrame DEF ConnHolds, Holding
    <2> QED
      BY <2>1, <2>3, <2>4, <2>5, Gives
  <1>3. CASE ClaimReplayed(c) \/ ClaimRefused(c) \/ ClaimNew(c) \/ LockRefused(c)
    <2>1. token' = token /\ conn[c].pc \notin Holding /\ conn'[c].pc \notin Holding
      BY <1>3 DEF TypeOK, ClaimReplayed, ClaimRefused, ClaimNew, LockRefused, At, Go,
         End, Closed, ConnState, Holding
    <2>2. \A d \in Device : Holders(d)' = Holders(d)
      BY <1>0, <2>1, ConnFrame DEF ConnHolds
    <2> QED
      BY <2>1, <2>2, Keeps
  <1>4. CASE \/ ClaimAccept(c) \/ ClaimUnlogged(c) \/ ClaimRemember(c) \/ ClaimFails(c)
             \/ AlreadyConnected(c) \/ AskCoordinator(c) \/ Proceed(c)
             \/ ProceedNoPeer(c) \/ ConnectedMeanwhile(c) \/ StartAcquire(c)
             \/ Acquired(c) \/ Guarded(c) \/ GuardUnlogged(c) \/ FinalLogged(c)
             \/ FinalUnlogged(c) \/ RememberFinal(c) \/ ReleaseEnds(c)
    <2>1. token' = token /\ conn[c].pc \in Holding
      BY <1>4 DEF ClaimAccept, ClaimUnlogged, ClaimRemember, ClaimFails,
         AlreadyConnected, AskCoordinator, Proceed, ProceedNoPeer, ConnectedMeanwhile,
         StartAcquire, Acquired, Guarded, GuardUnlogged, FinalLogged, FinalUnlogged,
         RememberFinal, ReleaseEnds, At, Holding
    <2>2. conn'[c].pc \in Holding /\ conn'[c].dev = conn[c].dev
      BY <1>4 DEF TypeOK, ConnState, ClaimAccept, ClaimUnlogged, ClaimRemember, ClaimFails,
         AlreadyConnected, AskCoordinator, Proceed, ProceedNoPeer, ConnectedMeanwhile,
         StartAcquire, Acquired, Guarded, GuardUnlogged, FinalLogged, FinalUnlogged,
         RememberFinal, ReleaseEnds, At, Go, Holding
    <2>3. \A d \in Device : Holders(d)' = Holders(d)
      BY <1>0, <2>1, <2>2, ConnFrame DEF ConnHolds
    <2> QED
      BY <2>1, <2>3, Keeps
  <1> QED
    BY <1>1, <1>2, <1>3, <1>4 DEF ConnStep, ClaimStep

(* The callback, and the goroutines it leaves the lock to.                 *)
ReleaseFramed(x, d) ==
    /\ \A u : u # <<"watch", x>> /\ u # <<"peer", x>> =>
                  (u \in Holders(d)' <=> u \in Holders(d))
    /\ <<"watch", x>> \in Holders(d)' <=> WatchHolds(x, d)'
    /\ <<"watch", x>> \in Holders(d) <=> WatchHolds(x, d)
    /\ <<"peer", x>> \in Holders(d)' <=> PeerHolds(x, d)'
    /\ <<"peer", x>> \in Holders(d) <=> PeerHolds(x, d)
    /\ <<"peer", x>> # <<"watch", x>>

(* A step about one release changes no other holder.                       *)
LEMMA PeerFrame ==
    ASSUME NEW x \in Release, NEW d, conn' = conn,
           \A y \in Release \ {x} : /\ WatchHolds(y, d)' <=> WatchHolds(y, d)
                                    /\ PeerHolds(y, d)' <=> PeerHolds(y, d)
    PROVE  ReleaseFramed(x, d)
  <1>1. \A c \in Conn : ConnHolds(c, d)' <=> ConnHolds(c, d)
    BY DEF ConnHolds
  <1>2. \A u : u # <<"watch", x>> /\ u # <<"peer", x>> =>
                   (u \in Holders(d)' <=> u \in Holders(d))
    BY <1>1, HoldersByKind, HoldersByKindNext
  <1> QED
    BY <1>2, HoldersByKind, HoldersByKindNext DEF ReleaseFramed

(* Each step of the release callback keeps the account of the locks.       *)
LEMMA PeerLock ==
    ASSUME TypeOK, LockAccounted, PeerStep \/ \E x \in Release : WatchEnds(x)
    PROVE  LockAccounted'
  <1> USE DEF othersOfPeer
  <1>1. CASE PeerReplayed \/ PeerStale \/ PeerNew \/ PeerGuarded \/ PeerUnguarded
             \/ PeerLockRefused \/ PeerConnected
    <2>1. token' = token /\ UNCHANGED <<conn, watch>>
      BY <1>1 DEF PeerReplayed, PeerStale, PeerNew, PeerGuarded, PeerUnguarded,
         PeerLockRefused, PeerConnected
    <2>2. \A x \in Release, d \in Device : PeerHolds(x, d)' <=> PeerHolds(x, d)
      BY <1>1 DEF TypeOK, PeerState, PeerHolds, PeerReplayed, PeerStale, PeerNew,
         PeerGuarded, PeerUnguarded, PeerLockRefused, PeerConnected, Quiet
    <2>3. \A d \in Device : Holders(d)' = Holders(d)
      BY <2>1, <2>2, HoldersSame DEF ConnHolds, WatchHolds
    <2> QED
      BY <2>1, <2>3, Keeps
  <1>2. CASE PeerTryLock
    <2>0. PICK x \in Release, r \in Device : x = peer.rel /\ r = Asked
      BY <1>2, DaemonAssumption DEF TypeOK, PeerTryLock, Asked
    <2>1. TryLock(r) /\ r = ReleasedDevice[x]
      BY <1>2, <2>0 DEF PeerTryLock, Asked
    <2>2. /\ UNCHANGED <<conn, watch>> /\ peer.pc = "lock"
          /\ peer'.pc = "check" /\ peer'.rel = x
      BY <1>2, <2>0 DEF TypeOK, PeerState, PeerTryLock
    <2>3. ASSUME NEW d \in Device
          PROVE  Holders(d)' = IF d = r THEN Holders(d) \union {<<"peer", x>>}
                                            ELSE Holders(d)
      <3>1. \A y \in Release \ {x} : /\ WatchHolds(y, d)' <=> WatchHolds(y, d)
                                     /\ PeerHolds(y, d)' <=> PeerHolds(y, d)
        BY <2>0, <2>2 DEF WatchHolds, PeerHolds
      <3>2. /\ WatchHolds(x, d)' <=> WatchHolds(x, d)
            /\ ~ PeerHolds(x, d) /\ (PeerHolds(x, d)' <=> d = r)
        BY <2>0, <2>1, <2>2 DEF WatchHolds, PeerHolds
      <3>3. ReleaseFramed(x, d)
        BY <2>2, <3>1, PeerFrame
      <3>4. \A u : u \in Holders(d)' <=> \/ u \in Holders(d)
                                         \/ d = r /\ u = <<"peer", x>>
        BY <3>2, <3>3 DEF ReleaseFramed
      <3>5. CASE d = r
        BY <3>4, <3>5
      <3>6. CASE d # r
        BY <3>4, <3>6
      <3> QED
        BY <3>5, <3>6
    <2> QED
      BY <2>1, <2>3, Takes
  <1>3. CASE PeerFails \/ PeerDisconnected
    <2>0. PICK x \in Release, r \in Device : x = peer.rel /\ r = Asked
      BY <1>3, DaemonAssumption DEF TypeOK, PeerFails, PeerDisconnected, Asked
    <2>1. Unlock(r) /\ r = ReleasedDevice[x]
      BY <1>3, <2>0 DEF PeerFails, PeerDisconnected, Asked
    <2>2. /\ UNCHANGED <<conn, watch>> /\ peer.pc \in {"check", "unpair"}
          /\ peer'.pc = "idle"
      BY <1>3 DEF PeerFails, PeerDisconnected, Quiet
    <2>3. ASSUME NEW d \in Device
          PROVE  /\ Holders(d)' = IF d = r THEN Holders(d) \ {<<"peer", x>>}
                                               ELSE Holders(d)
                 /\ d = r => <<"peer", x>> \in Holders(d)
      <3>1. \A y \in Release \ {x} : /\ WatchHolds(y, d)' <=> WatchHolds(y, d)
                                     /\ PeerHolds(y, d)' <=> PeerHolds(y, d)
        BY <2>0, <2>2 DEF WatchHolds, PeerHolds
      <3>2. /\ WatchHolds(x, d)' <=> WatchHolds(x, d)
            /\ ~ PeerHolds(x, d)' /\ (PeerHolds(x, d) <=> d = r)
        BY <2>0, <2>1, <2>2 DEF WatchHolds, PeerHolds
      <3>3. ReleaseFramed(x, d)
        BY <2>2, <3>1, PeerFrame
      <3>4. /\ \A u : u \in Holders(d)' <=> u \in Holders(d) /\ u # <<"peer", x>>
            /\ <<"peer", x>> \in Holders(d) <=> d = r
        BY <3>2, <3>3 DEF ReleaseFramed
      <3>5. CASE d = r
        BY <3>4, <3>5
      <3>6. CASE d # r
        BY <3>4, <3>6
      <3> QED
        BY <3>5, <3>6
    <2> QED
      BY <2>1, <2>3, Gives
  <1>4. CASE PeerUnpaired
    <2>0. PICK x \in Release, r \in Device : x = peer.rel /\ r = Asked
      BY <1>4, DaemonAssumption DEF TypeOK, PeerUnpaired, Asked
    <2>1. token' = token /\ r = ReleasedDevice[x]
      BY <1>4, <2>0 DEF PeerUnpaired, Asked
    <2>2. /\ conn' = conn /\ peer.pc = "unpair" /\ peer'.pc = "idle"
          /\ watch'[x].on /\ \A y \in Release \ {x} : watch'[y] = watch[y]
      BY <1>4, <2>0 DEF TypeOK, PeerUnpaired, Quiet
    <2>3. ASSUME NEW d \in Device
          PROVE  /\ Holders(d)' = IF d = r
                                  THEN (Holders(d) \ {<<"peer", x>>}) \union {<<"watch", x>>}
                                  ELSE Holders(d)
                 /\ d = r => <<"peer", x>> \in Holders(d)
      <3>1. \A y \in Release \ {x} : /\ WatchHolds(y, d)' <=> WatchHolds(y, d)
                                     /\ PeerHolds(y, d)' <=> PeerHolds(y, d)
        BY <2>0, <2>2 DEF WatchHolds, PeerHolds
      <3>2. /\ WatchHolds(x, d)' <=> d = r
            /\ WatchHolds(x, d) => d = r
            /\ ~ PeerHolds(x, d)' /\ (PeerHolds(x, d) <=> d = r)
        BY <2>0, <2>1, <2>2 DEF WatchHolds, PeerHolds
      <3>3. ReleaseFramed(x, d)
        BY <2>2, <3>1, PeerFrame
      <3>4. /\ \A u : u \in Holders(d)' <=> \/ u \in Holders(d) /\ u # <<"peer", x>>
                                            \/ d = r /\ u = <<"watch", x>>
            /\ <<"peer", x>> \in Holders(d) <=> d = r
        BY <3>2, <3>3 DEF ReleaseFramed
      <3>5. CASE d = r
        BY <3>4, <3>5
      <3>6. CASE d # r
        BY <3>4, <3>6
      <3> QED
        BY <3>5, <3>6
    <2> QED
      BY <2>1, <2>3, HandsOn
  <1>5. ASSUME NEW x \in Release, WatchEnds(x) PROVE LockAccounted'
    <2>0. PICK r \in Device : r = ReleasedDevice[x]
      BY DaemonAssumption
    <2>1. Unlock(r)
      BY <1>5, <2>0 DEF WatchEnds
    <2>2. /\ UNCHANGED <<conn, peer>> /\ watch[x].on /\ ~ watch'[x].on
          /\ \A y \in Release \ {x} : watch'[y] = watch[y]
      BY <1>5 DEF TypeOK, WatchEnds, Unwatched
    <2>3. ASSUME NEW d \in Device
          PROVE  /\ Holders(d)' = IF d = r THEN Holders(d) \ {<<"watch", x>>} ELSE Holders(d)
                 /\ d = r => <<"watch", x>> \in Holders(d)
      <3>1. \A y \in Release \ {x} : /\ WatchHolds(y, d)' <=> WatchHolds(y, d)
                                     /\ PeerHolds(y, d)' <=> PeerHolds(y, d)
        BY <2>0, <2>2 DEF WatchHolds, PeerHolds
      <3>2. /\ ~ WatchHolds(x, d)' /\ (WatchHolds(x, d) <=> d = r)
            /\ PeerHolds(x, d)' <=> PeerHolds(x, d)
        BY <2>0, <2>2 DEF WatchHolds, PeerHolds
      <3>3. ReleaseFramed(x, d)
        BY <2>2, <3>1, PeerFrame
      <3>4. /\ \A u : u \in Holders(d)' <=> u \in Holders(d) /\ u # <<"watch", x>>
            /\ <<"watch", x>> \in Holders(d) <=> d = r
        BY <3>2, <3>3 DEF ReleaseFramed
      <3>5. CASE d = r
        BY <3>4, <3>5
      <3>6. CASE d # r
        BY <3>4, <3>6
      <3> QED
        BY <3>5, <3>6
    <2> QED
      BY <2>1, <2>3, Gives
  <1> QED
    BY <1>1, <1>2, <1>3, <1>4, <1>5 DEF PeerStep

(* A request arrives: its connection holds nothing yet. *)
LEMMA Arrival ==
    ASSUME TypeOK, NEW c \in Conn, NEW d \in Device,
           \/ \E q \in ClientRequest, b \in 1..MaxBudget : ClaimArrives(c, q, d, b)
           \/ ReleaseArrives(c, d)
    PROVE  /\ conn[c].pc = "idle" /\ conn'[c].pc \in {"new", "rlock"}
           /\ \A b \in Conn \ {c} : conn'[b] = conn[b]
           /\ UNCHANGED <<token, claims, log, peer, watch>>
  <1> USE DEF othersOfConn, peerVars
  <1>1. ASSUME NEW q \in ClientRequest, NEW b \in 1..MaxBudget, ClaimArrives(c, q, d, b)
        PROVE  /\ conn[c].pc = "idle" /\ conn'[c].pc = "new"
               /\ \A a \in Conn \ {c} : conn'[a] = conn[a]
               /\ UNCHANGED <<token, claims, log, peer, watch>>
    BY <1>1 DEF TypeOK, ClaimArrives, At
  <1>2. CASE ReleaseArrives(c, d)
    <2>1. [Closed EXCEPT !.pc = "rlock", !.dev = d].pc = "rlock"
      BY DEF Closed
    <2> QED
      BY <1>2, <2>1 DEF TypeOK, ReleaseArrives, At
  <1> QED
    BY <1>1, <1>2

(* At first every device has its token.                                    *)
LEMMA LockInit == Init => LockAccounted
  BY DEF Init, LockAccounted, Holders, Closed, Unwatched, Quiet, Holding

(* Every step keeps the account of the locks.                              *)
LEMMA LockStep == TypeOK /\ LockAccounted /\ [Next]_vars => LockAccounted'
  <1> SUFFICES ASSUME TypeOK, LockAccounted, [Next]_vars PROVE LockAccounted'
    OBVIOUS
  <1> USE DEF othersOfConn, othersOfPeer, peerVars
  <1>1. ASSUME NEW c \in Conn, ConnStep(c) PROVE LockAccounted'
    BY <1>1, ConnLock
  <1>2. CASE PeerStep \/ \E x \in Release : DeviceGone(x) \/ WatchExpires(x)
    BY <1>2, PeerLock DEF DeviceGone, WatchExpires
  <1>3. ASSUME NEW c \in Conn, NEW d \in Device,
               \/ \E q \in ClientRequest, b \in 1..MaxBudget : ClaimArrives(c, q, d, b)
               \/ ReleaseArrives(c, d)
        PROVE  LockAccounted'
    <2>1. /\ UNCHANGED <<token, peer, watch>>
          /\ conn[c].pc = "idle" /\ conn'[c].pc \in {"new", "rlock"}
          /\ \A b \in Conn \ {c} : conn'[b] = conn[b]
      BY <1>3, Arrival DEF ClaimArrives, ReleaseArrives
    <2>2. \A e \in Device : Holders(e)' = Holders(e)
      BY <2>1, ConnFrame DEF ConnHolds, Holding
    <2> QED
      BY <2>1, <2>2, Keeps
  <1>4. CASE \/ \E x \in Release : PeerArrives(x)
             \/ Connect \/ Tick \/ UNCHANGED vars
    <2>1. token' = token
      BY <1>4 DEF PeerArrives, Connect, Tick, vars
    <2>2. ASSUME NEW d \in Device PROVE Holders(d)' = Holders(d)
      <3>1. \A c \in Conn : ConnHolds(c, d)' <=> ConnHolds(c, d)
        BY <1>4 DEF TypeOK, ConnState, ConnHolds, PeerArrives, Connect, Tick, vars
      <3>2. \A x \in Release : WatchHolds(x, d)' <=> WatchHolds(x, d)
        <4>1. CASE Tick
          <5> SUFFICES ASSUME NEW x \in Release PROVE watch'[x].on = watch[x].on
            BY DEF WatchHolds
          <5>1. watch'[x] = [watch[x] EXCEPT !.ttl = Less(@)]
            BY <4>1 DEF Tick
          <5> QED
            BY <5>1 DEF TypeOK
        <4>2. CASE watch' = watch
          BY <4>2 DEF WatchHolds
        <4> QED
          BY <1>4, <4>1, <4>2 DEF PeerArrives, Connect, vars
      <3>3. \A x \in Release : PeerHolds(x, d)' <=> PeerHolds(x, d)
        BY <1>4 DEF PeerHolds, PeerArrives, Connect, Tick, vars
      <3> QED
        BY <3>1, <3>2, <3>3, HoldersSame
    <2> QED
      BY <2>1, <2>2, Keeps
  <1> QED
    BY <1>1, <1>2, <1>3, <1>4 DEF Next, Arrivals

(* The token of a device is in its channel or with exactly one of the      *)
(* claims, local releases, callback and goroutines that work on the        *)
(* device, whatever their number, on every path through them.              *)
THEOREM DaemonLock == Spec => []LockAccounted
  BY TypeInit, TypeStep, LockInit, LockStep, PTL DEF Spec

(***************************************************************************)
(* SuccessIsLogged is not inductive: what the connections know of the log  *)
(* as they come to the store has to be kept along.                         *)
(***************************************************************************)
LoggedSoFar ==
    /\ SuccessIsLogged
    /\ \A c \in Conn :
           conn[c].pc \in Claiming \ {"new", "lock", "accept"} => log[conn[c].req].accepted
    /\ \A c \in Conn :
           conn[c].pc = "store" /\ conn[c].ok => "ok" \in log[conn[c].req].final

(* Nothing is ever taken out of the log. *)
LEMMA LogGrows ==
    ASSUME TypeOK, [Next]_vars, NEW q \in ClientRequest
    PROVE  /\ log[q].accepted => log'[q].accepted
           /\ log[q].final \subseteq log'[q].final
  <1> USE DEF othersOfConn, othersOfPeer, peerVars
  <1>1. ASSUME NEW c \in Conn, NEW r \in ClientRequest,
               log' = [log EXCEPT ![r].accepted = TRUE]
        PROVE  /\ log[q].accepted => log'[q].accepted
               /\ log[q].final \subseteq log'[q].final
    BY <1>1 DEF TypeOK
  <1>2. ASSUME NEW c \in Conn, NEW r \in ClientRequest,
               log' = [log EXCEPT ![r].final = @ \union {Outcome(c)}]
        PROVE  /\ log[q].accepted => log'[q].accepted
               /\ log[q].final \subseteq log'[q].final
    BY <1>2 DEF TypeOK
  <1>3. ASSUME NEW c \in Conn, ConnStep(c)
        PROVE  \/ log' = log
               \/ \E r \in ClientRequest :
                     \/ log' = [log EXCEPT ![r].accepted = TRUE]
                     \/ log' = [log EXCEPT ![r].final = @ \union {Outcome(c)}]
    <2>1. CASE \/ ClaimAccept(c) \/ ClaimUnlogged(c) \/ FinalLogged(c) \/ FinalUnlogged(c)
      <3>1. conn[c].req \in ClientRequest
        BY <2>1 DEF TypeOK, ClaimAccept, ClaimUnlogged, FinalLogged, FinalUnlogged, At,
           Claiming, Holding
      <3> QED
        BY <2>1, <3>1 DEF ClaimAccept, ClaimUnlogged, FinalLogged, FinalUnlogged
    <2>2. CASE ~ (ClaimAccept(c) \/ ClaimUnlogged(c) \/ FinalLogged(c) \/ FinalUnlogged(c))
      BY <1>3, <2>2 DEF ConnStep, ClaimStep, ClaimReplayed, ClaimRefused, ClaimNew,
         ClaimTryLock, LockRefused, ClaimRemember, ClaimFails, AlreadyConnected,
         AskCoordinator, Proceed, ProceedNoPeer, ConnectedMeanwhile, StartAcquire,
         Acquired, Guarded, GuardUnlogged, RememberFinal, ReleaseTryLock, ReleaseEnds,
         ConnUnlock
    <2> QED
      BY <2>1, <2>2
  <1>4. CASE ~ \E c \in Conn : ConnStep(c)
    <2>1. log' = log
      BY <1>4 DEF Next, Arrivals, ClaimArrives, ReleaseArrives, PeerArrives, PeerStep,
         PeerReplayed, PeerStale, PeerNew, PeerGuarded, PeerUnguarded, PeerLockRefused,
         PeerTryLock, PeerFails, PeerDisconnected, PeerConnected, PeerUnpaired,
         DeviceGone, WatchExpires, WatchEnds, Connect, Tick, vars
    <2> QED
      BY <2>1
  <1> QED
    BY <1>1, <1>2, <1>3, <1>4

(* At first nothing is claimed.                                            *)
LEMMA LoggedInit == Init => LoggedSoFar
  BY DEF Init, LoggedSoFar, SuccessIsLogged, Closed, Claiming, Holding

(* Every step keeps what is known of the log.                              *)
LEMMA LoggedStep == TypeOK /\ LoggedSoFar /\ [Next]_vars => LoggedSoFar'
  <1> SUFFICES ASSUME TypeOK, LoggedSoFar, [Next]_vars PROVE LoggedSoFar'
    OBVIOUS
  <1> USE DEF othersOfConn, othersOfPeer, peerVars
  <1> DEFINE Known(b) ==
          /\ conn[b].pc \in Claiming \ {"new", "lock", "accept"}
                 => log[conn[b].req].accepted
          /\ conn[b].pc = "store" /\ conn[b].ok => "ok" \in log[conn[b].req].final
             Logged(q) == claims[q] = "ok" => log[q].accepted /\ "ok" \in log[q].final
  <1>1. \A b \in Conn : /\ conn'[b].pc = conn[b].pc /\ conn'[b].req = conn[b].req
                        /\ conn'[b].ok = conn[b].ok
                        => Known(b)'
    <2> SUFFICES ASSUME NEW b \in Conn, conn'[b].pc = conn[b].pc, conn'[b].req = conn[b].req,
                        conn'[b].ok = conn[b].ok
                 PROVE  Known(b)'
      OBVIOUS
    <2>1. CASE conn[b].pc \in Claiming
      <3>1. PICK q \in ClientRequest : q = conn[b].req
        BY <2>1 DEF TypeOK
      <3>2. /\ log[q].accepted => log'[q].accepted
            /\ log[q].final \subseteq log'[q].final
        BY LogGrows
      <3> QED
        BY <3>1, <3>2 DEF LoggedSoFar
    <2>2. CASE conn[b].pc \notin Claiming
      BY <2>2 DEF Claiming, Holding
    <2> QED
      BY <2>1, <2>2
  <1>2. \A q \in ClientRequest : claims'[q] = claims[q] => Logged(q)'
    BY LogGrows DEF LoggedSoFar, SuccessIsLogged
  <1>3. ASSUME NEW c \in Conn, ConnStep(c)
        PROVE  /\ \A b \in Conn \ {c} : conn'[b] = conn[b]
               /\ Known(c)' /\ \A q \in ClientRequest : Logged(q)'
    <2>1. CASE ClaimReplayed(c) \/ ClaimRefused(c) \/ LockRefused(c) \/ ConnUnlock(c)
      BY <1>2, <2>1 DEF TypeOK, ClaimReplayed, ClaimRefused, LockRefused, ConnUnlock, End,
         Closed, Claiming, Holding
    <2>2. CASE \/ ClaimNew(c) \/ ClaimTryLock(c) \/ ReleaseTryLock(c) \/ ReleaseEnds(c)
               \/ ClaimUnlogged(c)
      BY <1>2, <2>2 DEF TypeOK, ConnState, ClaimNew, ClaimTryLock, ReleaseTryLock,
         ReleaseEnds, ClaimUnlogged, Go, Claiming, Holding
    <2>3. CASE ClaimAccept(c)
      <3>1. conn[c].req \in ClientRequest
        BY <2>3 DEF TypeOK, ClaimAccept, At, Claiming, Holding
      <3>2. /\ log'[conn[c].req].accepted
            /\ conn'[c].pc = "remember" /\ conn'[c].req = conn[c].req
        BY <2>3, <3>1 DEF TypeOK, ConnState, ClaimAccept, Go
      <3> QED
        BY <1>2, <2>3, <3>2 DEF TypeOK, ClaimAccept, Go
    <2>4. CASE \/ ClaimFails(c) \/ AlreadyConnected(c) \/ AskCoordinator(c) \/ Proceed(c)
               \/ ProceedNoPeer(c) \/ ConnectedMeanwhile(c) \/ StartAcquire(c)
               \/ Acquired(c) \/ Guarded(c) \/ GuardUnlogged(c)
      <3>1. /\ conn[c].pc \in {"local", "acquire", "ask", "wait", "recheck", "guard"}
            /\ conn'[c].pc \in {"final", "guard", "ask", "wait", "recheck", "acquire"}
            /\ conn'[c].req = conn[c].req /\ log' = log /\ claims' = claims
            /\ \A b \in Conn \ {c} : conn'[b] = conn[b]
        BY <2>4 DEF TypeOK, ConnState, ClaimFails, AlreadyConnected, AskCoordinator,
           Proceed, ProceedNoPeer, ConnectedMeanwhile, StartAcquire, Acquired, Guarded,
           GuardUnlogged, At, Go
      <3> QED
        BY <1>2, <3>1 DEF LoggedSoFar, Claiming, Holding
    <2>5. CASE ClaimRemember(c) \/ RememberFinal(c)
      <3>1. /\ conn[c].req \in ClientRequest /\ log' = log
            /\ conn'[c].req = conn[c].req
            /\ \A b \in Conn \ {c} : conn'[b] = conn[b]
            /\ log[conn[c].req].accepted
        BY <2>5 DEF TypeOK, ConnState, LoggedSoFar, ClaimRemember, RememberFinal, At, Go,
           Claiming, Holding
      <3>2. Known(c)'
        BY <2>5, <3>1 DEF TypeOK, ConnState, ClaimRemember, RememberFinal, Go, Claiming,
           Holding
      <3>3. claims'[conn[c].req] = "ok" => conn[c].pc = "store" /\ conn[c].ok
        BY <2>5, <3>1 DEF TypeOK, ClaimRemember, RememberFinal, Outcome, At
      <3>4. Logged(conn[c].req)'
        BY <3>1, <3>3 DEF LoggedSoFar
      <3>5. \A q \in ClientRequest \ {conn[c].req} : claims'[q] = claims[q]
        BY <2>5 DEF TypeOK, ClaimRemember, RememberFinal
      <3> QED
        BY <1>2, <3>1, <3>2, <3>4, <3>5
    <2>6. CASE FinalLogged(c) \/ FinalUnlogged(c)
      <3>1. /\ conn[c].req \in ClientRequest /\ claims' = claims
            /\ conn'[c].pc = "store" /\ conn'[c].req = conn[c].req
            /\ \A b \in Conn \ {c} : conn'[b] = conn[b]
            /\ log[conn[c].req].accepted
        <4>1. conn[c].pc = "final"
          BY <2>6 DEF FinalLogged, FinalUnlogged, At
        <4>2. conn[c].req \in ClientRequest /\ log[conn[c].req].accepted
          BY <4>1 DEF TypeOK, LoggedSoFar, Claiming, Holding
        <4>3. CASE FinalLogged(c)
          BY <4>2, <4>3 DEF TypeOK, ConnState, FinalLogged, Go
        <4>4. CASE FinalUnlogged(c)
          BY <4>2, <4>4 DEF TypeOK, ConnState, FinalUnlogged
        <4> QED
          BY <2>6, <4>3, <4>4
      <3>2. log'[conn[c].req].accepted
        BY <3>1, LogGrows
      <3>3. conn'[c].ok => "ok" \in log'[conn[c].req].final
        <4>1. CASE FinalLogged(c)
          BY <3>1, <4>1 DEF TypeOK, ConnState, FinalLogged, Go, Outcome
        <4>2. CASE FinalUnlogged(c)
          BY <4>2 DEF TypeOK, ConnState, FinalUnlogged
        <4> QED
          BY <2>6, <4>1, <4>2
      <3> QED
        BY <1>2, <3>1, <3>2, <3>3
    <2> QED
      BY <1>3, <2>1, <2>2, <2>3, <2>4, <2>5, <2>6 DEF ConnStep, ClaimStep
  <1>4. ASSUME NEW c \in Conn, NEW d \in Device,
               \/ \E q \in ClientRequest, b \in 1..MaxBudget : ClaimArrives(c, q, d, b)
               \/ ReleaseArrives(c, d)
        PROVE  /\ \A b \in Conn \ {c} : conn'[b] = conn[b]
               /\ Known(c)' /\ \A q \in ClientRequest : Logged(q)'
    <2>1. /\ conn'[c].pc \in {"new", "rlock"} /\ claims' = claims
          /\ \A b \in Conn \ {c} : conn'[b] = conn[b]
      BY <1>4, Arrival
    <2> QED
      BY <1>2, <2>1 DEF Claiming, Holding
  <1>5. CASE \/ PeerStep \/ Connect \/ Tick \/ UNCHANGED vars
             \/ \E x \in Release : PeerArrives(x) \/ DeviceGone(x) \/ WatchExpires(x)
    <2>1. /\ claims' = claims
          /\ \A b \in Conn : /\ conn'[b].pc = conn[b].pc /\ conn'[b].req = conn[b].req
                             /\ conn'[b].ok = conn[b].ok
      <3>1. CASE Tick
        BY <3>1 DEF Tick, TypeOK, ConnState
      <3>2. CASE ~ Tick
        BY <1>5, <3>2 DEF PeerArrives, PeerStep, PeerReplayed, PeerStale, PeerNew, PeerGuarded,
           PeerUnguarded, PeerLockRefused, PeerTryLock, PeerFails, PeerDisconnected,
           PeerConnected, PeerUnpaired, DeviceGone, WatchExpires, WatchEnds, Connect, vars
      <3> QED
        BY <3>1, <3>2
    <2> QED
      BY <1>1, <1>2, <2>1 DEF LoggedSoFar, SuccessIsLogged
  <1>6. ASSUME NEW c \in Conn, \A b \in Conn \ {c} : conn'[b] = conn[b], Known(c)',
               \A q \in ClientRequest : Logged(q)'
        PROVE  LoggedSoFar'
    BY <1>1, <1>6 DEF LoggedSoFar, SuccessIsLogged
  <1> QED
    BY <1>3, <1>4, <1>5, <1>6 DEF Next, Arrivals

(* A success that is replayed is in the log, and so is its claim.          *)
THEOREM DaemonSuccessLogged == Spec => []SuccessIsLogged
  <1>1. LoggedSoFar => SuccessIsLogged
    BY DEF LoggedSoFar
  <1> QED
    BY <1>1, TypeInit, TypeStep, LoggedInit, LoggedStep, PTL DEF Spec

(* A claim looks at the device, asks the coordinator, connects or sets a   *)
(* guard only once the log has its acceptance: a daemon that dies at any   *)
(* of these leaves a claim that the next one finds open and closes.        *)
WorkIsLogged ==
    \A c \in Conn :
        conn[c].pc \in {"local", "ask", "wait", "recheck", "acquire", "guard", "final"}
            => log[conn[c].req].accepted

(* Nothing is done for a claim that the log does not have.                 *)
THEOREM DaemonWorkIsLogged == Spec => []WorkIsLogged
  <1>1. LoggedSoFar => WorkIsLogged
    BY DEF LoggedSoFar, WorkIsLogged, Claiming, Holding
  <1> QED
    BY <1>1, TypeInit, TypeStep, LoggedInit, LoggedStep, PTL DEF Spec

(***************************************************************************)
(* How the replay table of the peer releases and the history of what was   *)
(* unpaired hang together: an answer is remembered for at least as long as *)
(* its unpairing must not be repeated, so a callback that found none to    *)
(* replay works on a release that may be unpaired.                         *)
(***************************************************************************)
ReplayCovers ==
    /\ \A x \in Release : settled[x] <= peers[x].ttl
    /\ peer.pc \in {"guard", "lock", "check"} => settled[peer.rel] = 0

(* At first no release was ever served.                                    *)
LEMMA ReplayInit == Init => ReplayCovers
  BY DEF Init, ReplayCovers, Quiet, Forgotten

(* What every step but those of the callback and of time leaves alone. *)
LEMMA CallbackFrame ==
    ASSUME TypeOK, [Next]_vars, ~ PeerStep, ~ Tick
    PROVE  /\ peers' = peers /\ settled' = settled /\ (peer.pc # "idle" => peer' = peer)
           /\ peer' = peer \/ peer'.pc = "new"
  <1> USE DEF othersOfConn, othersOfPeer, peerVars
  <1>1. ASSUME NEW c \in Conn, ConnStep(c) PROVE UNCHANGED peerVars
    BY <1>1 DEF ConnStep, ClaimStep, ClaimReplayed, ClaimRefused, ClaimNew, ClaimTryLock,
       LockRefused, ClaimAccept, ClaimUnlogged, ClaimRemember, ClaimFails,
       AlreadyConnected, AskCoordinator, Proceed, ProceedNoPeer, ConnectedMeanwhile,
       StartAcquire, Acquired, Guarded, GuardUnlogged, FinalLogged, FinalUnlogged,
       RememberFinal, ReleaseTryLock, ReleaseEnds, ConnUnlock
  <1>2. CASE Arrivals
    <2>1. ASSUME NEW x \in Release, PeerArrives(x)
          PROVE  /\ peers' = peers /\ settled' = settled /\ peer.pc = "idle"
                 /\ peer'.pc = "new"
      BY <2>1 DEF PeerArrives
    <2>2. CASE ~ \E x \in Release : PeerArrives(x)
      BY <1>2, <2>2 DEF Arrivals, ClaimArrives, ReleaseArrives
    <2> QED
      BY <2>1, <2>2
  <1>3. CASE \/ \E x \in Release : DeviceGone(x) \/ WatchExpires(x)
             \/ Connect \/ UNCHANGED vars
    BY <1>3 DEF DeviceGone, WatchExpires, WatchEnds, Connect, vars
  <1> QED
    BY <1>1, <1>2, <1>3 DEF Next

(* Every step keeps the answers remembered for long enough.                *)
LEMMA ReplayStep == TypeOK /\ ReplayCovers /\ [Next]_vars => ReplayCovers'
  <1> SUFFICES ASSUME TypeOK, ReplayCovers, [Next]_vars PROVE ReplayCovers'
    OBVIOUS
  <1> USE DEF othersOfPeer
  <1>1. CASE PeerStep
    <2>1. peer.pc # "idle" /\ peer.rel \in Release
      BY <1>1 DEF PeerStep, PeerReplayed, PeerStale, PeerNew, PeerGuarded, PeerUnguarded,
         PeerLockRefused, PeerTryLock, PeerFails, PeerDisconnected, PeerConnected,
         PeerUnpaired, TypeOK
    <2>2. CASE PeerReplayed \/ PeerStale \/ PeerGuarded
      BY <2>2 DEF ReplayCovers, PeerReplayed, PeerStale, PeerGuarded, Quiet
    <2>3. CASE PeerNew
      <3>1. settled[peer.rel] = 0
        BY <2>1, <2>3 DEF PeerNew, Replayable, ReplayCovers, TypeOK
      <3> QED
        BY <2>3, <3>1 DEF PeerNew, ReplayCovers, TypeOK, PeerState
    <2>4. CASE PeerUnguarded \/ PeerTryLock \/ PeerConnected
      BY <2>4 DEF PeerUnguarded, PeerTryLock, PeerConnected, ReplayCovers, TypeOK,
         PeerState
    <2>5. CASE PeerLockRefused \/ PeerFails \/ PeerDisconnected \/ PeerUnpaired
      <3>1. PICK reply \in Answer : RememberPeer(reply)
        BY <2>5 DEF PeerLockRefused, PeerFails, PeerDisconnected, PeerUnpaired, Answer
      <3>2. /\ peers'[peer.rel].ttl = ReplayTime
            /\ \A x \in Release \ {peer.rel} : peers'[x] = peers[x]
        BY <2>1, <3>1 DEF RememberPeer, TypeOK
      <3>3. /\ settled'[peer.rel] \in {0, ReplayTime}
            /\ \A x \in Release \ {peer.rel} : settled'[x] = settled[x]
        BY <2>1, <2>5 DEF PeerLockRefused, PeerFails, PeerDisconnected, PeerUnpaired,
           ReplayCovers, TypeOK
      <3>4. peer'.pc = "idle"
        BY <2>5 DEF PeerLockRefused, PeerFails, PeerDisconnected, PeerUnpaired, Quiet
      <3> QED
        BY <3>2, <3>3, <3>4, DaemonAssumption DEF ReplayCovers
    <2> QED
      BY <1>1, <2>2, <2>3, <2>4, <2>5 DEF PeerStep
  <1>2. CASE Tick
    <2>1. ASSUME NEW x \in Release PROVE settled'[x] <= peers'[x].ttl
      <3>1. /\ settled[x] \in Nat /\ peers[x] \in [reply : Answer, ttl : Nat]
            /\ settled[x] <= peers[x].ttl
            /\ settled'[x] = IF settled[x] = 0 THEN 0 ELSE settled[x] - 1
        BY <1>2 DEF Tick, Less, TypeOK, ReplayCovers
      <3>2. CASE peers[x].ttl <= 1
        BY <1>2, <3>1, <3>2 DEF Tick, Forgotten
      <3>3. CASE ~ peers[x].ttl <= 1
        <4>1. peers'[x].ttl = peers[x].ttl - 1
          BY <1>2, <3>1, <3>3 DEF Tick
        <4> QED
          BY <3>1, <3>3, <4>1
      <3> QED
        BY <3>2, <3>3
    <2>2. \A x \in Release : settled[x] = 0 => settled'[x] = 0
      BY <1>2 DEF Tick, Less
    <2> QED
      BY <1>2, <2>1, <2>2 DEF Tick, ReplayCovers, TypeOK
  <1>3. CASE ~ PeerStep /\ ~ Tick
    BY <1>3, CallbackFrame DEF ReplayCovers
  <1> QED
    BY <1>1, <1>2, <1>3

(* A release that comes again while its answer is remembered is not        *)
(* unpaired again, whatever came of the first, for any replay time.        *)
THEOREM DaemonNoSecondUnpair == Spec => NoSecondUnpair
  <1>1. ASSUME ReplayCovers PROVE [Unpairing => settled[peer.rel] = 0]_vars
    BY <1>1 DEF ReplayCovers, Unpairing
  <1> QED
    BY <1>1, TypeInit, TypeStep, ReplayInit, ReplayStep, PTL DEF Spec, NoSecondUnpair

(***************************************************************************)
(* Nobody gives a token back to a device whose channel has one: the        *)
(* channel send of unlockDevice, that every path of a claim, a release and *)
(* the goroutine behind a release ends in, never blocks.                   *)
(***************************************************************************)
NeverBlocks ==
    /\ \A c \in Conn : conn[c].pc \in Holding => token[conn[c].dev] = 0
    /\ \A x \in Release : watch[x].on => token[ReleasedDevice[x]] = 0
    /\ peer.pc \in {"check", "unpair"} => token[Asked] = 0

(* A device that has a holder has no token in its channel. *)
LEMMA HeldMeansTaken ==
    ASSUME TypeOK, LockAccounted, NEW d \in Device, NEW u \in Holders(d)
    PROVE  token[d] = 0
  BY DEF TypeOK, LockAccounted

(* No goroutine blocks as it unlocks a device, whatever the others do.     *)
THEOREM DaemonNeverBlocks == Spec => []NeverBlocks
  <1>1. TypeOK /\ LockAccounted => NeverBlocks
    <2> SUFFICES ASSUME TypeOK, LockAccounted PROVE NeverBlocks
      OBVIOUS
    <2>1. ASSUME NEW c \in Conn, conn[c].pc \in Holding PROVE token[conn[c].dev] = 0
      <3>1. conn[c].dev \in Device /\ <<"conn", c>> \in Holders(conn[c].dev)
        BY <2>1, HoldersByKind DEF ConnHolds, TypeOK, Holding
      <3> QED
        BY <3>1, HeldMeansTaken
    <2>2. ASSUME NEW x \in Release, watch[x].on PROVE token[ReleasedDevice[x]] = 0
      <3>1. ReleasedDevice[x] \in Device /\ <<"watch", x>> \in Holders(ReleasedDevice[x])
        BY <2>2, HoldersByKind, DaemonAssumption DEF WatchHolds
      <3> QED
        BY <3>1, HeldMeansTaken
    <2>3. ASSUME peer.pc \in {"check", "unpair"} PROVE token[Asked] = 0
      <3>1. Asked \in Device /\ <<"peer", peer.rel>> \in Holders(Asked)
        BY <2>3, HoldersByKind, DaemonAssumption DEF PeerHolds, TypeOK, Asked
      <3> QED
        BY <3>1, HeldMeansTaken
    <2> QED
      BY <2>1, <2>2, <2>3 DEF NeverBlocks
  <1> QED
    BY <1>1, DaemonTypes, DaemonLock, PTL

(***************************************************************************)
(* A guard that is up while the callback works on its device, past its own *)
(* look at the guard, was set between that look and the lock: from then on *)
(* the callback has the lock, and a claim sets a guard only with the lock. *)
(***************************************************************************)
RaceSeen == peer.pc \in {"lock", "check"} /\ guards[Asked] > 0 => raced

(* A connection that holds a device is alone with it. *)
LEMMA HeldAlone ==
    ASSUME TypeOK, LockAccounted, NEW c \in Conn, conn[c].pc \in Holding,
           peer.pc \in {"check", "unpair"}
    PROVE  conn[c].dev # Asked
  <1> SUFFICES ASSUME conn[c].dev = Asked PROVE FALSE
    OBVIOUS
  <1>1. /\ Asked \in Device
        /\ <<"conn", c>> \in Holders(Asked) /\ <<"peer", peer.rel>> \in Holders(Asked)
    BY HoldersByKind, DaemonAssumption DEF ConnHolds, PeerHolds, TypeOK, Asked
  <1>2. \A u, v \in Holders(Asked) : u = v
    BY <1>1 DEF LockAccounted
  <1>3. <<"conn", c>> # <<"peer", peer.rel>>
    OBVIOUS
  <1> QED
    BY <1>1, <1>2, <1>3

(* At first no release is served.                                          *)
LEMMA RaceInit == Init => RaceSeen
  BY DEF Init, RaceSeen, Quiet

(* Every step keeps the race in sight.                                     *)
LEMMA RaceStep == TypeOK /\ LockAccounted /\ RaceSeen /\ [Next]_vars => RaceSeen'
  <1> SUFFICES ASSUME TypeOK, LockAccounted, RaceSeen, [Next]_vars,
                      peer'.pc \in {"lock", "check"}
               PROVE  guards'[Asked'] > 0 => raced'
    BY DEF RaceSeen
  <1> USE DEF othersOfConn, othersOfPeer, peerVars
  <1>1. ASSUME NEW c \in Conn, Guarded(c) PROVE guards'[Asked'] > 0 => raced'
    <2>1. peer' = peer /\ Asked' = Asked /\ Asked \in Device /\ conn[c].dev \in Device
      BY <1>1, DaemonAssumption DEF Guarded, At, TypeOK, Asked
    <2>2. CASE peer.pc = "lock" /\ conn[c].dev = Asked
      BY <1>1, <2>2 DEF Guarded, Asked
    <2>3. CASE ~ (peer.pc = "lock" /\ conn[c].dev = Asked)
      <3>1. conn[c].dev # Asked
        BY <1>1, <2>1, <2>3, HeldAlone DEF Guarded, At, Holding
      <3>2. guards'[Asked] = guards[Asked]
        BY <1>1, <2>1, <3>1 DEF Guarded, TypeOK
      <3> QED
        BY <1>1, <2>1, <3>2 DEF Guarded, RaceSeen
    <2> QED
      BY <2>2, <2>3
  <1>2. ASSUME NEW c \in Conn, ConnStep(c), ~ Guarded(c)
        PROVE  UNCHANGED <<peer, guards, raced>>
    BY <1>2 DEF ConnStep, ClaimStep, ClaimReplayed, ClaimRefused, ClaimNew, ClaimTryLock,
       LockRefused, ClaimAccept, ClaimUnlogged, ClaimRemember, ClaimFails,
       AlreadyConnected, AskCoordinator, Proceed, ProceedNoPeer, ConnectedMeanwhile,
       StartAcquire, Acquired, GuardUnlogged, FinalLogged, FinalUnlogged,
       RememberFinal, ReleaseTryLock, ReleaseEnds, ConnUnlock
  <1>3. CASE PeerStep
    <2>1. CASE PeerUnguarded
      <3>1. ~ guards[Asked] > 0 /\ Asked' = Asked /\ guards' = guards
        BY <2>1 DEF PeerUnguarded, GuardActive, TypeOK, PeerState, Asked
      <3> QED
        BY <3>1
    <2>2. CASE PeerTryLock
      <3>1. Asked' = Asked /\ guards' = guards /\ raced' = raced /\ peer.pc = "lock"
        BY <2>2 DEF PeerTryLock, TypeOK, PeerState, Asked
      <3> QED
        BY <3>1 DEF RaceSeen
    <2>3. peer'.pc \in {"lock", "check"} => PeerUnguarded \/ PeerTryLock
      BY <1>3 DEF PeerStep, PeerReplayed, PeerStale, PeerNew, PeerGuarded, PeerUnguarded,
         PeerLockRefused, PeerTryLock, PeerFails, PeerDisconnected, PeerConnected,
         PeerUnpaired, TypeOK, PeerState, Quiet
    <2> QED
      BY <2>1, <2>2, <2>3
  <1>4. CASE Tick
    <2>1. /\ Asked' = Asked /\ Asked \in Device /\ raced' = raced
          /\ peer.pc \in {"lock", "check"}
      BY <1>4, DaemonAssumption DEF Tick, TypeOK, Asked
    <2>2. guards[Asked] \in Nat /\ guards'[Asked] = Less(guards[Asked])
      BY <1>4, <2>1 DEF Tick, TypeOK
    <2> QED
      BY <2>1, <2>2 DEF Less, RaceSeen
  <1>5. CASE Arrivals
    <2>1. ASSUME NEW x \in Release, PeerArrives(x) PROVE FALSE
      BY <2>1 DEF PeerArrives
    <2>2. UNCHANGED <<peer, guards, raced>>
      BY <1>5, <2>1 DEF Arrivals, ClaimArrives, ReleaseArrives
    <2> QED
      BY <2>2 DEF RaceSeen, Asked
  <1>6. CASE \/ \E x \in Release : DeviceGone(x) \/ WatchExpires(x)
             \/ Connect \/ UNCHANGED vars
    BY <1>6 DEF DeviceGone, WatchExpires, WatchEnds, Connect, vars, RaceSeen, Asked
  <1>7. CASE UNCHANGED <<peer, guards, raced>>
    BY <1>7 DEF RaceSeen, Asked
  <1> QED
    BY <1>1, <1>2, <1>3, <1>4, <1>5, <1>6, <1>7 DEF Next

(* A device that a claim has just won is unpaired for a peer only when the *)
(* claim set its guard between the two checks of the callback.             *)
THEOREM DaemonGuardMissed == Spec => GuardMissedOnlyByRace
  <1>1. ASSUME RaceSeen PROVE [Unpairing /\ guards[Asked] > 0 => raced]_vars
    BY <1>1 DEF RaceSeen, Unpairing
  <1> QED
    BY <1>1, TypeInit, TypeStep, LockInit, LockStep, RaceInit, RaceStep, PTL
       DEF Spec, GuardMissedOnlyByRace

(***************************************************************************)
(* What there is left to do for a request: the places of a connection, and *)
(* those of the release callback, in the order in which they are passed.   *)
(***************************************************************************)
ConnRank(pc) ==
    CASE pc = "idle" -> 0     [] pc = "unlock" -> 1   [] pc = "store" -> 2
      [] pc = "release" -> 2  [] pc = "final" -> 3    [] pc = "rlock" -> 3
      [] pc = "guard" -> 4    [] pc = "acquire" -> 5  [] pc = "wait" -> 6
      [] pc = "recheck" -> 6  [] pc = "ask" -> 7      [] pc = "local" -> 8
      [] pc = "remember" -> 9 [] pc = "accept" -> 10  [] pc = "lock" -> 11
      [] pc = "new" -> 12

PeerRank(pc) ==
    CASE pc = "idle" -> 0  [] pc = "unpair" -> 1 [] pc = "check" -> 2
      [] pc = "lock" -> 3  [] pc = "guard" -> 4  [] pc = "new" -> 5

(* The ranks, one by one.                                                  *)
LEMMA Ranks ==
    /\ ConnRank("idle") = 0 /\ ConnRank("unlock") = 1 /\ ConnRank("store") = 2
    /\ ConnRank("release") = 2 /\ ConnRank("final") = 3 /\ ConnRank("rlock") = 3
    /\ ConnRank("guard") = 4 /\ ConnRank("acquire") = 5 /\ ConnRank("wait") = 6
    /\ ConnRank("recheck") = 6 /\ ConnRank("ask") = 7 /\ ConnRank("local") = 8
    /\ ConnRank("remember") = 9 /\ ConnRank("accept") = 10 /\ ConnRank("lock") = 11
    /\ ConnRank("new") = 12
    /\ PeerRank("idle") = 0 /\ PeerRank("unpair") = 1 /\ PeerRank("check") = 2
    /\ PeerRank("lock") = 3 /\ PeerRank("guard") = 4 /\ PeerRank("new") = 5
  BY DEF ConnRank, PeerRank

(* A request that has arrived only comes closer to its answer: each of its *)
(* own steps is one place further, no step of another sends it back, and   *)
(* the same is true of the release callback.                               *)
RequestsRunOut ==
    [][/\ \A c \in Conn : conn[c].pc # "idle" =>
             /\ ConnRank(conn'[c].pc) <= ConnRank(conn[c].pc)
             /\ ConnStep(c) => ConnRank(conn'[c].pc) < ConnRank(conn[c].pc)
       /\ peer.pc # "idle" =>
             /\ PeerRank(peer'.pc) <= PeerRank(peer.pc)
             /\ PeerStep => PeerRank(peer'.pc) < PeerRank(peer.pc)]_vars

(* They are numbers.                                                       *)
LEMMA RankTypes ==
    /\ \A pc \in Holding \union {"idle", "new", "lock", "rlock"} : ConnRank(pc) \in 0..12
    /\ \A pc \in {"idle", "new", "guard", "lock", "check", "unpair"} :
          PeerRank(pc) \in 0..5
  BY Ranks DEF Holding

(* Each step of a connection.                                              *)
LEMMA ConnAdvances ==
    ASSUME TypeOK, NEW c \in Conn, ConnStep(c)
    PROVE  /\ ConnRank(conn'[c].pc) < ConnRank(conn[c].pc)
           /\ \A b \in Conn \ {c} : conn'[b] = conn[b]
  <1>1. conn[c] \in ConnState
    BY DEF TypeOK
  <1>2. ASSUME End(c), conn[c].pc # "idle" PROVE conn'[c].pc = "idle"
    BY <1>2 DEF End, Closed, TypeOK
  <1>3. ASSUME NEW pc,
               \/ Go(c, pc)
               \/ \E ok \in BOOLEAN : conn' = [conn EXCEPT ![c].pc = pc, ![c].ok = ok]
        PROVE  conn'[c].pc = pc
    BY <1>1, <1>3 DEF Go, TypeOK, ConnState
  <1>4. \A b \in Conn \ {c} : conn'[b] = conn[b]
    BY DEF ConnStep, ClaimStep, ClaimReplayed, ClaimRefused, ClaimNew, ClaimTryLock,
       LockRefused, ClaimAccept, ClaimUnlogged, ClaimRemember, ClaimFails,
       AlreadyConnected, AskCoordinator, Proceed, ProceedNoPeer, ConnectedMeanwhile,
       StartAcquire, Acquired, Guarded, GuardUnlogged, FinalLogged, FinalUnlogged,
       RememberFinal, ReleaseTryLock, ReleaseEnds, ConnUnlock, End, Go, TypeOK
  <1>5. CASE \/ ClaimReplayed(c) \/ ClaimRefused(c) \/ LockRefused(c) \/ ConnUnlock(c)
    <2>1. conn[c].pc \in {"new", "lock", "rlock", "unlock"} /\ End(c)
      BY <1>5 DEF ClaimReplayed, ClaimRefused, LockRefused, ConnUnlock, At
    <2> QED
      BY <1>2, <1>4, <2>1, Ranks
  <1>6. CASE \/ ClaimNew(c) \/ ClaimTryLock(c) \/ ClaimAccept(c) \/ ClaimUnlogged(c)
             \/ ClaimRemember(c) \/ AlreadyConnected(c) \/ AskCoordinator(c)
             \/ Proceed(c) \/ ProceedNoPeer(c) \/ StartAcquire(c) \/ Acquired(c)
    <2>1. \/ At(c, "new") /\ Go(c, "lock")
          \/ At(c, "lock") /\ Go(c, "accept")
          \/ At(c, "accept") /\ (Go(c, "remember") \/ Go(c, "unlock"))
          \/ At(c, "remember") /\ Go(c, "local")
          \/ At(c, "local") /\ (Go(c, "guard") \/ Go(c, "ask"))
          \/ At(c, "ask") /\ (Go(c, "wait") \/ Go(c, "recheck"))
          \/ (At(c, "recheck") \/ At(c, "wait")) /\ Go(c, "acquire")
          \/ At(c, "acquire") /\ Go(c, "guard")
      BY <1>6 DEF ClaimNew, ClaimTryLock, ClaimAccept, ClaimUnlogged, ClaimRemember,
         AlreadyConnected, AskCoordinator, Proceed, ProceedNoPeer, StartAcquire, Acquired
    <2>2. ASSUME NEW pc, Go(c, pc) PROVE conn'[c].pc = pc
      BY <1>3, <2>2
    <2>3. \/ conn[c].pc = "new" /\ conn'[c].pc = "lock"
          \/ conn[c].pc = "lock" /\ conn'[c].pc = "accept"
          \/ conn[c].pc = "accept" /\ conn'[c].pc \in {"remember", "unlock"}
          \/ conn[c].pc = "remember" /\ conn'[c].pc = "local"
          \/ conn[c].pc = "local" /\ conn'[c].pc \in {"guard", "ask"}
          \/ conn[c].pc = "ask" /\ conn'[c].pc \in {"wait", "recheck"}
          \/ conn[c].pc \in {"recheck", "wait"} /\ conn'[c].pc = "acquire"
          \/ conn[c].pc = "acquire" /\ conn'[c].pc = "guard"
      BY <2>1, <2>2 DEF At
    <2> QED
      BY <1>4, <2>3, Ranks
  <1>7. CASE \/ ClaimFails(c) \/ ConnectedMeanwhile(c) \/ Guarded(c) \/ GuardUnlogged(c)
    <2>1. conn[c].pc \in {"local", "acquire", "ask", "wait", "recheck", "guard"}
      BY <1>7 DEF ClaimFails, ConnectedMeanwhile, Guarded, GuardUnlogged, At
    <2>2. conn'[c].pc = "final"
      <3>1. PICK ok \in BOOLEAN : conn' = [conn EXCEPT ![c].pc = "final", ![c].ok = ok]
        BY <1>7 DEF ClaimFails, ConnectedMeanwhile, Guarded, GuardUnlogged
      <3> QED
        BY <1>1, <3>1 DEF TypeOK, ConnState
    <2> QED
      BY <1>4, <2>1, <2>2, Ranks
  <1>8. CASE \/ FinalLogged(c) \/ FinalUnlogged(c) \/ RememberFinal(c)
             \/ ReleaseTryLock(c) \/ ReleaseEnds(c)
    <2>1. \/ /\ At(c, "final")
             /\ \/ Go(c, "store")
                \/ conn' = [conn EXCEPT ![c].pc = "store", ![c].ok = FALSE]
          \/ (At(c, "store") \/ At(c, "release")) /\ Go(c, "unlock")
          \/ At(c, "rlock") /\ Go(c, "release")
      BY <1>8 DEF FinalLogged, FinalUnlogged, RememberFinal, ReleaseTryLock, ReleaseEnds
    <2>2. ASSUME NEW pc, Go(c, pc) PROVE conn'[c].pc = pc
      BY <1>3, <2>2
    <2>3. conn' = [conn EXCEPT ![c].pc = "store", ![c].ok = FALSE] => conn'[c].pc = "store"
      BY <1>1 DEF TypeOK, ConnState
    <2>4. \/ conn[c].pc = "final" /\ conn'[c].pc = "store"
          \/ conn[c].pc \in {"store", "release"} /\ conn'[c].pc = "unlock"
          \/ conn[c].pc = "rlock" /\ conn'[c].pc = "release"
      BY <2>1, <2>2, <2>3 DEF At
    <2> QED
      BY <1>4, <2>4, Ranks
  <1> QED
    BY <1>4, <1>5, <1>6, <1>7, <1>8 DEF ConnStep, ClaimStep

(* Each step of the release callback.                                      *)
LEMMA PeerAdvances ==
    ASSUME TypeOK, PeerStep
    PROVE  PeerRank(peer'.pc) < PeerRank(peer.pc)
  <1>1. Quiet.pc = "idle"
    BY DEF Quiet
  <1>2. \/ peer.pc \in {"new", "guard", "lock", "check", "unpair"} /\ peer' = Quiet
        \/ peer.pc = "new" /\ peer' = [peer EXCEPT !.pc = "guard"]
        \/ peer.pc = "guard" /\ peer' = [peer EXCEPT !.pc = "lock"]
        \/ peer.pc = "lock" /\ peer' = [peer EXCEPT !.pc = "check"]
        \/ peer.pc = "check" /\ peer' = [peer EXCEPT !.pc = "unpair"]
    BY DEF PeerStep, PeerReplayed, PeerStale, PeerNew, PeerGuarded, PeerUnguarded,
       PeerLockRefused, PeerTryLock, PeerFails, PeerDisconnected, PeerConnected,
       PeerUnpaired
  <1> QED
    BY <1>1, <1>2, Ranks DEF TypeOK, PeerState

(* No request, local or of a peer, is ever sent back on its way, whatever  *)
(* the other connections, the coordinator and time do meanwhile: together  *)
(* with DaemonNeverBlocks, that it is answered in the end needs only that  *)
(* its goroutine is scheduled.                                             *)
THEOREM DaemonRequestsRunOut == Spec => RequestsRunOut
  <1> DEFINE Nearer ==
        /\ \A c \in Conn : conn[c].pc # "idle" =>
              /\ ConnRank(conn'[c].pc) <= ConnRank(conn[c].pc)
              /\ ConnStep(c) => ConnRank(conn'[c].pc) < ConnRank(conn[c].pc)
        /\ peer.pc # "idle" =>
              /\ PeerRank(peer'.pc) <= PeerRank(peer.pc)
              /\ PeerStep => PeerRank(peer'.pc) < PeerRank(peer.pc)
  <1>1. ASSUME TypeOK, [Next]_vars PROVE Nearer
    <2>1. /\ \A c \in Conn : ConnRank(conn[c].pc) \in 0..12
          /\ PeerRank(peer.pc) \in 0..5
      BY <1>1, RankTypes DEF TypeOK, ConnState, PeerState
    <2>0. /\ \A c \in Conn : ConnRank(conn'[c].pc) \in 0..12
          /\ PeerRank(peer'.pc) \in 0..5
      <3>1. TypeOK'
        BY <1>1, TypeStep
      <3> QED
        BY <3>1, RankTypes DEF TypeOK, ConnState, PeerState
    <2>2. ASSUME NEW c \in Conn, conn[c].pc # "idle"
          PROVE  \/ conn'[c].pc = conn[c].pc /\ ~ ConnStep(c)
                 \/ ConnRank(conn'[c].pc) < ConnRank(conn[c].pc)
      <3>1. CASE ConnStep(c)
        BY <1>1, <3>1, ConnAdvances
      <3>2. CASE ~ ConnStep(c)
        <4>1. ASSUME NEW b \in Conn, ConnStep(b) PROVE conn'[c] = conn[c]
          BY <1>1, <3>2, <4>1, ConnAdvances
        <4>2. CASE Arrivals
          <5>1. CASE \E x \in Release : PeerArrives(x)
            BY <3>2, <5>1 DEF PeerArrives, othersOfPeer
          <5>2. ASSUME NEW b \in Conn, conn[b].pc = "idle",
                       \A a \in Conn \ {b} : conn'[a] = conn[a]
                PROVE  conn'[c] = conn[c]
            BY <2>2, <5>2
          <5>3. CASE \/ \E b \in Conn, q \in ClientRequest, d \in Device, t \in 1..MaxBudget :
                           ClaimArrives(b, q, d, t)
                     \/ \E b \in Conn, d \in Device : ReleaseArrives(b, d)
            BY <1>1, <3>2, <5>2, <5>3, Arrival
          <5> QED
            BY <3>2, <4>2, <5>1, <5>3 DEF Arrivals
        <4>3. CASE Tick
          <5>1. conn'[c] = [conn[c] EXCEPT !.ttl = Less(@)] /\ conn[c] \in ConnState
            BY <1>1, <4>3 DEF Tick, TypeOK
          <5> QED
            BY <3>2, <5>1 DEF ConnState
        <4>4. CASE \/ PeerStep \/ \E x \in Release : DeviceGone(x) \/ WatchExpires(x)
                   \/ Connect \/ UNCHANGED vars
          BY <3>2, <4>4 DEF PeerStep, PeerReplayed, PeerStale, PeerNew, PeerGuarded,
             PeerUnguarded, PeerLockRefused, PeerTryLock, PeerFails, PeerDisconnected,
             PeerConnected, PeerUnpaired, DeviceGone, WatchExpires, WatchEnds, Connect,
             othersOfPeer, vars
        <4> QED
          BY <1>1, <3>2, <4>1, <4>2, <4>3, <4>4 DEF Next
      <3> QED
        BY <3>1, <3>2
    <2>3. peer.pc # "idle" =>
            \/ peer'.pc = peer.pc /\ ~ PeerStep
            \/ PeerRank(peer'.pc) < PeerRank(peer.pc)
      <3>1. CASE PeerStep
        BY <1>1, <3>1, PeerAdvances
      <3>2. CASE Tick /\ ~ PeerStep
        BY <3>2 DEF Tick
      <3>3. CASE ~ PeerStep /\ ~ Tick
        BY <1>1, <3>3, CallbackFrame
      <3> QED
        BY <3>1, <3>2, <3>3
    <2>4. ASSUME NEW c \in Conn, conn[c].pc # "idle"
          PROVE  /\ ConnRank(conn'[c].pc) <= ConnRank(conn[c].pc)
                 /\ ConnStep(c) => ConnRank(conn'[c].pc) < ConnRank(conn[c].pc)
      <3>1. CASE conn'[c].pc = conn[c].pc /\ ~ ConnStep(c)
        BY <2>1, <3>1
      <3>2. CASE ConnRank(conn'[c].pc) < ConnRank(conn[c].pc)
        BY <2>0, <2>1, <3>2
      <3> QED
        BY <2>2, <2>4, <3>1, <3>2
    <2> QED
      BY <2>0, <2>1, <2>3, <2>4
  <1>2. TypeOK /\ [Next]_vars => [Nearer]_vars
    BY <1>1
  <1> QED
    BY <1>2, TypeInit, TypeStep, PTL DEF Spec, RequestsRunOut
=============================================================================

-------------------------- MODULE CoordinatorProofs --------------------------
(***************************************************************************)
(* Proofs about Coordinator, for all sets of nodes, devices, requests and  *)
(* handlers and all values of the time constants.                          *)
(***************************************************************************)
EXTENDS Coordinator, TLAPS

(***************************************************************************)
(* How the values that the steps write are typed.                          *)
(***************************************************************************)

(* The lock table after the sweep of prepareClaim is a lock table. *)
LEMMA DropExpiredType ==
    ASSUME TypeOK
    PROVE  /\ DropExpired \in [Device -> ClaimLock]
           /\ \A d \in Device : Locked(d) <=> ~ Expired(locks[d]) /\ locks[d].id # None
           /\ \A d \in Device : ~ Expired(locks[d]) => DropExpired[d] = locks[d]
  BY DEF TypeOK, DropExpired, Locked, Expired, NoLock, ClaimLock

(* A handler that ends its claim keeps the request and nothing else. *)
LEMMA FinishType ==
    ASSUME TypeOK, NEW h \in Handler, claim[h].pc # "idle",
           NEW status \in Status, Finish(h, status)
    PROVE  /\ claim' \in [Handler -> HandlerState]
           /\ claim'[h].pc = "done"
           /\ claim'[h].req = claim[h].req
           /\ \A g \in Handler \ {h} : claim'[g] = claim[g]
  BY DEF TypeOK, Finish, Idle, HandlerState, PC

(***************************************************************************)
(* Every variable keeps its type.                                          *)
(***************************************************************************)
LEMMA TypeInit == Init => TypeOK
  <1> SUFFICES ASSUME Init PROVE TypeOK
    OBVIOUS
  <1>1. MaxAge \in Nat /\ MaxAge \in 0..MaxAge
    BY TimeAssumption DEF MaxAge
  <1>2. nodes \in [Node -> NodeRecord]
    BY <1>1 DEF Init, Unknown, NodeRecord
  <1>3. locks \in [Device -> ClaimLock]
    BY DEF Init, NoLock, ClaimLock
  <1>4. claim \in [Handler -> HandlerState]
    BY DEF Init, Idle, HandlerState, PC, Status
  <1> QED
    BY <1>2, <1>3, <1>4 DEF Init, TypeOK, Idle

(* Every step keeps the types.                                             *)
LEMMA TypeStep == TypeOK /\ [Next]_vars => TypeOK'
  <1> SUFFICES ASSUME TypeOK, [Next]_vars PROVE TypeOK'
    OBVIOUS
  <1> USE DEF TypeOK
  <1>0. MaxAge \in Nat /\ MaxAge >= 1 /\ 0 \in 0..MaxAge
    BY TimeAssumption DEF MaxAge
  <1>1. ASSUME NEW n \in Node, NEW devices \in SUBSET Device, Register(n, devices)
        PROVE  TypeOK'
    BY <1>0, <1>1 DEF Register, NodeRecord
  <1>2. ASSUME NEW n \in Node, Heartbeat(n) PROVE TypeOK'
    BY <1>0, <1>2 DEF Heartbeat, NodeRecord
  <1>3. CASE ReapDeadNodes
    BY <1>3 DEF ReapDeadNodes, NodeRecord
  <1>4. ASSUME NEW h \in Handler, NEW r \in Request, NEW budget \in 0..MaxBudget,
               ReceiveClaim(h, r, budget)
        PROVE  TypeOK'
    <2>0. budget \in Nat
      BY TimeAssumption
    <2>1. claim' \in [Handler -> HandlerState]
      <3>1. CASE ~ ValidBudget(budget)
        BY <1>4, <3>1 DEF ReceiveClaim, Idle, HandlerState, PC, Status
      <3>2. CASE ValidBudget(budget)
        BY <1>4, <2>0, <3>2 DEF ReceiveClaim, Idle, HandlerState, PC, Status
      <3> QED
        BY <3>1, <3>2
    <2>2. \A g \in Handler \ {h} : claim'[g] = claim[g]
      BY <1>4 DEF ReceiveClaim
    <2>3. claim'[h].req = r /\ claim'[h].pc \in {"done", "received"}
      BY <1>4 DEF ReceiveClaim, Idle, HandlerState
    <2> QED
      BY <1>4, <2>1, <2>2, <2>3 DEF ReceiveClaim
  <1>5. ASSUME NEW h \in Handler, CheckBudget(h) PROVE TypeOK'
    <2>1. CASE claim[h].ttl < NewClaimMinimum
      BY <1>5, <2>1, FinishType DEF CheckBudget, Status
    <2>2. CASE ~ claim[h].ttl < NewClaimMinimum
      BY <1>5, <2>2 DEF CheckBudget, HandlerState, PC
    <2> QED
      BY <2>1, <2>2
  <1>6. ASSUME NEW h \in Handler, ClaimBusy(h) PROVE TypeOK'
    BY <1>6, FinishType, DropExpiredType DEF ClaimBusy, Status
  <1>7. ASSUME NEW h \in Handler, NoPeer(h) PROVE TypeOK'
    BY <1>7, FinishType, DropExpiredType DEF NoPeer, Status
  <1>8. ASSUME NEW h \in Handler, NEW p \in Node, AskPeer(h, p) PROVE TypeOK'
    <2> DEFINE r == claim[h].req
    <2>1. r \in Request /\ claim[h].ttl \in Nat /\ DeviceOf[r] \in Device
      BY <1>8, IdentityAssumption DEF AskPeer, HandlerState
    <2>2. locks' \in [Device -> ClaimLock]
      BY <1>8, <2>1, DropExpiredType DEF AskPeer, ClaimLock
    <2>3. claim' \in [Handler -> HandlerState]
      BY <1>8, <2>1, TimeAssumption DEF AskPeer, Idle, HandlerState, PC, Status
    <2>4. protect' \in [Request -> Nat]
      BY <1>8, <2>1 DEF AskPeer
    <2>5. claim'[h].req = r /\ claim'[h].peer = p
      BY <1>8 DEF AskPeer, Idle
    <2> QED
      BY <1>8, <2>1, <2>2, <2>3, <2>4, <2>5 DEF AskPeer
  <1>9. ASSUME NEW h \in Handler, PeerAnswer(h) PROVE TypeOK'
    <2>1. CASE ReleaseStarted(h)
      BY <2>1, FinishType DEF ReleaseStarted, Status
    <2>2. CASE ReleaseUnknown(h)
      BY <2>2, FinishType DEF ReleaseUnknown, Status
    <2>3. ASSUME NEW status \in {"peer_busy", "release_failed"},
                 ReleaseDeclined(h, status)
          PROVE  TypeOK'
      <3>1. claim' \in [Handler -> HandlerState]
        BY <2>3 DEF ReleaseDeclined, Idle, HandlerState, PC, Status
      <3> QED
        BY <2>3, <3>1 DEF ReleaseDeclined, Idle
    <2>4. CASE ReleaseError(h)
      BY <2>4 DEF ReleaseError, HandlerState, PC
    <2> QED
      BY <1>9, <2>1, <2>2, <2>3, <2>4 DEF PeerAnswer
  <1>10. ASSUME NEW h \in Handler, ReleaseTimeout(h) PROVE TypeOK'
    BY <1>10, <1>9 DEF ReleaseTimeout, PeerAnswer
  <1>11. ASSUME NEW h \in Handler, MarkDead(h) PROVE TypeOK'
    <2>1. claim[h].peer \in Node /\ claim[h].pc # "idle"
      BY <1>11 DEF MarkDead
    <2>2. nodes' \in [Node -> NodeRecord]
      BY <1>11, <2>1 DEF MarkDead, NodeRecord
    <2> QED
      BY <1>11, <2>1, <2>2, FinishType DEF MarkDead, Status
  <1>12. ASSUME NEW h \in Handler, ClearLock(h) PROVE TypeOK'
    <2>1. claim[h].pc # "idle" /\ claim[h].status \in Status
      BY <1>12 DEF ClearLock, HandlerState
    <2>2. locks' \in [Device -> ClaimLock]
      BY <1>12 DEF ClearLock, NoLock, ClaimLock
    <2> QED
      BY <1>12, <2>1, <2>2, FinishType DEF ClearLock
  <1>13. ASSUME NEW h \in Handler, Respond(h) PROVE TypeOK'
    BY <1>13 DEF Respond, Idle, HandlerState, PC, Status
  <1>14. CASE Tick
    <2>1. \A t \in Nat : Less(t) \in Nat
      BY DEF Less
    <2>2. nodes' \in [Node -> NodeRecord]
      <3>1. \A age \in 0..MaxAge : Older(age) \in 0..MaxAge
        BY <1>0 DEF Older
      <3> QED
        BY <1>14, <3>1 DEF Tick, NodeRecord
    <2>3. locks' \in [Device -> ClaimLock]
      BY <1>14, <2>1 DEF Tick, ClaimLock
    <2>4. claim' \in [Handler -> HandlerState]
      BY <1>14, <2>1 DEF Tick, HandlerState
    <2>5. protect' \in [Request -> Nat]
      BY <1>14, <2>1 DEF Tick
    <2>6. \A h \in Handler : /\ claim'[h].pc = claim[h].pc
                             /\ claim'[h].req = claim[h].req
                             /\ claim'[h].peer = claim[h].peer
      BY <1>14 DEF Tick, HandlerState
    <2> QED
      BY <1>14, <2>2, <2>3, <2>4, <2>5, <2>6 DEF Tick
  <1>15. CASE UNCHANGED vars
    BY <1>15 DEF vars
  <1> QED
    BY <1>1, <1>2, <1>3, <1>4, <1>5, <1>6, <1>7, <1>8, <1>9, <1>10, <1>11,
       <1>12, <1>13, <1>14, <1>15 DEF Next, NodeStep, HandlerStep

(***************************************************************************)
(* Every variable of the coordinator keeps its type: in particular no      *)
(* deadline runs below zero and a handler past validation has a request.   *)
(***************************************************************************)
THEOREM TypeCorrect == Spec => []TypeOK
  <1> QED
    BY TypeInit, TypeStep, PTL DEF Spec

-----------------------------------------------------------------------------
(***************************************************************************)
(* The inductive invariant of the claim locks.  That the lock table backs  *)
(* every protected request is not inductive by itself: ClearLock removes a *)
(* lock by the request's name, so it must be known that the request being  *)
(* refused is no longer protected, and that this stays so because no other *)
(* handler can take the same request up in the meantime.                   *)
(***************************************************************************)
InFlightUnique ==
    \A g, h \in Handler :
        claim[g].pc # "idle" /\ claim[h].pc # "idle" /\ claim[g].req = claim[h].req
            => g = h

DeclinedUnprotected ==
    \A h \in Handler : claim[h].pc = "declined" => protect[claim[h].req] = 0

LockInv == LockBacksProtection /\ InFlightUnique /\ DeclinedUnprotected

(* Requests in flight stay distinct in a step that takes up no new one. *)
LEMMA StaysUnique ==
    ASSUME InFlightUnique,
           \A h \in Handler : claim'[h].pc # "idle" =>
               claim[h].pc # "idle" /\ claim'[h].req = claim[h].req
    PROVE  InFlightUnique'
  BY DEF InFlightUnique

(* A step that leaves locks and protection alone and declines nothing. *)
LEMMA LocksUntouched ==
    ASSUME LockInv, UNCHANGED <<locks, protect>>,
           \A h \in Handler : claim'[h].pc # "idle" =>
               claim[h].pc # "idle" /\ claim'[h].req = claim[h].req,
           \A h \in Handler : claim'[h].pc = "declined" => claim[h].pc = "declined"
    PROVE  LockInv'
  <1>1. InFlightUnique'
    BY StaysUnique DEF LockInv
  <1>2. LockBacksProtection'
    BY DEF LockInv, LockBacksProtection
  <1>3. DeclinedUnprotected'
    BY DEF LockInv, DeclinedUnprotected
  <1> QED
    BY <1>1, <1>2, <1>3 DEF LockInv

(* At first nothing is locked.                                             *)
LEMMA LockInvInit == Init => LockInv
  BY DEF Init, Idle, LockInv, LockBacksProtection, InFlightUnique, DeclinedUnprotected

(* Every step keeps the invariant of the locks.                            *)
LEMMA LockInvStep == TypeOK /\ LockInv /\ [Next]_vars => LockInv'
  <1> SUFFICES ASSUME TypeOK, LockInv, [Next]_vars PROVE LockInv'
    OBVIOUS
  <1> USE DEF TypeOK
  <1>a. \A r \in Request : DeviceOf[r] \in Device
    BY IdentityAssumption
  <1>1. ASSUME NEW n \in Node, NodeStep(n) PROVE LockInv'
    BY <1>1, LocksUntouched DEF NodeStep, Register, Heartbeat
  <1>2. CASE ReapDeadNodes
    BY <1>2, LocksUntouched DEF ReapDeadNodes
  <1>3. ASSUME NEW h \in Handler, NEW r \in Request, NEW budget \in 0..MaxBudget,
               ReceiveClaim(h, r, budget)
        PROVE  LockInv'
    <2>1. /\ \A g \in Handler \ {h} : claim'[g] = claim[g]
          /\ claim'[h].req = r
          /\ claim'[h].pc # "declined"
      BY <1>3 DEF ReceiveClaim, Idle
    <2>2. \A g \in Handler : claim[g].pc # "idle" => claim[g].req # r
      BY <1>3 DEF ReceiveClaim, InFlight
    <2>3. InFlightUnique'
      BY <2>1, <2>2 DEF LockInv, InFlightUnique
    <2>4. UNCHANGED <<locks, protect>>
      BY <1>3 DEF ReceiveClaim
    <2> QED
      BY <2>1, <2>3, <2>4 DEF LockInv, LockBacksProtection, DeclinedUnprotected
  <1>4. ASSUME NEW h \in Handler, CheckBudget(h) PROVE LockInv'
    <2>1. claim[h].pc # "idle" /\ claim'[h].req = claim[h].req /\ claim'[h].pc # "declined"
      BY <1>4 DEF CheckBudget, Finish, Idle, HandlerState
    <2>2. \A g \in Handler \ {h} : claim'[g] = claim[g]
      BY <1>4 DEF CheckBudget, Finish
    <2>3. UNCHANGED <<locks, protect>>
      BY <1>4 DEF CheckBudget
    <2> QED
      BY <2>1, <2>2, <2>3, LocksUntouched
  <1>5. ASSUME NEW h \in Handler, ClaimBusy(h) \/ NoPeer(h) PROVE LockInv'
    <2>1. claim[h].pc # "idle" /\ claim'[h].req = claim[h].req /\ claim'[h].pc # "declined"
      BY <1>5 DEF ClaimBusy, NoPeer, Finish, Idle, HandlerState
    <2>2. \A g \in Handler \ {h} : claim'[g] = claim[g]
      BY <1>5 DEF ClaimBusy, NoPeer, Finish
    <2>3. protect' = protect /\ locks' = DropExpired
      BY <1>5 DEF ClaimBusy, NoPeer
    <2>4. InFlightUnique'
      BY <2>1, <2>2, StaysUnique DEF LockInv
    <2>5. DeclinedUnprotected'
      BY <2>1, <2>2, <2>3 DEF LockInv, DeclinedUnprotected
    <2>6. LockBacksProtection'
      BY <1>a, <2>3, DropExpiredType DEF LockInv, LockBacksProtection, Expired
    <2> QED
      BY <2>4, <2>5, <2>6 DEF LockInv
  <1>6. ASSUME NEW h \in Handler, NEW p \in Node, AskPeer(h, p) PROVE LockInv'
    <2> DEFINE r == claim[h].req
               d == DeviceOf[r]
    <2>1. r \in Request /\ d \in Device /\ claim[h].ttl \in Nat
      BY <1>6, <1>a DEF AskPeer, HandlerState
    <2>2. claim[h].pc # "idle" /\ claim'[h].req = claim[h].req /\ claim'[h].pc # "declined"
      BY <1>6 DEF AskPeer, Idle
    <2>3. \A g \in Handler \ {h} : claim'[g] = claim[g]
      BY <1>6 DEF AskPeer
    <2>4. InFlightUnique'
      BY <2>2, <2>3, StaysUnique DEF LockInv
    <2>5. DeclinedUnprotected'
      <3>1. \A g \in Handler \ {h} : claim[g].pc = "declined" => claim[g].req # r
        BY <2>2 DEF LockInv, InFlightUnique
      <3> QED
        BY <1>6, <2>1, <2>2, <2>3, <3>1 DEF AskPeer, LockInv, DeclinedUnprotected
    <2>6. LockBacksProtection'
      <3> SUFFICES ASSUME NEW s \in Request, protect'[s] > 0
                   PROVE  locks'[DeviceOf[s]] = [id |-> s, ttl |-> protect'[s]]
        BY DEF LockBacksProtection
      <3>1. CASE s = r
        BY <1>6, <2>1, <3>1, DropExpiredType DEF AskPeer
      <3>2. CASE s # r
        <4>1. protect'[s] = protect[s] /\ protect[s] > 0
          BY <1>6, <2>1, <3>2 DEF AskPeer
        <4>2. locks[DeviceOf[s]] = [id |-> s, ttl |-> protect[s]]
          BY <4>1 DEF LockInv, LockBacksProtection
        <4>3. DropExpired[DeviceOf[s]] = locks[DeviceOf[s]] /\ Locked(DeviceOf[s])
          BY <1>a, <4>1, <4>2, DropExpiredType, IdentityAssumption DEF Expired
        <4>4. DeviceOf[s] # d
          BY <1>6, <4>3 DEF AskPeer
        <4> QED
          BY <1>6, <1>a, <2>1, <4>1, <4>2, <4>3, <4>4, DropExpiredType DEF AskPeer
      <3> QED
        BY <3>1, <3>2
    <2> QED
      BY <2>4, <2>5, <2>6 DEF LockInv
  <1>7. ASSUME NEW h \in Handler, ReleaseStarted(h) \/ ReleaseUnknown(h) \/ MarkDead(h)
        PROVE  LockInv'
    <2>1. claim[h].pc # "idle" /\ claim'[h].req = claim[h].req /\ claim'[h].pc # "declined"
      BY <1>7 DEF ReleaseStarted, ReleaseUnknown, MarkDead, Finish, Idle
    <2>2. \A g \in Handler \ {h} : claim'[g] = claim[g]
      BY <1>7 DEF ReleaseStarted, ReleaseUnknown, MarkDead, Finish
    <2>3. UNCHANGED <<locks, protect>>
      BY <1>7 DEF ReleaseStarted, ReleaseUnknown, MarkDead
    <2> QED
      BY <2>1, <2>2, <2>3, LocksUntouched
  <1>8. ASSUME NEW h \in Handler, NEW status \in {"peer_busy", "release_failed"},
               ReleaseDeclined(h, status)
        PROVE  LockInv'
    <2>1. claim[h].pc # "idle" /\ claim'[h].req = claim[h].req
      BY <1>8 DEF ReleaseDeclined, Idle
    <2>2. \A g \in Handler \ {h} : claim'[g] = claim[g]
      BY <1>8 DEF ReleaseDeclined
    <2>3. /\ claim[h].req \in Request
          /\ protect'[claim[h].req] = 0
          /\ \A s \in Request : s # claim[h].req => protect'[s] = protect[s]
          /\ locks' = locks
      BY <1>8, <2>1 DEF ReleaseDeclined
    <2>4. InFlightUnique'
      BY <2>1, <2>2, StaysUnique DEF LockInv
    <2>5. LockBacksProtection'
      BY <2>3 DEF LockInv, LockBacksProtection
    <2>6. DeclinedUnprotected'
      BY <2>1, <2>2, <2>3 DEF LockInv, DeclinedUnprotected
    <2> QED
      BY <2>4, <2>5, <2>6 DEF LockInv
  <1>9. ASSUME NEW h \in Handler, ReleaseError(h) \/ ReleaseTimeout(h) PROVE LockInv'
    <2>1. claim[h].pc # "idle" /\ claim'[h].req = claim[h].req /\ claim'[h].pc # "declined"
      BY <1>9 DEF ReleaseTimeout, ReleaseError, HandlerState
    <2>2. \A g \in Handler \ {h} : claim'[g] = claim[g]
      BY <1>9 DEF ReleaseTimeout, ReleaseError
    <2>3. UNCHANGED <<locks, protect>>
      BY <1>9 DEF ReleaseTimeout, ReleaseError
    <2> QED
      BY <2>1, <2>2, <2>3, LocksUntouched
  <1>10. ASSUME NEW h \in Handler, ClearLock(h) PROVE LockInv'
    <2> DEFINE r == claim[h].req
               d == DeviceOf[r]
    <2>1. claim[h].pc # "idle" /\ claim'[h].req = r /\ claim'[h].pc = "done"
      BY <1>10 DEF ClearLock, Finish, Idle
    <2>2. \A g \in Handler \ {h} : claim'[g] = claim[g]
      BY <1>10 DEF ClearLock, Finish
    <2>3. r \in Request /\ d \in Device /\ protect[r] = 0 /\ protect' = protect
      BY <1>10, <1>a, <2>1 DEF ClearLock, LockInv, DeclinedUnprotected
    <2>4. InFlightUnique'
      BY <2>1, <2>2, StaysUnique DEF LockInv
    <2>5. DeclinedUnprotected'
      BY <2>1, <2>2, <2>3 DEF LockInv, DeclinedUnprotected
    <2>6. LockBacksProtection'
      <3> SUFFICES ASSUME NEW s \in Request, protect[s] > 0
                   PROVE  locks'[DeviceOf[s]] = [id |-> s, ttl |-> protect[s]]
        BY <2>3 DEF LockBacksProtection
      <3>1. locks[DeviceOf[s]] = [id |-> s, ttl |-> protect[s]] /\ s # r
        BY <2>3 DEF LockInv, LockBacksProtection
      <3>2. CASE locks[d].id = r
        <4>1. DeviceOf[s] # d
          BY <3>1, <3>2
        <4> QED
          BY <1>10, <1>a, <2>3, <3>1, <3>2, <4>1 DEF ClearLock
      <3>3. CASE locks[d].id # r
        BY <1>10, <3>1, <3>3 DEF ClearLock
      <3> QED
        BY <3>2, <3>3
    <2> QED
      BY <2>4, <2>5, <2>6 DEF LockInv
  <1>11. ASSUME NEW h \in Handler, Respond(h) PROVE LockInv'
    BY <1>11, LocksUntouched DEF Respond, Idle
  <1>12. CASE Tick
    <2>1. \A h \in Handler : claim'[h].pc = claim[h].pc /\ claim'[h].req = claim[h].req
      BY <1>12 DEF Tick, HandlerState
    <2>2. \A r \in Request : protect'[r] = Less(protect[r])
      BY <1>12 DEF Tick
    <2>3. InFlightUnique'
      BY <2>1, StaysUnique DEF LockInv
    <2>4. DeclinedUnprotected'
      BY <2>1, <2>2 DEF LockInv, DeclinedUnprotected, Less
    <2>5. LockBacksProtection'
      <3> SUFFICES ASSUME NEW s \in Request, protect'[s] > 0
                   PROVE  locks'[DeviceOf[s]] = [id |-> s, ttl |-> protect'[s]]
        BY DEF LockBacksProtection
      <3>1. protect[s] > 0
        BY <2>2 DEF Less
      <3>2. locks[DeviceOf[s]] = [id |-> s, ttl |-> protect[s]]
        BY <3>1 DEF LockInv, LockBacksProtection
      <3>3. locks'[DeviceOf[s]] = [locks[DeviceOf[s]] EXCEPT !.ttl = Less(@)]
        BY <1>12, <1>a DEF Tick
      <3>4. \A l \in ClaimLock : [l EXCEPT !.ttl = Less(@)] = [id |-> l.id, ttl |-> Less(l.ttl)]
        BY DEF ClaimLock
      <3>5. locks[DeviceOf[s]] \in ClaimLock
        BY <1>a
      <3>6. locks[DeviceOf[s]].id = s /\ locks[DeviceOf[s]].ttl = protect[s]
        BY <3>2
      <3> QED
        BY <2>2, <3>3, <3>4, <3>5, <3>6
    <2> QED
      BY <2>3, <2>4, <2>5 DEF LockInv
  <1>13. CASE UNCHANGED vars
    BY <1>13, LocksUntouched DEF vars
  <1> QED
    BY <1>1, <1>2, <1>3, <1>4, <1>5, <1>6, <1>7, <1>8, <1>9, <1>10, <1>11,
       <1>12, <1>13 DEF Next, HandlerStep, PeerAnswer

(***************************************************************************)
(* The lock of every request that may still be acted on is in the table,   *)
(* with the time that is left to the request, in every reachable state.    *)
(***************************************************************************)
THEOREM LocksBackProtection == Spec => []LockBacksProtection
  <1>1. LockInv => LockBacksProtection
    BY DEF LockInv
  <1> QED
    BY <1>1, TypeInit, TypeStep, LockInvInit, LockInvStep, PTL DEF Spec

(***************************************************************************)
(* At most one request per device may be acted on at any time, however     *)
(* many handlers run and however slowly.                                   *)
(***************************************************************************)
THEOREM ReleasesAreExclusive == Spec => []ReleaseExclusive
  <1>1. LockBacksProtection => ReleaseExclusive
    <2> SUFFICES ASSUME LockBacksProtection, NEW r \in Request, NEW s \in Request,
                        protect[r] > 0, protect[s] > 0, DeviceOf[r] = DeviceOf[s]
                 PROVE  r = s
      BY DEF ReleaseExclusive
    <2>1. locks[DeviceOf[r]] = [id |-> r, ttl |-> protect[r]]
      BY DEF LockBacksProtection
    <2>2. locks[DeviceOf[s]] = [id |-> s, ttl |-> protect[s]]
      BY DEF LockBacksProtection
    <2>3. [id |-> r, ttl |-> protect[r]] = [id |-> s, ttl |-> protect[s]]
      BY <2>1, <2>2, Zenon
    <2> QED
      BY <2>3
  <1> QED
    BY <1>1, LocksBackProtection, PTL
=============================================================================

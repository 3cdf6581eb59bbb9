------------------------------ MODULE LeaseProofs ------------------------------
(***************************************************************************)
(* Proofs about what Coordinator answers, that it comes to an answer, and  *)
(* that its locks and handlers implement ReleaseLease; for all sets and    *)
(* time constants.                                                         *)
(*                                                                         *)
(* A lock in the table whose time is not up is its device's, and its       *)
(* request may still be acted on or is being refused.                      *)
(***************************************************************************)
EXTENDS CoordinatorProofs, WellFoundedInduction

Declining(r) == \E g \in Handler : claim[g].pc = "declined" /\ claim[g].req = r

LockMeans ==
    \A d \in Device : ~ Expired(locks[d]) =>
        /\ locks[d].id \in Request
        /\ DeviceOf[locks[d].id] = d
        /\ protect[locks[d].id] > 0 \/ Declining(locks[d].id)

(* A claim that is not decided has no status yet.                          *)
Undecided ==
    \A h \in Handler : claim[h].pc \in {"received", "checked"} => claim[h].status = "none"

(* Why a node that has devices is not live.                                *)
DeadForCause ==
    /\ \A n \in Node : nodes[n].live \/ nodes[n].devices = {} \/ Silent(n) \/ n \in failed
    /\ \A h \in Handler : claim[h].pc = "failed" => claim[h].peer \in failed

LeaseInv == TypeOK /\ LockInv /\ LockMeans /\ Undecided /\ DeadForCause

-----------------------------------------------------------------------------
(* It holds at first.                                                      *)
LEMMA LeaseInvInit == Init => LeaseInv
  <1> SUFFICES ASSUME Init PROVE LeaseInv
    OBVIOUS
  <1>1. TypeOK /\ LockInv
    BY TypeInit, LockInvInit
  <1> QED
    BY <1>1 DEF Init, LeaseInv, LockMeans, Undecided, DeadForCause, Expired, NoLock,
       Idle, Unknown

(***************************************************************************)
(* Undecided and DeadForCause                                              *)
(***************************************************************************)

(* Where the ends of a claim leave the handler.                            *)
LEMMA EndMoves ==
    ASSUME TypeOK, NEW h \in Handler,
           ClaimBusy(h) \/ NoPeer(h) \/ MarkDead(h) \/ ClearLock(h) \/ Respond(h)
    PROVE  /\ claim[h].pc # "idle"
           /\ \A g \in Handler \ {h} : claim'[g] = claim[g]
           /\ claim'[h].pc \in {"done", "idle"}
  <1> USE DEF TypeOK, Idle
  <1>1. ASSUME NEW status, Finish(h, status)
        PROVE  claim'[h].pc = "done" /\ \A g \in Handler \ {h} : claim'[g] = claim[g]
    BY <1>1 DEF Finish
  <1>2. CASE ClaimBusy(h) \/ NoPeer(h)
    BY <1>1, <1>2 DEF ClaimBusy, NoPeer
  <1>3. CASE MarkDead(h)
    BY <1>1, <1>3 DEF MarkDead
  <1>4. CASE ClearLock(h)
    BY <1>1, <1>4 DEF ClearLock
  <1>5. CASE Respond(h)
    BY <1>5 DEF Respond
  <1> QED
    BY <1>2, <1>3, <1>4, <1>5

(* Where an answer of the peer, or its absence, leaves the handler.        *)
LEMMA AnswerMoves ==
    ASSUME TypeOK, NEW h \in Handler, PeerAnswer(h) \/ ReleaseTimeout(h)
    PROVE  /\ claim[h].pc = "asking" /\ claim'[h].req = claim[h].req
           /\ \A g \in Handler \ {h} : claim'[g] = claim[g]
           /\ claim'[h].pc \in {"done", "declined", "failed"}
           /\ claim'[h].pc = "failed" => ReleaseError(h)
           /\ locks' = locks
           /\ claim'[h].pc # "declined" => protect' = protect
           /\ claim'[h].pc = "declined" =>
                 protect' = [protect EXCEPT ![claim[h].req] = 0]
  <1> USE DEF TypeOK
  <1>1. CASE ReleaseStarted(h) \/ ReleaseUnknown(h)
    BY <1>1 DEF ReleaseStarted, ReleaseUnknown, Finish, Idle
  <1>2. CASE \E status \in {"peer_busy", "release_failed"} : ReleaseDeclined(h, status)
    BY <1>2 DEF ReleaseDeclined, Idle
  <1>3. CASE ReleaseError(h)
    BY <1>3 DEF ReleaseError, HandlerState
  <1> QED
    BY <1>1, <1>2, <1>3 DEF PeerAnswer, ReleaseTimeout

(* Every step keeps Undecided.                                             *)
LEMMA UndecidedStep == TypeOK /\ Undecided /\ [Next]_vars => Undecided'
  <1> SUFFICES ASSUME TypeOK, Undecided, [Next]_vars PROVE Undecided'
    OBVIOUS
  <1> USE DEF TypeOK, Undecided
  <1>1. ASSUME NEW n \in Node, NodeStep(n) PROVE Undecided'
    BY <1>1 DEF NodeStep, Register, Heartbeat
  <1>2. CASE ReapDeadNodes
    BY <1>2 DEF ReapDeadNodes
  <1>3. ASSUME NEW h \in Handler, NEW r \in Request, NEW budget \in 0..MaxBudget,
               ReceiveClaim(h, r, budget)
        PROVE  Undecided'
    BY <1>3 DEF ReceiveClaim, Idle
  <1>4. ASSUME NEW h \in Handler, CheckBudget(h) PROVE Undecided'
    <2>1. \A g \in Handler \ {h} : claim'[g] = claim[g]
      BY <1>4 DEF CheckBudget, Finish
    <2>2. claim'[h].pc = "done" \/ claim'[h].status = claim[h].status
      BY <1>4 DEF CheckBudget, Finish, Idle, HandlerState
    <2>3. claim[h].pc = "received"
      BY <1>4 DEF CheckBudget
    <2> QED
      BY <2>1, <2>2, <2>3
  <1>5. ASSUME NEW h \in Handler,
               ClaimBusy(h) \/ NoPeer(h) \/ MarkDead(h) \/ ClearLock(h) \/ Respond(h)
        PROVE  Undecided'
    BY <1>5, EndMoves
  <1>6. ASSUME NEW h \in Handler, NEW p \in Node, AskPeer(h, p) PROVE Undecided'
    BY <1>6 DEF AskPeer, Idle
  <1>7. ASSUME NEW h \in Handler, PeerAnswer(h) \/ ReleaseTimeout(h) PROVE Undecided'
    BY <1>7, AnswerMoves
  <1>8. CASE Tick
    BY <1>8 DEF Tick, HandlerState
  <1>9. CASE UNCHANGED vars
    BY <1>9 DEF vars
  <1> QED
    BY <1>1, <1>2, <1>3, <1>4, <1>5, <1>6, <1>7, <1>8, <1>9 DEF Next, HandlerStep

(* Every step keeps DeadForCause.                                          *)
LEMMA DeadForCauseStep == TypeOK /\ DeadForCause /\ [Next]_vars => DeadForCause'
  <1> SUFFICES ASSUME TypeOK, DeadForCause, [Next]_vars PROVE DeadForCause'
    OBVIOUS
  <1> USE DEF TypeOK, DeadForCause, Silent
  <1>1. ASSUME NEW n \in Node, NEW devices \in SUBSET Device, Register(n, devices)
        PROVE  DeadForCause'
    BY <1>1 DEF Register
  <1>2. ASSUME NEW n \in Node, Heartbeat(n) PROVE DeadForCause'
    BY <1>2 DEF Heartbeat, NodeRecord
  <1>3. CASE ReapDeadNodes
    BY <1>3 DEF ReapDeadNodes, NodeRecord
  <1>4. ASSUME NEW h \in Handler,
               \/ \E r \in Request, budget \in 0..MaxBudget : ReceiveClaim(h, r, budget)
               \/ CheckBudget(h) \/ ClaimBusy(h) \/ NoPeer(h) \/ ClearLock(h)
               \/ Respond(h) \/ \E p \in Node : AskPeer(h, p)
        PROVE  DeadForCause'
    <2>1. UNCHANGED <<nodes, failed>>
      BY <1>4 DEF ReceiveClaim, CheckBudget, ClaimBusy, NoPeer, ClearLock, Respond,
         AskPeer
    <2>2. \A g \in Handler \ {h} : claim'[g] = claim[g]
      BY <1>4 DEF ReceiveClaim, CheckBudget, ClaimBusy, NoPeer, ClearLock, Respond,
         AskPeer, Finish
    <2>3. claim'[h].pc # "failed"
      <3>1. CASE CheckBudget(h)
        BY <3>1 DEF CheckBudget, Finish, Idle, HandlerState
      <3>2. CASE \E r \in Request, budget \in 0..MaxBudget : ReceiveClaim(h, r, budget)
        BY <3>2 DEF ReceiveClaim, Idle
      <3>3. CASE ClaimBusy(h) \/ NoPeer(h) \/ ClearLock(h) \/ Respond(h)
        BY <3>3, EndMoves
      <3>4. CASE \E p \in Node : AskPeer(h, p)
        BY <3>4 DEF AskPeer, Idle
      <3> QED
        BY <1>4, <3>1, <3>2, <3>3, <3>4
    <2> QED
      BY <2>1, <2>2, <2>3
  <1>5. ASSUME NEW h \in Handler, PeerAnswer(h) \/ ReleaseTimeout(h) PROVE DeadForCause'
    <2>1. CASE ReleaseError(h)
      <3>1. /\ nodes' = nodes /\ failed' = failed \union {claim[h].peer}
            /\ claim'[h].peer = claim[h].peer
            /\ \A g \in Handler \ {h} : claim'[g] = claim[g]
        BY <2>1 DEF ReleaseError, HandlerState
      <3> QED
        BY <3>1
    <2>2. CASE ~ ReleaseError(h)
      <3>1. nodes' = nodes /\ failed' = failed
        BY <1>5, <2>2 DEF PeerAnswer, ReleaseTimeout, ReleaseStarted, ReleaseUnknown,
           ReleaseDeclined
      <3> QED
        BY <1>5, <2>2, <3>1, AnswerMoves
    <2> QED
      BY <2>1, <2>2
  <1>6. ASSUME NEW h \in Handler, MarkDead(h) PROVE DeadForCause'
    <2>1. \A n \in Node : /\ nodes'[n].devices = nodes[n].devices
                          /\ nodes'[n].age = nodes[n].age
                          /\ nodes'[n].live = nodes[n].live \/ n = claim[h].peer
      BY <1>6 DEF MarkDead, NodeRecord
    <2>2. claim[h].peer \in failed /\ failed' = failed
      BY <1>6 DEF MarkDead
    <2>3. \A g \in Handler : claim'[g].pc = "failed" => claim'[g] = claim[g]
      BY <1>6 DEF MarkDead, Finish, Idle
    <2> QED
      BY <2>1, <2>2, <2>3
  <1>7. CASE Tick
    <2>1. \A n \in Node : /\ nodes'[n].devices = nodes[n].devices
                          /\ nodes'[n].live = nodes[n].live
                          /\ nodes'[n].age = Older(nodes[n].age)
      BY <1>7 DEF Tick, NodeRecord
    <2>2. \A n \in Node : nodes[n].age \in Nat /\ Older(nodes[n].age) >= nodes[n].age
      BY TimeAssumption DEF NodeRecord, Older, MaxAge
    <2>3. \A h \in Handler : claim'[h].pc = claim[h].pc /\ claim'[h].peer = claim[h].peer
      BY <1>7 DEF Tick, HandlerState
    <2>4. failed' = failed /\ DeadPeerAfter \in Nat
      BY <1>7, TimeAssumption DEF Tick
    <2>5. \A n \in Node : Older(nodes[n].age) \in Nat
      BY TimeAssumption DEF NodeRecord, Older, MaxAge
    <2> QED
      BY <2>1, <2>2, <2>3, <2>4, <2>5
  <1>8. CASE UNCHANGED vars
    BY <1>8 DEF vars
  <1> QED
    BY <1>1, <1>2, <1>3, <1>4, <1>5, <1>6, <1>7, <1>8
    DEF Next, NodeStep, HandlerStep

(***************************************************************************)
(* LockMeans                                                               *)
(***************************************************************************)

(* A step that leaves the locks, what they protect and refusals alone.     *)
LEMMA MeaningKept ==
    ASSUME LockMeans, UNCHANGED <<locks, protect>>,
           \A g \in Handler : claim[g].pc = "declined" =>
               claim'[g].pc = "declined" /\ claim'[g].req = claim[g].req
    PROVE  LockMeans'
  BY DEF LockMeans, Declining, Expired

(* Every step keeps LockMeans.                                             *)
LEMMA LockMeansStep == TypeOK /\ LockInv /\ LockMeans /\ [Next]_vars => LockMeans'
  <1> SUFFICES ASSUME TypeOK, LockInv, LockMeans, [Next]_vars PROVE LockMeans'
    OBVIOUS
  <1> USE DEF TypeOK
  <1>a. \A r \in Request : DeviceOf[r] \in Device
    BY IdentityAssumption
  <1>1. ASSUME NEW n \in Node, NodeStep(n) PROVE LockMeans'
    BY <1>1, MeaningKept DEF NodeStep, Register, Heartbeat
  <1>2. CASE ReapDeadNodes
    BY <1>2, MeaningKept DEF ReapDeadNodes
  <1>3. ASSUME NEW h \in Handler, NEW r \in Request, NEW budget \in 0..MaxBudget,
               ReceiveClaim(h, r, budget)
        PROVE  LockMeans'
    BY <1>3, MeaningKept DEF ReceiveClaim
  <1>4. ASSUME NEW h \in Handler, CheckBudget(h) PROVE LockMeans'
    BY <1>4, MeaningKept DEF CheckBudget, Finish
  <1>5. ASSUME NEW h \in Handler, ClaimBusy(h) \/ NoPeer(h) PROVE LockMeans'
    <2>1. \A d \in Device : ~ Expired(locks'[d]) => locks'[d] = locks[d]
      BY <1>5 DEF ClaimBusy, NoPeer, DropExpired, Expired, NoLock
    <2>2. protect' = protect /\ claim[h].pc # "declined"
      BY <1>5 DEF ClaimBusy, NoPeer
    <2>3. \A g \in Handler \ {h} : claim'[g] = claim[g]
      BY <1>5, EndMoves
    <2> QED
      BY <2>1, <2>2, <2>3 DEF LockMeans, Declining, Expired
  <1>6. ASSUME NEW h \in Handler, NEW p \in Node, AskPeer(h, p) PROVE LockMeans'
    <2> DEFINE r == claim[h].req
               d == DeviceOf[r]
    <2>1. r \in Request /\ d \in Device /\ claim[h].ttl \in Nat
      BY <1>6, <1>a DEF AskPeer, HandlerState
    <2>2. /\ locks'[d] = [id |-> r, ttl |-> claim[h].ttl] /\ protect'[r] = claim[h].ttl
          /\ \A e \in Device \ {d} : ~ Expired(locks'[e]) => locks'[e] = locks[e]
          /\ \A q \in Request \ {r} : protect'[q] = protect[q]
      BY <1>6, <2>1, DropExpiredType DEF AskPeer, DropExpired, Expired, NoLock
    <2>3. \A g \in Handler : claim[g].pc = "declined" => claim'[g] = claim[g]
      BY <1>6 DEF AskPeer
    <2> QED
      BY <2>1, <2>2, <2>3 DEF LockMeans, Declining, Expired
  <1>7. ASSUME NEW h \in Handler, PeerAnswer(h) \/ ReleaseTimeout(h) PROVE LockMeans'
    <2>1. CASE claim'[h].pc # "declined"
      BY <1>7, <2>1, AnswerMoves, MeaningKept
    <2>2. CASE claim'[h].pc = "declined"
      <3>1. \A q \in Request : q = claim[h].req \/ protect'[q] = protect[q]
        BY <1>7, <2>2, AnswerMoves
      <3> QED
        BY <1>7, <2>2, <3>1, AnswerMoves DEF LockMeans, Declining, Expired
    <2> QED
      BY <2>1, <2>2
  <1>8. ASSUME NEW h \in Handler, MarkDead(h) \/ Respond(h) PROVE LockMeans'
    <2>1. UNCHANGED <<locks, protect>> /\ claim[h].pc # "declined"
      BY <1>8 DEF MarkDead, Respond
    <2> QED
      BY <1>8, <2>1, EndMoves, MeaningKept
  <1>9. ASSUME NEW h \in Handler, ClearLock(h) PROVE LockMeans'
    <2> DEFINE r == claim[h].req
    <2>1. protect' = protect /\ claim[h].pc = "declined"
          /\ \A g \in Handler \ {h} : claim'[g] = claim[g]
      BY <1>9, EndMoves DEF ClearLock
    <2>2. r \in Request /\ protect[r] = 0
      BY <2>1 DEF LockInv, DeclinedUnprotected
    <2>3. \A d \in Device : ~ Expired(locks'[d]) => locks'[d] = locks[d]
      BY <1>9 DEF ClearLock, Expired, NoLock
    <2>4. \A d \in Device : ~ Expired(locks'[d]) => locks[d].id # r
      <3>1. locks'[DeviceOf[r]].ttl = 0 \/ locks'[DeviceOf[r]].id # r
        BY <1>9, <1>a, <2>2 DEF ClearLock, NoLock
      <3> QED
        BY <2>3, <3>1 DEF LockMeans, Expired
    <2> QED
      BY <2>1, <2>3, <2>4 DEF LockMeans, Declining
  <1>10. CASE Tick
    <2>1. \A d \in Device : locks'[d].id = locks[d].id /\ locks'[d].ttl = Less(locks[d].ttl)
      BY <1>10 DEF Tick, ClaimLock
    <2>2. \A h \in Handler : claim'[h].pc = claim[h].pc /\ claim'[h].req = claim[h].req
      BY <1>10 DEF Tick, HandlerState
    <2>3. \A r \in Request : protect'[r] = Less(protect[r])
      BY <1>10 DEF Tick
    <2>4. ASSUME NEW r \in Request, protect[r] > 0
          PROVE  locks[DeviceOf[r]].ttl = protect[r]
      <3>1. locks[DeviceOf[r]] = [id |-> r, ttl |-> protect[r]]
        BY <2>4 DEF LockInv, LockBacksProtection
      <3> QED
        BY <3>1
    <2>5. \A r \in Request : Declining(r) <=>
             \E g \in Handler : claim'[g].pc = "declined" /\ claim'[g].req = r
      BY <2>2 DEF Declining
    <2>6. \A d \in Device : locks[d].ttl \in Nat
      BY DEF ClaimLock
    <2>7. \A d \in Device : ~ Expired(locks'[d]) =>
             ~ Expired(locks[d]) /\ Less(locks[d].ttl) > 0
      BY <2>1, <2>6 DEF Expired, Less
    <2>8. ASSUME NEW d \in Device, ~ Expired(locks'[d])
          PROVE  /\ locks[d].id \in Request /\ DeviceOf[locks[d].id] = d
                 /\ \/ protect'[locks[d].id] > 0
                    \/ \E g \in Handler : /\ claim'[g].pc = "declined"
                                          /\ claim'[g].req = locks[d].id
      <3> DEFINE r == locks[d].id
      <3>1. r \in Request /\ DeviceOf[r] = d /\ (protect[r] > 0 \/ Declining(r))
        BY <2>7, <2>8 DEF LockMeans
      <3>2. Less(locks[d].ttl) > 0
        BY <2>7, <2>8
      <3>3. CASE protect[r] > 0
        <4>1. protect'[r] = Less(protect[r]) /\ locks[d].ttl = protect[r]
          BY <2>3, <2>4, <3>1, <3>3
        <4> QED
          BY <3>1, <3>2, <4>1
      <3>4. CASE Declining(r)
        BY <2>5, <3>1, <3>4
      <3> QED
        BY <3>1, <3>3, <3>4
    <2> QED
      BY <2>1, <2>8 DEF LockMeans, Expired, Declining
  <1>11. CASE UNCHANGED vars
    BY <1>11, MeaningKept DEF vars
  <1> QED
    BY <1>1, <1>2, <1>3, <1>4, <1>5, <1>6, <1>7, <1>8, <1>9, <1>10, <1>11
    DEF Next, HandlerStep

(* Every reachable state has all of LeaseInv.                              *)
LEMMA LeaseReachable == Spec => []LeaseInv
  <1>1. LeaseInv /\ [Next]_vars => LeaseInv'
    BY TypeStep, LockInvStep, LockMeansStep, UndecidedStep, DeadForCauseStep DEF LeaseInv
  <1> QED
    BY <1>1, LeaseInvInit, PTL DEF Spec

-----------------------------------------------------------------------------
(* An answer of prepareClaim is its own exit.                              *)
LEMMA AnswerIsOwn ==
    ASSUME TypeOK, Undecided, [Next]_vars,
           NEW h \in Handler, claim[h].pc = "checked"
    PROVE  /\ claim'[h].status = "claim_busy" => ClaimBusy(h)
           /\ claim'[h].status = "no_peer" => NoPeer(h)
  <1> USE DEF TypeOK
  <1>0. claim[h].status = "none"
    BY DEF Undecided
  <1>1. ASSUME claim'[h] = claim[h] PROVE claim'[h].status = "none"
    BY <1>0, <1>1
  <1>2. ASSUME NEW n \in Node, NodeStep(n) PROVE claim' = claim
    BY <1>2 DEF NodeStep, Register, Heartbeat
  <1>3. CASE ReapDeadNodes
    BY <1>0, <1>3 DEF ReapDeadNodes
  <1>4. ASSUME NEW g \in Handler, NEW r \in Request, NEW budget \in 0..MaxBudget,
               ReceiveClaim(g, r, budget)
        PROVE  claim'[h] = claim[h]
    BY <1>4 DEF ReceiveClaim
  <1>5. ASSUME NEW g \in Handler, CheckBudget(g) PROVE claim'[h] = claim[h]
    BY <1>5 DEF CheckBudget, Finish
  <1>6. ASSUME NEW g \in Handler,
               MarkDead(g) \/ ClearLock(g) \/ Respond(g)
        PROVE  claim'[h] = claim[h]
    <2>1. g # h
      BY <1>6 DEF MarkDead, ClearLock, Respond
    <2> QED
      BY <1>6, <2>1, EndMoves
  <1>7. ASSUME NEW g \in Handler, PeerAnswer(g) \/ ReleaseTimeout(g)
        PROVE  claim'[h] = claim[h]
    BY <1>7, AnswerMoves
  <1>8. ASSUME NEW g \in Handler, NEW p \in Node, AskPeer(g, p)
        PROVE  claim'[h].status = "none"
    BY <1>0, <1>8 DEF AskPeer, Idle
  <1>9. ASSUME NEW g \in Handler, ClaimBusy(g) \/ NoPeer(g), g # h
        PROVE  claim'[h] = claim[h]
    BY <1>9, EndMoves
  <1>10. CASE Tick
    <2>1. claim'[h].status = claim[h].status
      BY <1>10 DEF Tick, HandlerState
    <2> QED
      BY <1>0, <2>1
  <1>11. CASE UNCHANGED vars
    BY <1>0, <1>11 DEF vars
  <1>12. ClaimBusy(h) => claim'[h].status = "claim_busy"
    BY DEF ClaimBusy, Finish, Idle
  <1>13. NoPeer(h) => claim'[h].status = "no_peer"
    BY DEF NoPeer, Finish, Idle
  <1> QED
    BY <1>0, <1>1, <1>2, <1>3, <1>4, <1>5, <1>6, <1>7, <1>8, <1>9, <1>10, <1>11,
       <1>12, <1>13 DEF Next, HandlerStep

(***************************************************************************)
(* BusyJustified: prepareClaim answers claim_busy only while a request for *)
(* the device may still be acted on or its refusal is being recorded.      *)
(***************************************************************************)
THEOREM BusyIsJustified == Spec => BusyJustified
  <1>1. ASSUME LeaseInv, [Next]_vars, NEW h \in Handler, Refused(h)
        PROVE  \E r \in Request :
                 /\ DeviceOf[r] = DeviceOf[claim[h].req]
                 /\ protect[r] > 0 \/ Declining(r)
    <2> DEFINE d == DeviceOf[claim[h].req]
    <2>1. ClaimBusy(h) /\ claim[h].req \in Request
      BY <1>1, AnswerIsOwn DEF Refused, LeaseInv, TypeOK
    <2>2. d \in Device /\ ~ Expired(locks[d])
      BY <1>1, <2>1, IdentityAssumption, DropExpiredType DEF ClaimBusy, LeaseInv
    <2> QED
      BY <1>1, <2>2 DEF LeaseInv, LockMeans
  <1> DEFINE Justified ==
        \A h \in Handler : Refused(h) =>
          \E r \in Request :
            /\ DeviceOf[r] = DeviceOf[claim[h].req]
            /\ \/ protect[r] > 0
               \/ \E g \in Handler : claim[g].pc = "declined" /\ claim[g].req = r
  <1>2. LeaseInv /\ [Next]_vars => [Justified]_vars
    BY <1>1 DEF Declining
  <1> QED
    BY <1>2, LeaseReachable, PTL DEF Spec, BusyJustified

(***************************************************************************)
(* NoPeerOnlyForCause: choosePeerLocked passes over a node that registered *)
(* the device only if that has been silent too long or has failed an ask.  *)
(***************************************************************************)
THEOREM NoPeerHasCause == Spec => NoPeerOnlyForCause
  <1>1. ASSUME LeaseInv, [Next]_vars, NEW h \in Handler,
               claim[h].pc = "checked", claim'[h].status = "no_peer",
               NEW n \in Node \ {RequesterOf[claim[h].req]},
               DeviceOf[claim[h].req] \in nodes[n].devices
        PROVE  nodes[n].age > DeadPeerAfter \/ n \in failed
    <2>1. ~ CanRelease(n, claim[h].req)
      BY <1>1, AnswerIsOwn DEF NoPeer, LeaseInv
    <2> QED
      BY <1>1, <2>1 DEF CanRelease, Silent, LeaseInv, DeadForCause
  <1> DEFINE ForCause ==
        \A h \in Handler :
          claim[h].pc = "checked" /\ claim'[h].status = "no_peer" =>
            \A n \in Node \ {RequesterOf[claim[h].req]} :
              DeviceOf[claim[h].req] \in nodes[n].devices =>
                nodes[n].age > DeadPeerAfter \/ n \in failed
  <1>2. LeaseInv /\ [Next]_vars => [ForCause]_vars
    BY <1>1
  <1> QED
    BY <1>2, LeaseReachable, PTL DEF Spec, NoPeerOnlyForCause

-----------------------------------------------------------------------------
(***************************************************************************)
(* The refinement of ReleaseLease                                          *)
(***************************************************************************)

(* The lease of a device, as Coordinator's refinement mapping has it.      *)
Held == [d \in Device |->
           IF Expired(locks[d])
             THEN [holder |-> None, ttl |-> 0, open |-> FALSE]
             ELSE [holder |-> locks[d].id, ttl |-> locks[d].ttl,
                   open |-> Deciding(locks[d].id)]]

(* Deciding, in the next state.                                            *)
StillDeciding(r) ==
    \E h \in Handler : claim'[h].req = r /\ claim'[h].pc \in {"asking", "declined"}

(* What the leases are in a state.                                         *)
LEMMA HeldNow ==
    /\ \A d \in Device : Expired(locks[d]) => Held[d] = Lease!Free
    /\ \A d \in Device : ~ Expired(locks[d]) =>
         Held[d] = [holder |-> locks[d].id, ttl |-> locks[d].ttl,
                    open |-> Deciding(locks[d].id)]
    /\ Held = [d \in Device |-> Held[d]]
  BY DEF Held, Lease!Free

(* What the leases are after a step.                                       *)
LEMMA HeldNext ==
    /\ \A d \in Device : Expired(locks'[d]) => Held'[d] = Lease!Free
    /\ \A d \in Device : ~ Expired(locks'[d]) =>
         Held'[d] = [holder |-> locks'[d].id, ttl |-> locks'[d].ttl,
                     open |-> StillDeciding(locks'[d].id)]
    /\ Held' = [d \in Device |-> Held'[d]]
  BY DEF Held, Lease!Free, Expired, Deciding, StillDeciding

(* The lease of a device whose lock, if it counts, is as before and whose  *)
(* request is decided or not as before.                                    *)
LEMMA HeldKept ==
    ASSUME NEW d \in Device,
           \/ Expired(locks[d]) /\ Expired(locks'[d])
           \/ /\ ~ Expired(locks[d]) /\ locks'[d] = locks[d]
              /\ StillDeciding(locks[d].id) <=> Deciding(locks[d].id)
    PROVE  Held'[d] = Held[d]
  <1>1. CASE Expired(locks[d]) /\ Expired(locks'[d])
    BY <1>1, HeldNow, HeldNext
  <1>2. CASE /\ ~ Expired(locks[d]) /\ locks'[d] = locks[d]
             /\ StillDeciding(locks[d].id) <=> Deciding(locks[d].id)
    <2>1. ~ Expired(locks'[d])
      BY <1>2
    <2>2. StillDeciding(locks[d].id) = Deciding(locks[d].id)
      BY <1>2 DEF StillDeciding, Deciding
    <2>3. Held[d] = [holder |-> locks[d].id, ttl |-> locks[d].ttl,
                     open |-> Deciding(locks[d].id)]
      BY <1>2, HeldNow
    <2>4. Held'[d] = [holder |-> locks[d].id, ttl |-> locks[d].ttl,
                      open |-> StillDeciding(locks[d].id)]
      BY <1>2, <2>1, HeldNext
    <2> QED
      BY <2>2, <2>3, <2>4
  <1> QED
    BY <1>1, <1>2

(* A step of one handler changes only what its own request is.             *)
LEMMA DecidingKept ==
    ASSUME NEW h \in Handler, \A g \in Handler \ {h} : claim'[g] = claim[g], NEW r,
           \/ claim[h].req # r /\ claim'[h].req # r
           \/ /\ claim[h].pc \notin {"asking", "declined"}
              /\ claim'[h].pc \notin {"asking", "declined"}
           \/ /\ claim[h].pc \in {"asking", "declined"} /\ claim'[h].req = claim[h].req
              /\ claim'[h].pc \in {"asking", "declined"}
    PROVE  StillDeciding(r) <=> Deciding(r)
  BY DEF StillDeciding, Deciding

(* Two functions on the devices that agree are the same.                   *)
LEMMA HeldSame ==
    ASSUME \A d \in Device : Held'[d] = Held[d]
    PROVE  Held' = Held
  <1>1. Held' = [d \in Device |-> Held'[d]] /\ Held = [d \in Device |-> Held[d]]
    BY HeldNow, HeldNext
  <1> QED
    BY <1>1

(* A step of a handler that neither starts nor ends the decision of its    *)
(* request, and at most forgets locks whose time is up.                    *)
LEMMA HeldQuiet ==
    ASSUME NEW h \in Handler, \A g \in Handler \ {h} : claim'[g] = claim[g],
           \/ /\ claim[h].pc \notin {"asking", "declined"}
              /\ claim'[h].pc \notin {"asking", "declined"}
           \/ /\ claim[h].pc \in {"asking", "declined"} /\ claim'[h].req = claim[h].req
              /\ claim'[h].pc \in {"asking", "declined"},
           \A d \in Device : \/ Expired(locks[d]) /\ Expired(locks'[d])
                             \/ ~ Expired(locks[d]) /\ locks'[d] = locks[d]
    PROVE  Held' = Held
  <1>1. ASSUME NEW d \in Device PROVE Held'[d] = Held[d]
    <2>1. StillDeciding(locks[d].id) <=> Deciding(locks[d].id)
      BY DecidingKept
    <2> QED
      BY <2>1, HeldKept
  <1> QED
    BY <1>1, HeldSame

(* AskPeer grants a free lease, or none when no time is left.              *)
LEMMA AskGrants ==
    ASSUME LeaseInv, NEW h \in Handler, NEW p \in Node, AskPeer(h, p)
    PROVE  Held' = Held \/ \E d \in Device, r \in Request :
             /\ Held[d] = Lease!Free
             /\ Held'[d].ttl \in Nat \ {0}
             /\ Held' = [Held EXCEPT ![d] = [holder |-> r, ttl |-> Held'[d].ttl,
                                            open |-> TRUE]]
  <1> USE DEF LeaseInv, TypeOK
  <1> DEFINE r == claim[h].req
             d == DeviceOf[r]
  <1>1. r \in Request /\ d \in Device /\ claim[h].ttl \in Nat
    BY IdentityAssumption DEF AskPeer, HandlerState
  <1>2. Expired(locks[d])
    <2>1. ~ (~ Expired(locks[d]) /\ locks[d].id # None)
      BY <1>1, DropExpiredType DEF AskPeer
    <2> QED
      BY <1>1, <2>1, IdentityAssumption DEF LockMeans
  <1>3. locks'[d] = [id |-> r, ttl |-> claim[h].ttl]
    BY <1>1, DropExpiredType DEF AskPeer
  <1>4. \A e \in Device \ {d} : Held'[e] = Held[e]
    <2> TAKE e \in Device \ {d}
    <2>1. CASE Expired(locks[e])
      <3>1. Expired(locks'[e])
        BY <1>1, <2>1 DEF AskPeer, DropExpired, Expired, NoLock
      <3> QED
        BY <2>1, <3>1, HeldKept
    <2>2. CASE ~ Expired(locks[e])
      <3>1. locks'[e] = locks[e]
        BY <1>1, <2>2, DropExpiredType DEF AskPeer
      <3>2. locks[e].id # r
        BY <1>1, <2>2 DEF LockMeans
      <3>3. claim'[h].req = r /\ \A g \in Handler \ {h} : claim'[g] = claim[g]
        BY DEF AskPeer, Idle
      <3>4. StillDeciding(locks[e].id) <=> Deciding(locks[e].id)
        BY <3>2, <3>3, DecidingKept
      <3> QED
        BY <2>2, <3>1, <3>4, HeldKept
    <2> QED
      BY <2>1, <2>2
  <1>5. CASE claim[h].ttl = 0
    <2>1. Expired(locks'[d])
      BY <1>3, <1>5 DEF Expired
    <2>2. Held'[d] = Held[d]
      BY <1>1, <1>2, <2>1, HeldKept
    <2> QED
      BY <1>4, <2>2, HeldSame
  <1>6. CASE claim[h].ttl # 0
    <2>1. ~ Expired(locks'[d]) /\ locks'[d].id = r /\ locks'[d].ttl = claim[h].ttl
      BY <1>3, <1>6 DEF Expired
    <2>2. StillDeciding(r) /\ StillDeciding(r) = TRUE
      BY <1>1 DEF AskPeer, Idle, StillDeciding
    <2>3. Held'[d] = [holder |-> r, ttl |-> claim[h].ttl, open |-> TRUE]
      BY <1>1, <2>1, <2>2, HeldNext
    <2>4. Held[d] = Lease!Free
      BY <1>1, <1>2, HeldNow
    <2>5. Held' = [Held EXCEPT ![d] = [holder |-> r, ttl |-> Held'[d].ttl, open |-> TRUE]]
      BY <1>1, <1>4, <2>3, HeldNow, HeldNext
    <2> QED
      BY <1>1, <1>6, <2>3, <2>4, <2>5
  <1> QED
    BY <1>5, <1>6

(* A handler that stops deciding its request: the lease that the request   *)
(* has becomes, if its lock is kept, settled, and free if it is removed.   *)
LEMMA DecisionEnds ==
    ASSUME LeaseInv, NEW h \in Handler, claim[h].pc \in {"asking", "declined"},
           \A g \in Handler \ {h} : claim'[g] = claim[g],
           claim'[h].pc \notin {"asking", "declined"},
           locks' = locks \/ ClearLock(h)
    PROVE  Held' = Held \/ \E d \in Device :
             /\ Held[d].open
             /\ \/ Held' = [Held EXCEPT ![d] = Lease!Free]
                \/ Held' = [Held EXCEPT ![d].open = FALSE]
  <1> USE DEF LeaseInv, TypeOK
  <1> DEFINE r == claim[h].req
             d == DeviceOf[r]
  <1>1. r \in Request /\ d \in Device
    BY IdentityAssumption
  <1>2. \A e \in Device : locks'[e] = locks[e] \/ (locks[e].id = r /\ locks'[e] = NoLock)
    BY <1>1 DEF ClearLock
  <1>3. ASSUME NEW e \in Device, Expired(locks[e]) \/ locks[e].id # r
        PROVE  Held'[e] = Held[e]
    <2>1. CASE Expired(locks[e])
      <3>1. Expired(locks'[e])
        BY <1>2, <2>1 DEF Expired, NoLock
      <3> QED
        BY <2>1, <3>1, HeldKept
    <2>2. CASE ~ Expired(locks[e]) /\ locks[e].id # r
      <3>1. StillDeciding(locks[e].id) <=> Deciding(locks[e].id)
        BY <2>2 DEF StillDeciding, Deciding
      <3> QED
        BY <1>2, <2>2, <3>1, HeldKept
    <2> QED
      BY <1>3, <2>1, <2>2
  <1>4. ASSUME NEW e \in Device, ~ Expired(locks[e]), locks[e].id = r PROVE e = d
    BY <1>4 DEF LockMeans
  <1>5. CASE Expired(locks[d]) \/ locks[d].id # r
    <2>1. \A e \in Device : Held'[e] = Held[e]
      BY <1>3, <1>4, <1>5
    <2> QED
      BY <2>1, HeldSame
  <1>6. CASE ~ Expired(locks[d]) /\ locks[d].id = r
    <2>1. \A e \in Device \ {d} : Held'[e] = Held[e]
      BY <1>3, <1>4
    <2>2. Deciding(r) /\ Deciding(r) = TRUE
      BY DEF Deciding
    <2>3. Held[d] = [holder |-> r, ttl |-> locks[d].ttl, open |-> TRUE]
      BY <1>1, <1>6, <2>2, HeldNow
    <2>4. ~ StillDeciding(r) /\ StillDeciding(r) = FALSE
      BY DEF StillDeciding, LockInv, InFlightUnique
    <2>5. Held[d].open = TRUE
      BY <2>3
    <2>6. CASE locks'[d] = locks[d]
      <3>1. Held'[d] = [holder |-> locks'[d].id, ttl |-> locks'[d].ttl,
                        open |-> StillDeciding(locks'[d].id)]
        BY <1>1, <1>6, <2>6, HeldNext
      <3>2. Held'[d] = [holder |-> r, ttl |-> locks[d].ttl, open |-> FALSE]
        BY <1>6, <2>4, <2>6, <3>1
      <3>3. PICK closed : closed = FALSE
        OBVIOUS
      <3> HIDE DEF d, r
      <3>4. Held'[d] = [holder |-> r, ttl |-> locks[d].ttl, open |-> closed]
        BY <3>2, <3>3, Zenon
      <3>5. Held' = [Held EXCEPT ![d].open = closed]
        BY <1>1, <2>1, <2>3, <3>4, HeldNow, HeldNext
      <3>6. Held' = [Held EXCEPT ![d].open = FALSE]
        BY <3>3, <3>5, Zenon
      <3> QED
        BY <1>1, <2>5, <3>6, Zenon
    <2>7. CASE locks'[d] = NoLock
      <3>1. Held'[d] = Lease!Free
        BY <1>1, <2>7, HeldNext DEF Expired, NoLock
      <3> HIDE DEF d
      <3>2. Held' = [Held EXCEPT ![d] = Lease!Free]
        BY <1>1, <2>1, <3>1, HeldNow, HeldNext
      <3> QED
        BY <1>1, <2>5, <3>2, Zenon
    <2> QED
      BY <1>1, <1>2, <2>6, <2>7
  <1> QED
    BY <1>5, <1>6

(* Time passes for the leases as it does for the locks.                    *)
LEMMA TickElapses ==
    ASSUME LeaseInv, Tick
    PROVE  Held' = [d \in Device |-> Lease!Aged(Held[d])]
  <1> USE DEF LeaseInv, TypeOK
  <1>1. ASSUME NEW d \in Device PROVE Held'[d] = Lease!Aged(Held[d])
    <2>1. /\ locks'[d].id = locks[d].id /\ locks'[d].ttl = Less(locks[d].ttl)
          /\ locks[d].ttl \in Nat
      BY DEF Tick, ClaimLock
    <2>2. \A h \in Handler : claim'[h].pc = claim[h].pc /\ claim'[h].req = claim[h].req
      BY DEF Tick, HandlerState
    <2>3. StillDeciding(locks[d].id) = Deciding(locks[d].id)
      BY <2>2 DEF StillDeciding, Deciding
    <2>4. CASE locks[d].ttl = 0
      <3>1. Expired(locks[d]) /\ Expired(locks'[d])
        BY <2>1, <2>4 DEF Expired, Less
      <3> QED
        BY <3>1, HeldNow, HeldNext DEF Lease!Aged, Lease!Free
    <2>5. CASE locks[d].ttl = 1
      <3>1. ~ Expired(locks[d]) /\ Expired(locks'[d])
        BY <2>1, <2>5 DEF Expired, Less
      <3>2. Held[d].ttl = 1
        BY <2>5, <3>1, HeldNow
      <3> QED
        BY <3>1, <3>2, HeldNext DEF Lease!Aged
    <2>6. CASE locks[d].ttl > 1
      <3>1. ~ Expired(locks[d]) /\ ~ Expired(locks'[d])
            /\ locks'[d].ttl = locks[d].ttl - 1
        BY <2>1, <2>6 DEF Expired, Less
      <3>2. Held[d] = [holder |-> locks[d].id, ttl |-> locks[d].ttl,
                       open |-> Deciding(locks[d].id)]
        BY <3>1, HeldNow
      <3>3. Held'[d] = [holder |-> locks'[d].id, ttl |-> locks'[d].ttl,
                        open |-> StillDeciding(locks'[d].id)]
        BY <3>1, HeldNext
      <3>4. Held'[d] = [holder |-> locks[d].id, ttl |-> locks[d].ttl - 1,
                        open |-> Deciding(locks[d].id)]
        BY <2>1, <2>3, <3>1, <3>3
      <3> QED
        BY <2>6, <3>2, <3>4 DEF Lease!Aged
    <2> QED
      BY <2>1, <2>4, <2>5, <2>6
  <1> QED
    BY <1>1, HeldNext

(* A step in the terms of ReleaseLease.                                    *)
HeldNextStep ==
    \/ \E d \in Device, r \in Request :
          /\ Held[d] = Lease!Free
          /\ Held' = [Held EXCEPT ![d] = [holder |-> r, ttl |-> Held'[d].ttl, open |-> TRUE]]
          /\ Held'[d].ttl \in Nat \ {0}
    \/ \E d \in Device : \/ Held[d].open /\ Held' = [Held EXCEPT ![d] = Lease!Free]
                         \/ Held[d].open /\ Held' = [Held EXCEPT ![d].open = FALSE]
    \/ Held' = [d \in Device |-> Lease!Aged(Held[d])]

(* Every step is one of the leases, or none.                               *)
LEMMA StepImplements == LeaseInv /\ [Next]_vars => HeldNextStep \/ Held' = Held
  <1> SUFFICES ASSUME LeaseInv, [Next]_vars PROVE HeldNextStep \/ Held' = Held
    OBVIOUS
  <1> USE DEF LeaseInv, TypeOK
  <1>1. ASSUME UNCHANGED <<locks, claim>> PROVE Held' = Held
    BY <1>1 DEF Held, Expired, Deciding
  <1>2. ASSUME NEW h \in Handler, UNCHANGED locks,
               claim[h].pc \notin {"asking", "declined"},
               claim'[h].pc \notin {"asking", "declined"},
               \A g \in Handler \ {h} : claim'[g] = claim[g]
        PROVE  Held' = Held
    BY <1>2, HeldQuiet
  <1>3. ASSUME NEW n \in Node, NodeStep(n) PROVE Held' = Held
    BY <1>1, <1>3 DEF NodeStep, Register, Heartbeat
  <1>4. CASE ReapDeadNodes
    BY <1>1, <1>4 DEF ReapDeadNodes
  <1>5. ASSUME NEW h \in Handler, NEW r \in Request, NEW budget \in 0..MaxBudget,
               ReceiveClaim(h, r, budget)
        PROVE  Held' = Held
    <2>1. claim[h].pc = "idle" /\ claim'[h].pc \in {"received", "done"}
      BY <1>5 DEF ReceiveClaim, Idle
    <2> QED
      BY <1>2, <1>5, <2>1 DEF ReceiveClaim
  <1>6. ASSUME NEW h \in Handler, CheckBudget(h) PROVE Held' = Held
    <2>1. claim[h].pc = "received" /\ claim'[h].pc \in {"checked", "done"}
      <3>1. CASE claim[h].ttl < NewClaimMinimum
        BY <1>6, <3>1 DEF CheckBudget, Finish, Idle
      <3>2. CASE ~ (claim[h].ttl < NewClaimMinimum)
        BY <1>6, <3>2 DEF CheckBudget, HandlerState
      <3> QED
        BY <3>1, <3>2
    <2>2. locks' = locks /\ \A g \in Handler \ {h} : claim'[g] = claim[g]
      BY <1>6 DEF CheckBudget, Finish
    <2> QED
      BY <1>2, <2>1, <2>2
  <1>7. ASSUME NEW h \in Handler, ClaimBusy(h) \/ NoPeer(h) PROVE Held' = Held
    <2>1. \A d \in Device : \/ Expired(locks[d]) /\ Expired(locks'[d])
                            \/ ~ Expired(locks[d]) /\ locks'[d] = locks[d]
      BY <1>7 DEF ClaimBusy, NoPeer, DropExpired, Expired, NoLock
    <2>2. claim[h].pc = "checked"
      BY <1>7 DEF ClaimBusy, NoPeer
    <2> QED
      BY <1>7, <2>1, <2>2, EndMoves, HeldQuiet
  <1>8. ASSUME NEW h \in Handler, NEW p \in Node, AskPeer(h, p)
        PROVE  HeldNextStep \/ Held' = Held
    BY <1>8, AskGrants DEF HeldNextStep
  <1>9. ASSUME NEW h \in Handler, PeerAnswer(h) \/ ReleaseTimeout(h)
        PROVE  HeldNextStep \/ Held' = Held
    <2>1. CASE claim'[h].pc = "declined"
      <3>1. \A d \in Device : \/ Expired(locks[d]) /\ Expired(locks'[d])
                              \/ ~ Expired(locks[d]) /\ locks'[d] = locks[d]
        BY <1>9, AnswerMoves
      <3> QED
        BY <1>9, <2>1, <3>1, AnswerMoves, HeldQuiet
    <2>2. CASE claim'[h].pc # "declined"
      BY <1>9, <2>2, AnswerMoves, DecisionEnds DEF HeldNextStep
    <2> QED
      BY <2>1, <2>2
  <1>10. ASSUME NEW h \in Handler, MarkDead(h) \/ Respond(h) PROVE Held' = Held
    <2>1. locks' = locks /\ claim[h].pc \in {"failed", "done"}
      BY <1>10 DEF MarkDead, Respond
    <2> QED
      BY <1>2, <1>10, <2>1, EndMoves
  <1>11. ASSUME NEW h \in Handler, ClearLock(h) PROVE HeldNextStep \/ Held' = Held
    <2>1. claim[h].pc = "declined"
      BY <1>11 DEF ClearLock
    <2> QED
      BY <1>11, <2>1, EndMoves, DecisionEnds DEF HeldNextStep
  <1>12. CASE Tick
    BY <1>12, TickElapses DEF HeldNextStep
  <1>13. CASE UNCHANGED vars
    BY <1>1, <1>13 DEF vars
  <1> QED
    BY <1>3, <1>4, <1>5, <1>6, <1>7, <1>8, <1>9, <1>10, <1>11, <1>12, <1>13
    DEF Next, HandlerStep

(***************************************************************************)
(* The locks and handlers implement ReleaseLease: everything HandleClaim   *)
(* does to the lock table in its separate locked sections is a step of the *)
(* leases or no step, for all times, devices and requests.                 *)
(***************************************************************************)
THEOREM LocksImplementLease == Spec => ImplementsLease
  <1>1. Init => Lease!Init
    BY DEF Init, Lease!Init, Lease!Free, Expired, NoLock
  <1>2. HeldNextStep => Lease!Next
    BY DEF HeldNextStep, Held, Lease!Next, Lease!Grant, Lease!GiveUp, Lease!Settle,
       Lease!Elapse
  <1>3. LeaseInv /\ [Next]_vars => [Lease!Next]_Held
    BY <1>2, StepImplements
  <1> QED
    BY <1>1, <1>3, LeaseReachable, PTL DEF Spec, ImplementsLease, Lease!Spec, Held

(* A settled lock, one whose ask is answered or was given up, ends only    *)
(* when its time is up: no answer, no later claim and no second request of *)
(* the same claim takes it away, hands it on or changes its time.          *)
SettledLocksRunOut ==
    [][\A d \in Device :
          ~ Expired(locks[d]) /\ ~ Deciding(locks[d].id) =>
             /\ locks'[d].ttl \in {locks[d].ttl, locks[d].ttl - 1}
             /\ Expired(locks'[d]) \/ locks'[d].id = locks[d].id]_vars

(* The time for which a peer may still release the device is kept in full, *)
(* for all times and devices: it follows from the leases, which end early  *)
(* only while they are open.                                               *)
THEOREM SettledLocksAreKept == Spec => SettledLocksRunOut
  <1> DEFINE Settled(d) == ~ Expired(locks[d]) /\ ~ Deciding(locks[d].id)
             RunsOut == \A d \in Device : Settled(d) =>
                           /\ locks'[d].ttl \in {locks[d].ttl, locks[d].ttl - 1}
                           /\ Expired(locks'[d]) \/ locks'[d].id = locks[d].id
  <1>1. LeaseInv /\ [Next]_vars => RunsOut
    <2> SUFFICES ASSUME LeaseInv, [Next]_vars, NEW d \in Device, Settled(d)
                 PROVE  /\ locks'[d].ttl \in {locks[d].ttl, locks[d].ttl - 1}
                        /\ Expired(locks'[d]) \/ locks'[d].id = locks[d].id
      OBVIOUS
    <2>1. locks[d].ttl \in Nat \ {0} /\ locks'[d].ttl \in Nat
      BY TypeStep DEF LeaseInv, TypeOK, Expired, ClaimLock
    <2>2. Held[d] = [holder |-> locks[d].id, ttl |-> locks[d].ttl, open |-> FALSE]
      <3>1. Deciding(locks[d].id) = FALSE
        BY DEF Deciding
      <3> QED
        BY <3>1, HeldNow
    <2>3. Held[d].ttl = locks[d].ttl /\ Held[d].holder = locks[d].id /\ ~ Held[d].open
      BY <2>2
    <2>4. Held'[d] = Held[d] \/ Held'[d] = Lease!Aged(Held[d])
      <3> HIDE DEF Held
      <3>1. Held = [e \in Device |-> Held[e]]
        BY HeldNow
      <3>2. Held[d] # Lease!Free
        BY <2>1, <2>3 DEF Lease!Free
      <3>3. ASSUME NEW e \in Device \ {d}, NEW l, Held' = [Held EXCEPT ![e] = l]
            PROVE  Held'[d] = Held[d]
        BY <3>1, <3>3
      <3>4. ASSUME NEW e \in Device, Held[e].open, Held' = [Held EXCEPT ![e].open = FALSE]
            PROVE  Held'[d] = Held[d]
        BY <2>3, <3>1, <3>4
      <3>5. CASE HeldNextStep
        BY <2>3, <3>1, <3>2, <3>3, <3>4, <3>5 DEF HeldNextStep
      <3> QED
        BY <3>5, StepImplements
    <2>5. CASE Expired(locks'[d])
      <3>1. Held'[d].ttl = 0 /\ locks'[d].ttl = 0
        BY <2>5, HeldNext DEF Lease!Free, Expired
      <3>2. Held[d].ttl = 1
        <4>1. Held[d].ttl > 1 => Lease!Aged(Held[d]).ttl = Held[d].ttl - 1
          BY <2>2 DEF Lease!Aged
        <4> QED
          BY <2>1, <2>3, <2>4, <3>1, <4>1
      <3> QED
        BY <2>3, <2>5, <3>1, <3>2
    <2>6. CASE ~ Expired(locks'[d])
      <3>1. Held'[d].ttl = locks'[d].ttl /\ Held'[d].holder = locks'[d].id
        BY <2>6, HeldNext
      <3>2. Held'[d].ttl # 0
        BY <2>6, <3>1 DEF Expired
      <3>3. /\ Held'[d].ttl \in {Held[d].ttl, Held[d].ttl - 1}
            /\ Held'[d].holder = Held[d].holder
        BY <2>1, <2>2, <2>4, <3>2 DEF Lease!Aged, Lease!Free
      <3> QED
        BY <2>3, <3>1, <3>3
    <2> QED
      BY <2>5, <2>6
  <1>2. LeaseInv /\ [Next]_vars => [RunsOut]_vars
    BY <1>1
  <1> QED
    BY <1>2, LeaseReachable, PTL DEF Spec, SettledLocksRunOut

-----------------------------------------------------------------------------
(***************************************************************************)
(* A handler always has a way on, and only so many of them                 *)
(***************************************************************************)

(* Of some numbers one is the least.                                       *)
LEMMA Least ==
    ASSUME NEW T \in SUBSET Nat, T # {}
    PROVE  \E x \in T : \A y \in T : x <= y
  <1>1. PICK x \in T : \A y \in T : ~ (<<y, x>> \in OpToRel(<, Nat))
    BY WFMin, NatLessThanWellFounded
  <1>2. \A y \in T : ~ (y < x)
    BY <1>1 DEF OpToRel
  <1> QED
    BY <1>2

(* choosePeerLocked comes to one answer: if some node can release the      *)
(* device, exactly one of them was heard of last and is first by name.     *)
LEMMA OnePeer ==
    ASSUME TypeOK, NEW r, NEW n \in Node, CanRelease(n, r)
    PROVE  \E p \in Node : IsPeer(p, r) /\ \A q \in Node : IsPeer(q, r) => q = p
  <1> DEFINE able == {m \in Node : CanRelease(m, r)}
             ages == {nodes[m].age : m \in able}
  <1>0. Node \subseteq Nat /\ \A m \in Node : nodes[m].age \in Nat
    BY IdentityAssumption, TimeAssumption DEF TypeOK, NodeRecord, MaxAge
  <1>1. PICK age \in ages : \A a \in ages : age <= a
    <2>1. ages \in SUBSET Nat /\ ages # {}
      BY <1>0
    <2> HIDE DEF ages
    <2> QED
      BY <2>1, Least
  <1> DEFINE last == {m \in able : nodes[m].age = age}
  <1>2. PICK p \in last : \A m \in last : p <= m
    <2>1. last \in SUBSET Nat /\ last # {}
      BY <1>0
    <2> HIDE DEF last
    <2> QED
      BY <2>1, Least
  <1>3. p \in Node /\ CanRelease(p, r) /\ nodes[p].age = age
    OBVIOUS
  <1>4. ASSUME NEW m \in Node, CanRelease(m, r) PROVE Before(p, m)
    <2>1. age <= nodes[m].age /\ age \in Nat /\ nodes[m].age \in Nat
      BY <1>0, <1>1, <1>3, <1>4
    <2>2. nodes[m].age = age => p <= m
      BY <1>2, <1>4
    <2> HIDE DEF last, ages, able
    <2> QED
      BY <1>3, <2>1, <2>2 DEF Before
  <1> HIDE DEF last, ages, able
  <1>5. IsPeer(p, r)
    BY <1>3, <1>4 DEF IsPeer
  <1>6. ASSUME NEW q \in Node, IsPeer(q, r) PROVE q = p
    <2>1. Before(p, q) /\ Before(q, p)
      BY <1>3, <1>4, <1>6 DEF IsPeer
    <2>2. /\ nodes[p].age \in Nat /\ nodes[q].age \in Nat /\ p \in Nat /\ q \in Nat
      BY <1>0, <1>3
    <2> QED
      BY <2>1, <2>2 DEF Before
  <1> QED
    BY <1>3, <1>5, <1>6

(* prepareClaim takes exactly one of its exits: a claim that is looked at  *)
(* finds a lock, or nobody to ask, or the one peer to ask.                 *)
OneExit ==
    \A h \in Handler : claim[h].pc = "checked" =>
        LET r == claim[h].req
            nobody == \A n \in Node : ~ CanRelease(n, r) IN
        \/ Locked(DeviceOf[r])
        \/ ~ Locked(DeviceOf[r]) /\ nobody
        \/ /\ ~ Locked(DeviceOf[r]) /\ ~ nobody
           /\ \E p \in Node : IsPeer(p, r) /\ \A q \in Node : IsPeer(q, r) => q = p

(* Whatever the registry and the locks hold, the choice of a peer neither  *)
(* fails nor depends on the order in which the nodes are looked at.        *)
THEOREM ClaimsHaveOneExit == Spec => []OneExit
  <1>1. TypeOK => OneExit
    BY OnePeer DEF OneExit
  <1> QED
    BY <1>1, TypeCorrect, PTL

(* What there is left to do for a claim.                                   *)
ClaimRank(pc) ==
    CASE pc = "idle" -> 0      [] pc = "done" -> 1    [] pc = "failed" -> 2
      [] pc = "declined" -> 2  [] pc = "asking" -> 3  [] pc = "checked" -> 4
      [] pc = "received" -> 5

(* The ranks, one by one.                                                  *)
LEMMA ClaimRanks ==
    /\ ClaimRank("idle") = 0 /\ ClaimRank("done") = 1 /\ ClaimRank("failed") = 2
    /\ ClaimRank("declined") = 2 /\ ClaimRank("asking") = 3
    /\ ClaimRank("checked") = 4 /\ ClaimRank("received") = 5
  BY DEF ClaimRank

(* A claim only comes closer to its answer, with each step of its handler  *)
(* and each answer of the peer; and while it waits for the peer, whatever  *)
(* happens elsewhere, only the clock changes the time that it waits.       *)
ClaimsRunOut ==
    [][\A h \in Handler : claim[h].pc # "idle" =>
          \/ /\ claim'[h].pc = claim[h].pc /\ ~ HandlerStep(h) /\ ~ PeerAnswer(h)
             /\ claim'[h].wait = IF Tick THEN Less(claim[h].wait) ELSE claim[h].wait
          \/ ClaimRank(claim'[h].pc) < ClaimRank(claim[h].pc)]_vars

(* Each step of a handler, and each answer to it.                          *)
LEMMA HandlerAdvances ==
    ASSUME TypeOK, NEW h \in Handler, HandlerStep(h) \/ PeerAnswer(h)
    PROVE  /\ ClaimRank(claim'[h].pc) < ClaimRank(claim[h].pc)
           /\ \A g \in Handler \ {h} : claim'[g] = claim[g]
  <1> USE DEF TypeOK
  <1>1. CASE CheckBudget(h)
    <2>1. claim[h].pc = "received" /\ claim'[h].pc \in {"checked", "done"}
      <3>1. CASE claim[h].ttl < NewClaimMinimum
        BY <1>1, <3>1 DEF CheckBudget, Finish, Idle
      <3>2. CASE ~ (claim[h].ttl < NewClaimMinimum)
        BY <1>1, <3>2 DEF CheckBudget, HandlerState
      <3> QED
        BY <3>1, <3>2
    <2>2. \A g \in Handler \ {h} : claim'[g] = claim[g]
      BY <1>1 DEF CheckBudget, Finish
    <2> QED
      BY <2>1, <2>2, ClaimRanks
  <1>2. CASE ClaimBusy(h) \/ NoPeer(h) \/ MarkDead(h) \/ ClearLock(h)
    <2>1. claim[h].pc \in {"checked", "failed", "declined"}
      BY <1>2 DEF ClaimBusy, NoPeer, MarkDead, ClearLock
    <2>2. \E status : Finish(h, status)
      BY <1>2 DEF ClaimBusy, NoPeer, MarkDead, ClearLock
    <2>3. claim'[h].pc = "done"
      BY <2>2 DEF Finish, Idle
    <2> QED
      BY <1>2, <2>1, <2>3, EndMoves, ClaimRanks
  <1>3. CASE Respond(h)
    <2>1. claim[h].pc = "done" /\ claim'[h].pc = "idle"
      BY <1>3 DEF Respond, Idle
    <2> QED
      BY <1>3, <2>1, EndMoves, ClaimRanks
  <1>4. ASSUME NEW p \in Node, AskPeer(h, p)
        PROVE  /\ ClaimRank(claim'[h].pc) < ClaimRank(claim[h].pc)
               /\ \A g \in Handler \ {h} : claim'[g] = claim[g]
    <2>1. claim[h].pc = "checked" /\ claim'[h].pc = "asking"
      BY <1>4 DEF AskPeer, Idle
    <2>2. \A g \in Handler \ {h} : claim'[g] = claim[g]
      BY <1>4 DEF AskPeer
    <2> QED
      BY <2>1, <2>2, ClaimRanks
  <1>5. CASE PeerAnswer(h) \/ ReleaseTimeout(h)
    BY <1>5, AnswerMoves, ClaimRanks
  <1> QED
    BY <1>1, <1>2, <1>3, <1>4, <1>5 DEF HandlerStep

(* No handler goes on for ever: with ClaimsHaveOneExit, that every claim is*)
(* answered needs only that its handler is scheduled and the clock runs.   *)
THEOREM HandlersRunOut == Spec => ClaimsRunOut
  <1> DEFINE Nearer(h) ==
        \/ /\ claim'[h].pc = claim[h].pc /\ ~ HandlerStep(h) /\ ~ PeerAnswer(h)
           /\ claim'[h].wait = IF Tick THEN Less(claim[h].wait) ELSE claim[h].wait
        \/ ClaimRank(claim'[h].pc) < ClaimRank(claim[h].pc)
  <1>1. ASSUME TypeOK, [Next]_vars, NEW h \in Handler, claim[h].pc # "idle"
        PROVE  Nearer(h)
    <2>1. CASE HandlerStep(h) \/ PeerAnswer(h)
      BY <1>1, <2>1, HandlerAdvances
    <2>2. CASE Tick /\ ~ HandlerStep(h) /\ ~ PeerAnswer(h)
      <3>1. /\ claim'[h] = [claim[h] EXCEPT !.ttl = Less(@), !.wait = Less(@)]
            /\ claim[h] \in HandlerState
        BY <1>1, <2>2 DEF Tick, TypeOK
      <3>2. claim'[h].pc = claim[h].pc /\ claim'[h].wait = Less(claim[h].wait)
        BY <3>1 DEF HandlerState
      <3> QED
        BY <2>2, <3>2
    <2>3. CASE ~ Tick /\ ~ HandlerStep(h) /\ ~ PeerAnswer(h)
      <3>1. claim'[h] = claim[h]
        <4>1. ASSUME NEW g \in Handler, HandlerStep(g) \/ PeerAnswer(g)
              PROVE  claim'[h] = claim[h]
          BY <1>1, <2>3, <4>1, HandlerAdvances
        <4>2. ASSUME NEW g \in Handler, NEW r \in Request, NEW budget \in 0..MaxBudget,
                     ReceiveClaim(g, r, budget)
              PROVE  claim'[h] = claim[h]
          BY <1>1, <4>2 DEF ReceiveClaim, TypeOK
        <4>3. ASSUME NEW n \in Node, NodeStep(n) PROVE claim'[h] = claim[h]
          BY <4>3 DEF NodeStep, Register, Heartbeat
        <4>4. CASE ReapDeadNodes \/ UNCHANGED vars
          BY <4>4 DEF ReapDeadNodes, vars
        <4> QED
          BY <1>1, <2>3, <4>1, <4>2, <4>3, <4>4 DEF Next
      <3> QED
        BY <2>3, <3>1
    <2> QED
      BY <2>1, <2>2, <2>3
  <1>2. TypeOK /\ [Next]_vars =>
          [\A h \in Handler : claim[h].pc # "idle" => Nearer(h)]_vars
    BY <1>1
  <1> QED
    BY <1>2, TypeInit, TypeStep, PTL DEF Spec, ClaimsRunOut
=============================================================================

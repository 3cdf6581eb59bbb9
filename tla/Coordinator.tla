----------------------------- MODULE Coordinator -----------------------------
(***************************************************************************)
(* The coordinator's core: the registry of nodes, the per-device claim     *)
(* locks, and HandleClaim, which asks the peer that has a device to        *)
(* release it before it lets the requester proceed.                        *)
(*                                                                         *)
(* The mutex of Core protects single operations, not HandleClaim as a      *)
(* whole, so a claim is a handler that moves from one locked section to    *)
(* the next while registrations, heartbeats and other claims go on.        *)
(*                                                                         *)
(* Time is relative.  Deadlines are kept as the time left and heartbeats   *)
(* as their age, in units of the clock; Tick lets one unit pass, at any    *)
(* point, also between two steps of a handler.                             *)
(***************************************************************************)
EXTENDS Integers, FiniteSets

CONSTANTS
    Node,               \* the Macs; numbers stand for the order of their names
    Device,             \* the peripherals
    Request,            \* the request ids of claims
    RequesterOf,        \* the node that makes a request
    DeviceOf,           \* the device a request is about
    Handler,            \* the calls of HandleClaim that may be in progress
    None,               \* no node, no request
    DeadPeerAfter,      \* age at which the last heartbeat no longer counts
    NewClaimMinimum,    \* least budget a claim is accepted with
    ReleaseStartWait,   \* how long the peer may take to answer
    MaxBudget           \* bound on the budget a claim is sent with

ASSUME IdentityAssumption ==
    /\ Node \subseteq Nat
    /\ None \notin Node \union Request
    /\ RequesterOf \in [Request -> Node]
    /\ DeviceOf \in [Request -> Device]

ASSUME TimeAssumption ==
    /\ DeadPeerAfter \in Nat
    /\ NewClaimMinimum \in Nat \ {0}
    /\ ReleaseStartWait \in Nat
    /\ MaxBudget \in Nat

VARIABLES
    nodes,      \* Core.nodes: the record of every node
    locks,      \* Core.locks: the claim lock of every device
    claim,      \* what every handler is doing
    protect,    \* history: how long a release may still be acted on, by request
    failed      \* history: the nodes an ask of which has failed

vars == <<nodes, locks, claim, protect, failed>>

-----------------------------------------------------------------------------
(* Types *)

MaxAge == DeadPeerAfter + 1       \* older is as dead as this

NodeRecord == [registered : BOOLEAN, live : BOOLEAN,
               age : 0..MaxAge, devices : SUBSET Device]

Unknown == [registered |-> FALSE, live |-> FALSE, age |-> MaxAge, devices |-> {}]

ClaimLock == [id : Request \union {None}, ttl : Nat]

NoLock == [id |-> None, ttl |-> 0]

PC == {"idle", "received", "checked", "asking", "failed", "declined", "done"}

Status == {"none", "proceed", "no_peer", "invalid_request", "claim_timeout",
           "claim_busy", "peer_busy", "release_failed", "release_unconfirmed"}

HandlerState == [pc : PC, req : Request \union {None}, peer : Node \union {None},
                 ttl : Nat, wait : Nat, status : Status]

Idle == [pc |-> "idle", req |-> None, peer |-> None,
         ttl |-> 0, wait |-> 0, status |-> "none"]

TypeOK ==
    /\ nodes \in [Node -> NodeRecord]
    /\ locks \in [Device -> ClaimLock]
    /\ claim \in [Handler -> HandlerState]
    /\ \A h \in Handler : claim[h].pc # "idle" => claim[h].req \in Request
    /\ \A h \in Handler :
           claim[h].pc \in {"asking", "failed"} => claim[h].peer \in Node
    /\ protect \in [Request -> Nat]
    /\ failed \subseteq Node

Init ==
    /\ nodes = [n \in Node |-> Unknown]
    /\ locks = [d \in Device |-> NoLock]
    /\ claim = [h \in Handler |-> Idle]
    /\ protect = [r \in Request |-> 0]
    /\ failed = {}

-----------------------------------------------------------------------------
(* The registry *)

(***************************************************************************)
(* A node registers, for the first time or again, with the devices it has  *)
(* configured.  This is the only step that makes a dead node live.         *)
(***************************************************************************)
Register(n, devices) ==
    /\ nodes' = [nodes EXCEPT ![n] = [registered |-> TRUE, live |-> TRUE,
                                      age |-> 0, devices |-> devices]]
    /\ UNCHANGED <<locks, claim, protect, failed>>

(***************************************************************************)
(* A heartbeat counts only from a node that is registered and live; any    *)
(* other is dropped and changes nothing.                                   *)
(***************************************************************************)
Heartbeat(n) ==
    /\ nodes[n].registered
    /\ nodes[n].live
    /\ nodes' = [nodes EXCEPT ![n].age = 0]
    /\ UNCHANGED <<locks, claim, protect, failed>>

Silent_AtLimit(n) == nodes[n].age >= DeadPeerAfter    \* variant: off by one

Silent(n) == nodes[n].age > DeadPeerAfter

ReapDeadNodes ==
    /\ nodes' = [n \in Node |->
                   [nodes[n] EXCEPT !.live = @ /\ ~ Silent(n)]]
    /\ UNCHANGED <<locks, claim, protect, failed>>

-----------------------------------------------------------------------------
(* HandleClaim *)

InFlight(r) == \E h \in Handler : claim[h].pc # "idle" /\ claim[h].req = r

Finish(h, status) ==
    claim' = [claim EXCEPT ![h] =
                [Idle EXCEPT !.pc = "done", !.req = claim[h].req, !.status = status]]

ValidBudget(budget) == budget > 0

(***************************************************************************)
(* A handler takes up a claim, validates it and fixes its deadline.  A     *)
(* request may arrive again, since the client retries one whose answer it  *)
(* did not get, but not while a handler is still busy with it: the claim   *)
(* subscription runs its callbacks one after another.                      *)
(***************************************************************************)
ReceiveClaim(h, r, budget) ==
    /\ claim[h].pc = "idle"
    /\ ~ InFlight(r)
    /\ claim' = [claim EXCEPT ![h] =
                   IF ValidBudget(budget)
                     THEN [Idle EXCEPT !.pc = "received", !.req = r, !.ttl = budget]
                     ELSE [Idle EXCEPT !.pc = "done", !.req = r,
                                       !.status = "invalid_request"]]
    /\ UNCHANGED <<nodes, locks, protect, failed>>

CheckBudget(h) ==
    /\ claim[h].pc = "received"
    /\ IF claim[h].ttl < NewClaimMinimum
         THEN Finish(h, "claim_timeout")
         ELSE claim' = [claim EXCEPT ![h].pc = "checked"]
    /\ UNCHANGED <<nodes, locks, protect, failed>>

(***************************************************************************)
(* prepareClaim is one locked section: it forgets every lock whose         *)
(* deadline has come, of any device, and then takes one of three exits.    *)
(***************************************************************************)
Expired_Early(lock) == lock.ttl <= 1                  \* variant: off by one

Expired(lock) == lock.ttl = 0

DropExpired_Never == locks                            \* variant: no sweep

DropExpired == [d \in Device |-> IF Expired(locks[d]) THEN NoLock ELSE locks[d]]

Locked(d) == DropExpired[d].id # None

(***************************************************************************)
(* choosePeerLocked: of the other live nodes that have the device and were *)
(* heard of in time, the one heard of last, and by name among equals.      *)
(***************************************************************************)
CanRelease(n, r) ==
    /\ nodes[n].live
    /\ n # RequesterOf[r]
    /\ ~ Silent(n)
    /\ DeviceOf[r] \in nodes[n].devices

Before(n, m) ==
    \/ nodes[n].age < nodes[m].age
    \/ nodes[n].age = nodes[m].age /\ n <= m

IsPeer(n, r) ==
    /\ CanRelease(n, r)
    /\ \A m \in Node : CanRelease(m, r) => Before(n, m)

(* Any lock refuses the claim, one that the same request holds included. *)
ClaimBusy(h) ==
    /\ claim[h].pc = "checked"
    /\ Locked(DeviceOf[claim[h].req])
    /\ locks' = DropExpired
    /\ Finish(h, "claim_busy")
    /\ UNCHANGED <<nodes, protect, failed>>

(* Nobody to ask: the requester may proceed, and no lock is taken. *)
NoPeer(h) ==
    /\ claim[h].pc = "checked"
    /\ ~ Locked(DeviceOf[claim[h].req])
    /\ \A n \in Node : ~ CanRelease(n, claim[h].req)
    /\ locks' = DropExpired
    /\ Finish(h, "no_peer")
    /\ UNCHANGED <<nodes, protect, failed>>

AskPeer(h, p) ==
    LET r == claim[h].req IN
    /\ claim[h].pc = "checked"
    /\ ~ Locked(DeviceOf[r])
    /\ IsPeer(p, r)
    /\ locks' = [DropExpired EXCEPT ![DeviceOf[r]] =
                   [id |-> r, ttl |-> claim[h].ttl]]
    /\ protect' = [protect EXCEPT ![r] = claim[h].ttl]
    /\ claim' = [claim EXCEPT ![h] =
                   [Idle EXCEPT !.pc = "asking", !.req = r, !.peer = p,
                                !.wait = ReleaseStartWait]]
    /\ UNCHANGED <<nodes, failed>>

(***************************************************************************)
(* The peer's answer.  "other" is a reply whose status is none of the      *)
(* three: the claim is unconfirmed, but the peer stays live.  A reply that *)
(* is ready when the wait runs out may still be the one that is taken.     *)
(***************************************************************************)
ReleaseStarted(h) ==
    /\ claim[h].pc = "asking"
    /\ Finish(h, "proceed")
    /\ UNCHANGED <<nodes, locks, protect, failed>>

ReleaseUnknown(h) ==
    /\ claim[h].pc = "asking"
    /\ Finish(h, "release_unconfirmed")
    /\ UNCHANGED <<nodes, locks, protect, failed>>

ReleaseDeclined(h, status) ==
    /\ claim[h].pc = "asking"
    /\ claim' = [claim EXCEPT ![h] =
                   [Idle EXCEPT !.pc = "declined", !.req = claim[h].req, !.status = status]]
    /\ protect' = [protect EXCEPT ![claim[h].req] = 0]
    /\ UNCHANGED <<nodes, locks, failed>>

(* The request could not be delivered, or its reply could not be read. *)
ReleaseError(h) ==
    /\ claim[h].pc = "asking"
    /\ claim' = [claim EXCEPT ![h].pc = "failed"]
    /\ failed' = failed \union {claim[h].peer}
    /\ UNCHANGED <<nodes, locks, protect>>

ReleaseTimeout(h) ==
    /\ claim[h].wait = 0
    /\ ReleaseError(h)

(* variant: an unconfirmed release frees the device *)
MarkDead_ClearsLock(h) ==
    /\ claim[h].pc = "failed"
    /\ nodes' = [nodes EXCEPT ![claim[h].peer].live = FALSE]
    /\ locks' = [locks EXCEPT ![DeviceOf[claim[h].req]] = NoLock]
    /\ Finish(h, "release_unconfirmed")
    /\ UNCHANGED <<protect, failed>>

(***************************************************************************)
(* After an error the peer is marked dead in a locked section of its own:  *)
(* the peer may have registered anew since it was asked.  The lock stays.  *)
(***************************************************************************)
MarkDead(h) ==
    /\ claim[h].pc = "failed"
    /\ nodes' = [nodes EXCEPT ![claim[h].peer].live = FALSE]
    /\ Finish(h, "release_unconfirmed")
    /\ UNCHANGED <<locks, protect, failed>>

(* variant: whoever has the lock by now *)
ClearLock_AnyHolder(h) ==
    /\ claim[h].pc = "declined"
    /\ locks' = [locks EXCEPT ![DeviceOf[claim[h].req]] = NoLock]
    /\ Finish(h, claim[h].status)
    /\ UNCHANGED <<nodes, protect, failed>>

(* variant: no way on when the lock is gone *)
ClearLock_OnlyOwn(h) ==
    LET d == DeviceOf[claim[h].req] IN
    /\ claim[h].pc = "declined"
    /\ locks[d].id = claim[h].req
    /\ locks' = [locks EXCEPT ![d] = NoLock]
    /\ Finish(h, claim[h].status)
    /\ UNCHANGED <<nodes, protect, failed>>

(***************************************************************************)
(* After a refusal the lock is removed, if it is still this request's.     *)
(***************************************************************************)
ClearLock(h) ==
    LET r == claim[h].req IN
    /\ claim[h].pc = "declined"
    /\ locks' = IF locks[DeviceOf[r]].id = r
                  THEN [locks EXCEPT ![DeviceOf[r]] = NoLock]
                  ELSE locks
    /\ Finish(h, claim[h].status)
    /\ UNCHANGED <<nodes, protect, failed>>

Respond(h) ==
    /\ claim[h].pc = "done"
    /\ claim' = [claim EXCEPT ![h] = Idle]
    /\ UNCHANGED <<nodes, locks, protect, failed>>

-----------------------------------------------------------------------------
(* Time *)

Less_Unbounded(t) == t - 1                            \* variant: below zero

Less(t) == IF t = 0 THEN 0 ELSE t - 1

Older(age) == IF age = MaxAge THEN age ELSE age + 1

Tick ==
    /\ nodes' = [n \in Node |-> [nodes[n] EXCEPT !.age = Older(@)]]
    /\ locks' = [d \in Device |-> [locks[d] EXCEPT !.ttl = Less(@)]]
    /\ claim' = [h \in Handler |->
                   [claim[h] EXCEPT !.ttl = Less(@), !.wait = Less(@)]]
    /\ protect' = [r \in Request |-> Less(protect[r])]
    /\ UNCHANGED failed

-----------------------------------------------------------------------------
(* The steps a handler takes by itself, and the ones others decide on. *)

HandlerStep(h) ==
    \/ CheckBudget(h)
    \/ ClaimBusy(h)
    \/ NoPeer(h)
    \/ \E p \in Node : AskPeer(h, p)
    \/ ReleaseTimeout(h)
    \/ MarkDead(h)
    \/ ClearLock(h)
    \/ Respond(h)

PeerAnswer(h) ==
    \/ ReleaseStarted(h)
    \/ ReleaseUnknown(h)
    \/ \E status \in {"peer_busy", "release_failed"} : ReleaseDeclined(h, status)
    \/ ReleaseError(h)

NodeStep(n) ==
    \/ \E devices \in SUBSET Device : Register(n, devices)
    \/ Heartbeat(n)

Next ==
    \/ \E n \in Node : NodeStep(n)
    \/ ReapDeadNodes
    \/ \E h \in Handler :
           \/ \E r \in Request, budget \in 0..MaxBudget : ReceiveClaim(h, r, budget)
           \/ HandlerStep(h)
           \/ PeerAnswer(h)
    \/ Tick

Spec == Init /\ [][Next]_vars

(***************************************************************************)
(* The runtime schedules every handler and the clock advances; no peer is  *)
(* obliged to answer, no node to register and no client to claim.          *)
(***************************************************************************)
Fairness == WF_vars(Tick) /\ \A h \in Handler : WF_vars(HandlerStep(h))

FairSpec == Spec /\ Fairness

-----------------------------------------------------------------------------
(* Safety *)

(***************************************************************************)
(* From the moment its release is asked for until its deadline, unless the *)
(* peer declines, a request may be acted on: the peer may be disconnecting *)
(* and the requester connecting.  No two requests for one device are ever  *)
(* in that window together, whatever expires or is cleared in between.     *)
(***************************************************************************)
ReleaseExclusive ==
    \A r, s \in Request :
        protect[r] > 0 /\ protect[s] > 0 /\ DeviceOf[r] = DeviceOf[s] => r = s

(***************************************************************************)
(* The lock of a request that may still be acted on is in the table, under *)
(* its name and with exactly the time that is left to it: neither another  *)
(* claim's cleanup nor the answer to the claim has removed it.             *)
(***************************************************************************)
LockBacksProtection ==
    \A r \in Request :
        protect[r] > 0 => locks[DeviceOf[r]] = [id |-> r, ttl |-> protect[r]]

(***************************************************************************)
(* claim_busy is only answered while some request for the device may still *)
(* be acted on, or its refusal is just being recorded: a lock left over    *)
(* from a claim that is over never refuses a new one.                      *)
(***************************************************************************)
Refused(h) == claim[h].pc = "checked" /\ claim'[h].status = "claim_busy"

BusyJustified ==
    [][\A h \in Handler : Refused(h) =>
         \E r \in Request :
           /\ DeviceOf[r] = DeviceOf[claim[h].req]
           /\ \/ protect[r] > 0
              \/ \E g \in Handler : claim[g].pc = "declined" /\ claim[g].req = r]_vars

(***************************************************************************)
(* A requester is told that there is no peer only if every other node that *)
(* registered the device has been silent too long or has failed an ask.    *)
(***************************************************************************)
NoPeerOnlyForCause ==
    [][\A h \in Handler :
         claim[h].pc = "checked" /\ claim'[h].status = "no_peer" =>
           \A n \in Node \ {RequesterOf[claim[h].req]} :
             DeviceOf[claim[h].req] \in nodes[n].devices =>
               nodes[n].age > DeadPeerAfter \/ n \in failed]_vars

(***************************************************************************)
(* The locks and the handlers implement the leases: only a lock whose time *)
(* is not up counts, and it is open while its request is being decided.    *)
(***************************************************************************)
Deciding(r) ==
    \E h \in Handler : claim[h].req = r /\ claim[h].pc \in {"asking", "declined"}

Lease == INSTANCE ReleaseLease WITH
    lease <- [d \in Device |->
                IF Expired(locks[d])
                  THEN [holder |-> None, ttl |-> 0, open |-> FALSE]
                  ELSE [holder |-> locks[d].id, ttl |-> locks[d].ttl,
                        open |-> Deciding(locks[d].id)]]

(***************************************************************************)
(* Everything HandleClaim does to the locks, with its separate critical    *)
(* sections and its late cleanups, is a step of the lease or no step.      *)
(***************************************************************************)
ImplementsLease == Lease!Spec

(***************************************************************************)
(* A request that is retried because its answer was lost is not refused on *)
(* account of the lock that it holds itself.                               *)
(***************************************************************************)
RetryNotRefusedByOwnLock ==
    [][\A h \in Handler : Refused(h) =>
         locks[DeviceOf[claim[h].req]].id # claim[h].req]_vars

-----------------------------------------------------------------------------
(* Liveness *)

(***************************************************************************)
(* Every claim a handler takes up is answered, whether or not the peer     *)
(* ever says anything and whatever happened to the lock meanwhile.         *)
(***************************************************************************)
EveryClaimAnswered ==
    \A h \in Handler : (claim[h].pc # "idle") ~> (claim[h].pc = "idle")
=============================================================================

------------------------------- MODULE Daemon -------------------------------
(***************************************************************************)
(* The service that runs on each Mac.  Three kinds of actors share it:     *)
(* local connections (a claim or a release asked for on the socket), the   *)
(* callback that serves releases asked for by the coordinator, one at a    *)
(* time, and the goroutines that callback leaves behind to watch a device  *)
(* go away.  They meet in the device lock, the guards, and the two replay  *)
(* tables.                                                                 *)
(*                                                                         *)
(* What Bluetooth and the coordinator answer is left open: anything may    *)
(* happen to a device outside the daemon.  Time is relative, as in         *)
(* Coordinator.                                                            *)
(***************************************************************************)
EXTENDS Integers, FiniteSets

CONSTANTS
    Conn,           \* local connections
    ClientRequest,  \* the client request ids of claims
    Device,         \* the addresses a request may name
    Configured,     \* the ones this Mac has configured
    Release,        \* the request ids of peer releases
    ReleasedDevice, \* the device a peer release is about
    None,           \* no request
    MaxBudget,      \* longest time a claim is given
    ReplayTime,     \* how long the answer to a peer release is remembered
    ReleaseTTL      \* how long a device is watched going away

ASSUME DaemonAssumption ==
    /\ Configured \subseteq Device
    /\ ReleasedDevice \in [Release -> Device]
    /\ None \notin ClientRequest \union Release \union Device
    /\ MaxBudget \in Nat \ {0} /\ ReplayTime \in Nat /\ ReleaseTTL \in Nat

VARIABLES
    token,      \* Service.locks: the tokens in the channel of each device
    conn,       \* what every connection is doing
    claims,     \* Service.claims: what is replayed to a client request id
    guards,     \* Service.guards: the time left to the guard of each device
    peer,       \* what the release callback is doing
    peers,      \* Service.peers: the answers to peer releases
    watch,      \* the goroutines of finishPeerRelease
    online,     \* whether the coordinator connection has been made
    log,        \* what the state log says about each client request id
    settled,    \* history: how long an unpairing must not be repeated, by release
    raced       \* history: a guard was set behind the callback's back

vars == <<token, conn, claims, guards, peer, peers, watch, online, log, settled, raced>>

-----------------------------------------------------------------------------
(* Types *)

(* The places in which a connection has the token of its device. *)
Holding == {"accept", "remember", "local", "ask", "wait", "recheck", "acquire",
            "guard", "final", "store", "release", "unlock"}

(* The places of a claim that is being carried out, or may yet be. *)
Claiming == (Holding \ {"release", "unlock"}) \union {"new", "lock"}

ConnState == [pc : Holding \union {"idle", "new", "lock", "rlock"},
              req : ClientRequest \union {None}, dev : Device \union {None}, ttl : Nat, ok : BOOLEAN]

Answer == {"none", "started", "busy", "fail"}

PeerState == [pc : {"idle", "new", "guard", "lock", "check", "unpair"},
              rel : Release \union {None}]

TypeOK ==
    /\ token \in [Device -> 0..1]
    /\ conn \in [Conn -> ConnState]
    /\ \A c \in Conn : conn[c].pc # "idle" => conn[c].dev \in Device
    /\ \A c \in Conn :
           conn[c].pc \in Claiming => conn[c].req \in ClientRequest
    /\ claims \in [ClientRequest -> {"unknown", "accepted", "ok", "failed"}]
    /\ guards \in [Device -> Nat]
    /\ peer \in PeerState
    /\ peer.pc # "idle" => peer.rel \in Release
    /\ peers \in [Release -> [reply : Answer, ttl : Nat]]
    /\ watch \in [Release -> [on : BOOLEAN, ttl : Nat]]
    /\ online \in BOOLEAN
    /\ log \in [ClientRequest -> [accepted : BOOLEAN, final : SUBSET {"ok", "failed"}]]
    /\ settled \in [Release -> Nat]
    /\ raced \in BOOLEAN

Quiet == [pc |-> "idle", rel |-> None]
Forgotten == [reply |-> "none", ttl |-> 0]
Unwatched == [on |-> FALSE, ttl |-> 0]

Closed == [pc |-> "idle", req |-> None, dev |-> None, ttl |-> 0, ok |-> FALSE]

Init ==
    /\ token = [d \in Device |-> 1]
    /\ conn = [c \in Conn |-> Closed]
    /\ claims = [q \in ClientRequest |-> "unknown"]
    /\ guards = [d \in Device |-> 0]
    /\ peer = Quiet
    /\ peers = [x \in Release |-> Forgotten]
    /\ watch = [x \in Release |-> Unwatched]
    /\ online = FALSE
    /\ log = [q \in ClientRequest |-> [accepted |-> FALSE, final |-> {}]]
    /\ settled = [x \in Release |-> 0]
    /\ raced = FALSE

-----------------------------------------------------------------------------
(* The device lock: a channel of capacity one.  To give a token back to a  *)
(* channel that has one blocks the goroutine that tries to.                *)

TryLock(d) == token[d] = 1 /\ token' = [token EXCEPT ![d] = 0]

Unlock(d) == token[d] = 0 /\ token' = [token EXCEPT ![d] = 1]

peerVars == <<peer, peers, watch, settled>>
othersOfConn == <<peerVars, online, raced>>

At(c, pc) == conn[c].pc = pc

Go(c, pc) == conn' = [conn EXCEPT ![c].pc = pc]

End(c) == conn' = [conn EXCEPT ![c] = Closed]

-----------------------------------------------------------------------------
(* handleClaim: until the claim is accepted *)

ClaimArrives(c, q, d, budget) ==
    /\ At(c, "idle")
    /\ conn' = [conn EXCEPT ![c] = [pc |-> "new", req |-> q, dev |-> d,
                                    ttl |-> budget, ok |-> FALSE]]
    /\ UNCHANGED <<token, claims, guards, log, othersOfConn>>

(* A client request id that is known is answered from the replay table. *)
ClaimReplayed(c) ==
    /\ At(c, "new")
    /\ claims[conn[c].req] # "unknown"
    /\ End(c)
    /\ UNCHANGED <<token, claims, guards, log, othersOfConn>>

(* The device cannot be resolved, or blueutil is missing. *)
ClaimRefused(c) ==
    /\ At(c, "new")
    /\ claims[conn[c].req] = "unknown"
    /\ End(c)
    /\ UNCHANGED <<token, claims, guards, log, othersOfConn>>

ClaimNew(c) ==
    /\ At(c, "new")
    /\ claims[conn[c].req] = "unknown"
    /\ Go(c, "lock")
    /\ UNCHANGED <<token, claims, guards, log, othersOfConn>>

ClaimTryLock(c) ==
    /\ At(c, "lock")
    /\ TryLock(conn[c].dev)
    /\ Go(c, "accept")
    /\ UNCHANGED <<claims, guards, log, othersOfConn>>

(* Answered as busy; a local release is refused in the same way. *)
LockRefused(c) ==
    /\ At(c, "lock") \/ At(c, "rlock")
    /\ token[conn[c].dev] = 0
    /\ End(c)
    /\ UNCHANGED <<token, claims, guards, log, othersOfConn>>

ClaimAccept(c) ==
    /\ At(c, "accept")
    /\ log' = [log EXCEPT ![conn[c].req].accepted = TRUE]
    /\ Go(c, "remember")
    /\ UNCHANGED <<token, claims, guards, othersOfConn>>

(* No claim is started that got no request id or whose append failed; the  *)
(* event is in the file all the same when only the sync failed.            *)
ClaimUnlogged(c) ==
    /\ At(c, "accept")
    /\ log' \in {log, [log EXCEPT ![conn[c].req].accepted = TRUE]}
    /\ Go(c, "unlock")
    /\ UNCHANGED <<token, claims, guards, othersOfConn>>

ClaimRemember(c) ==
    /\ At(c, "remember")
    /\ claims' = [claims EXCEPT ![conn[c].req] = "accepted"]
    /\ Go(c, "local")
    /\ UNCHANGED <<token, guards, log, othersOfConn>>

-----------------------------------------------------------------------------
(* runClaim *)

(* The claim ends with an error: a failed check, no coordinator, a refusal, *)
(* the deadline, a failed connection.                                       *)
ClaimFails(c) ==
    /\ \/ conn[c].pc \in {"local", "acquire"}
       \/ At(c, "ask")
       \/ At(c, "wait") /\ conn[c].ttl = 0
    /\ conn' = [conn EXCEPT ![c].pc = "final", ![c].ok = FALSE]
    /\ UNCHANGED <<token, claims, guards, log, othersOfConn>>

(* The device is here already: no coordinator is needed, but a guard is. *)
AlreadyConnected(c) ==
    /\ At(c, "local")
    /\ Go(c, "guard")
    /\ UNCHANGED <<token, claims, guards, log, othersOfConn>>

AskCoordinator(c) ==
    /\ At(c, "local")
    /\ online
    /\ Go(c, "ask")
    /\ UNCHANGED <<token, claims, guards, log, othersOfConn>>

(* Attempts go on until the deadline: an answer counts when it comes by then. *)
Proceed(c) ==
    /\ At(c, "ask")
    /\ conn[c].ttl > 0
    /\ Go(c, "wait")
    /\ UNCHANGED <<token, claims, guards, log, othersOfConn>>

ProceedNoPeer(c) ==
    /\ At(c, "ask")
    /\ conn[c].ttl > 0
    /\ Go(c, "recheck")
    /\ UNCHANGED <<token, claims, guards, log, othersOfConn>>

(* Nobody was asked, and the device turns out to be here: no guard is set. *)
ConnectedMeanwhile(c) ==
    /\ At(c, "recheck")
    /\ conn' = [conn EXCEPT ![c].pc = "final", ![c].ok = TRUE]
    /\ UNCHANGED <<token, claims, guards, log, othersOfConn>>

StartAcquire(c) ==
    /\ At(c, "recheck") \/ At(c, "wait")
    /\ Go(c, "acquire")
    /\ UNCHANGED <<token, claims, guards, log, othersOfConn>>

Acquired(c) ==
    /\ At(c, "acquire")
    /\ Go(c, "guard")
    /\ UNCHANGED <<token, claims, guards, log, othersOfConn>>

(* persistGuard: the event is logged first, and only then the guard set. *)
Guarded(c) ==
    /\ At(c, "guard")
    /\ guards' = [guards EXCEPT ![conn[c].dev] = conn[c].ttl]
    /\ conn' = [conn EXCEPT ![c].pc = "final", ![c].ok = TRUE]
    /\ raced' = (raced \/ (peer.pc = "lock" /\ ReleasedDevice[peer.rel] = conn[c].dev))
    /\ UNCHANGED <<token, claims, log, peerVars, online>>

GuardUnlogged(c) ==
    /\ At(c, "guard")
    /\ conn' = [conn EXCEPT ![c].pc = "final", ![c].ok = FALSE]
    /\ UNCHANGED <<token, claims, guards, log, othersOfConn>>

-----------------------------------------------------------------------------
(* handleClaim: once the result is known *)

Outcome(c) == IF conn[c].ok THEN "ok" ELSE "failed"

FinalLogged(c) ==
    /\ At(c, "final")
    /\ log' = [log EXCEPT ![conn[c].req].final = @ \union {Outcome(c)}]
    /\ Go(c, "store")
    /\ UNCHANGED <<token, claims, guards, othersOfConn>>

(* variant: the error of the append is dropped *)
FinalUnlogged_Ignored(c) ==
    /\ At(c, "final")
    /\ Go(c, "store")
    /\ UNCHANGED <<token, claims, guards, log, othersOfConn>>

FinalUnlogged(c) ==
    /\ At(c, "final")
    /\ log' \in {log, [log EXCEPT ![conn[c].req].final = @ \union {Outcome(c)}]}
    /\ conn' = [conn EXCEPT ![c].pc = "store", ![c].ok = FALSE]
    /\ UNCHANGED <<token, claims, guards, othersOfConn>>

RememberFinal(c) ==
    /\ At(c, "store")
    /\ claims' = [claims EXCEPT ![conn[c].req] = Outcome(c)]
    /\ Go(c, "unlock")
    /\ UNCHANGED <<token, guards, log, othersOfConn>>

(* The deferred unlock, after which the connection is answered. *)
ConnUnlock(c) ==
    /\ At(c, "unlock")
    /\ Unlock(conn[c].dev)
    /\ End(c)
    /\ UNCHANGED <<claims, guards, log, othersOfConn>>

-----------------------------------------------------------------------------
(* handleRelease: a release asked for on the socket *)

ReleaseArrives(c, d) ==
    /\ At(c, "idle")
    /\ conn' = [conn EXCEPT ![c] = [Closed EXCEPT !.pc = "rlock", !.dev = d]]
    /\ UNCHANGED <<token, claims, guards, log, othersOfConn>>

ReleaseTryLock(c) ==
    /\ At(c, "rlock")
    /\ TryLock(conn[c].dev)
    /\ Go(c, "release")
    /\ UNCHANGED <<claims, guards, log, othersOfConn>>

(* Whether or not it worked and could be logged, the lock is given back. *)
ReleaseEnds(c) ==
    /\ At(c, "release")
    /\ Go(c, "unlock")
    /\ UNCHANGED <<token, claims, guards, log, othersOfConn>>

-----------------------------------------------------------------------------
(* handlePeerRelease: a release asked for by the coordinator *)

othersOfPeer == <<conn, claims, guards, online, log>>

Asked == ReleasedDevice[peer.rel]

(* rememberPeer, and the reply that ends the callback. *)
RememberPeer(reply) ==
    peers' = [peers EXCEPT ![peer.rel] = [reply |-> reply, ttl |-> ReplayTime]]

PeerArrives(x) ==
    /\ peer.pc = "idle"
    /\ peer' = [pc |-> "new", rel |-> x]
    /\ UNCHANGED <<token, peers, watch, settled, raced, othersOfPeer>>

Replayable(x) == peers[x].ttl > 0

PeerReplayed ==
    /\ peer.pc = "new"
    /\ Replayable(peer.rel)
    /\ peer' = Quiet
    /\ UNCHANGED <<token, peers, watch, settled, raced, othersOfPeer>>

(* The device is not one of this Mac, or the requester has this Mac's name *)
(* (left open): refused, and not remembered. *)
PeerStale ==
    /\ peer.pc = "new"
    /\ ~ Replayable(peer.rel)
    /\ peer' = Quiet
    /\ UNCHANGED <<token, peers, watch, settled, raced, othersOfPeer>>

PeerNew ==
    /\ peer.pc = "new"
    /\ ~ Replayable(peer.rel)
    /\ Asked \in Configured
    /\ peer' = [peer EXCEPT !.pc = "guard"]
    /\ UNCHANGED <<token, peers, watch, settled, raced, othersOfPeer>>

GuardActive_Never(d) == FALSE              \* variant: the guard is not consulted

GuardActive(d) == guards[d] > 0

(* A claim has just succeeded: the device stays; this is not remembered. *)
PeerGuarded ==
    /\ peer.pc = "guard"
    /\ GuardActive(Asked)
    /\ peer' = Quiet
    /\ UNCHANGED <<token, peers, watch, settled, raced, othersOfPeer>>

(* From here on the guard is not looked at again. *)
PeerUnguarded ==
    /\ peer.pc = "guard"
    /\ ~ GuardActive(Asked)
    /\ peer' = [peer EXCEPT !.pc = "lock"]
    /\ raced' = FALSE
    /\ UNCHANGED <<token, peers, watch, settled, othersOfPeer>>

PeerLockRefused_Waits == FALSE /\ UNCHANGED vars   \* variant: the callback waits

PeerLockRefused ==
    /\ peer.pc = "lock"
    /\ token[Asked] = 0
    /\ RememberPeer("busy")
    /\ peer' = Quiet
    /\ UNCHANGED <<token, watch, settled, raced, othersOfPeer>>

PeerTryLock ==
    /\ peer.pc = "lock"
    /\ TryLock(Asked)
    /\ peer' = [peer EXCEPT !.pc = "check"]
    /\ UNCHANGED <<peers, watch, settled, raced, othersOfPeer>>

(* variant: an early return without the unlock *)
PeerFails_KeepsLock ==
    /\ peer.pc \in {"check", "unpair"}
    /\ RememberPeer("fail")
    /\ settled' = IF peer.pc = "unpair" THEN [settled EXCEPT ![peer.rel] = ReplayTime]
                                        ELSE settled
    /\ peer' = Quiet
    /\ UNCHANGED <<token, watch, raced, othersOfPeer>>

(* The check of the connection failed or timed out, or the unpairing did.  *)
PeerFails ==
    /\ peer.pc \in {"check", "unpair"}
    /\ Unlock(Asked)
    /\ RememberPeer("fail")
    /\ settled' = IF peer.pc = "unpair" THEN [settled EXCEPT ![peer.rel] = ReplayTime]
                                        ELSE settled
    /\ peer' = Quiet
    /\ UNCHANGED <<watch, raced, othersOfPeer>>

(* The device is not connected here: there is nothing to wait for. *)
PeerDisconnected ==
    /\ peer.pc = "check"
    /\ Unlock(Asked)
    /\ RememberPeer("started")
    /\ peer' = Quiet
    /\ UNCHANGED <<watch, settled, raced, othersOfPeer>>

PeerConnected ==
    /\ peer.pc = "check"
    /\ peer' = [peer EXCEPT !.pc = "unpair"]
    /\ UNCHANGED <<token, peers, watch, settled, raced, othersOfPeer>>

(* variant: the lock is also given back by the callback itself *)
PeerUnpaired_Unlocks ==
    /\ peer.pc = "unpair"
    /\ Unlock(Asked)
    /\ RememberPeer("started")
    /\ watch' = [watch EXCEPT ![peer.rel] = [on |-> TRUE, ttl |-> ReleaseTTL]]
    /\ settled' = [settled EXCEPT ![peer.rel] = ReplayTime]
    /\ peer' = Quiet
    /\ UNCHANGED <<raced, othersOfPeer>>

(* variant: the answer is not remembered *)
PeerUnpaired_Forgets ==
    /\ peer.pc = "unpair"
    /\ watch' = [watch EXCEPT ![peer.rel] = [on |-> TRUE, ttl |-> ReleaseTTL]]
    /\ settled' = [settled EXCEPT ![peer.rel] = ReplayTime]
    /\ peer' = Quiet
    /\ UNCHANGED <<token, peers, raced, othersOfPeer>>

(* The device has been unpaired: answer, and leave the lock to a goroutine *)
(* that watches the device go.                                             *)
PeerUnpaired ==
    /\ peer.pc = "unpair"
    /\ RememberPeer("started")
    /\ watch' = [watch EXCEPT ![peer.rel] = [on |-> TRUE, ttl |-> ReleaseTTL]]
    /\ settled' = [settled EXCEPT ![peer.rel] = ReplayTime]
    /\ peer' = Quiet
    /\ UNCHANGED <<token, raced, othersOfPeer>>

(***************************************************************************)
(* finishPeerRelease gives the lock back when it has seen the device go or *)
(* when its time is up.                                                    *)
(***************************************************************************)
WatchEnds(x) ==
    /\ watch[x].on
    /\ Unlock(ReleasedDevice[x])
    /\ watch' = [watch EXCEPT ![x] = Unwatched]
    /\ UNCHANGED <<peer, peers, settled, raced, othersOfPeer>>

DeviceGone(x) == WatchEnds(x)

WatchExpires(x) == watch[x].ttl = 0 /\ WatchEnds(x)

-----------------------------------------------------------------------------
(* The coordinator connection, and time *)

(* connectCoordinatorLoop connects once and keeps the client for good. *)
Connect ==
    /\ online' = TRUE
    /\ UNCHANGED <<token, conn, claims, guards, peerVars, log, raced>>

Less_Unbounded(t) == t - 1                 \* variant: below zero

Less(t) == IF t = 0 THEN 0 ELSE t - 1

Tick ==
    /\ conn' = [c \in Conn |-> [conn[c] EXCEPT !.ttl = Less(@)]]
    /\ guards' = [d \in Device |-> Less(guards[d])]
    /\ peers' = [x \in Release |-> IF peers[x].ttl <= 1 THEN Forgotten
                                   ELSE [peers[x] EXCEPT !.ttl = @ - 1]]
    /\ watch' = [x \in Release |-> [watch[x] EXCEPT !.ttl = Less(@)]]
    /\ settled' = [x \in Release |-> Less(settled[x])]
    /\ UNCHANGED <<token, claims, peer, online, log, raced>>

-----------------------------------------------------------------------------
ClaimStep(c) ==
    \/ ClaimReplayed(c) \/ ClaimRefused(c) \/ ClaimNew(c) \/ ClaimTryLock(c)
    \/ LockRefused(c) \/ ClaimAccept(c) \/ ClaimUnlogged(c) \/ ClaimRemember(c)
    \/ ClaimFails(c) \/ AlreadyConnected(c) \/ AskCoordinator(c)
    \/ Proceed(c) \/ ProceedNoPeer(c)
    \/ ConnectedMeanwhile(c) \/ StartAcquire(c) \/ Acquired(c)
    \/ Guarded(c) \/ GuardUnlogged(c)
    \/ FinalLogged(c) \/ FinalUnlogged(c) \/ RememberFinal(c)

ConnStep(c) ==
    \/ ClaimStep(c)
    \/ ReleaseTryLock(c) \/ ReleaseEnds(c)
    \/ ConnUnlock(c)

PeerStep ==
    \/ PeerReplayed \/ PeerStale \/ PeerNew \/ PeerGuarded \/ PeerUnguarded
    \/ PeerLockRefused \/ PeerTryLock \/ PeerFails \/ PeerDisconnected
    \/ PeerConnected \/ PeerUnpaired

Arrivals ==
    \/ \E c \in Conn, q \in ClientRequest, d \in Device, b \in 1..MaxBudget :
           ClaimArrives(c, q, d, b)
    \/ \E c \in Conn, d \in Device : ReleaseArrives(c, d)
    \/ \E x \in Release : PeerArrives(x)

Next ==
    \/ Arrivals
    \/ \E c \in Conn : ConnStep(c)
    \/ PeerStep
    \/ \E x \in Release : DeviceGone(x) \/ WatchExpires(x)
    \/ Connect
    \/ Tick

Spec == Init /\ [][Next]_vars

(***************************************************************************)
(* Every goroutine is scheduled, a command ends when its time is up, and   *)
(* time passes.  Nobody has to connect or to send anything.                *)
(***************************************************************************)
Fairness ==
    /\ \A c \in Conn : WF_vars(ConnStep(c))
    /\ WF_vars(PeerStep)
    /\ \A x \in Release : WF_vars(WatchExpires(x))
    /\ WF_vars(Tick)

FairSpec == Spec /\ Fairness

-----------------------------------------------------------------------------
(* Safety *)

(* Who is, or may be, running Bluetooth commands on device d. *)
Holders(d) ==
    {<<"conn", c>> : c \in {c \in Conn : conn[c].pc \in Holding /\ conn[c].dev = d}}
    \union {<<"watch", x>> : x \in {x \in Release : watch[x].on /\ ReleasedDevice[x] = d}}
    \union {<<"peer", x>> : x \in {x \in Release : /\ peer.pc \in {"check", "unpair"}
                                                 /\ peer.rel = x /\ ReleasedDevice[x] = d}}

(***************************************************************************)
(* The token of a device is in its channel or with exactly one holder: a   *)
(* claim, a local release, the release callback, or the goroutine that the *)
(* callback left the lock to.  No path loses it, no path gives it back     *)
(* twice, and so no two of them ever work on the same device.              *)
(***************************************************************************)
LockAccounted ==
    \A d \in Device : IF token[d] = 1 THEN Holders(d) = {}
                      ELSE \E u \in Holders(d) : Holders(d) = {u}

(***************************************************************************)
(* A success that is replayed to a client is in the state log, and so is   *)
(* the claim: a result that could not be logged is turned into a failure   *)
(* before it is stored, and no claim is started that could not be logged.  *)
(***************************************************************************)
SuccessIsLogged ==
    \A q \in ClientRequest : claims[q] = "ok" => log[q].accepted /\ "ok" \in log[q].final

(***************************************************************************)
(* A release that is delivered again while its answer is remembered does   *)
(* not unpair the device a second time, whatever the first attempt led to. *)
(***************************************************************************)
Unpairing == peer.pc = "check" /\ peer'.pc = "unpair"

NoSecondUnpair == [][Unpairing => settled[peer.rel] = 0]_vars

(***************************************************************************)
(* A device that a claim has just won is unpaired for a peer only if the   *)
(* claim set its guard after the callback had looked at it: the two checks *)
(* of the callback, guard and lock, leave no other gap.                    *)
(***************************************************************************)
GuardMissedOnlyByRace == [][Unpairing /\ guards[Asked] > 0 => raced]_vars

-----------------------------------------------------------------------------
(* Liveness *)

(***************************************************************************)
(* Every local request is answered, though its goroutine gives back a lock *)
(* that others use and gave back, and the coordinator may never answer.    *)
(***************************************************************************)
EveryConnAnswered == \A c \in Conn : (conn[c].pc # "idle") ~> (conn[c].pc = "idle")

(***************************************************************************)
(* The release callback always comes to its answer: it is the only one, so *)
(* a callback that hangs would leave every later release unanswered.       *)
(***************************************************************************)
EveryReleaseAnswered == (peer.pc # "idle") ~> (peer.pc = "idle")

(***************************************************************************)
(* No device stays locked for ever, on any path of a claim, a release or   *)
(* the goroutine that outlives the callback.                               *)
(***************************************************************************)
DeviceLockFreed == \A d \in Device : []<>(token[d] = 1)
=============================================================================

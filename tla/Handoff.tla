------------------------------- MODULE Handoff -------------------------------
(***************************************************************************)
(* The whole system around one device: the daemons with their connections  *)
(* and claims, the coordinator, and the messages between them.             *)
(*                                                                         *)
(* Coordinator and Daemon model each side in detail against a partner that *)
(* answers anything.  Here both sides meet, with what only the composition *)
(* shows: the order of connecting, registering and subscribing, deaths of  *)
(* daemons, answers that come late or get lost, and where the device is.   *)
(* Time is reduced to whether the deadline of a claim has passed; a lock   *)
(* expires after it, since it is counted from the receipt of the claim.    *)
(* Of heartbeats remains that a live Mac may have been silent for too long,*)
(* as one that sleeps is; Coordinator has the ages.                        *)
(***************************************************************************)
EXTENDS Naturals, FiniteSets

CONSTANTS
    Nodes,          \* the Macs, all configured for the device
    Online,         \* the ones that are connected at first
    Claimants,      \* bound: the ones whose users claim
    None,
    MaxClaims,      \* bound: claims of all nodes
    MaxRetries,     \* bound: requests sent again by all claims
    MaxTroubles     \* bound: late answers, failed calls, deaths, restarts

Id == [node : Nodes, number : 1..MaxClaims]
Attempt == [id : Id, try : 1..MaxRetries + 1]
Ask == [of : Attempt, peer : Nodes]
Outcome == {"waiting", "started", "declined", "failed"}
Serving == [ask : Ask, outcome : Outcome]
Callback == [ask : Ask, at : {"lock", "look", "unpair"}]

ASSUME HandoffAssumption ==
    /\ None \notin Nodes \cup Id \cup Serving \cup Callback
    /\ Online \cup Claimants \subseteq Nodes
    /\ {MaxClaims, MaxRetries, MaxTroubles} \subseteq Nat

VARIABLES
    (* coordinator *)
    registry,   \* what is recorded of each node
    lock,       \* the claim the device is locked for
    serving,    \* the ask its claim callback waits for, and what came of it
    (* messages in flight *)
    claims, asks,
    result,     \* the answer on its way to each claimant
    (* daemons *)
    conn,       \* how far each is connected
    token,      \* who has the lock of the device
    guard,      \* the claim the device is guarded for
    pc,         \* where the claim is
    id,         \* the claim
    try,        \* the requests it has sent
    callback,   \* the release being served, and where it is
    replied,    \* the replies remembered
    (* the rest of the world *)
    linked,     \* the Mac the device is connected to
    made,       \* the claims made so far
    over,       \* those whose deadline has passed
    retries, troubles,  \* how many there have been
    orphans     \* history: the claims whose lock a restart lost

coordinator == <<registry, lock, serving>>
network == <<claims, asks, result>>
claimant == <<guard, pc, id, try>>
peerSide == <<callback, replied>>
world == <<linked, made, over, retries, troubles, orphans>>
vars == <<coordinator, network, conn, token, claimant, peerSide, world>>

TypeOK ==
    /\ registry \in [Nodes -> {"absent", "live", "dead"}]
    /\ lock \in Id \cup {None}
    /\ serving \in Serving \cup {None}
    /\ claims \subseteq Attempt
    /\ asks \subseteq Ask
    /\ result \in [Nodes -> {"none", "proceed", "no_peer", "refused"}]
    /\ conn \in [Nodes -> {"down", "registered", "up"}]
    /\ token \in [Nodes -> {"free", "claim", "release"}]
    /\ guard \in [Nodes -> Id \cup {None}]
    /\ pc \in [Nodes -> {"idle", "check", "asked", "wait", "acquire",
                         "lookAgain", "acquireUnasked"}]
    /\ id \in [Nodes -> Id \cup {None}]
    /\ try \in [Nodes -> 0..MaxRetries + 1]
    /\ callback \in [Nodes -> Callback \cup {None}]
    /\ replied \in [Nodes -> SUBSET [id : Id, status : {"started", "declined"}]]
    /\ linked \in Nodes \cup {None}
    /\ made \subseteq Id /\ over \subseteq made
    /\ orphans \subseteq made
    /\ retries \in 0..MaxRetries /\ troubles \in 0..MaxTroubles
    /\ \A n \in Nodes : (token[n] = "claim") <=> (pc[n] # "idle")

Init ==
    /\ registry = [n \in Nodes |-> IF n \in Online THEN "live" ELSE "absent"]
    /\ lock = None /\ serving = None
    /\ claims = {} /\ asks = {}
    /\ result = [n \in Nodes |-> "none"]
    /\ conn = [n \in Nodes |-> IF n \in Online THEN "up" ELSE "down"]
    /\ token = [n \in Nodes |-> "free"]
    /\ guard = [n \in Nodes |-> None]
    /\ pc = [n \in Nodes |-> "idle"]
    /\ id = [n \in Nodes |-> None]
    /\ try = [n \in Nodes |-> 0]
    /\ callback = [n \in Nodes |-> None]
    /\ replied = [n \in Nodes |-> {}]
    /\ linked \in Nodes
    /\ made = {} /\ over = {} /\ retries = 0 /\ troubles = 0 /\ orphans = {}

-----------------------------------------------------------------------------
Trouble == troubles < MaxTroubles /\ troubles' = troubles + 1

(* Daemons come and go                                                     *)

(* register comes before subscribeRelease, and is not repeated while the   *)
(* daemon lives.                                                           *)
Register(n) ==
    /\ conn[n] = "down"
    /\ conn' = [conn EXCEPT ![n] = "registered"]
    /\ registry' = [registry EXCEPT ![n] = "live"]
    /\ UNCHANGED <<lock, serving, network, token, claimant, peerSide, world>>

Subscribe(n) ==
    /\ conn[n] = "registered"
    /\ conn' = [conn EXCEPT ![n] = "up"]
    /\ UNCHANGED <<coordinator, network, token, claimant, peerSide, world>>

(* The connect loop starts over after its retry interval.                  *)
SubscribeFails(n) ==
    /\ conn[n] = "registered"
    /\ Trouble
    /\ conn' = [conn EXCEPT ![n] = "down"]
    /\ UNCHANGED <<coordinator, network, token, claimant, peerSide, linked, made,
                   over, retries, orphans>>

ClaimOver(n) ==
    /\ pc' = [pc EXCEPT ![n] = "idle"]
    /\ id' = [id EXCEPT ![n] = None]
    /\ try' = [try EXCEPT ![n] = 0]

(* All the daemon knew is gone; guards are logged but not read back.       *)
Die(n) ==
    /\ Trouble
    /\ conn' = [conn EXCEPT ![n] = "down"]
    /\ token' = [token EXCEPT ![n] = "free"]
    /\ guard' = [guard EXCEPT ![n] = None]
    /\ ClaimOver(n)
    /\ result' = [result EXCEPT ![n] = "none"]
    /\ callback' = [callback EXCEPT ![n] = None]
    /\ replied' = [replied EXCEPT ![n] = {}]
    /\ asks' = {a \in asks : a.peer # n}
    /\ UNCHANGED <<coordinator, claims, linked, made, over,
                   retries, orphans>>

-----------------------------------------------------------------------------
(* The claimant                                                            *)

Goto(n, place) ==
    /\ pc' = [pc EXCEPT ![n] = place]
    /\ UNCHANGED <<token, id, try>>

(* variant: the lock of the device is kept *)
End_KeepsLock(n) == ClaimOver(n) /\ UNCHANGED token

End(n) ==
    /\ ClaimOver(n)
    /\ token' = [token EXCEPT ![n] = "free"]

StartClaim(n) ==
    /\ n \in Claimants /\ Cardinality(made) < MaxClaims
    /\ token[n] = "free"
    /\ token' = [token EXCEPT ![n] = "claim"]
    /\ pc' = [pc EXCEPT ![n] = "check"]
    /\ id' = [id EXCEPT ![n] = [node |-> n, number |-> Cardinality(made) + 1]]
    /\ made' = made \cup {id'[n]}
    /\ try' = [try EXCEPT ![n] = 0]
    /\ UNCHANGED <<coordinator, network, conn, guard, peerSide, linked, over,
                   retries, troubles, orphans>>

(* A claim that succeeds sets the guard, if it can be logged.              *)
SetGuard(n) ==
    \/ id[n] \notin over /\ guard' = [guard EXCEPT ![n] = id[n]]
    \/ UNCHANGED guard

(* The remaining time is looked at before every request.                   *)
Send(n) ==
    /\ id[n] \notin over
    /\ try' = [try EXCEPT ![n] = @ + 1]
    /\ claims' = claims \cup {[id |-> id[n], try |-> try'[n]]}
    /\ pc' = [pc EXCEPT ![n] = "asked"]
    /\ UNCHANGED <<token, id>>

(* The coordinator is known to runClaim once the subscription is made.     *)
CheckLocal(n) ==
    /\ pc[n] = "check"
    /\ \/ linked = n /\ SetGuard(n) /\ End(n) /\ UNCHANGED claims
       \/ End(n) /\ UNCHANGED <<claims, guard>>     \* the check failed
       \/ /\ linked # n /\ (conn[n] # "up" \/ id[n] \in over)
          /\ End(n) /\ UNCHANGED <<claims, guard>>
       \/ linked # n /\ conn[n] = "up" /\ Send(n) /\ UNCHANGED guard
    /\ UNCHANGED <<coordinator, asks, result, conn, peerSide, world>>

(* No answer within LostReplyRetryInterval: the same claim is sent again,  *)
(* and an answer to the earlier request reaches nobody.                    *)
Retry(n) ==
    /\ pc[n] = "asked" /\ retries < MaxRetries
    /\ retries' = retries + 1
    /\ Send(n)
    /\ result' = [result EXCEPT ![n] = "none"]
    /\ UNCHANGED <<coordinator, asks, conn, guard, peerSide, linked, made,
                   over, troubles, orphans>>

GiveUp(n) ==
    /\ pc[n] = "asked" /\ id[n] \in over
    /\ End(n)
    /\ result' = [result EXCEPT ![n] = "none"]
    /\ UNCHANGED <<coordinator, claims, asks, conn, guard, peerSide,
                   world>>

GetResult(n) ==
    /\ pc[n] = "asked" /\ result[n] # "none"
    /\ result' = [result EXCEPT ![n] = "none"]
    /\ CASE result[n] = "proceed" -> Goto(n, "wait")
         [] result[n] = "no_peer" -> Goto(n, "lookAgain")
         [] result[n] = "refused" -> End(n)
    /\ UNCHANGED <<coordinator, claims, asks, conn, guard, peerSide,
                   world>>

(* Nobody to ask: the device may have come here meanwhile.                 *)
LookAgain(n) ==
    /\ pc[n] = "lookAgain"
    /\ \/ linked = n /\ End(n)
       \/ Goto(n, "acquireUnasked")     \* it has not, or the check failed
    /\ UNCHANGED <<coordinator, network, conn, guard, peerSide, world>>

Wait(n) ==
    /\ pc[n] = "wait"
    /\ IF id[n] \in over THEN End(n) ELSE Goto(n, "acquire")
    /\ UNCHANGED <<coordinator, network, conn, guard, peerSide, world>>

(* Acquire as Bluetooth models it: it succeeds within the deadline only;   *)
(* having failed, it may have connected or disconnected this Mac.          *)
Acquire(n) ==
    /\ pc[n] \in {"acquire", "acquireUnasked"}
    /\ \/ id[n] \notin over /\ linked' = n /\ SetGuard(n)
       \/ linked' \in {linked, n} /\ UNCHANGED guard
       \/ linked = n /\ linked' = None /\ UNCHANGED guard
    /\ End(n)
    /\ UNCHANGED <<coordinator, network, conn, peerSide, made, over,
                   retries, troubles, orphans>>

(* The guard ends with the deadline.  So does the lock: a little later, but*)
(* meanwhile it only refuses claims, as ClaimRefused may.                  *)
DeadlinePasses(claim) ==
    /\ claim \in made \ over
    /\ over' = over \cup {claim}
    /\ lock' = (IF lock = claim THEN None ELSE lock)
    /\ guard' = [n \in Nodes |-> IF guard[n] = claim THEN None ELSE guard[n]]
    /\ UNCHANGED <<registry, serving, network, conn, token, pc, id, try, peerSide,
                   linked, made, retries, troubles, orphans>>

-----------------------------------------------------------------------------
(* The coordinator: one claim at a time                                    *)

(* Only the request its sender still waits for can be answered.            *)
Respond(attempt, status) ==
    LET n == attempt.id.node
        waits == pc[n] = "asked" /\ attempt = [id |-> id[n], try |-> try[n]]
    IN result' = IF waits THEN [result EXCEPT ![n] = status] ELSE result

Receives(attempt) ==
    /\ serving = None
    /\ attempt \in claims
    /\ claims' = claims \ {attempt}

(* claim_busy, or claim_timeout for a budget below the minimum             *)
ClaimRefused(attempt) ==
    /\ Receives(attempt)
    /\ Respond(attempt, "refused")
    /\ UNCHANGED <<coordinator, asks, conn, token, claimant, peerSide, world>>

Peers(requester) == {p \in Nodes \ {requester} : registry[p] = "live"}

(* There is no peer, or all have been silent for too long.                 *)
NoPeer(attempt) ==
    /\ Receives(attempt)
    /\ lock = None
    /\ Respond(attempt, "no_peer")
    /\ UNCHANGED <<coordinator, asks, conn, token, claimant, peerSide, world>>

(* Without a subscription there is no responder, and the ask fails at once.*)
Request(ask) ==
    LET heard == conn[ask.peer] = "up" IN
    /\ serving' = [ask |-> ask,
                   outcome |-> IF heard THEN "waiting" ELSE "failed"]
    /\ asks' = IF heard THEN asks \cup {ask} ELSE asks

(* variant: the lock of the device is not looked at *)
AskPeer_IgnoresLock(attempt, p) ==
    /\ Receives(attempt)
    /\ p \in Peers(attempt.id.node)
    /\ lock' = attempt.id
    /\ Request([of |-> attempt, peer |-> p])
    /\ UNCHANGED <<registry, result, conn, token, claimant, peerSide, world>>

AskPeer(attempt, p) ==
    /\ Receives(attempt)
    /\ lock = None
    /\ p \in Peers(attempt.id.node)
    /\ lock' = attempt.id
    /\ Request([of |-> attempt, peer |-> p])
    /\ UNCHANGED <<registry, result, conn, token, claimant, peerSide, world>>

ServedWith(outcome, status) ==
    /\ serving # None /\ serving.outcome = outcome
    /\ Respond(serving.ask.of, status)
    /\ serving' = None

PeerStarted ==
    /\ ServedWith("started", "proceed")
    /\ UNCHANGED <<registry, lock, claims, asks, conn, token, claimant,
                   peerSide, world>>

(* clearLock: busy and fail both give the lock up.                         *)
PeerDeclined ==
    /\ ServedWith("declined", "refused")
    /\ lock' = (IF lock = serving.ask.of.id THEN None ELSE lock)
    /\ UNCHANGED <<registry, claims, asks, conn, token, claimant, peerSide,
                   world>>

AskTimesOut ==
    /\ serving # None /\ serving.outcome # "failed"
    /\ Trouble
    /\ serving' = [serving EXCEPT !.outcome = "failed"]
    /\ UNCHANGED <<registry, lock, network, conn, token, claimant, peerSide,
                   linked, made, over, retries, orphans>>

(* The subscriber went away with the ask: the wait ends without an answer. *)
AskLost ==
    /\ serving # None /\ serving.outcome = "waiting"
    /\ serving.ask \notin asks
    /\ \A p \in Nodes : callback[p] # None => callback[p].ask # serving.ask
    /\ serving' = [serving EXCEPT !.outcome = "failed"]
    /\ UNCHANGED <<registry, lock, network, conn, token, claimant, peerSide,
                   world>>

(* variant: an ask that failed gives the lock up *)
MarkDead_ClearsLock ==
    /\ ServedWith("failed", "refused")
    /\ registry' = [registry EXCEPT ![serving.ask.peer] = "dead"]
    /\ lock' = None
    /\ UNCHANGED <<claims, asks, conn, token, claimant, peerSide, world>>

(* release_unconfirmed: the peer is marked dead, and the lock stays.       *)
MarkDead ==
    /\ ServedWith("failed", "refused")
    /\ registry' = [registry EXCEPT ![serving.ask.peer] = "dead"]
    /\ UNCHANGED <<lock, claims, asks, conn, token, claimant, peerSide, world>>

(* The coordinator starts again: what it had in memory is gone.  The Macs  *)
(* connect and subscribe again by themselves, but register no more.  What  *)
(* was on its way may still arrive; to be lost is never to arrive.         *)
Restart ==
    /\ Trouble
    /\ registry' = [n \in Nodes |-> "absent"]
    /\ lock' = None /\ serving' = None
    /\ orphans' = orphans \cup ({lock} \ {None})
    /\ UNCHANGED <<network, conn, token, claimant, peerSide, linked, made, over,
                   retries>>

-----------------------------------------------------------------------------
(* The peer: one release at a time                                         *)

(* An answer the coordinator gave up on reaches nobody.                    *)
Answer(ask, status) ==
    serving' = IF serving = [ask |-> ask, outcome |-> "waiting"]
               THEN [serving EXCEPT !.outcome = status]
               ELSE serving

Guarded(p) == guard[p] # None

(* The replay table, then the guard; a refusal for the guard is not        *)
(* remembered.                                                             *)
DeliverAsk(p, ask) ==
    /\ conn[p] = "up" /\ callback[p] = None
    /\ ask \in asks /\ ask.peer = p
    /\ asks' = asks \ {ask}
    /\ LET replay == {r \in replied[p] : r.id = ask.of.id} IN
       \/ \E r \in replay : Answer(ask, r.status) /\ UNCHANGED callback
       \/ /\ replay = {} /\ Guarded(p)
          /\ Answer(ask, "declined") /\ UNCHANGED callback
       \/ /\ replay = {} /\ ~Guarded(p)
          /\ callback' = [callback EXCEPT ![p] = [ask |-> ask, at |-> "lock"]]
          /\ UNCHANGED serving
    /\ UNCHANGED <<registry, lock, claims, result, conn, token, claimant,
                   replied, world>>

At(p, place) == callback[p] # None /\ callback[p].at = place

(* The callback ends with this reply, which it remembers.                  *)
Reply(p, status) ==
    LET ask == callback[p].ask
        reply == [id |-> ask.of.id, status |-> status] IN
    /\ Answer(ask, status)
    /\ replied' = [replied EXCEPT ![p] = @ \cup {reply}]
    /\ callback' = [callback EXCEPT ![p] = None]

GoOn(p, place) ==
    /\ callback' = [callback EXCEPT ![p].at = place]
    /\ UNCHANGED <<serving, replied>>

PeerLock(p) ==
    /\ At(p, "lock")
    /\ IF token[p] = "free"
       THEN token' = [token EXCEPT ![p] = "release"] /\ GoOn(p, "look")
       ELSE Reply(p, "declined") /\ UNCHANGED token
    /\ UNCHANGED <<registry, lock, network, conn, claimant, world>>

PeerLook(p) ==
    /\ At(p, "look")
    /\ \/ /\ Reply(p, "declined")       \* the check failed
          /\ token' = [token EXCEPT ![p] = "free"]
       \/ /\ linked # p
          /\ Reply(p, "started")
          /\ token' = [token EXCEPT ![p] = "free"]
       \/ /\ linked = p
          /\ GoOn(p, "unpair") /\ UNCHANGED token
    /\ UNCHANGED <<registry, lock, network, conn, claimant, world>>

(* The unpair may have no effect, and a failure that is not a timeout is   *)
(* passed over.  After "started" finishPeerRelease has the lock.           *)
PeerUnpair(p) ==
    /\ At(p, "unpair")
    /\ linked' \in {linked, IF linked = p THEN None ELSE linked}
    /\ \/ Reply(p, "started") /\ UNCHANGED token
       \/ Reply(p, "declined") /\ token' = [token EXCEPT ![p] = "free"]
    /\ UNCHANGED <<registry, lock, network, conn, claimant, made, over,
                   retries, troubles, orphans>>

FinishRelease(p) ==
    /\ token[p] = "release" /\ (callback[p] = None \/ At(p, "lock"))
    /\ token' = [token EXCEPT ![p] = "free"]
    /\ UNCHANGED <<coordinator, network, conn, claimant, peerSide, world>>

-----------------------------------------------------------------------------
Claiming(n) == CheckLocal(n) \/ GiveUp(n) \/ GetResult(n)
                  \/ LookAgain(n) \/ Wait(n) \/ Acquire(n)

Releasing(p) == PeerLock(p) \/ PeerLook(p) \/ PeerUnpair(p) \/ FinishRelease(p)

Next ==
    \/ \E n \in Nodes : \/ Register(n) \/ Subscribe(n) \/ SubscribeFails(n)
                        \/ Die(n)
                        \/ StartClaim(n) \/ Retry(n) \/ Claiming(n)
                        \/ Releasing(n)
                        \/ \E ask \in asks : DeliverAsk(n, ask)
    \/ \E claim \in made : DeadlinePasses(claim)
    \/ \E m \in claims : \/ ClaimRefused(m) \/ NoPeer(m)
                         \/ \E p \in Nodes : AskPeer(m, p)
    \/ PeerStarted \/ PeerDeclined
    \/ AskTimesOut \/ AskLost \/ MarkDead \/ Restart

Spec == Init /\ [][Next]_vars

-----------------------------------------------------------------------------
(* Two claims that were told to proceed because a peer started a release   *)
(* are never both on the way to the device: the lock outlives the claim,   *)
(* whatever was asked twice, answered late or lost, and whoever died.  A   *)
(* coordinator that starts again forgets the lock of one claim, and only   *)
(* that claim may meet another.                                            *)
OneAcquirer ==
    \A m, n \in Nodes :
        /\ {pc[m], pc[n]} \subseteq {"wait", "acquire"}
        /\ {id[m], id[n]} \cap (over \cup orphans) = {}
        => m = n

(* A Mac gives the device away only while the coordinator keeps it locked  *)
(* for the claim that asked, unless the claim's deadline has passed: also  *)
(* if the ask reached it long after the coordinator gave up on it          *)
(* (core.go:167-182), unless the coordinator has started again since.      *)
ReleaseHasLock ==
    [][\A p \in Nodes :
          PeerUnpair(p) /\ linked' # linked =>
             callback[p].ask.of.id \in over \cup orphans \cup {lock}]_vars

(* README.md:10: "magichop claim asks another Mac to release a peripheral  *)
(* before acquiring it locally".  Said of no_peer: when a claim is told    *)
(* that there is nobody to ask, while another Mac that has the device is   *)
(* connected and subscribed to releases, then at least the heartbeats of   *)
(* that Mac would have made the coordinator ask it.                        *)
HolderIsAsked ==
    [][\A m \in claims, p \in Nodes :
          (NoPeer(m) /\ p # m.id.node /\ linked = p /\ conn[p] = "up")
             => registry[p] = "live"]_vars
=============================================================================

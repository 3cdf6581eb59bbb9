----------------------------- MODULE HandoffProofs -----------------------------
(***************************************************************************)
(* Proofs about Handoff, for any number of Macs, claims, retries and       *)
(* troubles.                                                               *)
(***************************************************************************)
EXTENDS Handoff, FiniteSetTheorems, TLAPS

(* What the types rest on: how claims are numbered and counted, and that a *)
(* Mac has an answer only while it waits for one, and that a release being *)
(* served has the lock of the device once it has passed PeerLock.          *)
Counted ==
    /\ IsFiniteSet(made)
    /\ lock \in made \cup {None}
    /\ \A attempt \in claims : attempt.id \in made
    /\ \A n \in Nodes : pc[n] # "idle" => id[n] \in made /\ id[n].node = n
    /\ \A n \in Nodes : try[n] <= retries + 1 /\ (pc[n] = "check" => try[n] = 0)
    /\ \A n \in Nodes : result[n] # "none" => pc[n] = "asked"
    /\ \A p \in Nodes : callback[p] # None =>
          /\ callback[p].ask.peer = p
          /\ callback[p].at # "lock" => token[p] = "release"

Typed == TypeOK /\ Counted

(* The first state is typed.                                               *)
LEMMA TypedInit ==
    ASSUME Init
    PROVE  Typed
<1> USE HandoffAssumption DEF Init
<1>1. lock = None /\ serving = None /\ claims = {} /\ asks = {} /\ made = {}
      /\ over = {} /\ orphans = {} /\ linked \in Nodes
  OBVIOUS
<1>2. /\ registry \in [Nodes -> {"absent", "live", "dead"}]
      /\ result \in [Nodes -> {"none", "proceed", "no_peer", "refused"}]
      /\ conn \in [Nodes -> {"down", "registered", "up"}]
      /\ token \in [Nodes -> {"free", "claim", "release"}]
  OBVIOUS
<1>3. /\ guard \in [Nodes -> Id \cup {None}]
      /\ pc \in [Nodes -> {"idle", "check", "asked", "wait", "acquire",
                           "lookAgain", "acquireUnasked"}]
      /\ id \in [Nodes -> Id \cup {None}]
  OBVIOUS
<1>4. /\ callback \in [Nodes -> Callback \cup {None}]
      /\ replied \in [Nodes -> SUBSET [id : Id, status : {"started", "declined"}]]
  OBVIOUS
<1>5. try \in [Nodes -> 0..MaxRetries + 1] /\ \A n \in Nodes : try[n] = 0
  OBVIOUS
<1>6. retries = 0 /\ troubles = 0 /\ 0 \in 0..MaxRetries /\ 0 \in 0..MaxTroubles
  OBVIOUS
<1>7. \A n \in Nodes : /\ token[n] = "free" /\ pc[n] = "idle" /\ result[n] = "none"
                       /\ callback[n] = None
  OBVIOUS
<1>8. TypeOK BY <1>1, <1>2, <1>3, <1>4, <1>5, <1>6, <1>7 DEF TypeOK
<1>9. Counted BY <1>1, <1>5, <1>6, <1>7, FS_EmptySet DEF Counted
<1> QED BY <1>8, <1>9 DEF Typed

(* Register keeps the types.                                               *)
LEMMA RegisterTyped ==
    ASSUME Typed, NEW n \in Nodes, Register(n)
    PROVE  Typed'
<1> USE HandoffAssumption DEF Typed, Outcome, Serving, Callback, Ask, Attempt, Register,
            vars, coordinator, network, claimant, peerSide, world, Id
<1>1. TypeOK' BY SMTT(30) DEF TypeOK, Counted
<1>2. Counted' BY SMTT(30) DEF TypeOK, Counted
<1> QED BY <1>1, <1>2

(* Subscribe keeps the types.                                              *)
LEMMA SubscribeTyped ==
    ASSUME Typed, NEW n \in Nodes, Subscribe(n)
    PROVE  Typed'
<1> USE HandoffAssumption DEF Typed, Outcome, Serving, Callback, Ask, Attempt, Subscribe,
            vars, coordinator, network, claimant, peerSide, world, Id
<1>1. TypeOK' BY SMTT(30) DEF TypeOK, Counted
<1>2. Counted' BY SMTT(30) DEF TypeOK, Counted
<1> QED BY <1>1, <1>2

(* SubscribeFails keeps the types.                                         *)
LEMMA SubscribeFailsTyped ==
    ASSUME Typed, NEW n \in Nodes, SubscribeFails(n)
    PROVE  Typed'
<1> USE HandoffAssumption DEF Typed, Outcome, Serving, Callback, Ask, Attempt,
            SubscribeFails, Trouble, vars, coordinator, network,
            claimant, peerSide, world, Id
<1>1. TypeOK' BY SMTT(30) DEF TypeOK, Counted
<1>2. Counted' BY SMTT(30) DEF TypeOK, Counted
<1> QED BY <1>1, <1>2

(* Die keeps the types.                                                    *)
LEMMA DieTyped ==
    ASSUME Typed, NEW n \in Nodes, Die(n)
    PROVE  Typed'
<1> USE HandoffAssumption DEF Typed, Outcome, Serving, Callback, Ask, Attempt, Die,
            Trouble, ClaimOver, vars, coordinator, network, claimant,
            peerSide, world, Id
<1>1. TypeOK' BY SMTT(30) DEF TypeOK, Counted
<1>2. Counted' BY SMTT(30) DEF TypeOK, Counted
<1> QED BY <1>1, <1>2

(* StartClaim keeps the types: there is a number left for the claim.       *)
LEMMA StartClaimTyped ==
    ASSUME Typed, NEW n \in Nodes, StartClaim(n)
    PROVE  Typed'
<1> USE HandoffAssumption DEF Typed, Outcome, Serving, Callback, Ask, Attempt, StartClaim,
            vars, coordinator, network, claimant, peerSide, world, Id
<1>1. IsFiniteSet(made) /\ Cardinality(made) \in Nat
  BY FS_CardinalityType DEF Counted
<1> DEFINE new == [node |-> n, number |-> Cardinality(made) + 1]
<1>2. new \in Id /\ new # None /\ new.node = n
  BY <1>1
<1>3. pc[n] = "idle" /\ result[n] = "none" BY DEF TypeOK, Counted
<1>4. /\ token' = [token EXCEPT ![n] = "claim"] /\ pc' = [pc EXCEPT ![n] = "check"]
      /\ id' = [id EXCEPT ![n] = new] /\ try' = [try EXCEPT ![n] = 0]
      /\ made' = made \cup {new}
  BY DEF TypeOK
<1> HIDE DEF new, Id
<1>5. IsFiniteSet(made \cup {new}) BY <1>1, FS_AddElement
<1>6. TypeOK' BY <1>2, <1>3, <1>4, SMTT(30) DEF TypeOK, Counted
<1>7. /\ IsFiniteSet(made') /\ lock' \in made' \cup {None}
      /\ \A attempt \in claims' : attempt.id \in made'
  BY <1>4, <1>5 DEF Counted
<1>8. \A p \in Nodes : pc'[p] # "idle" => id'[p] \in made' /\ id'[p].node = p
  BY <1>2, <1>4 DEF TypeOK, Counted
<1>9. \A p \in Nodes : try'[p] <= retries' + 1 /\ (pc'[p] = "check" => try'[p] = 0)
  BY <1>4 DEF TypeOK, Counted
<1>10. \A p \in Nodes : result'[p] # "none" => pc'[p] = "asked"
  BY <1>3, <1>4 DEF TypeOK, Counted
<1>11. \A p \in Nodes : callback'[p] # None =>
          /\ callback'[p].ask.peer = p
          /\ callback'[p].at # "lock" => token'[p] = "release"
  BY <1>4 DEF TypeOK, Counted
<1>12. Counted' BY <1>5, <1>7, <1>8, <1>9, <1>10, <1>11 DEF Counted
<1> QED BY <1>6, <1>12

(* Retry keeps the types.                                                  *)
LEMMA RetryTyped ==
    ASSUME Typed, NEW n \in Nodes, Retry(n)
    PROVE  Typed'
<1> USE HandoffAssumption DEF Typed, Outcome, Serving, Callback, Ask, Attempt, Retry,
            Send, vars, coordinator, network, claimant, peerSide, world,
            Id
<1>1. TypeOK' BY SMTT(30) DEF TypeOK, Counted
<1>2. Counted' BY SMTT(30) DEF TypeOK, Counted
<1> QED BY <1>1, <1>2

(* CheckLocal keeps the types.                                             *)
LEMMA CheckLocalTyped ==
    ASSUME Typed, NEW n \in Nodes, CheckLocal(n)
    PROVE  Typed'
<1> USE HandoffAssumption DEF Typed, Outcome, Serving, Callback, Ask, Attempt, CheckLocal,
            Send, End, ClaimOver, SetGuard, vars, coordinator, network,
            claimant, peerSide, world, Id
<1>1. CASE End(n) /\ SetGuard(n) /\ UNCHANGED claims
  <2>1. TypeOK' BY <1>1, SMTT(30) DEF TypeOK, Counted
  <2>2. Counted' BY <1>1, SMTT(30) DEF TypeOK, Counted
  <2> QED BY <2>1, <2>2
<1>2. CASE End(n) /\ UNCHANGED <<claims, guard>>
  <2>1. TypeOK' BY <1>2, SMTT(30) DEF TypeOK, Counted
  <2>2. Counted' BY <1>2, SMTT(30) DEF TypeOK, Counted
  <2> QED BY <2>1, <2>2
<1>3. CASE Send(n) /\ UNCHANGED guard
  <2>1. TypeOK' BY <1>3, SMTT(30) DEF TypeOK, Counted
  <2>2. Counted' BY <1>3, SMTT(30) DEF TypeOK, Counted
  <2> QED BY <2>1, <2>2
<1> QED BY <1>1, <1>2, <1>3

(* GiveUp keeps the types.                                                 *)
LEMMA GiveUpTyped ==
    ASSUME Typed, NEW n \in Nodes, GiveUp(n)
    PROVE  Typed'
<1> USE HandoffAssumption DEF Typed, Outcome, Serving, Callback, Ask, Attempt, GiveUp,
            End, ClaimOver, vars, coordinator, network, claimant,
            peerSide, world, Id
<1>1. TypeOK' BY SMTT(30) DEF TypeOK, Counted
<1>2. Counted' BY SMTT(30) DEF TypeOK, Counted
<1> QED BY <1>1, <1>2

(* GetResult keeps the types.                                              *)
LEMMA GetResultTyped ==
    ASSUME Typed, NEW n \in Nodes, GetResult(n)
    PROVE  Typed'
<1> USE HandoffAssumption DEF Typed, Outcome, Serving, Callback, Ask, Attempt, GetResult,
            Goto, End, ClaimOver, vars, coordinator, network, claimant,
            peerSide, world, Id
<1>1. CASE result[n] = "proceed" /\ Goto(n, "wait")
  <2>1. TypeOK' BY <1>1, SMTT(30) DEF TypeOK, Counted
  <2>2. Counted' BY <1>1, SMTT(30) DEF TypeOK, Counted
  <2> QED BY <2>1, <2>2
<1>2. CASE result[n] = "no_peer" /\ Goto(n, "lookAgain")
  <2>1. TypeOK' BY <1>2, SMTT(30) DEF TypeOK, Counted
  <2>2. Counted' BY <1>2, SMTT(30) DEF TypeOK, Counted
  <2> QED BY <2>1, <2>2
<1>3. CASE result[n] = "refused" /\ End(n)
  <2>1. TypeOK' BY <1>3, SMTT(30) DEF TypeOK, Counted
  <2>2. Counted' BY <1>3, SMTT(30) DEF TypeOK, Counted
  <2> QED BY <2>1, <2>2
<1> QED BY <1>1, <1>2, <1>3 DEF TypeOK

(* LookAgain keeps the types.                                              *)
LEMMA LookAgainTyped ==
    ASSUME Typed, NEW n \in Nodes, LookAgain(n)
    PROVE  Typed'
<1> USE HandoffAssumption DEF Typed, Outcome, Serving, Callback, Ask, Attempt, LookAgain,
            Goto, End, ClaimOver, vars, coordinator, network, claimant,
            peerSide, world, Id
<1>1. CASE End(n)
  <2>1. TypeOK' BY <1>1, SMTT(30) DEF TypeOK, Counted
  <2>2. Counted' BY <1>1, SMTT(30) DEF TypeOK, Counted
  <2> QED BY <2>1, <2>2
<1>2. CASE Goto(n, "acquireUnasked")
  <2>1. TypeOK' BY <1>2, SMTT(30) DEF TypeOK, Counted
  <2>2. Counted' BY <1>2, SMTT(30) DEF TypeOK, Counted
  <2> QED BY <2>1, <2>2
<1> QED BY <1>1, <1>2

(* Wait keeps the types.                                                   *)
LEMMA WaitTyped ==
    ASSUME Typed, NEW n \in Nodes, Wait(n)
    PROVE  Typed'
<1> USE HandoffAssumption DEF Typed, Outcome, Serving, Callback, Ask, Attempt, Wait, Goto,
            End, ClaimOver, vars, coordinator, network, claimant,
            peerSide, world, Id
<1>1. CASE End(n)
  <2>1. TypeOK' BY <1>1, SMTT(30) DEF TypeOK, Counted
  <2>2. Counted' BY <1>1, SMTT(30) DEF TypeOK, Counted
  <2> QED BY <2>1, <2>2
<1>2. CASE Goto(n, "acquire")
  <2>1. TypeOK' BY <1>2, SMTT(30) DEF TypeOK, Counted
  <2>2. Counted' BY <1>2, SMTT(30) DEF TypeOK, Counted
  <2> QED BY <2>1, <2>2
<1> QED BY <1>1, <1>2

(* Acquire keeps the types.                                                *)
LEMMA AcquireTyped ==
    ASSUME Typed, NEW n \in Nodes, Acquire(n)
    PROVE  Typed'
<1> USE HandoffAssumption DEF Typed, Outcome, Serving, Callback, Ask, Attempt, Acquire,
            End, ClaimOver, SetGuard, vars, coordinator, network,
            claimant, peerSide, world, Id
<1>1. TypeOK' BY SMTT(30) DEF TypeOK, Counted
<1>2. Counted' BY SMTT(30) DEF TypeOK, Counted
<1> QED BY <1>1, <1>2

(* A reply keeps the types of what it changes.                             *)
LEMMA ReplyTyped ==
    ASSUME Typed, NEW n \in Nodes, callback[n] # None,
           NEW status \in {"started", "declined"}, Reply(n, status)
    PROVE  /\ serving' \in Serving \cup {None}
           /\ replied' \in [Nodes -> SUBSET [id : Id, status : {"started", "declined"}]]
           /\ callback' \in [Nodes -> Callback \cup {None}]
           /\ callback'[n] = None
           /\ \A p \in Nodes : callback'[p] # None => callback'[p] = callback[p]
<1> USE DEF Typed, Reply
<1>1. PICK ask \in Ask : ask = callback[n].ask BY DEF TypeOK, Callback
<1>2. serving' \in Serving \cup {None}
  <2>1. serving' = [serving EXCEPT !.outcome = status] \/ serving' = serving
    BY DEF Answer
  <2>2. serving' # serving => serving = [ask |-> ask, outcome |-> "waiting"]
    BY <1>1 DEF Answer
  <2>3. CASE serving' = serving BY <2>3 DEF TypeOK
  <2>4. CASE serving' # serving
    <3>1. serving' = [ask |-> ask, outcome |-> status]
      BY <2>1, <2>2, <2>4
    <3> QED BY <3>1 DEF Outcome, Serving
  <2> QED BY <2>3, <2>4
<1>3. [id |-> ask.of.id, status |-> status] \in [id : Id, status : {"started", "declined"}]
  BY DEF Ask, Attempt
<1>4. replied' \in [Nodes -> SUBSET [id : Id, status : {"started", "declined"}]]
  BY <1>1, <1>3 DEF TypeOK
<1>5. callback' = [callback EXCEPT ![n] = None] OBVIOUS
<1>6. callback' \in [Nodes -> Callback \cup {None}]
  BY <1>5 DEF TypeOK
<1>7. callback'[n] = None
      /\ \A p \in Nodes : callback'[p] # None => callback'[p] = callback[p]
  BY <1>5 DEF TypeOK
<1> QED BY <1>2, <1>4, <1>6, <1>7

(* PeerLock keeps the types.                                               *)
LEMMA PeerLockTyped ==
    ASSUME Typed, NEW n \in Nodes, PeerLock(n)
    PROVE  Typed'
<1> USE HandoffAssumption DEF Typed, network, coordinator, claimant, peerSide, world,
            PeerLock
<1>1. CASE token[n] = "free"
  <2>1. TypeOK' BY <1>1, SMTT(30) DEF Callback, GoOn, At, TypeOK, Counted
  <2>2. Counted' BY <1>1, SMTT(30) DEF Callback, GoOn, At, TypeOK, Counted
  <2> QED BY <2>1, <2>2
<1>2. CASE token[n] # "free"
  <2>1. callback[n] # None /\ Reply(n, "declined") /\ UNCHANGED token
    BY <1>2 DEF At, TypeOK
  <2>2. TypeOK'
    BY <2>1, ReplyTyped, SMTT(30) DEF TypeOK, Counted
  <2>3. Counted'
    BY <2>1, ReplyTyped, SMTT(30) DEF Counted
  <2> QED BY <2>2, <2>3
<1> QED BY <1>1, <1>2

(* PeerLook keeps the types.                                               *)
LEMMA PeerLookTyped ==
    ASSUME Typed, NEW n \in Nodes, PeerLook(n)
    PROVE  Typed'
<1> USE HandoffAssumption DEF Typed, network, coordinator, claimant, peerSide, world,
            PeerLook
<1>1. CASE Reply(n, "declined") /\ token' = [token EXCEPT ![n] = "free"]
  <2>1. callback[n] # None /\ Reply(n, "declined") /\ token' = [token EXCEPT ![n] = "free"]
      /\ token[n] = "release"
    BY <1>1 DEF At, Counted
  <2>2. TypeOK'
    BY <2>1, ReplyTyped, SMTT(30) DEF TypeOK, Counted
  <2>3. Counted'
    BY <2>1, ReplyTyped, SMTT(30) DEF Counted
  <2> QED BY <2>2, <2>3
<1>2. CASE Reply(n, "started") /\ token' = [token EXCEPT ![n] = "free"]
  <2>1. callback[n] # None /\ Reply(n, "started") /\ token' = [token EXCEPT ![n] = "free"]
      /\ token[n] = "release"
    BY <1>2 DEF At, Counted
  <2>2. TypeOK'
    BY <2>1, ReplyTyped, SMTT(30) DEF TypeOK, Counted
  <2>3. Counted'
    BY <2>1, ReplyTyped, SMTT(30) DEF Counted
  <2> QED BY <2>2, <2>3
<1>3. CASE GoOn(n, "unpair") /\ UNCHANGED token
  <2>1. TypeOK' BY <1>3, SMTT(30) DEF Callback, GoOn, At, TypeOK, Counted
  <2>2. Counted' BY <1>3, SMTT(30) DEF GoOn, At, TypeOK, Counted
  <2> QED BY <2>1, <2>2
<1> QED BY <1>1, <1>2, <1>3

(* PeerUnpair keeps the types.                                             *)
LEMMA PeerUnpairTyped ==
    ASSUME Typed, NEW n \in Nodes, PeerUnpair(n)
    PROVE  Typed'
<1> USE HandoffAssumption DEF Typed, network, coordinator, claimant, peerSide, world,
            PeerUnpair
<1>1. CASE Reply(n, "started") /\ UNCHANGED token
  <2>1. callback[n] # None /\ Reply(n, "started") /\ UNCHANGED token
      /\ token[n] = "release"
    BY <1>1 DEF At, Counted
  <2>2. TypeOK'
    BY <2>1, ReplyTyped, SMTT(30) DEF TypeOK, Counted
  <2>3. Counted'
    BY <2>1, ReplyTyped, SMTT(30) DEF Counted
  <2> QED BY <2>2, <2>3
<1>2. CASE Reply(n, "declined") /\ token' = [token EXCEPT ![n] = "free"]
  <2>1. callback[n] # None /\ Reply(n, "declined") /\ token' = [token EXCEPT ![n] = "free"]
      /\ token[n] = "release"
    BY <1>2 DEF At, Counted
  <2>2. TypeOK'
    BY <2>1, ReplyTyped, SMTT(30) DEF TypeOK, Counted
  <2>3. Counted'
    BY <2>1, ReplyTyped, SMTT(30) DEF Counted
  <2> QED BY <2>2, <2>3
<1> QED BY <1>1, <1>2

(* FinishRelease keeps the types.                                          *)
LEMMA FinishReleaseTyped ==
    ASSUME Typed, NEW n \in Nodes, FinishRelease(n)
    PROVE  Typed'
<1> USE HandoffAssumption DEF Typed, Outcome, Serving, Callback, Ask, Attempt,
            FinishRelease, At, vars, coordinator, network, claimant,
            peerSide, world, Id
<1>1. TypeOK' BY SMTT(30) DEF TypeOK, Counted
<1>2. Counted' BY SMTT(30) DEF TypeOK, Counted
<1> QED BY <1>1, <1>2

(* DeliverAsk keeps the types.                                             *)
LEMMA DeliverAskTyped ==
    ASSUME Typed, NEW n \in Nodes, NEW ask \in asks, DeliverAsk(n, ask)
    PROVE  Typed'
<1> USE HandoffAssumption DEF Typed, Outcome, Serving, Callback, Ask, Attempt, DeliverAsk,
            Answer, Guarded, vars, coordinator, network, claimant,
            peerSide, world, Id
<1>1. TypeOK' BY SMTT(30) DEF TypeOK, Counted
<1>2. Counted' BY SMTT(30) DEF TypeOK, Counted
<1> QED BY <1>1, <1>2

(* DeadlinePasses keeps the types.                                         *)
LEMMA DeadlinePassesTyped ==
    ASSUME Typed, NEW c \in made, DeadlinePasses(c)
    PROVE  Typed'
<1> USE HandoffAssumption DEF Typed, Outcome, Serving, Callback, Ask, Attempt,
            DeadlinePasses, vars, coordinator, network, claimant,
            peerSide, world, Id
<1>1. TypeOK' BY SMTT(30) DEF TypeOK, Counted
<1>2. Counted' BY SMTT(30) DEF TypeOK, Counted
<1> QED BY <1>1, <1>2

(* ClaimRefused keeps the types.                                           *)
LEMMA ClaimRefusedTyped ==
    ASSUME Typed, NEW m \in claims, ClaimRefused(m)
    PROVE  Typed'
<1> USE HandoffAssumption DEF Typed, Outcome, Serving, Callback, Ask, Attempt,
            ClaimRefused, Receives, Respond, vars, coordinator, network,
            claimant, peerSide, world, Id
<1>1. TypeOK' BY SMTT(30) DEF TypeOK, Counted
<1>2. Counted' BY SMTT(30) DEF TypeOK, Counted
<1> QED BY <1>1, <1>2

(* NoPeer keeps the types.                                                 *)
LEMMA NoPeerTyped ==
    ASSUME Typed, NEW m \in claims, NoPeer(m)
    PROVE  Typed'
<1> USE HandoffAssumption DEF Typed, Outcome, Serving, Callback, Ask, Attempt, NoPeer,
            Receives, Respond, vars, coordinator, network, claimant,
            peerSide, world, Id
<1>1. TypeOK' BY SMTT(30) DEF TypeOK, Counted
<1>2. Counted' BY SMTT(30) DEF TypeOK, Counted
<1> QED BY <1>1, <1>2

(* AskPeer keeps the types.                                                *)
LEMMA AskPeerTyped ==
    ASSUME Typed, NEW m \in claims, NEW p \in Nodes, AskPeer(m, p)
    PROVE  Typed'
<1> USE HandoffAssumption DEF Typed, Outcome, Serving, Callback, Ask, Attempt, AskPeer,
            Receives, Request, Peers, vars, coordinator, network,
            claimant, peerSide, world, Id
<1>1. TypeOK' BY SMTT(30) DEF TypeOK, Counted
<1>2. Counted' BY SMTT(30) DEF TypeOK, Counted
<1> QED BY <1>1, <1>2

(* PeerStarted keeps the types.                                            *)
LEMMA PeerStartedTyped ==
    ASSUME Typed, PeerStarted
    PROVE  Typed'
<1> USE HandoffAssumption DEF Typed, Outcome, Serving, Callback, Ask, Attempt,
            PeerStarted, ServedWith, Respond, vars, coordinator,
            network, claimant, peerSide, world, Id
<1>1. TypeOK' BY SMTT(30) DEF TypeOK, Counted
<1>2. Counted' BY SMTT(30) DEF TypeOK, Counted
<1> QED BY <1>1, <1>2

(* PeerDeclined keeps the types.                                           *)
LEMMA PeerDeclinedTyped ==
    ASSUME Typed, PeerDeclined
    PROVE  Typed'
<1> USE HandoffAssumption DEF Typed, Outcome, Serving, Callback, Ask, Attempt,
            PeerDeclined, ServedWith, Respond, vars, coordinator,
            network, claimant, peerSide, world, Id
<1>1. TypeOK' BY SMTT(30) DEF TypeOK, Counted
<1>2. Counted' BY SMTT(30) DEF TypeOK, Counted
<1> QED BY <1>1, <1>2

(* AskTimesOut keeps the types.                                            *)
LEMMA AskTimesOutTyped ==
    ASSUME Typed, AskTimesOut
    PROVE  Typed'
<1> USE HandoffAssumption DEF Typed, Outcome, Serving, Callback, Ask, Attempt,
            AskTimesOut, Trouble, vars, coordinator, network, claimant,
            peerSide, world, Id
<1>1. TypeOK' BY SMTT(30) DEF TypeOK, Counted
<1>2. Counted' BY SMTT(30) DEF TypeOK, Counted
<1> QED BY <1>1, <1>2

(* AskLost keeps the types.                                                *)
LEMMA AskLostTyped ==
    ASSUME Typed, AskLost
    PROVE  Typed'
<1> USE HandoffAssumption DEF Typed, Outcome, Serving, Callback, Ask, Attempt, AskLost,
            vars, coordinator, network, claimant, peerSide, world, Id
<1>1. TypeOK' BY SMTT(30) DEF TypeOK, Counted
<1>2. Counted' BY SMTT(30) DEF TypeOK, Counted
<1> QED BY <1>1, <1>2

(* MarkDead keeps the types.                                               *)
LEMMA MarkDeadTyped ==
    ASSUME Typed, MarkDead
    PROVE  Typed'
<1> USE HandoffAssumption DEF Typed, Outcome, Serving, Callback, Ask, Attempt, MarkDead,
            ServedWith, Respond, vars, coordinator, network, claimant,
            peerSide, world, Id
<1>1. TypeOK' BY SMTT(30) DEF TypeOK, Counted
<1>2. Counted' BY SMTT(30) DEF TypeOK, Counted
<1> QED BY <1>1, <1>2

(* Restart keeps the types.                                                *)
LEMMA RestartTyped ==
    ASSUME Typed, Restart
    PROVE  Typed'
<1> USE HandoffAssumption DEF Typed, Outcome, Serving, Callback, Ask, Attempt, Restart,
            Trouble, vars, coordinator, network, claimant, peerSide,
            world, Id
<1>1. TypeOK' BY SMTT(30) DEF TypeOK, Counted
<1>2. Counted' BY SMTT(30) DEF TypeOK, Counted
<1> QED BY <1>1, <1>2

-----------------------------------------------------------------------------
(* The claims that the two properties make an exception for.               *)
Exempt == over \cup orphans

(* Told to proceed, or about to be.                                        *)
Promised(n) == result[n] = "proceed" \/ pc[n] \in {"wait", "acquire"}

(* Being served is the ask that has left the network for a callback.       *)
BeingServed(a) == callback[a.peer] # None /\ callback[a.peer].ask = a

Outstanding(a) == a \in asks \/ BeingServed(a)

(* The lock is with the claim that was promised the device, and no ask for *)
(* it can be declined or acted on any more.                                *)
Promise ==
    \A n \in Nodes :
        Promised(n) /\ id[n] \notin Exempt =>
            /\ lock = id[n] /\ (serving # None => serving.ask.of.id # id[n])
            /\ \A a \in Ask : Outstanding(a) => a.of.id # id[n]

(* The lock is with the claim that the coordinator serves.                 *)
Served == serving # None => serving.ask.of.id \in Exempt \cup {lock}

(* The lock is with every claim whose ask a peer may still act on; it is in*)
(* one place only, and the coordinator has no answer to it.                *)
Pending ==
    \A a \in Ask :
        Outstanding(a) /\ a.of.id \notin Exempt =>
            /\ lock = a.of.id
            /\ serving # None /\ serving.ask.of.id = a.of.id =>
                  serving.ask = a /\ serving.outcome \in {"waiting", "failed"}
            /\ ~(a \in asks /\ BeingServed(a))

Holds == Promise /\ Served /\ Pending

(* A step that leaves lock, asks and exceptions alone and promises nothing *)
(* new keeps them.                                                         *)
LEMMA Aside ==
    ASSUME Holds,
           UNCHANGED <<lock, serving, asks, callback, over, orphans>>,
           \A n \in Nodes : Promised(n)' => Promised(n) /\ id'[n] = id[n]
    PROVE  Holds'
<1>1. Exempt' = Exempt BY DEF Exempt
<1>2. \A a \in Ask : Outstanding(a)' = Outstanding(a) /\ BeingServed(a)' = BeingServed(a)
  BY DEF Outstanding, BeingServed
<1>3. Promise' BY <1>1, <1>2 DEF Holds, Promise
<1>4. Served' BY <1>1 DEF Holds, Served
<1>5. Pending' BY <1>1, <1>2 DEF Holds, Pending
<1> QED BY <1>3, <1>4, <1>5 DEF Holds

(* The steps of a claimant and of connections are such steps.              *)
LEMMA ClaimantAside ==
    ASSUME Typed, Holds, NEW n \in Nodes,
           \/ Register(n) \/ Subscribe(n) \/ SubscribeFails(n)
           \/ StartClaim(n) \/ Retry(n) \/ Claiming(n) \/ FinishRelease(n)
    PROVE  Holds'
<1> USE DEF Typed, network, claimant, coordinator, peerSide, world, Promised
<1> SUFFICES /\ UNCHANGED <<lock, serving, asks, callback, over, orphans>>
             /\ \A p \in Nodes : Promised(p)' => Promised(p) /\ id'[p] = id[p]
  BY Aside
<1>1. CASE Register(n) \/ Subscribe(n) \/ SubscribeFails(n) \/ FinishRelease(n)
  BY <1>1 DEF Register, Subscribe, SubscribeFails, FinishRelease
<1>2. CASE StartClaim(n)
  <2>1. result[n] = "none" BY <1>2 DEF StartClaim, TypeOK, Counted
  <2> QED BY <1>2, <2>1 DEF StartClaim, TypeOK
<1>3. CASE Retry(n) BY <1>3 DEF Retry, Send, TypeOK
<1>4. CASE CheckLocal(n)
  <2>1. result[n] = "none" BY <1>4 DEF CheckLocal, TypeOK, Counted
  <2> QED BY <1>4, <2>1 DEF CheckLocal, Send, End, ClaimOver, TypeOK
<1>5. CASE GiveUp(n) BY <1>5 DEF GiveUp, End, ClaimOver, TypeOK
<1>6. CASE GetResult(n)
  <2>1. UNCHANGED <<lock, serving, asks, callback, over, orphans>>
    BY <1>6 DEF GetResult
  <2>2. result' = [result EXCEPT ![n] = "none"] BY <1>6 DEF GetResult
  <2>3. \/ result[n] = "proceed" /\ Goto(n, "wait")
        \/ Goto(n, "lookAgain") \/ End(n)
    BY <1>6 DEF GetResult, TypeOK
  <2> QED BY <2>1, <2>2, <2>3 DEF Goto, End, ClaimOver, TypeOK
<1>7. CASE LookAgain(n)
  <2>1. result[n] = "none" BY <1>7 DEF LookAgain, TypeOK, Counted
  <2> QED BY <1>7, <2>1 DEF LookAgain, Goto, End, ClaimOver, TypeOK
<1>8. CASE Wait(n)
  <2>1. result[n] = "none" BY <1>8 DEF Wait, TypeOK, Counted
  <2>2. End(n) \/ Goto(n, "acquire") BY <1>8 DEF Wait
  <2>3. pc[n] = "wait" /\ UNCHANGED <<result, lock, serving, asks, callback, over, orphans>>
    BY <1>8 DEF Wait
  <2> QED BY <2>1, <2>2, <2>3 DEF Goto, End, ClaimOver, TypeOK
<1>9. CASE Acquire(n)
  <2>1. result[n] = "none" BY <1>9 DEF Acquire, TypeOK, Counted
  <2> QED BY <1>9, <2>1 DEF Acquire, End, ClaimOver, TypeOK
<1> QED BY <1>1, <1>2, <1>3, <1>4, <1>5, <1>6, <1>7, <1>8, <1>9 DEF Claiming

(* A daemon that dies takes what it was asked and promised with it.        *)
LEMMA DieHolds ==
    ASSUME Typed, Holds, NEW n \in Nodes, Die(n)
    PROVE  Holds'
<1> USE DEF Typed, Die, ClaimOver, coordinator
<1>1. Exempt' = Exempt /\ UNCHANGED <<lock, serving>> BY DEF Exempt
<1>2. \A p \in Nodes : Promised(p)' => Promised(p) /\ id'[p] = id[p]
  BY DEF Promised, TypeOK
<1>3. \A a \in Ask : /\ Outstanding(a)' => Outstanding(a)
                     /\ a \in asks' => a \in asks
                     /\ BeingServed(a)' => BeingServed(a)
  BY DEF Outstanding, BeingServed, TypeOK, Ask
<1>4. Promise' BY <1>1, <1>2, <1>3 DEF Holds, Promise
<1>5. Served' BY <1>1 DEF Holds, Served
<1>6. Pending' BY <1>1, <1>3 DEF Holds, Pending
<1> QED BY <1>4, <1>5, <1>6 DEF Holds

(* The lock of a claim whose deadline passes is no longer spoken of.       *)
LEMMA DeadlineHolds ==
    ASSUME Typed, Holds, NEW c \in made, DeadlinePasses(c)
    PROVE  Holds'
<1> USE DEF DeadlinePasses, network, peerSide
<1>1. Exempt' = Exempt \cup {c} BY DEF Exempt
<1>2. lock # c => lock' = lock OBVIOUS
<1>3. UNCHANGED <<serving, asks, callback, result, pc, id>> OBVIOUS
<1>4. \A n \in Nodes : Promised(n)' = Promised(n) BY <1>3 DEF Promised
<1>5. \A a \in Ask : Outstanding(a)' = Outstanding(a) /\ BeingServed(a)' = BeingServed(a)
  BY <1>3 DEF Outstanding, BeingServed
<1>6. Promise' BY <1>1, <1>2, <1>3, <1>4, <1>5 DEF Holds, Promise
<1>7. Served' BY <1>1, <1>2, <1>3 DEF Holds, Served
<1>8. Pending' BY <1>1, <1>2, <1>3, <1>5 DEF Holds, Pending
<1> QED BY <1>6, <1>7, <1>8 DEF Holds

(* Answers to claims that are not "proceed" promise nothing.               *)
LEMMA RespondPromises ==
    ASSUME Typed, NEW attempt \in Attempt, NEW status \in {"proceed", "no_peer", "refused"},
           Respond(attempt, status), UNCHANGED <<pc, id>>
    PROVE  \A n \in Nodes :
              Promised(n)' => \/ Promised(n)
                              \/ status = "proceed" /\ id[n] = attempt.id
<1> QED BY DEF Typed, TypeOK, Respond, Promised, Attempt, Id

(* The coordinator's exits without an ask.                                 *)
LEMMA RefusalHolds ==
    ASSUME Typed, Holds, NEW m \in claims, ClaimRefused(m) \/ NoPeer(m)
    PROVE  Holds'
<1> USE DEF Typed, ClaimRefused, NoPeer, coordinator, claimant, peerSide, world
<1>1. m \in Attempt BY DEF TypeOK
<1>2. UNCHANGED <<lock, serving, asks, callback, over, orphans, pc, id>> OBVIOUS
<1>3. Respond(m, "refused") \/ Respond(m, "no_peer") OBVIOUS
<1>4. \A n \in Nodes : Promised(n)' => Promised(n) /\ id'[n] = id[n]
  BY <1>1, <1>2, <1>3, RespondPromises
<1> QED BY <1>2, <1>4, Aside

(* While the device is not locked nothing is promised or outstanding.      *)
LEMMA AskPeerHolds ==
    ASSUME Typed, Holds, NEW m \in claims, NEW p \in Nodes, AskPeer(m, p)
    PROVE  Holds'
<1> DEFINE ask == [of |-> m, peer |-> p]
<1> USE DEF Typed, AskPeer, claimant, peerSide, world
<1>1. m \in Attempt /\ m.id \in Id BY DEF TypeOK, Attempt
<1>2. /\ UNCHANGED <<callback, over, orphans, pc, id, result>>
      /\ lock = None /\ lock' = m.id
  OBVIOUS
<1>3. /\ ask \in Ask /\ ask.of = m
      /\ serving' # None => serving'.ask = ask
      /\ \/ asks' = asks /\ serving'.outcome = "failed"
         \/ asks' = asks \cup {ask} /\ serving'.outcome = "waiting"
  <2>1. ask \in Ask /\ ask.of = m /\ ask.peer = p BY <1>1 DEF Ask
  <2>2. Request(ask) OBVIOUS
  <2> HIDE DEF ask
  <2>3. CASE conn[p] = "up"
    <3>1. serving' = [ask |-> ask, outcome |-> "waiting"] /\ asks' = asks \cup {ask}
      BY <2>1, <2>2, <2>3 DEF Request
    <3> QED BY <2>1, <3>1
  <2>4. CASE conn[p] # "up"
    <3>1. serving' = [ask |-> ask, outcome |-> "failed"] /\ asks' = asks
      BY <2>1, <2>2, <2>4 DEF Request
    <3> QED BY <2>1, <3>1
  <2> QED BY <2>3, <2>4
<1>4. Exempt' = Exempt BY <1>2 DEF Exempt
<1> HIDE DEF ask
<1>5. \A n \in Nodes : Promised(n)' = Promised(n) BY <1>2 DEF Promised
<1>6. \A n \in Nodes : Promised(n) => id[n] \in Exempt
  <2> SUFFICES ASSUME NEW n \in Nodes, Promised(n) PROVE id[n] \in Exempt
    OBVIOUS
  <2>1. id[n] # None BY HandoffAssumption DEF Promised, Counted, TypeOK
  <2> QED BY <1>2, <2>1 DEF Holds, Promise
<1>7. \A a \in Ask : Outstanding(a) => a.of.id \in Exempt
  BY <1>2, HandoffAssumption DEF Holds, Pending, Ask, Attempt
<1>8. Promise' BY <1>2, <1>4, <1>5, <1>6 DEF Promise
<1>9. Served' BY <1>2, <1>3 DEF Served
<1>10. \A a \in Ask : /\ Outstanding(a)' => Outstanding(a) \/ a = ask
                      /\ BeingServed(a)' = BeingServed(a)
  BY <1>2, <1>3 DEF Outstanding, BeingServed
<1>11. Pending'
  <2> SUFFICES ASSUME NEW a \in Ask, Outstanding(a)', a.of.id \notin Exempt
               PROVE  /\ lock' = a.of.id
                      /\ serving' # None /\ serving'.ask.of.id = a.of.id =>
                            serving'.ask = a /\ serving'.outcome \in {"waiting", "failed"}
                      /\ ~(a \in asks' /\ BeingServed(a)')
    BY <1>4 DEF Pending
  <2>1. a = ask BY <1>7, <1>10
  <2>2. ~BeingServed(a) BY <1>7 DEF Outstanding
  <2> QED BY <1>2, <1>3, <1>10, <2>1, <2>2
<1> QED BY <1>8, <1>9, <1>11 DEF Holds

(* The end of an ask: after "started" the claim that was served is the one *)
(* that has the lock, and after "declined" nobody acts on the ask.         *)
LEMMA ServedHolds ==
    ASSUME Typed, Holds, PeerStarted \/ PeerDeclined \/ MarkDead
    PROVE  Holds'
<1> USE DEF Typed, PeerStarted, PeerDeclined, MarkDead, ServedWith, claimant,
            peerSide, world
<1> DEFINE claim == serving.ask.of
<1>1. serving # None /\ serving' = None /\ claim \in Attempt
  BY DEF TypeOK, Ask, Serving
<1>2. UNCHANGED <<asks, callback, over, orphans, pc, id>> OBVIOUS
<1>3. /\ lock' # lock => serving.outcome = "declined" /\ lock = claim.id
      /\ Respond(claim, "proceed") \/ Respond(claim, "refused")
  OBVIOUS
<1>4. \A n \in Nodes :
         Promised(n)' => \/ Promised(n)
                         \/ serving.outcome = "started" /\ id[n] = claim.id /\ lock' = lock
  <2>1. CASE PeerStarted
    BY <1>1, <1>2, <2>1, RespondPromises
  <2>2. CASE PeerDeclined \/ MarkDead
    <3>1. Respond(claim, "refused") BY <2>2
    <3>2. \A n \in Nodes : Promised(n)' => Promised(n) \/ ("refused" = "proceed" /\ id[n] = claim.id)
      BY <1>1, <1>2, <3>1, RespondPromises
    <3> QED BY <3>2
  <2> QED BY <2>1, <2>2
<1>5. Exempt' = Exempt BY <1>2 DEF Exempt
<1>6. \A a \in Ask : Outstanding(a)' = Outstanding(a) /\ BeingServed(a)' = BeingServed(a)
  BY <1>2 DEF Outstanding, BeingServed
<1> HIDE DEF claim
<1>7. claim = serving.ask.of BY DEF claim
<1>8. Promise'
  <2> SUFFICES ASSUME NEW n \in Nodes, Promised(n)', id[n] \notin Exempt
               PROVE  lock' = id[n] /\ \A a \in Ask : Outstanding(a) => a.of.id # id[n]
    BY <1>1, <1>2, <1>5, <1>6 DEF Promise
  <2>1. CASE Promised(n) BY <1>1, <1>3, <1>7, <2>1 DEF Holds, Promise
  <2>2. CASE ~Promised(n) /\ serving.outcome = "started" /\ id[n] = claim.id /\ lock' = lock
    BY <1>1, <1>7, <2>2 DEF Holds, Served, Pending
  <2> QED BY <1>4, <2>1, <2>2
<1>9. Served' BY <1>1 DEF Served
<1>10. Pending'
  <2> SUFFICES ASSUME NEW a \in Ask, Outstanding(a), a.of.id \notin Exempt
               PROVE  lock' = a.of.id /\ ~(a \in asks /\ BeingServed(a))
    BY <1>1, <1>2, <1>5, <1>6 DEF Pending
  <2>1. lock = a.of.id /\ ~(a \in asks /\ BeingServed(a))
    BY DEF Holds, Pending
  <2>2. lock' = lock
    BY <1>1, <1>3, <1>7, <2>1 DEF Holds, Pending
  <2> QED BY <2>1, <2>2
<1> QED BY <1>8, <1>9, <1>10 DEF Holds

(* A wait that ends without an answer changes only its outcome.            *)
LEMMA FailedHolds ==
    ASSUME Typed, Holds, AskTimesOut \/ AskLost
    PROVE  Holds'
<1> USE DEF Typed, AskTimesOut, AskLost, network, claimant, peerSide, world
<1>1. UNCHANGED <<lock, asks, callback, over, orphans, pc, id, result>> OBVIOUS
<1>2. serving # None /\ serving'.ask = serving.ask /\ serving'.outcome = "failed"
  <2>1. serving # None /\ serving' = [serving EXCEPT !.outcome = "failed"] OBVIOUS
  <2>2. serving \in Serving BY <2>1 DEF TypeOK
  <2> QED BY <2>1, <2>2
<1>3. Exempt' = Exempt BY <1>1 DEF Exempt
<1>4. \A n \in Nodes : Promised(n)' = Promised(n) BY <1>1 DEF Promised
<1>5. \A a \in Ask : Outstanding(a)' = Outstanding(a) /\ BeingServed(a)' = BeingServed(a)
  BY <1>1 DEF Outstanding, BeingServed
<1>6. Promise' BY <1>1, <1>2, <1>3, <1>4, <1>5 DEF Holds, Promise
<1>7. Served' BY <1>1, <1>2, <1>3 DEF Holds, Served
<1>8. Pending' BY <1>1, <1>2, <1>3, <1>5 DEF Holds, Pending
<1> QED BY <1>6, <1>7, <1>8 DEF Holds

(* A restart loses the lock, and makes its claim an exception.             *)
LEMMA RestartHolds ==
    ASSUME Typed, Holds, Restart
    PROVE  Holds'
<1> USE DEF Typed, Restart, network, claimant, peerSide
<1>1. UNCHANGED <<asks, callback, over, pc, id, result>> /\ serving' = None
  OBVIOUS
<1>2. Exempt' = Exempt \cup ({lock} \ {None}) BY DEF Exempt
<1>3. \A n \in Nodes : Promised(n)' = Promised(n) BY <1>1 DEF Promised
<1>4. \A a \in Ask : Outstanding(a)' = Outstanding(a) BY <1>1 DEF Outstanding, BeingServed
<1>5. \A n \in Nodes : Promised(n) => id[n] # None
  BY HandoffAssumption DEF Promised, Counted, TypeOK
<1>6. \A a \in Ask : a.of.id # None BY HandoffAssumption DEF Ask, Attempt
<1>7. Promise' BY <1>1, <1>2, <1>3, <1>4, <1>5 DEF Holds, Promise
<1>8. Served' BY <1>1 DEF Served
<1>9. Pending' BY <1>2, <1>4, <1>6 DEF Holds, Pending
<1> QED BY <1>7, <1>8, <1>9 DEF Holds

-----------------------------------------------------------------------------
(* An answer reaches the coordinator only if it waits for that very ask.   *)
LEMMA Answered ==
    ASSUME Typed, NEW ask \in Ask, NEW status \in {"started", "declined"},
           Answer(ask, status)
    PROVE  \/ serving' = serving
           \/ /\ serving # None /\ serving.ask = ask
              /\ serving'.ask = ask
<1>1. CASE serving = [ask |-> ask, outcome |-> "waiting"]
  <2> serving # None BY <1>1, HandoffAssumption DEF Outcome, Serving
  <2>1. serving' = [ask |-> ask, outcome |-> status] BY <1>1 DEF Answer
  <2> QED BY <1>1, <2>1
<1>2. CASE serving # [ask |-> ask, outcome |-> "waiting"] BY <1>2 DEF Answer
<1> QED BY <1>1, <1>2

(* An answer to an ask that is then nowhere any more, or that goes on from *)
(* the network to a callback.                                              *)
LEMMA AskMoves ==
    ASSUME Typed, Holds, NEW ask \in Ask, Outstanding(ask),
           UNCHANGED <<lock, over, orphans, pc, id, result>>,
           \/ serving' = serving
           \/ /\ serving # None /\ serving.ask = ask
              /\ serving'.ask = ask
              /\ Outstanding(ask)' => ask.of.id \in Exempt,
           \A a \in Ask : Outstanding(a)' => Outstanding(a),
           \A a \in Ask : (a \in asks' /\ BeingServed(a)') => (a \in asks /\ BeingServed(a))
    PROVE  Holds'
<1>1. Exempt' = Exempt BY DEF Exempt
<1>2. \A n \in Nodes : Promised(n)' = Promised(n) BY DEF Promised
<1>3. Promise' BY <1>1, <1>2 DEF Holds, Promise
<1>4. Served' BY <1>1 DEF Holds, Served
<1>5. Pending' BY <1>1 DEF Holds, Pending
<1> QED BY <1>3, <1>4, <1>5 DEF Holds

(* The ask is taken from the network, and answered or kept.                *)
LEMMA DeliverHolds ==
    ASSUME Typed, Holds, NEW p \in Nodes, NEW ask \in asks, DeliverAsk(p, ask)
    PROVE  Holds'
<1> USE DEF Typed, DeliverAsk, claimant, world
<1>1. ask \in Ask /\ ask.peer = p /\ Outstanding(ask) /\ callback[p] = None
  BY DEF TypeOK, Outstanding
<1>2. asks' = asks \ {ask} /\ UNCHANGED <<lock, over, orphans, pc, id, result>>
  OBVIOUS
<1>3. ~BeingServed(ask) BY <1>1 DEF BeingServed
<1>4. CASE /\ UNCHANGED callback
           /\ \E status \in {"started", "declined"} : Answer(ask, status)
  <2>1. \E status \in {"started", "declined"} : Answer(ask, status)
    BY <1>4
  <2>2. \A a \in Ask : BeingServed(a)' = BeingServed(a) BY <1>4 DEF BeingServed
  <2>3. ~Outstanding(ask)' BY <1>1, <1>2, <1>3, <2>2 DEF Outstanding
  <2>4. \A a \in Ask : Outstanding(a)' => Outstanding(a) BY <1>2, <2>2 DEF Outstanding
  <2> QED BY <1>1, <1>2, <2>1, <2>2, <2>3, <2>4, Answered, AskMoves
<1>5. CASE UNCHANGED serving /\ callback' = [callback EXCEPT ![p] = [ask |-> ask, at |-> "lock"]]
  <2>1. \A a \in Ask : BeingServed(a)' => BeingServed(a) \/ a = ask
    BY <1>1, <1>5 DEF BeingServed, TypeOK, Ask
  <2>2. \A a \in Ask : Outstanding(a)' => Outstanding(a)
    BY <1>1, <1>2, <2>1 DEF Outstanding
  <2>3. \A a \in Ask : (a \in asks' /\ BeingServed(a)') => (a \in asks /\ BeingServed(a))
    BY <1>2, <2>1
  <2> QED BY <1>1, <1>2, <1>5, <2>2, <2>3, AskMoves
<1>6. DEFINE replay == {r \in replied[p] : r.id = ask.of.id}
<1>7. \/ \E r \in replay : Answer(ask, r.status) /\ UNCHANGED callback
      \/ Answer(ask, "declined") /\ UNCHANGED callback
      \/ /\ callback' = [callback EXCEPT ![p] = [ask |-> ask, at |-> "lock"]]
         /\ UNCHANGED serving
  OBVIOUS
<1>8. \A r \in replay : r.status \in {"started", "declined"} BY DEF TypeOK
<1> QED BY <1>4, <1>5, <1>7, <1>8

(* A callback goes on, or ends with its reply.                             *)
LEMMA ReleasingHolds ==
    ASSUME Typed, Holds, NEW p \in Nodes, PeerLock(p) \/ PeerLook(p) \/ PeerUnpair(p)
    PROVE  Holds'
<1> USE DEF Typed, PeerLock, PeerLook, PeerUnpair, network, claimant, world
<1>1. callback[p] # None /\ UNCHANGED <<lock, over, orphans, pc, id, result, asks>>
  BY DEF At
<1>2. PICK ask \in Ask : ask = callback[p].ask /\ ask.peer = p
  BY <1>1 DEF TypeOK, Callback, Counted
<1>3. BeingServed(ask) /\ Outstanding(ask)
  BY <1>1, <1>2 DEF BeingServed, Outstanding
<1>4. CASE \E place \in {"look", "unpair"} : GoOn(p, place)
  <2>1. UNCHANGED serving BY <1>4 DEF GoOn
  <2>2. PICK place \in {"look", "unpair"} : callback' = [callback EXCEPT ![p].at = place]
    BY <1>4 DEF GoOn
  <2>3. callback[p] \in Callback BY <1>1 DEF TypeOK
  <2>4. callback'[p].ask = ask BY <1>2, <2>2, <2>3 DEF TypeOK, Callback
  <2>5. \A a \in Ask : BeingServed(a)' => BeingServed(a)
    BY <1>2, <1>3, <2>2, <2>4 DEF BeingServed, Ask, TypeOK
  <2> QED BY <1>1, <1>3, <2>1, <2>5, AskMoves DEF Outstanding
<1>5. CASE \E status \in {"started", "declined"} : Reply(p, status)
  <2>1. PICK status \in {"started", "declined"} : Reply(p, status) BY <1>5
  <2>2. Answer(ask, status) /\ callback' = [callback EXCEPT ![p] = None]
    BY <1>2, <2>1 DEF Reply
  <2>3. \A a \in Ask : BeingServed(a)' => BeingServed(a) /\ a # ask
    BY <1>2, <2>2 DEF BeingServed, TypeOK, Ask
  <2>4. ask.of.id \notin Exempt => ask \notin asks
    BY <1>2, <1>3 DEF Holds, Pending
  <2> QED BY <1>1, <1>2, <1>3, <2>2, <2>3, <2>4, Answered, AskMoves DEF Outstanding
<1> QED BY <1>4, <1>5

-----------------------------------------------------------------------------
(* At first nothing is locked, asked or promised.                          *)
LEMMA HoldsInit ==
    ASSUME Init
    PROVE  Holds
<1>1. lock = None /\ serving = None /\ asks = {} BY DEF Init
<1>2. \A n \in Nodes : ~Promised(n) BY DEF Init, Promised
<1>3. \A a \in Ask : ~Outstanding(a) BY DEF Init, Outstanding, BeingServed, Ask
<1> QED BY <1>1, <1>2, <1>3 DEF Holds, Promise, Served, Pending

(* Every step keeps the types.                                             *)
LEMMA TypedStep ==
    ASSUME Typed, [Next]_vars
    PROVE  Typed'
<1>1. CASE UNCHANGED vars
  BY <1>1 DEF vars, coordinator, network, claimant, peerSide, world,
              Typed, TypeOK, Counted
<1>2. CASE \E n \in Nodes : \/ Register(n) \/ Subscribe(n) \/ SubscribeFails(n)
                            \/ Die(n) \/ StartClaim(n) \/ Retry(n)
  BY <1>2, RegisterTyped, SubscribeTyped, SubscribeFailsTyped, DieTyped, StartClaimTyped, RetryTyped
<1>3. CASE \E n \in Nodes : Claiming(n)
  BY <1>3, CheckLocalTyped, GiveUpTyped, GetResultTyped, LookAgainTyped, WaitTyped, AcquireTyped
     DEF Claiming
<1>4. CASE \E n \in Nodes : Releasing(n) \/ \E ask \in asks : DeliverAsk(n, ask)
  BY <1>4, PeerLockTyped, PeerLookTyped, PeerUnpairTyped, FinishReleaseTyped, DeliverAskTyped
     DEF Releasing
<1>5. CASE \E claim \in made : DeadlinePasses(claim)
  BY <1>5, DeadlinePassesTyped
<1>6. CASE \E m \in claims : \/ ClaimRefused(m) \/ NoPeer(m)
                             \/ \E p \in Nodes : AskPeer(m, p)
  BY <1>6, ClaimRefusedTyped, NoPeerTyped, AskPeerTyped
<1>7. CASE \/ PeerStarted \/ PeerDeclined
           \/ AskTimesOut \/ AskLost \/ MarkDead \/ Restart
  BY <1>7, PeerStartedTyped, PeerDeclinedTyped, AskTimesOutTyped, AskLostTyped, MarkDeadTyped,
     RestartTyped
<1> QED BY <1>1, <1>2, <1>3, <1>4, <1>5, <1>6, <1>7 DEF Next

(* Every step keeps what is said of the lock.                              *)
LEMMA HoldsStep ==
    ASSUME Typed, Holds, [Next]_vars
    PROVE  Holds'
<1>1. CASE UNCHANGED vars
  BY <1>1, Aside DEF vars, coordinator, network, claimant, peerSide, world, Promised
<1>2. CASE \E n \in Nodes : \/ Register(n) \/ Subscribe(n) \/ SubscribeFails(n)
                            \/ StartClaim(n) \/ Retry(n) \/ Claiming(n)
                            \/ FinishRelease(n)
  BY <1>2, ClaimantAside
<1>3. CASE \E n \in Nodes : Die(n) BY <1>3, DieHolds
<1>4. CASE \E n \in Nodes : \/ PeerLock(n) \/ PeerLook(n) \/ PeerUnpair(n)
                            \/ \E ask \in asks : DeliverAsk(n, ask)
  BY <1>4, ReleasingHolds, DeliverHolds
<1>5. CASE \E claim \in made : DeadlinePasses(claim)
  BY <1>5, DeadlineHolds
<1>6. CASE \E m \in claims : \/ ClaimRefused(m) \/ NoPeer(m)
                             \/ \E p \in Nodes : AskPeer(m, p)
  BY <1>6, RefusalHolds, AskPeerHolds
<1>7. CASE \/ PeerStarted \/ PeerDeclined
           \/ AskTimesOut \/ AskLost \/ MarkDead \/ Restart
  BY <1>7, ServedHolds, FailedHolds, RestartHolds
<1> QED BY <1>1, <1>2, <1>3, <1>4, <1>5, <1>6, <1>7 DEF Next, Releasing

(* The lock stays with the claim that was promised the device, with the one*)
(* being served and with those whose ask may still be acted on, in every   *)
(* reachable state.                                                        *)
THEOREM HandoffReachable == Spec => [](Typed /\ Holds)
<1>1. Init => Typed /\ Holds BY TypedInit, HoldsInit
<1>2. Typed /\ Holds /\ [Next]_vars => (Typed /\ Holds)'
  BY TypedStep, HoldsStep
<1> QED BY <1>1, <1>2, PTL DEF Spec

(* Every variable of the handoff keeps its type, and exactly the Macs with *)
(* a claim in progress have given their device lock to it.                 *)
THEOREM HandoffTypes == Spec => []TypeOK
<1>1. Typed => TypeOK BY DEF Typed
<1> QED BY <1>1, HandoffReachable, PTL

(* No two claims that were promised the device are on the way to it, for   *)
(* any number of Macs, retries, late answers, deaths and restarts: both    *)
(* would be the claim that has the lock.                                   *)
THEOREM HandoffOneAcquirer == Spec => []OneAcquirer
<1>1. Typed /\ Holds => OneAcquirer
  <2> SUFFICES ASSUME Typed, Holds, NEW m \in Nodes, NEW n \in Nodes,
                      {pc[m], pc[n]} \subseteq {"wait", "acquire"},
                      {id[m], id[n]} \cap (over \cup orphans) = {}
               PROVE  m = n
    BY DEF OneAcquirer
  <2>1. /\ Promised(m) /\ id[m] \notin Exempt
        /\ Promised(n) /\ id[n] \notin Exempt
    BY DEF Promised, Exempt
  <2>2. id[m] = id[n] BY <2>1 DEF Holds, Promise
  <2>3. id[m].node = m /\ id[n].node = n BY DEF Typed, Counted
  <2> QED BY <2>2, <2>3
<1> QED BY <1>1, HandoffReachable, PTL

(* No Mac gives the device away but for the claim that has the lock, or one*)
(* whose deadline has passed or whose lock a restart lost.                 *)
THEOREM HandoffReleaseHasLock == Spec => ReleaseHasLock
<1>1. Typed /\ Holds /\ [Next]_vars =>
        [\A p \in Nodes : PeerUnpair(p) /\ linked' # linked =>
            callback[p].ask.of.id \in over \cup orphans \cup {lock}]_vars
  <2> SUFFICES ASSUME Typed, Holds, NEW p \in Nodes, PeerUnpair(p)
               PROVE  callback[p].ask.of.id \in over \cup orphans \cup {lock}
    OBVIOUS
  <2>1. callback[p] # None BY DEF PeerUnpair, At
  <2>2. PICK ask \in Ask : ask = callback[p].ask /\ ask.peer = p
    BY <2>1 DEF Typed, TypeOK, Counted, Callback
  <2>3. Outstanding(ask) BY <2>1, <2>2 DEF Outstanding, BeingServed
  <2> QED BY <2>2, <2>3 DEF Holds, Pending, Exempt
<1> QED BY <1>1, HandoffReachable, PTL DEF Spec, ReleaseHasLock

(* While a claim that was promised the device is on its way to it, no Mac  *)
(* gives the device away, to that claim or another: the release it waited  *)
(* for is done with and no other is outstanding, unless a deadline has     *)
(* passed or a restart lost a lock.                                        *)
NotTakenBack ==
    [][\A p, n \in Nodes :
          PeerUnpair(p) /\ linked' # linked /\ pc[n] \in {"wait", "acquire"} =>
             {id[n], callback[p].ask.of.id} \cap (over \cup orphans) # {}]_vars

(* No late, repeated or delayed ask takes the device away from the Mac that*)
(* was told that it is released, for any number of Macs, retries and       *)
(* troubles: an ask that a peer may act on has the lock, and so has the    *)
(* claim that was promised the device, whose own asks are all answered.    *)
THEOREM HandoffNotTakenBack == Spec => NotTakenBack
<1>1. Typed /\ Holds /\ [Next]_vars =>
        [\A p, n \in Nodes :
            PeerUnpair(p) /\ linked' # linked /\ pc[n] \in {"wait", "acquire"} =>
               {id[n], callback[p].ask.of.id} \cap (over \cup orphans) # {}]_vars
  <2> SUFFICES ASSUME Typed, Holds, NEW p \in Nodes, NEW n \in Nodes, PeerUnpair(p),
                      pc[n] \in {"wait", "acquire"},
                      id[n] \notin Exempt, callback[p].ask.of.id \notin Exempt
               PROVE  FALSE
    BY DEF Exempt
  <2>1. callback[p] # None BY DEF PeerUnpair, At
  <2>2. PICK ask \in Ask : ask = callback[p].ask /\ ask.peer = p
    BY <2>1 DEF Typed, TypeOK, Counted, Callback
  <2>3. Outstanding(ask) BY <2>1, <2>2 DEF Outstanding, BeingServed
  <2>4. lock = ask.of.id BY <2>2, <2>3 DEF Holds, Pending
  <2>5. Promised(n) BY DEF Promised
  <2>6. lock = id[n] /\ ask.of.id # id[n] BY <2>3, <2>5 DEF Holds, Promise
  <2> QED BY <2>4, <2>6
<1> QED BY <1>1, HandoffReachable, PTL DEF Spec, NotTakenBack

(* A Mac whose own claim is in progress acts on no release: the callback   *)
(* has the lock of the device, or still has to ask for it.                 *)
THEOREM HandoffNeverBoth ==
    Spec => [](\A p \in Nodes :
                  callback[p] # None /\ callback[p].at # "lock" => pc[p] = "idle")
<1>1. Typed => \A p \in Nodes :
                  callback[p] # None /\ callback[p].at # "lock" => pc[p] = "idle"
  BY DEF Typed, TypeOK, Counted
<1> QED BY <1>1, HandoffReachable, PTL
=============================================================================

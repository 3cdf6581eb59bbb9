---------------------------- MODULE ReleaseLease ----------------------------
(***************************************************************************)
(* What the coordinator promises about handing a peripheral over.          *)
(*                                                                         *)
(* Each device has one lease.  A request is granted the lease of its       *)
(* device for the rest of its budget, and only while nobody has it.  The   *)
(* lease is first open: the peer that owns the device is being asked.      *)
(* It is then either given up, because the peer declined, or settled, and  *)
(* a settled lease ends only when its time is up: neither the answer to    *)
(* the claim nor anything a later claim does takes it away or shortens it. *)
(***************************************************************************)
EXTENDS Integers

CONSTANTS Device,     \* the peripherals
          Request,    \* the ids of claims
          None        \* no request; not a member of Request

VARIABLE lease        \* per device: who may act on a release, and how long

Free == [holder |-> None, ttl |-> 0, open |-> FALSE]

Lease == [holder : Request \union {None}, ttl : Nat, open : BOOLEAN]

LeaseTypeOK == lease \in [Device -> Lease]

Init == lease = [d \in Device |-> Free]

(***************************************************************************)
(* Nobody has the lease of d: the request r gets it for some time.         *)
(***************************************************************************)
Grant(d, r) ==
    LET t == lease'[d].ttl IN
    /\ lease[d] = Free
    /\ lease' = [lease EXCEPT ![d] = [holder |-> r, ttl |-> t, open |-> TRUE]]
    /\ t \in Nat \ {0}

(***************************************************************************)
(* The peer refused: the device is free for the next request at once.      *)
(***************************************************************************)
GiveUp(d) ==
    /\ lease[d].open
    /\ lease' = [lease EXCEPT ![d] = Free]

(***************************************************************************)
(* The peer started the release, or may have: the lease now runs its time. *)
(***************************************************************************)
Settle(d) ==
    /\ lease[d].open
    /\ lease' = [lease EXCEPT ![d].open = FALSE]

(***************************************************************************)
(* One unit of time passes for every lease.                                *)
(***************************************************************************)
Aged(l) == IF l.ttl > 1 THEN [l EXCEPT !.ttl = @ - 1] ELSE Free

Elapse == lease' = [d \in Device |-> Aged(lease[d])]

Next ==
    \/ \E d \in Device, r \in Request : Grant(d, r)
    \/ \E d \in Device : GiveUp(d) \/ Settle(d)
    \/ Elapse

Spec == Init /\ [][Next]_lease
=============================================================================

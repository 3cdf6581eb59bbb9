------------------------------ MODULE StateLog ------------------------------
(***************************************************************************)
(* The state log and the daemon processes that start on it, serve claims   *)
(* and die.  A start reads the log, closes every claim that an earlier     *)
(* process left open, opens the log, and only then takes the lock that     *)
(* keeps a second daemon out.                                              *)
(*                                                                         *)
(* The log is a sequence of lines.  A write may fail having put down only  *)
(* a part of its line; what is appended next then continues that line, and *)
(* a line that is made of two cannot be read.                              *)
(***************************************************************************)
EXTENDS Integers, Sequences, FiniteSets

CONSTANTS
    Proc,           \* the daemon processes
    Request,        \* the request ids of claims; each is used once
    NoProc,         \* nobody has the daemon lock
    TornWrites      \* whether a write may be cut short

ASSUME LogAssumption == NoProc \notin Proc /\ TornWrites \in BOOLEAN

VARIABLES
    file,       \* the complete lines of state.jsonl
    torn,       \* whether a part of a line follows them
    proc,       \* where each process is
    todo,       \* the claims TerminalizeOpen has still to close
    open,       \* the claims a process is carrying out
    lost,       \* the claims of a process that an append failed for
    holder,     \* who has the daemon lock
    met         \* history: two processes were up at once

vars == <<file, torn, proc, todo, open, lost, holder, met>>

Accepted(r) == [event |-> "accepted", id |-> r]
Final(r) == [event |-> "final_result", id |-> r]
Garbled == [event |-> "garbled"]

Line == {Accepted(r) : r \in Request} \union {Final(r) : r \in Request} \union {Garbled}

TypeOK ==
    /\ file \in Seq(Line)
    /\ torn \in BOOLEAN
    /\ proc \in [Proc -> {"down", "scan", "terminalize", "lock", "serving"}]
    /\ todo \in [Proc -> SUBSET Request]
    /\ open \in [Proc -> SUBSET Request]
    /\ lost \in [Proc -> SUBSET Request]
    /\ holder \in Proc \union {NoProc}
    /\ met \in BOOLEAN
    /\ \A p \in Proc : holder = p <=> proc[p] = "serving"

Init ==
    /\ file = <<>>
    /\ torn = FALSE
    /\ proc = [p \in Proc |-> "down"]
    /\ todo = [p \in Proc |-> {}]
    /\ open = [p \in Proc |-> {}]
    /\ lost = [p \in Proc |-> {}]
    /\ holder = NoProc
    /\ met = FALSE

Lines == {file[i] : i \in 1..Len(file)}

AcceptedIds == {r \in Request : Accepted(r) \in Lines}
FinalIds == {r \in Request : Final(r) \in Lines}

-----------------------------------------------------------------------------
(* Append: one write and one sync.  It succeeds, or fails with nothing, a  *)
(* part of the line, or the whole line in the file.                        *)

Written(line) ==
    /\ file' = Append(file, IF torn THEN Garbled ELSE line)
    /\ torn' = FALSE

CutShort == TornWrites /\ torn' = TRUE /\ UNCHANGED file

AppendFails(line) == Written(line) \/ CutShort \/ UNCHANGED <<file, torn>>

-----------------------------------------------------------------------------
(* The start of a daemon *)

Start(p) ==
    /\ proc[p] = "down"
    /\ proc' = [proc EXCEPT ![p] = "scan"]
    /\ met' = (met \/ \E other \in Proc : proc[other] # "down")
    /\ UNCHANGED <<file, torn, todo, open, lost, holder>>

Readable == ~ torn /\ Garbled \notin Lines

(* A line that cannot be read ends the start. *)
ScanFails(p) ==
    /\ proc[p] = "scan"
    /\ ~ Readable
    /\ proc' = [proc EXCEPT ![p] = "down"]
    /\ UNCHANGED <<file, torn, todo, open, lost, holder, met>>

LeftOpen == AcceptedIds \ FinalIds

(* variant: results in the log are not looked for *)
Scan_AllAccepted(p) ==
    /\ proc[p] = "scan"
    /\ Readable
    /\ todo' = [todo EXCEPT ![p] = AcceptedIds]
    /\ proc' = [proc EXCEPT ![p] = "terminalize"]
    /\ UNCHANGED <<file, torn, open, lost, holder, met>>

Scan(p) ==
    /\ proc[p] = "scan"
    /\ Readable
    /\ todo' = [todo EXCEPT ![p] = LeftOpen]
    /\ proc' = [proc EXCEPT ![p] = "terminalize"]
    /\ UNCHANGED <<file, torn, open, lost, holder, met>>

(* The claims are closed in no particular order. *)
Terminalize(p, r) ==
    /\ proc[p] = "terminalize"
    /\ r \in todo[p]
    /\ Written(Final(r))
    /\ todo' = [todo EXCEPT ![p] = @ \ {r}]
    /\ UNCHANGED <<proc, open, lost, holder, met>>

TerminalizeFails(p, r) ==
    /\ proc[p] = "terminalize"
    /\ r \in todo[p]
    /\ AppendFails(Final(r))
    /\ todo' = [todo EXCEPT ![p] = {}]
    /\ proc' = [proc EXCEPT ![p] = "down"]
    /\ UNCHANGED <<open, lost, holder, met>>

(* variant: the start goes on before all claims are closed *)
OpenStore_Early(p) ==
    /\ proc[p] = "terminalize"
    /\ todo' = [todo EXCEPT ![p] = {}]
    /\ proc' = [proc EXCEPT ![p] = "lock"]
    /\ UNCHANGED <<file, torn, open, lost, holder, met>>

OpenStore(p) ==
    /\ proc[p] = "terminalize"
    /\ todo[p] = {}
    /\ proc' = [proc EXCEPT ![p] = "lock"]
    /\ UNCHANGED <<file, torn, todo, open, lost, holder, met>>

AcquireDaemonLock(p) ==
    /\ proc[p] = "lock"
    /\ holder = NoProc
    /\ holder' = p
    /\ proc' = [proc EXCEPT ![p] = "serving"]
    /\ UNCHANGED <<file, torn, todo, open, lost, met>>

(* variant: the daemon serves without the lock *)
DaemonLockRefused_Serves(p) ==
    /\ proc[p] = "lock"
    /\ holder # NoProc
    /\ proc' = [proc EXCEPT ![p] = "serving"]
    /\ UNCHANGED <<file, torn, todo, open, lost, holder, met>>

DaemonLockRefused(p) ==
    /\ proc[p] = "lock"
    /\ holder # NoProc
    /\ proc' = [proc EXCEPT ![p] = "down"]
    /\ UNCHANGED <<file, torn, todo, open, lost, holder, met>>

-----------------------------------------------------------------------------
(* Claims *)

Fresh(r) ==
    /\ r \notin AcceptedIds \union FinalIds
    /\ \A p \in Proc : r \notin open[p] \union lost[p]

(* variant: the claim is carried out although it could not be logged *)
AcceptClaim_Regardless(p, r) ==
    /\ proc[p] = "serving"
    /\ Fresh(r)
    /\ AppendFails(Accepted(r))
    /\ open' = [open EXCEPT ![p] = @ \union {r}]
    /\ UNCHANGED <<lost, proc, todo, holder, met>>

AcceptClaim(p, r) ==
    /\ proc[p] = "serving"
    /\ Fresh(r)
    /\ \/ /\ Written(Accepted(r))
          /\ open' = [open EXCEPT ![p] = @ \union {r}]
          /\ UNCHANGED lost
       \/ /\ AppendFails(Accepted(r))
          /\ lost' = [lost EXCEPT ![p] = @ \union {r}]
          /\ UNCHANGED open
    /\ UNCHANGED <<proc, todo, holder, met>>

(* The result is logged once; an append that failed is not tried again. *)
FinishClaim(p, r) ==
    /\ proc[p] = "serving"
    /\ r \in open[p]
    /\ open' = [open EXCEPT ![p] = @ \ {r}]
    /\ \/ Written(Final(r)) /\ UNCHANGED lost
       \/ /\ AppendFails(Final(r))
          /\ lost' = [lost EXCEPT ![p] = @ \union {r}]
    /\ UNCHANGED <<proc, todo, holder, met>>

(***************************************************************************)
(* A process is stopped, or dies, without waiting for its claims.  The     *)
(* kernel gives up its daemon lock.  It may have been writing.             *)
(***************************************************************************)
Die(p) ==
    /\ proc[p] # "down"
    /\ proc' = [proc EXCEPT ![p] = "down"]
    /\ todo' = [todo EXCEPT ![p] = {}]
    /\ open' = [open EXCEPT ![p] = {}]
    /\ lost' = [lost EXCEPT ![p] = {}]
    /\ holder' = IF holder = p THEN NoProc ELSE holder
    /\ UNCHANGED met
    /\ \/ UNCHANGED <<file, torn>>
       \/ CutShort /\ proc[p] \in {"terminalize", "serving"}

Next ==
    \E p \in Proc :
        \/ Start(p) \/ ScanFails(p) \/ Scan(p) \/ OpenStore(p)
        \/ AcquireDaemonLock(p) \/ DaemonLockRefused(p) \/ Die(p)
        \/ \E r \in Request : \/ Terminalize(p, r) \/ TerminalizeFails(p, r)
                              \/ AcceptClaim(p, r) \/ FinishClaim(p, r)

Spec == Init /\ [][Next]_vars

-----------------------------------------------------------------------------
(* Safety *)

Alone == ~ met

(***************************************************************************)
(* While a daemon serves, and as long as its log can be read, every claim  *)
(* that is open there is one it is carrying out or one it had an append    *)
(* fail for: nothing that an earlier process left, wherever it died, stays *)
(* open.  (A second daemon may outlive the first and take over its lock    *)
(* with a scan from before; said of daemons that did not meet.)            *)
(***************************************************************************)
OpenClaimsAreOwn ==
    \A p \in Proc : Alone /\ proc[p] = "serving" /\ Garbled \notin Lines =>
        LeftOpen \subseteq open[p] \union lost[p]

(***************************************************************************)
(* The log has at most one final result for a claim.                       *)
(***************************************************************************)
OneFinal ==
    \A i, j \in 1..Len(file) :
        file[i] = file[j] /\ file[i].event = "final_result" => i = j

(***************************************************************************)
(* That is so however often daemons die while they serve or while they     *)
(* close what was left open, if no two of them meet.                       *)
(***************************************************************************)
OneFinalIfAlone == Alone => OneFinal

(***************************************************************************)
(* A final result is only logged for a claim that is logged as accepted    *)
(* before it, also when another daemon starts up meanwhile or fails to;    *)
(* as long as the log can be read.                                         *)
(***************************************************************************)
FinalFollowsAccepted ==
    Garbled \notin Lines =>
        \A j \in 1..Len(file) : file[j].event = "final_result" =>
            \E i \in 1..(j - 1) : file[i] = Accepted(file[j].id)
=============================================================================

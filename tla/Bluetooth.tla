------------------------------ MODULE Bluetooth ------------------------------
(***************************************************************************)
(* internal/bluetooth/bluetooth.go: one call of Acquire or Release.        *)
(*                                                                         *)
(* Each is a sequence of blueutil commands and sleeps under one budget.    *)
(* Every command is cut to what is left of the budget, and what it brings  *)
(* back is thrown away if the budget ran out meanwhile.  Time passes only  *)
(* in commands and sleeps; a step says how much.                           *)
(*                                                                         *)
(* blueutil and the radio are external: a command ends at any time up to   *)
(* its timeout (the kill may come Slack late), fails at will, and what it  *)
(* asked of the device comes true later or never, until the next command   *)
(* asks for something else.  Nothing else moves the device meanwhile.      *)
(***************************************************************************)
EXTENDS Integers

CONSTANTS
    Budgets,                \* the budgets a call may be given
    Slack,                  \* how late a kill or a wake-up may be
    UnpairTimeout,          \* bluetooth.go:22-31
    ReleaseVerifyTimeout,
    ReleasePollInterval,
    ReleaseWindow,
    AcquireSettleSleep,
    PairTimeout,
    ConnectAttemptTimeout,
    AcquireVerifyTimeout,
    AcquirePollInterval,
    AcquireVerifyWindow

(* No two durations need be related.  A poll interval must take time, or   *)
(* the loop of waitConnectedState would not advance.                       *)
ASSUME DurationAssumption ==
    /\ Budgets \subseteq Nat
    /\ Slack \in Nat
    /\ {UnpairTimeout, ReleaseVerifyTimeout, ReleasePollInterval,
        ReleaseWindow, AcquireSettleSleep, PairTimeout,
        ConnectAttemptTimeout, AcquireVerifyTimeout, AcquirePollInterval,
        AcquireVerifyWindow} \subseteq Nat \ {0}

VARIABLES
    op,         \* which of the two functions was called
    pc,         \* where the call is
    left,       \* what is left of the budget, negative once overdrawn
    window,     \* what is left of the wait for the wanted state
    cancelled,  \* the caller's context has ended
    result,     \* the error code, "ok" for nil, "none" while running
    link,       \* the device is connected to this Mac
    asked,      \* what the last command asked of the device
    retried     \* the connect loop has been round once

call == <<op, left, window, cancelled>>
device == <<link, asked>>
vars == <<op, pc, left, window, cancelled, result, link, asked, retried>>

Codes == {"ok", "claim_timeout", "verify_failed", "pair_failed",
          "connect_failed"}
Places == {"check", "unpair", "settle", "pair", "settlePaired", "connect",
           "poll", "nap", "missed", "done"}

TypeOK ==
    /\ op \in {"acquire", "release"}
    /\ pc \in Places
    /\ left \in Int
    /\ window \in Nat
    /\ cancelled \in BOOLEAN
    /\ result \in Codes \cup {"none"}
    /\ link \in BOOLEAN
    /\ asked \in {"nothing", "down", "up"}
    /\ retried \in BOOLEAN

Init ==
    /\ op \in {"acquire", "release"}
    /\ pc = "check"
    /\ left \in Budgets
    /\ window = (IF op = "release" THEN ReleaseWindow ELSE 0)
    /\ cancelled = FALSE
    /\ result = "none"
    /\ link \in BOOLEAN
    /\ asked = "nothing"
    /\ retried = FALSE

-----------------------------------------------------------------------------
(* The state the call wants to see, and the timings of its checks.         *)
Wanted == (op = "acquire")
CheckTimeout ==
    IF op = "acquire" THEN AcquireVerifyTimeout ELSE ReleaseVerifyTimeout
PollInterval ==
    IF op = "acquire" THEN AcquirePollInterval ELSE ReleasePollInterval

AtMost(a, b) == IF b < a THEN b ELSE a

(* variant: a timeout is not cut to the budget *)
Clip_Whole(timeout) == timeout

Clip(timeout) == AtMost(timeout, left)

(* variant: an answer that came after the deadline is used *)
Bounded_KeepsLate(timeout) ==
    {o \in [took : 0..(Clip(timeout) + Slack), answer : {"exit0", "error"}] :
        o.answer = "exit0" => o.took < Clip(timeout) + Slack}

(* What runBounded may return: nothing is run once the budget is used up,  *)
(* and an answer that comes with the budget used up is no answer.  A       *)
(* command that is killed at its timeout has failed.                       *)
Bounded(timeout) ==
    IF left <= 0
    THEN {[took |-> 0, answer |-> "claim_timeout"]}
    ELSE {o \in [took : 0..(Clip(timeout) + Slack),
                 answer : {"exit0", "error", "claim_timeout"}] :
             /\ (o.answer = "claim_timeout") <=> (cancelled \/ left <= o.took)
             /\ (o.answer = "exit0") => (o.took < Clip(timeout))}

Elapse(took) == left' = left - took

(* variant: the rest of the window may be negative *)
Shrink_NoFloor(w, took) == w - took

Shrink(w, took) == IF took < w THEN w - took ELSE 0

Finish(code) == pc' = "done" /\ result' = code

Goto(place) == pc' = place /\ UNCHANGED result

-----------------------------------------------------------------------------
(* The first is-connected: if the device is as wanted, all is done; if     *)
(* that cannot be told, nothing is touched.                                *)
FirstCheck ==
    /\ pc = "check"
    /\ \E o \in Bounded(CheckTimeout) :
          /\ Elapse(o.took)
          /\ window' = Shrink(window, o.took)
          /\ \/ o.answer = "claim_timeout" /\ Finish("claim_timeout")
             \/ o.answer \in {"error", "exit0"} /\ Finish("verify_failed")
             \/ o.answer = "exit0" /\ link = Wanted /\ Finish("ok")
             \/ o.answer = "exit0" /\ link # Wanted /\ Goto("unpair")
    /\ UNCHANGED <<op, cancelled, device, retried>>

(* Unpair; only the budget ends the call here, a failure is passed over.   *)
Unpair ==
    /\ pc = "unpair"
    /\ \E o \in Bounded(UnpairTimeout) :
          /\ Elapse(o.took)
          /\ window' = Shrink(window, o.took)
          /\ asked' = (IF left > 0 THEN "down" ELSE asked)
          /\ IF o.answer = "claim_timeout"
             THEN Finish("claim_timeout")
             ELSE Goto(IF op = "acquire" THEN "settle"
                       ELSE IF window' > 0 THEN "poll" ELSE "missed")
    /\ UNCHANGED <<op, cancelled, link, retried>>

(* flowDeadline.sleep, then on to next.                                    *)
Sleep(requested, next) ==
    \/ /\ left <= 0 \/ cancelled
       /\ Finish("claim_timeout")
       /\ UNCHANGED <<left, window>>
    \/ /\ left > 0 /\ ~cancelled
       /\ \E extra \in 0..Slack :
             /\ Elapse(Clip(requested) + extra)
             /\ window' = Shrink(window, Clip(requested) + extra)
             /\ Goto(next)

Settle ==
    /\ \/ pc = "settle" /\ Sleep(AcquireSettleSleep, "pair")
       \/ pc = "settlePaired" /\ Sleep(AcquireSettleSleep, "connect")
    /\ UNCHANGED <<op, cancelled, device, retried>>

Pair ==
    /\ pc = "pair"
    /\ \E o \in Bounded(PairTimeout) :
          /\ Elapse(o.took)
          /\ window' = Shrink(window, o.took)
          /\ asked' = (IF left > 0 THEN "up" ELSE asked)
          /\ CASE o.answer = "claim_timeout" -> Finish("claim_timeout")
               [] o.answer = "error" -> Finish("pair_failed")
               [] o.answer = "exit0" -> Goto("settlePaired")
    /\ UNCHANGED <<op, cancelled, link, retried>>

Connect ==
    /\ pc = "connect"
    /\ \E o \in Bounded(ConnectAttemptTimeout) :
          /\ Elapse(o.took)
          /\ asked' = (IF left > 0 THEN "up" ELSE asked)
          /\ CASE o.answer = "claim_timeout" ->
                      Finish("claim_timeout") /\ UNCHANGED window
               [] o.answer = "error" ->
                      Finish("connect_failed") /\ UNCHANGED window
               [] o.answer = "exit0" ->
                      Goto("poll") /\ window' = AcquireVerifyWindow
    /\ UNCHANGED <<op, cancelled, link, retried>>

-----------------------------------------------------------------------------
Seen(o) == o.answer = "exit0" /\ link = Wanted

(* One round of waitConnectedState: a check that fails, cannot be parsed   *)
(* or shows the other state is repeated until the window closes.           *)
Poll ==
    /\ pc = "poll"
    /\ \E o \in Bounded(AtMost(CheckTimeout, window)) :
          /\ Elapse(o.took)
          /\ window' = Shrink(window, o.took)
          /\ \/ o.answer = "claim_timeout" /\ Finish("claim_timeout")
             \/ Seen(o) /\ Finish("ok")
             \/ /\ o.answer # "claim_timeout"
                /\ Goto(IF window' > 0 THEN "nap" ELSE "missed")
    /\ UNCHANGED <<op, cancelled, device, retried>>

(* variant: the poll goes on without a pause *)
Nap_NoPause ==
    /\ pc = "nap"
    /\ Goto("poll")
    /\ UNCHANGED <<call, device, retried>>

Nap ==
    /\ pc = "nap"
    /\ Sleep(AtMost(PollInterval, window),
             IF window' > 0 THEN "poll" ELSE "missed")
    /\ UNCHANGED <<op, cancelled, device, retried>>

(* variant: any time left is taken to be enough for another attempt *)
NoRoomToRetry_AnyTime == FALSE

NoRoomToRetry == left < ConnectAttemptTimeout + AcquireVerifyTimeout

(* variant: a window that closes with the budget is reported as such *)
Missed_NoDeadline ==
    /\ pc = "missed"
    /\ IF op = "release" \/ NoRoomToRetry
       THEN Finish("verify_failed") /\ UNCHANGED retried
       ELSE Goto("connect") /\ retried' = TRUE
    /\ UNCHANGED <<call, device>>

(* The window closed without the wanted state: Release gives up, Acquire   *)
(* connects again if there is time for a whole attempt.                    *)
Missed ==
    /\ pc = "missed"
    /\ \/ /\ op = "release"
          /\ Finish("verify_failed") /\ UNCHANGED retried
       \/ /\ op = "acquire" /\ left <= 0
          /\ Finish("claim_timeout") /\ UNCHANGED retried
       \/ /\ op = "acquire" /\ left > 0 /\ NoRoomToRetry
          /\ Finish("verify_failed") /\ UNCHANGED retried
       \/ /\ op = "acquire" /\ left > 0 /\ ~NoRoomToRetry
          /\ Goto("connect") /\ retried' = TRUE
    /\ UNCHANGED <<call, device>>

-----------------------------------------------------------------------------
(* External: the device comes to the state that was asked for.             *)
DeviceFollows ==
    /\ asked # "nothing"
    /\ link' = (asked = "up")
    /\ asked' = "nothing"
    /\ UNCHANGED <<call, pc, result, retried>>

(* External: the caller's context ends (the daemon is stopping).           *)
Cancel ==
    /\ pc # "done" /\ ~cancelled
    /\ cancelled' = TRUE
    /\ UNCHANGED <<op, pc, left, window, result, device, retried>>

(* One of the steps of the call itself.                                    *)
Advance == FirstCheck \/ Unpair \/ Settle \/ Pair \/ Connect \/ Poll \/ Nap
              \/ Missed

Next == Advance \/ DeviceFollows \/ Cancel

Spec == Init /\ [][Next]_vars

(* The goroutine of the call runs: its commands are killed at their        *)
(* timeouts and its timers fire.                                           *)
FairSpec == Spec /\ WF_vars(Advance)

-----------------------------------------------------------------------------
(* The budget is overdrawn by one late kill at most, however many commands *)
(* the call has run: each is cut to what is left (clip, runBounded,        *)
(* sleep).  A call given no time overdraws nothing.                        *)
BudgetKept == left >= -Slack

(* Success is reported only with the device in the wanted state and the    *)
(* budget not used up: an answer that came too late does not count, and    *)
(* the exit status alone is not enough (runBounded, ParseConnected).       *)
SuccessIsReal == result = "ok" => link = Wanted /\ left > 0

(* claim_timeout means what it says: the budget is used up or the context  *)
(* has ended.  And Acquire, out of time, reports nothing else.             *)
TimeoutIsReal ==
    /\ result = "claim_timeout" => left <= 0 \/ cancelled
    /\ (op = "acquire" /\ pc = "done" /\ left <= 0)
          => result = "claim_timeout"

(* A repeated attempt to connect that succeeds leaves the time to check    *)
(* for it: the room is judged before the attempt (bluetooth.go:302) and    *)
(* is still there after it.                                                *)
RetryCanVerify ==
    [][(pc = "connect" /\ retried /\ pc' = "poll")
          => left' >= AcquireVerifyTimeout]_vars

(* Every call ends, also if each command fails or answers at once: what    *)
(* bounds the connect loop is time, and only the sleeps make it pass.      *)
EveryCallEnds == <>(pc = "done")
=============================================================================

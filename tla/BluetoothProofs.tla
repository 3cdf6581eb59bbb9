--------------------------- MODULE BluetoothProofs ---------------------------
(***************************************************************************)
(* Theorems about Bluetooth, for all durations and budgets.                *)
(***************************************************************************)
EXTENDS Bluetooth, TLAPS

(* An answer of a command that runs out of budget is claim_timeout and no  *)
(* other is; no command runs longer than what is left, a late kill apart.  *)
LEMMA BoundedFacts ==
    ASSUME TypeOK, BudgetKept, NEW timeout \in Nat, NEW o \in Bounded(timeout)
    PROVE  /\ o.took \in Nat
           /\ o.answer \in {"exit0", "error", "claim_timeout"}
           /\ left - o.took \in Int
           /\ left - o.took >= -Slack
           /\ o.answer = "claim_timeout" => left - o.took <= 0 \/ cancelled
           /\ o.answer # "claim_timeout" => left - o.took > 0 /\ left > 0
           /\ o.answer = "exit0" => o.took < timeout
  <1> USE DurationAssumption
  <1>1. CASE left <= 0
    BY <1>1 DEF TypeOK, BudgetKept, Bounded
  <1>2. CASE ~(left <= 0)
    <2>1. /\ left \in Int /\ left > 0 /\ Slack \in Nat
          /\ Clip(timeout) \in Nat /\ Clip(timeout) <= left
          /\ Clip(timeout) <= timeout
      BY <1>2 DEF TypeOK, Clip, AtMost
    <2>2. /\ o \in [took : 0..(Clip(timeout) + Slack),
                    answer : {"exit0", "error", "claim_timeout"}]
          /\ (o.answer = "claim_timeout") <=> (cancelled \/ left <= o.took)
          /\ (o.answer = "exit0") => (o.took < Clip(timeout))
      BY <1>2 DEF Bounded
    <2>3. o.took \in 0..(Clip(timeout) + Slack)
      BY <2>2
    <2> QED  BY <2>1, <2>2, <2>3
  <1> QED  BY <1>1, <1>2

(* The invariant the results rest on.  A finished call has a result and    *)
(* only it has.  What was asked of the device agrees with what the call    *)
(* waits for from the moment it waits; and a repeated attempt starts with  *)
(* room for a whole one.                                                   *)
CallInv ==
    /\ TypeOK
    /\ BudgetKept
    /\ SuccessIsReal
    /\ TimeoutIsReal
    /\ (result = "none") <=> (pc # "done")
    /\ op = "release" => asked # "up"
    /\ (pc \in {"settlePaired", "connect", "poll", "nap", "missed"}
          \/ result = "ok") => (op = "acquire" => asked # "down")
    /\ pc = "check" => asked = "nothing"
    /\ retried => pc \in {"connect", "poll", "nap", "missed", "done"}
    /\ op = "release" =>
          pc \notin {"settle", "pair", "settlePaired", "connect"}
    /\ (pc = "connect" /\ retried) => ~NoRoomToRetry

(* It holds at first.                                                      *)
LEMMA InitInv == Init => CallInv
  <1> SUFFICES ASSUME Init PROVE CallInv
    OBVIOUS
  <1>1. left \in Nat /\ window \in Nat /\ BudgetKept
    BY DurationAssumption DEF Init, BudgetKept
  <1>2. TypeOK
    <2>1. op \in {"acquire", "release"} /\ link \in BOOLEAN
      BY DEF Init
    <2>2. /\ pc = "check" /\ cancelled = FALSE /\ result = "none"
          /\ asked = "nothing" /\ retried = FALSE
      BY DEF Init
    <2>3. cancelled \in BOOLEAN /\ retried \in BOOLEAN
      BY <2>2, Zenon
    <2>4. pc \in Places /\ asked \in {"nothing", "down", "up"}
      BY <2>2 DEF Places
    <2> QED  BY <1>1, <2>1, <2>2, <2>3, <2>4 DEF TypeOK
  <1>3. pc = "check" /\ result = "none" /\ asked = "nothing" /\ ~retried
    BY DEF Init
  <1> QED
    BY <1>1, <1>2, <1>3 DEF CallInv, SuccessIsReal, TimeoutIsReal

(* Time that passes leaves numbers.                                        *)
LEMMA ShrinkType ==
    ASSUME NEW w \in Nat, NEW took \in Nat
    PROVE  Shrink(w, took) \in Nat
  BY DEF Shrink

(* A sleep ends the call with the budget used up or the context ended, or  *)
(* goes on with the budget overdrawn by a late timer at most.              *)
LEMMA SleepFacts ==
    ASSUME TypeOK, BudgetKept, NEW requested \in Nat, NEW next,
           Sleep(requested, next)
    PROVE  /\ left' \in Int
           /\ left' >= -Slack
           /\ window' \in Nat
           /\ \/ /\ left <= 0 \/ cancelled
                 /\ left' = left
                 /\ pc' = "done" /\ result' = "claim_timeout"
              \/ pc' = next /\ result' = result
  <1> USE DurationAssumption
  <1>1. CASE /\ left <= 0 \/ cancelled
             /\ Finish("claim_timeout")
             /\ UNCHANGED <<left, window>>
    BY <1>1 DEF Finish, TypeOK, BudgetKept
  <1>2. CASE /\ left > 0 /\ ~cancelled
             /\ \E extra \in 0..Slack :
                   /\ Elapse(Clip(requested) + extra)
                   /\ window' = Shrink(window, Clip(requested) + extra)
                   /\ Goto(next)
    <2>1. PICK extra \in 0..Slack :
             /\ Elapse(Clip(requested) + extra)
             /\ window' = Shrink(window, Clip(requested) + extra)
             /\ Goto(next)
      BY <1>2
    <2>2. Clip(requested) \in Nat /\ Clip(requested) <= left
      BY <1>2 DEF Clip, AtMost, TypeOK
    <2>3. window' \in Nat
      <3>1. Clip(requested) + extra \in Nat
        BY <2>1, <2>2
      <3> QED  BY <2>1, <3>1, ShrinkType DEF TypeOK
    <2> QED  BY <1>2, <2>1, <2>2, <2>3 DEF Elapse, Goto, TypeOK
  <1> QED  BY <1>1, <1>2 DEF Sleep

(* Every step keeps it.                                                    *)
LEMMA StepInv == CallInv /\ [Next]_vars => CallInv'
  <1> SUFFICES ASSUME CallInv, [Next]_vars PROVE CallInv'
    OBVIOUS
  <1> USE DurationAssumption
  <1>t. TypeOK /\ BudgetKept
    BY DEF CallInv
  <1>k. CheckTimeout \in Nat /\ PollInterval \in Nat
    BY DEF CheckTimeout, PollInterval
  <1>1. CASE FirstCheck
    <2>1. PICK o \in Bounded(CheckTimeout) :
             /\ Elapse(o.took)
             /\ window' = Shrink(window, o.took)
             /\ \/ o.answer = "claim_timeout" /\ Finish("claim_timeout")
                \/ o.answer \in {"error", "exit0"} /\ Finish("verify_failed")
                \/ o.answer = "exit0" /\ link = Wanted /\ Finish("ok")
                \/ o.answer = "exit0" /\ link # Wanted /\ Goto("unpair")
      BY <1>1 DEF FirstCheck
    <2>2. /\ o.took \in Nat
          /\ left - o.took \in Int
          /\ left - o.took >= -Slack
          /\ o.answer = "claim_timeout" => left - o.took <= 0 \/ cancelled
          /\ o.answer # "claim_timeout" => left - o.took > 0 /\ left > 0
      BY <1>t, <1>k, BoundedFacts
    <2>3. window' \in Nat
      BY <2>1, <2>2, ShrinkType, <1>t DEF TypeOK
    <2> QED
      BY <1>1, <2>1, <2>2, <2>3 DEF FirstCheck, CallInv, TypeOK, BudgetKept,
         SuccessIsReal, TimeoutIsReal, Codes, Places, Elapse, Finish, Goto,
         Wanted, device, NoRoomToRetry
  <1>2. CASE Unpair
    <2>1. PICK o \in Bounded(UnpairTimeout) :
             /\ Elapse(o.took)
             /\ window' = Shrink(window, o.took)
             /\ asked' = (IF left > 0 THEN "down" ELSE asked)
             /\ IF o.answer = "claim_timeout"
                THEN Finish("claim_timeout")
                ELSE Goto(IF op = "acquire" THEN "settle"
                          ELSE IF window' > 0 THEN "poll" ELSE "missed")
      BY <1>2 DEF Unpair
    <2>2. /\ o.took \in Nat
          /\ left - o.took \in Int
          /\ left - o.took >= -Slack
          /\ o.answer = "claim_timeout" => left - o.took <= 0 \/ cancelled
      BY <1>t, BoundedFacts
    <2>3. window' \in Nat
      BY <2>1, <2>2, ShrinkType, <1>t DEF TypeOK
    <2> QED
      BY <1>2, <2>1, <2>2, <2>3 DEF Unpair, CallInv, TypeOK, BudgetKept,
         SuccessIsReal, TimeoutIsReal, Codes, Places, Elapse, Finish, Goto,
         NoRoomToRetry
  <1>3. CASE Settle
    <2>1. CASE pc = "settle" /\ Sleep(AcquireSettleSleep, "pair")
      <3>1. /\ left' \in Int /\ left' >= -Slack /\ window' \in Nat
            /\ \/ /\ left <= 0 \/ cancelled
                  /\ left' = left
                  /\ pc' = "done" /\ result' = "claim_timeout"
               \/ pc' = "pair" /\ result' = result
        BY <2>1, <1>t, SleepFacts
      <3> QED
        BY <1>3, <2>1, <3>1 DEF Settle, CallInv, TypeOK, BudgetKept,
           SuccessIsReal, TimeoutIsReal, Codes, Places, device, NoRoomToRetry
    <2>2. CASE pc = "settlePaired" /\ Sleep(AcquireSettleSleep, "connect")
      <3>1. /\ left' \in Int /\ left' >= -Slack /\ window' \in Nat
            /\ \/ /\ left <= 0 \/ cancelled
                  /\ left' = left
                  /\ pc' = "done" /\ result' = "claim_timeout"
               \/ pc' = "connect" /\ result' = result
        BY <2>2, <1>t, SleepFacts
      <3> QED
        BY <1>3, <2>2, <3>1 DEF Settle, CallInv, TypeOK, BudgetKept,
           SuccessIsReal, TimeoutIsReal, Codes, Places, device, NoRoomToRetry
    <2> QED  BY <1>3, <2>1, <2>2 DEF Settle
  <1>4. CASE Pair
    <2>1. PICK o \in Bounded(PairTimeout) :
             /\ Elapse(o.took)
             /\ window' = Shrink(window, o.took)
             /\ asked' = (IF left > 0 THEN "up" ELSE asked)
             /\ CASE o.answer = "claim_timeout" -> Finish("claim_timeout")
                  [] o.answer = "error" -> Finish("pair_failed")
                  [] o.answer = "exit0" -> Goto("settlePaired")
      BY <1>4 DEF Pair
    <2>2. /\ o.took \in Nat
          /\ o.answer \in {"exit0", "error", "claim_timeout"}
          /\ left - o.took \in Int
          /\ left - o.took >= -Slack
          /\ o.answer = "claim_timeout" => left - o.took <= 0 \/ cancelled
          /\ o.answer # "claim_timeout" => left - o.took > 0 /\ left > 0
      BY <1>t, BoundedFacts
    <2>3. window' \in Nat
      BY <2>1, <2>2, ShrinkType, <1>t DEF TypeOK
    <2>4. UNCHANGED <<op, cancelled, link, retried>> /\ pc = "pair"
      BY <1>4 DEF Pair
    <2>5. CASE o.answer = "claim_timeout"
      BY <2>1, <2>2, <2>3, <2>4, <2>5 DEF CallInv, TypeOK, BudgetKept,
         SuccessIsReal, TimeoutIsReal, Codes, Places, Elapse, Finish
    <2>6. CASE o.answer = "error"
      BY <2>1, <2>2, <2>3, <2>4, <2>6 DEF CallInv, TypeOK, BudgetKept,
         SuccessIsReal, TimeoutIsReal, Codes, Places, Elapse, Finish
    <2>7. CASE o.answer = "exit0"
      BY <2>1, <2>2, <2>3, <2>4, <2>7 DEF CallInv, TypeOK, BudgetKept,
         SuccessIsReal, TimeoutIsReal, Codes, Places, Elapse, Goto
    <2> QED  BY <2>2, <2>5, <2>6, <2>7
  <1>5. CASE Connect
    <2>1. PICK o \in Bounded(ConnectAttemptTimeout) :
             /\ Elapse(o.took)
             /\ asked' = (IF left > 0 THEN "up" ELSE asked)
             /\ CASE o.answer = "claim_timeout" ->
                         Finish("claim_timeout") /\ UNCHANGED window
                  [] o.answer = "error" ->
                         Finish("connect_failed") /\ UNCHANGED window
                  [] o.answer = "exit0" ->
                         Goto("poll") /\ window' = AcquireVerifyWindow
      BY <1>5 DEF Connect
    <2>2. /\ o.took \in Nat
          /\ o.answer \in {"exit0", "error", "claim_timeout"}
          /\ left - o.took \in Int
          /\ left - o.took >= -Slack
          /\ o.answer = "claim_timeout" => left - o.took <= 0 \/ cancelled
          /\ o.answer # "claim_timeout" => left - o.took > 0 /\ left > 0
      BY <1>t, BoundedFacts
    <2>4. UNCHANGED <<op, cancelled, link, retried>> /\ pc = "connect"
      BY <1>5 DEF Connect
    <2>5. CASE o.answer = "claim_timeout"
      BY <2>1, <2>2, <2>4, <2>5 DEF CallInv, TypeOK, BudgetKept,
         SuccessIsReal, TimeoutIsReal, Codes, Places, Elapse, Finish
    <2>6. CASE o.answer = "error"
      BY <2>1, <2>2, <2>4, <2>6 DEF CallInv, TypeOK, BudgetKept,
         SuccessIsReal, TimeoutIsReal, Codes, Places, Elapse, Finish
    <2>7. CASE o.answer = "exit0"
      BY <2>1, <2>2, <2>4, <2>7 DEF CallInv, TypeOK, BudgetKept,
         SuccessIsReal, TimeoutIsReal, Codes, Places, Elapse, Goto
    <2> QED  BY <2>2, <2>5, <2>6, <2>7
  <1>6. CASE Poll
    <2>k. AtMost(CheckTimeout, window) \in Nat
      BY <1>t, <1>k DEF AtMost, TypeOK
    <2>1. PICK o \in Bounded(AtMost(CheckTimeout, window)) :
             /\ Elapse(o.took)
             /\ window' = Shrink(window, o.took)
             /\ \/ o.answer = "claim_timeout" /\ Finish("claim_timeout")
                \/ Seen(o) /\ Finish("ok")
                \/ /\ o.answer # "claim_timeout"
                   /\ Goto(IF window' > 0 THEN "nap" ELSE "missed")
      BY <1>6 DEF Poll
    <2>2. /\ o.took \in Nat
          /\ left - o.took \in Int
          /\ left - o.took >= -Slack
          /\ o.answer = "claim_timeout" => left - o.took <= 0 \/ cancelled
          /\ o.answer # "claim_timeout" => left - o.took > 0 /\ left > 0
      BY <1>t, <2>k, BoundedFacts
    <2>3. window' \in Nat
      BY <2>1, <2>2, ShrinkType, <1>t DEF TypeOK
    <2> QED
      BY <1>6, <2>1, <2>2, <2>3 DEF Poll, CallInv, TypeOK, BudgetKept,
         SuccessIsReal, TimeoutIsReal, Codes, Places, Elapse, Finish, Goto,
         Wanted, Seen, device, NoRoomToRetry
  <1>7. CASE Nap
    <2>k. AtMost(PollInterval, window) \in Nat
      BY <1>t, <1>k DEF AtMost, TypeOK
    <2>1. /\ left' \in Int /\ left' >= -Slack /\ window' \in Nat
          /\ \/ /\ left <= 0 \/ cancelled
                /\ left' = left
                /\ pc' = "done" /\ result' = "claim_timeout"
             \/ /\ pc' = IF window' > 0 THEN "poll" ELSE "missed"
                /\ result' = result
      BY <1>7, <1>t, <2>k, SleepFacts DEF Nap
    <2> QED
      BY <1>7, <2>1 DEF Nap, CallInv, TypeOK, BudgetKept,
         SuccessIsReal, TimeoutIsReal, Codes, Places, device, NoRoomToRetry
  <1>8. CASE Missed
    <2>1. UNCHANGED <<call, device>>
      BY <1>8 DEF Missed
    <2>2. CASE op = "release" /\ Finish("verify_failed") /\ UNCHANGED retried
      BY <1>8, <2>1, <2>2 DEF Missed, CallInv, TypeOK, BudgetKept,
         SuccessIsReal, TimeoutIsReal, Codes, Places, Finish, call, device
    <2>3. CASE /\ op = "acquire" /\ left <= 0
               /\ Finish("claim_timeout") /\ UNCHANGED retried
      BY <1>8, <2>1, <2>3 DEF Missed, CallInv, TypeOK, BudgetKept,
         SuccessIsReal, TimeoutIsReal, Codes, Places, Finish, call, device
    <2>4. CASE /\ op = "acquire" /\ left > 0 /\ NoRoomToRetry
               /\ Finish("verify_failed") /\ UNCHANGED retried
      BY <1>8, <2>1, <2>4 DEF Missed, CallInv, TypeOK, BudgetKept,
         SuccessIsReal, TimeoutIsReal, Codes, Places, Finish, call, device
    <2>5. CASE /\ op = "acquire" /\ left > 0 /\ ~NoRoomToRetry
               /\ Goto("connect") /\ retried' = TRUE
      BY <1>8, <2>1, <2>5 DEF Missed, CallInv, TypeOK, BudgetKept,
         SuccessIsReal, TimeoutIsReal, Codes, Places, Goto, call, device,
         NoRoomToRetry
    <2> QED  BY <1>8, <2>2, <2>3, <2>4, <2>5 DEF Missed
  <1>9. CASE DeviceFollows
    BY <1>9 DEF DeviceFollows, CallInv, TypeOK, BudgetKept, SuccessIsReal,
       TimeoutIsReal, call, Wanted, NoRoomToRetry
  <1>10. CASE Cancel
    BY <1>10 DEF Cancel, CallInv, TypeOK, BudgetKept, SuccessIsReal,
       TimeoutIsReal, device, Wanted, NoRoomToRetry
  <1>11. CASE UNCHANGED vars
    BY <1>11 DEF vars, CallInv, TypeOK, BudgetKept, SuccessIsReal,
       TimeoutIsReal, Wanted, NoRoomToRetry
  <1> QED
    BY <1>1, <1>2, <1>3, <1>4, <1>5, <1>6, <1>7, <1>8, <1>9, <1>10, <1>11
       DEF Next, Advance

(* It holds in every reachable state.                                      *)
LEMMA InvHolds == Spec => []CallInv
  BY InitInv, StepInv, PTL DEF Spec

(* Every variable keeps its type, whatever the durations are.              *)
THEOREM TypeCorrect == Spec => []TypeOK
  BY InvHolds, PTL DEF CallInv

(* No sequence of commands overdraws the budget by more than one late      *)
(* kill, whatever the durations are.                                       *)
THEOREM BudgetIsKept == Spec => []BudgetKept
  BY InvHolds, PTL DEF CallInv

(* Acquire and Release report success only with the device in the wanted   *)
(* state and time left, whatever the durations are.                        *)
THEOREM SuccessesAreReal == Spec => []SuccessIsReal
  BY InvHolds, PTL DEF CallInv

(* claim_timeout is reported only for a used up budget or an ended         *)
(* context, and by Acquire whenever the budget is used up.                 *)
THEOREM TimeoutsAreReal == Spec => []TimeoutIsReal
  BY InvHolds, PTL DEF CallInv

(* The room judged to be enough before a repeated attempt still allows a   *)
(* full check after it, whatever the durations are.                        *)
THEOREM RetriesCanVerify == Spec => RetryCanVerify
  <1>1. CallInv /\ [Next]_vars
          => [(pc = "connect" /\ retried /\ pc' = "poll")
                 => left' >= AcquireVerifyTimeout]_vars
    <2> SUFFICES ASSUME CallInv, [Next]_vars, pc = "connect", retried,
                        pc' = "poll"
                 PROVE  left' >= AcquireVerifyTimeout
      OBVIOUS
    <2>1. Connect
      BY DEF Next, Advance, FirstCheck, Unpair, Settle, Pair, Poll, Nap,
         Missed, DeviceFollows, Cancel, vars
    <2>2. PICK o \in Bounded(ConnectAttemptTimeout) :
             /\ Elapse(o.took)
             /\ CASE o.answer = "claim_timeout" ->
                         Finish("claim_timeout") /\ UNCHANGED window
                  [] o.answer = "error" ->
                         Finish("connect_failed") /\ UNCHANGED window
                  [] o.answer = "exit0" ->
                         Goto("poll") /\ window' = AcquireVerifyWindow
      BY <2>1 DEF Connect
    <2>3. /\ o.took \in Nat
          /\ o.answer \in {"exit0", "error", "claim_timeout"}
          /\ o.answer = "exit0" => o.took < ConnectAttemptTimeout
      BY BoundedFacts, DurationAssumption DEF CallInv
    <2>4. o.answer = "exit0"
      BY <2>2, <2>3 DEF Finish
    <2> QED
      BY <2>2, <2>3, <2>4, DurationAssumption
         DEF CallInv, TypeOK, Elapse, NoRoomToRetry
  <1> QED  BY <1>1, InvHolds, PTL DEF Spec, RetryCanVerify

-----------------------------------------------------------------------------
(* The loops of Acquire run out of steps: every step of a call leaves      *)
(* fewer of them than there were, and what the device and the caller do    *)
(* leaves as many.  A place counts for what may still follow without time  *)
(* passing; only a nap, and a check that uses the window up, lead back to  *)
(* an earlier place, and each of the two takes at least one unit of time.  *)
Rank(place) ==
    CASE place = "done" -> 0
      [] place = "nap" -> 1
      [] place = "poll" -> 2
      [] place = "connect" -> 3
      [] place = "missed" -> 4
      [] place = "settlePaired" -> 5
      [] place = "pair" -> 6
      [] place = "settle" -> 7
      [] place = "unpair" -> 8
      [] place = "check" -> 9

StepsLeft == 4 * (left + Slack) + Rank(pc)

StepsRunOut ==
    [][/\ Advance => StepsLeft \in Nat /\ StepsLeft' \in Nat /\ StepsLeft' < StepsLeft
       /\ ~Advance => StepsLeft' = StepsLeft]_vars

(* A check and a pause are only begun in a window that is open.            *)
Waiting == pc \in {"poll", "nap"} => window > 0

(* A command always ends in one of the ways the call has a step for, with  *)
(* the budget used up or not: no place waits for an answer that cannot be. *)
LEMMA AnswerExists ==
    ASSUME TypeOK, NEW timeout \in Nat
    PROVE  \E o \in Bounded(timeout) : o.answer \in {"error", "claim_timeout"}
  <1> DEFINE late == [took |-> 0, answer |-> "claim_timeout"]
             failed == [took |-> 0, answer |-> "error"]
  <1>1. CASE left <= 0
    BY <1>1 DEF Bounded
  <1>2. CASE ~(left <= 0)
    <2>1. left > 0 /\ 0 \in 0..(Clip(timeout) + Slack)
      BY <1>2, DurationAssumption DEF TypeOK, Clip, AtMost
    <2>2. CASE cancelled
      <3>1. late \in Bounded(timeout)
        BY <1>2, <2>1, <2>2 DEF Bounded
      <3> QED  BY <3>1
    <2>3. CASE ~cancelled
      <3>1. failed \in Bounded(timeout)
        BY <1>2, <2>1, <2>3 DEF Bounded, TypeOK
      <3> QED  BY <3>1
    <2> QED  BY <2>2, <2>3
  <1> QED  BY <1>1, <1>2

(* A sleep that does not end the call takes time.                          *)
LEMMA SleepCosts ==
    ASSUME TypeOK, NEW requested \in Nat \ {0}, NEW next, Sleep(requested, next)
    PROVE  \/ pc' = "done" /\ left' = left /\ window' = window
           \/ pc' = next /\ left' \in Int /\ left' < left
  <1>1. CASE /\ left <= 0 \/ cancelled
             /\ Finish("claim_timeout")
             /\ UNCHANGED <<left, window>>
    BY <1>1 DEF Finish
  <1>2. CASE /\ left > 0 /\ ~cancelled
             /\ \E extra \in 0..Slack :
                   /\ Elapse(Clip(requested) + extra)
                   /\ window' = Shrink(window, Clip(requested) + extra)
                   /\ Goto(next)
    <2>1. PICK extra \in 0..Slack : Elapse(Clip(requested) + extra) /\ Goto(next)
      BY <1>2
    <2>2. Clip(requested) \in Nat \ {0} /\ extra \in Nat
      BY <1>2, <2>1, DurationAssumption DEF Clip, AtMost, TypeOK
    <2> QED  BY <2>1, <2>2 DEF Elapse, Goto, TypeOK
  <1> QED  BY <1>1, <1>2 DEF Sleep

(* Every step keeps what is known of a nap.                                *)
LEMMA WaitingStep == CallInv /\ Waiting /\ [Next]_vars => Waiting'
  <1> SUFFICES ASSUME CallInv, Waiting, [Next]_vars, pc' \in {"poll", "nap"}
               PROVE  window' > 0
    BY DEF Waiting
  <1>t. TypeOK /\ BudgetKept
    BY DEF CallInv
  <1>1. CASE FirstCheck \/ Settle \/ Pair \/ Missed
    <2>1. CASE FirstCheck
      BY <2>1 DEF FirstCheck, Finish, Goto
    <2>2. CASE Settle
      BY <2>2 DEF Settle, Sleep, Finish, Goto
    <2>3. CASE Missed
      BY <2>3 DEF Missed, Finish, Goto
    <2>4. CASE Pair
      <3>1. PICK o \in Bounded(PairTimeout) :
               CASE o.answer = "claim_timeout" -> Finish("claim_timeout")
                 [] o.answer = "error" -> Finish("pair_failed")
                 [] o.answer = "exit0" -> Goto("settlePaired")
        BY <2>4 DEF Pair
      <3>2. o.answer \in {"exit0", "error", "claim_timeout"}
        BY <1>t, BoundedFacts, DurationAssumption
      <3> QED  BY <3>1, <3>2 DEF Finish, Goto
    <2> QED  BY <1>1, <2>1, <2>2, <2>3, <2>4
  <1>2. CASE Unpair
    <2>1. window' > 0
      BY <1>2, <1>t DEF Unpair, CallInv, TypeOK, Finish, Goto
    <2> QED  BY <2>1
  <1>3. CASE Connect
    <2>1. PICK o \in Bounded(ConnectAttemptTimeout) :
             CASE o.answer = "claim_timeout" ->
                      Finish("claim_timeout") /\ UNCHANGED window
               [] o.answer = "error" ->
                      Finish("connect_failed") /\ UNCHANGED window
               [] o.answer = "exit0" ->
                      Goto("poll") /\ window' = AcquireVerifyWindow
      BY <1>3 DEF Connect
    <2>2. o.answer \in {"exit0", "error", "claim_timeout"}
      BY <1>t, BoundedFacts, DurationAssumption
    <2>3. o.answer # "exit0" => pc' = "done"
      BY <2>1, <2>2 DEF Finish
    <2>4. window' = AcquireVerifyWindow
      BY <2>1, <2>3
    <2> QED
      BY <2>4, DurationAssumption
  <1>4. CASE Poll \/ Nap
    BY <1>4 DEF Poll, Nap, Sleep, Finish, Goto
  <1>5. CASE DeviceFollows \/ Cancel \/ UNCHANGED vars
    BY <1>5 DEF DeviceFollows, Cancel, call, vars, Waiting
  <1> QED
    BY <1>1, <1>2, <1>3, <1>4, <1>5 DEF Next, Advance

(* The step a call takes from a place: to one with a lower rank, or to one *)
(* a little higher if time has passed.                                     *)
LEMMA StepCosts ==
    ASSUME CallInv, Waiting, Advance
    PROVE  /\ pc' \in Places /\ left' \in Int /\ left' <= left
           /\ \/ Rank(pc') < Rank(pc)
              \/ left' < left /\ Rank(pc') <= Rank(pc) + 3
  <1> USE DurationAssumption
  <1>t. TypeOK /\ BudgetKept
    BY DEF CallInv
  <1>k. CheckTimeout \in Nat \ {0} /\ PollInterval \in Nat \ {0}
    BY DEF CheckTimeout, PollInterval
  <1>1. CASE FirstCheck
    <2>1. PICK o \in Bounded(CheckTimeout) :
             Elapse(o.took) /\ pc' \in {"done", "unpair"}
      BY <1>1 DEF FirstCheck, Finish, Goto
    <2>2. o.took \in Nat
      BY <1>t, <1>k, BoundedFacts
    <2> QED
      BY <1>1, <1>t, <2>1, <2>2 DEF FirstCheck, Elapse, TypeOK, Places, Rank
  <1>2. CASE Unpair
    <2>1. PICK o \in Bounded(UnpairTimeout) :
             Elapse(o.took) /\ pc' \in {"done", "settle", "poll", "missed"}
      BY <1>2 DEF Unpair, Finish, Goto
    <2>2. o.took \in Nat
      BY <1>t, BoundedFacts
    <2> QED
      BY <1>2, <1>t, <2>1, <2>2 DEF Unpair, Elapse, TypeOK, Places, Rank
  <1>3. CASE Settle
    <2>1. CASE pc = "settle" /\ Sleep(AcquireSettleSleep, "pair")
      BY <1>t, <2>1, SleepCosts DEF TypeOK, Places, Rank
    <2>2. CASE pc = "settlePaired" /\ Sleep(AcquireSettleSleep, "connect")
      BY <1>t, <2>2, SleepCosts DEF TypeOK, Places, Rank
    <2> QED  BY <1>3, <2>1, <2>2 DEF Settle
  <1>4. CASE Pair
    <2>1. PICK o \in Bounded(PairTimeout) :
             /\ Elapse(o.took)
             /\ CASE o.answer = "claim_timeout" -> Finish("claim_timeout")
                  [] o.answer = "error" -> Finish("pair_failed")
                  [] o.answer = "exit0" -> Goto("settlePaired")
      BY <1>4 DEF Pair
    <2>2. o.took \in Nat /\ o.answer \in {"exit0", "error", "claim_timeout"}
      BY <1>t, BoundedFacts
    <2>3. pc' \in {"done", "settlePaired"}
      BY <2>1, <2>2 DEF Finish, Goto
    <2> QED
      BY <1>4, <1>t, <2>1, <2>2, <2>3 DEF Pair, Elapse, TypeOK, Places, Rank
  <1>5. CASE Connect
    <2>1. PICK o \in Bounded(ConnectAttemptTimeout) :
             /\ Elapse(o.took)
             /\ CASE o.answer = "claim_timeout" ->
                         Finish("claim_timeout") /\ UNCHANGED window
                  [] o.answer = "error" ->
                         Finish("connect_failed") /\ UNCHANGED window
                  [] o.answer = "exit0" ->
                         Goto("poll") /\ window' = AcquireVerifyWindow
      BY <1>5 DEF Connect
    <2>2. o.took \in Nat /\ o.answer \in {"exit0", "error", "claim_timeout"}
      BY <1>t, BoundedFacts
    <2>3. pc' \in {"done", "poll"}
      BY <2>1, <2>2 DEF Finish, Goto
    <2> QED
      BY <1>5, <1>t, <2>1, <2>2, <2>3 DEF Connect, Elapse, TypeOK, Places, Rank
  <1>6. CASE Poll
    <2>k. AtMost(CheckTimeout, window) \in Nat
      BY <1>t, <1>k DEF AtMost, TypeOK
    <2>1. PICK o \in Bounded(AtMost(CheckTimeout, window)) :
             /\ Elapse(o.took)
             /\ window' = Shrink(window, o.took)
             /\ pc' \in {"done", IF window' > 0 THEN "nap" ELSE "missed"}
      BY <1>6 DEF Poll, Finish, Goto
    <2>2. o.took \in Nat
      BY <1>t, <2>k, BoundedFacts
    <2>3. CASE pc' \in {"done", "nap"}
      BY <1>6, <1>t, <2>1, <2>2, <2>3 DEF Poll, Elapse, TypeOK, Places, Rank
    <2>4. CASE pc' = "missed"
      <3>1. window > 0 /\ ~ window' > 0
        BY <1>6, <2>1, <2>4 DEF Poll, Waiting
      <3>2. o.took > 0
        BY <1>t, <2>1, <2>2, <3>1 DEF Shrink, TypeOK
      <3> QED
        BY <1>6, <1>t, <2>1, <2>2, <2>4, <3>2 DEF Poll, Elapse, TypeOK, Places, Rank
    <2> QED  BY <2>1, <2>3, <2>4
  <1>7. CASE Nap
    <2>1. AtMost(PollInterval, window) \in Nat \ {0} /\ pc = "nap"
      BY <1>7, <1>t, <1>k DEF Nap, Waiting, AtMost, TypeOK
    <2>2. \/ pc' = "done" /\ left' = left
          \/ pc' \in {"poll", "missed"} /\ left' \in Int /\ left' < left
      BY <1>7, <1>t, <2>1, SleepCosts DEF Nap
    <2> QED
      BY <1>t, <2>1, <2>2 DEF TypeOK, Places, Rank
  <1>8. CASE Missed
    BY <1>8, <1>t DEF Missed, call, Finish, Goto, TypeOK, Places, Rank
  <1> QED
    BY <1>1, <1>2, <1>3, <1>4, <1>5, <1>6, <1>7, <1>8 DEF Advance

(* The ranks are numbers.                                                  *)
LEMMA RankType == ASSUME NEW place \in Places PROVE Rank(place) \in 0..9
  BY DEF Places, Rank

(* No call goes on for ever without time: whatever the durations are and   *)
(* however quickly the commands answer, a call takes at most four steps    *)
(* for each unit of its budget and of Slack, and nine more.  Everything    *)
(* EveryCallEnds needs but that the goroutine is scheduled.                *)
THEOREM CallsRunOutOfSteps == Spec => StepsRunOut
  <1>1. Init => Waiting
    BY DEF Init, Waiting
  <1>2. CallInv /\ Waiting /\ [Next]_vars
          => [/\ Advance => /\ StepsLeft \in Nat /\ StepsLeft' \in Nat
                            /\ StepsLeft' < StepsLeft
              /\ ~Advance => StepsLeft' = StepsLeft]_vars
    <2> SUFFICES ASSUME CallInv, Waiting, [Next]_vars
                 PROVE  /\ Advance => /\ StepsLeft \in Nat /\ StepsLeft' \in Nat
                                      /\ StepsLeft' < StepsLeft
                        /\ ~Advance => StepsLeft' = StepsLeft
      OBVIOUS
    <2>1. ASSUME Advance
          PROVE  StepsLeft \in Nat /\ StepsLeft' \in Nat /\ StepsLeft' < StepsLeft
      <3>1. /\ left \in Int /\ left >= -Slack /\ left' \in Int /\ left' >= -Slack
            /\ Slack \in Nat /\ pc \in Places /\ pc' \in Places
        BY StepInv, DurationAssumption DEF CallInv, TypeOK, BudgetKept
      <3>2. Rank(pc) \in 0..9 /\ Rank(pc') \in 0..9
        BY <3>1, RankType
      <3>3. /\ left' <= left
            /\ \/ Rank(pc') < Rank(pc)
               \/ left' < left /\ Rank(pc') <= Rank(pc) + 3
        BY <2>1, StepCosts
      <3>4. /\ StepsLeft = 4 * (left + Slack) + Rank(pc)
            /\ StepsLeft' = 4 * (left' + Slack) + Rank(pc')
        BY DEF StepsLeft, Rank
      <3> QED
        BY <3>1, <3>2, <3>3, <3>4
    <2>2. ASSUME ~Advance PROVE StepsLeft' = StepsLeft
      BY <2>2 DEF Next, DeviceFollows, Cancel, call, vars, StepsLeft, Rank
    <2> QED  BY <2>1, <2>2
  <1> QED
    BY <1>1, <1>2, InitInv, StepInv, WaitingStep, PTL DEF Spec, StepsRunOut
=============================================================================

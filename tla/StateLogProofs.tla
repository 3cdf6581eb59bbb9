----------------------------- MODULE StateLogProofs -----------------------------
(***************************************************************************)
(* Proofs about StateLog, for any number of daemon processes and claims,   *)
(* with and without writes that are cut short.                             *)
(*                                                                         *)
(* Follows holds however daemons meet.  Single adds what holds until two   *)
(* of them do: one at most is up, and what it has still to close or is     *)
(* carrying out has no result yet.                                         *)
(***************************************************************************)
EXTENDS StateLog, TLAPS

Legible == Garbled \notin Lines

Follows ==
    /\ TypeOK
    /\ \A p \in Proc : todo[p] \subseteq AcceptedIds
    /\ Legible => \A p \in Proc : open[p] \subseteq AcceptedIds
    /\ FinalFollowsAccepted

Tidy(p) ==
    /\ proc[p] # "terminalize" => todo[p] = {}
    /\ proc[p] # "serving" => open[p] = {}
    /\ (todo[p] \union open[p]) \cap FinalIds = {}
    /\ Legible /\ proc[p] = "terminalize" => LeftOpen \subseteq todo[p]
    /\ Legible /\ proc[p] = "lock" => LeftOpen = {}
    /\ Legible /\ proc[p] = "serving" => LeftOpen \subseteq open[p] \union lost[p]

Single ==
    ~ met => /\ \A p, q \in Proc : proc[p] # "down" /\ proc[q] # "down" => p = q
             /\ \A p \in Proc : Tidy(p)
             /\ OneFinal

-----------------------------------------------------------------------------
(* The three kinds of line are told apart, and a claim by its id.          *)
LEMMA LinesDiffer ==
    /\ \A r \in Request : /\ Accepted(r) \in Line /\ Final(r) \in Line
                          /\ Accepted(r) # Garbled /\ Final(r) # Garbled
                          /\ Final(r).event = "final_result" /\ Final(r).id = r
                          /\ Accepted(r).event = "accepted"
    /\ \A r, s \in Request : /\ Accepted(r) # Final(s)
                             /\ Accepted(r) = Accepted(s) => r = s
                             /\ Final(r) = Final(s) => r = s
    /\ Garbled \in Line /\ Garbled.event = "garbled"
BY DEF Accepted, Final, Garbled, Line

(* What an append leaves: the lines there were and one more.               *)
LEMMA Appended ==
    ASSUME file \in Seq(Line), torn \in BOOLEAN, NEW line \in Line, Written(line)
    PROVE  /\ file' \in Seq(Line) /\ torn' = FALSE
           /\ Len(file') = Len(file) + 1 /\ Len(file) \in Nat
           /\ \A i \in 1..Len(file) : file'[i] = file[i]
           /\ file'[Len(file) + 1] = IF torn THEN Garbled ELSE line
           /\ Lines' = Lines \union {IF torn THEN Garbled ELSE line}
<1> DEFINE l == IF torn THEN Garbled ELSE line
<1>1. l \in Line BY LinesDiffer
<1>2. file' = Append(file, l) /\ torn' = FALSE BY DEF Written
<1>3. /\ file' \in Seq(Line) /\ Len(file') = Len(file) + 1 /\ Len(file) \in Nat
      /\ \A i \in 1..Len(file) : file'[i] = file[i]
      /\ file'[Len(file) + 1] = l
  <2> HIDE DEF l
  <2> QED BY <1>1, <1>2
<1>4. Lines' = Lines \union {l}
  <2> HIDE DEF l
  <2>1. Lines' = {file'[i] : i \in 1..(Len(file) + 1)} BY <1>3 DEF Lines
  <2>2. 1..(Len(file) + 1) = (1..Len(file)) \union {Len(file) + 1} BY <1>3
  <2> QED BY <1>3, <2>1, <2>2 DEF Lines
<1> QED BY <1>2, <1>3, <1>4

(* The line of an append that failed is there, in part, whole or not.      *)
LEMMA Failed ==
    ASSUME file \in Seq(Line), torn \in BOOLEAN, NEW line \in Line, AppendFails(line)
    PROVE  Written(line) \/ (file' = file /\ torn' \in BOOLEAN)
BY DEF AppendFails, CutShort

(* An append of the acceptance of a claim.                                 *)
LEMMA AcceptedAppended ==
    ASSUME file \in Seq(Line), torn \in BOOLEAN, NEW r \in Request, Written(Accepted(r))
    PROVE  /\ FinalIds' = FinalIds
           /\ AcceptedIds \subseteq AcceptedIds'
           /\ Legible' => Legible /\ ~ torn /\ AcceptedIds' = AcceptedIds \union {r}
<1> DEFINE l == IF torn THEN Garbled ELSE Accepted(r)
<1>1. Accepted(r) \in Line BY LinesDiffer
<1>2. Lines' = Lines \union {l} BY <1>1, Appended
<1>3. l \in {Accepted(r), Garbled} /\ (l # Garbled => ~ torn /\ l = Accepted(r))
  OBVIOUS
<1> HIDE DEF l
<1>4. FinalIds' = FinalIds
  BY <1>2, <1>3, LinesDiffer DEF FinalIds
<1>5. AcceptedIds \subseteq AcceptedIds'
  BY <1>2 DEF AcceptedIds
<1>6. Legible' => Legible /\ l # Garbled
  BY <1>2 DEF Legible
<1>7. l = Accepted(r) => AcceptedIds' = AcceptedIds \union {r}
  BY <1>2, LinesDiffer DEF AcceptedIds
<1> QED BY <1>3, <1>4, <1>5, <1>6, <1>7

(* An append of the result of a claim.                                     *)
LEMMA FinalAppended ==
    ASSUME file \in Seq(Line), torn \in BOOLEAN, NEW r \in Request, Written(Final(r))
    PROVE  /\ AcceptedIds' = AcceptedIds
           /\ FinalIds' \subseteq FinalIds \union {r}
           /\ Legible' => Legible /\ ~ torn /\ FinalIds' = FinalIds \union {r}
<1> DEFINE l == IF torn THEN Garbled ELSE Final(r)
<1>1. Final(r) \in Line BY LinesDiffer
<1>2. Lines' = Lines \union {l} BY <1>1, Appended
<1>3. l \in {Final(r), Garbled} /\ (l # Garbled => ~ torn /\ l = Final(r))
  OBVIOUS
<1> HIDE DEF l
<1>4. AcceptedIds' = AcceptedIds
  BY <1>2, <1>3, LinesDiffer DEF AcceptedIds
<1>5. FinalIds' \subseteq FinalIds \union {r}
  BY <1>2, <1>3, LinesDiffer DEF FinalIds
<1>6. Legible' => Legible /\ l # Garbled
  BY <1>2 DEF Legible
<1>7. l = Final(r) => FinalIds' = FinalIds \union {r}
  BY <1>2, LinesDiffer DEF FinalIds
<1> QED BY <1>3, <1>4, <1>5, <1>6, <1>7

(* Nothing is appended.                                                    *)
LEMMA SameLines ==
    ASSUME file' = file
    PROVE  /\ Lines' = Lines /\ AcceptedIds' = AcceptedIds /\ FinalIds' = FinalIds
           /\ (Legible' <=> Legible) /\ LeftOpen' = LeftOpen
           /\ OneFinal' = OneFinal /\ FinalFollowsAccepted' = FinalFollowsAccepted
BY DEF Lines, AcceptedIds, FinalIds, Legible, LeftOpen, OneFinal, FinalFollowsAccepted

(* A result that was not there yet is there once afterwards.               *)
LEMMA OneMoreFinal ==
    ASSUME file \in Seq(Line), torn \in BOOLEAN, OneFinal,
           NEW r \in Request, r \notin FinalIds, Written(Final(r))
    PROVE  OneFinal'
<1>1. \A i \in 1..Len(file) : file[i] # Final(r)
  BY DEF FinalIds, Lines
<1>2. Final(r) \in Line BY LinesDiffer
<1>3. /\ Len(file) \in Nat /\ Len(file') = Len(file) + 1
      /\ \A i \in 1..Len(file) : file'[i] = file[i]
      /\ file'[Len(file) + 1] \in {Final(r), Garbled}
  BY <1>2, Appended
<1>4. Garbled.event # "final_result" BY LinesDiffer
<1> QED BY <1>1, <1>3, <1>4 DEF OneFinal

(* Lines that are no results leave the results alone.                      *)
LEMMA NoMoreFinal ==
    ASSUME file \in Seq(Line), torn \in BOOLEAN, OneFinal,
           NEW r \in Request, Written(Accepted(r))
    PROVE  OneFinal'
<1>1. Accepted(r) \in Line BY LinesDiffer
<1>2. /\ Len(file) \in Nat /\ Len(file') = Len(file) + 1
      /\ \A i \in 1..Len(file) : file'[i] = file[i]
      /\ file'[Len(file) + 1] \in {Accepted(r), Garbled}
  BY <1>1, Appended
<1>3. Garbled.event # "final_result" /\ Accepted(r).event # "final_result"
  BY LinesDiffer
<1> QED BY <1>2, <1>3 DEF OneFinal

(* A result appended after its acceptance keeps the order of the log, and  *)
(* so does an acceptance.                                                  *)
LEMMA OrderKept ==
    ASSUME file \in Seq(Line), torn \in BOOLEAN, FinalFollowsAccepted,
           NEW r \in Request,
           \/ Written(Accepted(r))
           \/ Written(Final(r)) /\ (Legible => r \in AcceptedIds)
    PROVE  FinalFollowsAccepted'
<1> SUFFICES ASSUME Legible', NEW j \in 1..Len(file'), file'[j].event = "final_result"
             PROVE  \E i \in 1..(j - 1) : file'[i] = Accepted(file'[j].id)
  BY DEF FinalFollowsAccepted, Legible
<1>1. Accepted(r) \in Line /\ Final(r) \in Line BY LinesDiffer
<1>2. PICK line \in {Accepted(r), Final(r)} :
         /\ Written(line)
         /\ line = Final(r) => (Legible => r \in AcceptedIds)
  BY LinesDiffer
<1>3. /\ Legible /\ Len(file) \in Nat /\ Len(file') = Len(file) + 1
      /\ \A i \in 1..Len(file) : file'[i] = file[i]
      /\ file'[Len(file) + 1] = line
  BY <1>1, <1>2, Appended DEF Legible
<1>4. CASE j \in 1..Len(file)
  BY <1>3, <1>4 DEF FinalFollowsAccepted, Legible
<1>5. CASE j = Len(file) + 1
  <2>1. line = Final(r) /\ file'[j].id = r
    BY <1>2, <1>3, <1>5, LinesDiffer
  <2>2. PICK i \in 1..Len(file) : file[i] = Accepted(r)
    BY <1>2, <1>3, <2>1 DEF AcceptedIds, Lines
  <2> QED BY <1>3, <1>5, <2>1, <2>2
<1> QED BY <1>3, <1>4, <1>5

-----------------------------------------------------------------------------
(* The steps that append nothing: the file keeps its lines, though a death *)
(* may leave a part of one behind them.                                    *)
Silent(p) ==
    \/ Start(p) \/ ScanFails(p) \/ Scan(p) \/ OpenStore(p)
    \/ AcquireDaemonLock(p) \/ DaemonLockRefused(p) \/ Die(p)

(* The steps that do not write leave the file alone.                       *)
LEMMA SilentFile ==
    ASSUME TypeOK, NEW p \in Proc, Silent(p)
    PROVE  file' = file /\ torn' \in BOOLEAN
BY DEF TypeOK, Silent, Start, ScanFails, Scan, OpenStore, AcquireDaemonLock,
   DaemonLockRefused, Die, CutShort

(* The first state has both.                                               *)
LEMMA LogInit ==
    ASSUME Init
    PROVE  Follows /\ Single
<1> USE LogAssumption DEF Init
<1>1. TypeOK
  <2>1. file \in Seq(Line) OBVIOUS
  <2>2. torn \in BOOLEAN /\ met \in BOOLEAN OBVIOUS
  <2>3. /\ proc \in [Proc -> {"down", "scan", "terminalize", "lock", "serving"}]
        /\ todo \in [Proc -> SUBSET Request]
        /\ open \in [Proc -> SUBSET Request]
        /\ lost \in [Proc -> SUBSET Request]
    OBVIOUS
  <2>4. /\ holder \in Proc \union {NoProc}
        /\ \A p \in Proc : holder = p <=> proc[p] = "serving"
    OBVIOUS
  <2> QED BY <2>1, <2>2, <2>3, <2>4 DEF TypeOK
<1>2. Lines = {} /\ AcceptedIds = {} /\ FinalIds = {}
  BY DEF Lines, AcceptedIds, FinalIds
<1>3. Follows BY <1>1, <1>2 DEF Follows, FinalFollowsAccepted
<1>4. Single BY <1>2 DEF Single, Tidy, OneFinal
<1> QED BY <1>3, <1>4

(* Every step keeps the types.                                             *)
LEMMA TypeStep ==
    ASSUME TypeOK, [Next]_vars
    PROVE  TypeOK'
<1>1. CASE UNCHANGED vars
  BY <1>1 DEF vars, TypeOK
<1>2. ASSUME NEW p \in Proc, Silent(p) PROVE TypeOK'
  <2>1. file' = file /\ torn' \in BOOLEAN BY <1>2, SilentFile
  <2>2. LeftOpen \subseteq Request BY DEF LeftOpen, AcceptedIds
  <2>3. CASE Start(p) \/ ScanFails(p) \/ Scan(p) \/ OpenStore(p) \/ DaemonLockRefused(p)
    BY <2>1, <2>2, <2>3
    DEF TypeOK, Start, ScanFails, Scan, OpenStore, DaemonLockRefused
  <2>4. CASE AcquireDaemonLock(p)
    BY <2>1, <2>4, LogAssumption DEF TypeOK, AcquireDaemonLock
  <2>5. CASE Die(p)
    BY <2>1, <2>5, LogAssumption DEF TypeOK, Die
  <2> QED BY <1>2, <2>3, <2>4, <2>5 DEF Silent
<1>3. ASSUME NEW p \in Proc, NEW r \in Request,
             \/ Terminalize(p, r) \/ TerminalizeFails(p, r)
             \/ AcceptClaim(p, r) \/ FinishClaim(p, r)
      PROVE  TypeOK'
  <2>1. file' \in Seq(Line) /\ torn' \in BOOLEAN
    <3>1. PICK line \in {Accepted(r), Final(r)} : Written(line) \/ AppendFails(line)
      BY <1>3 DEF Terminalize, TerminalizeFails, AcceptClaim, FinishClaim
    <3>2. line \in Line BY LinesDiffer
    <3> QED BY <3>1, <3>2, Appended, Failed DEF TypeOK
  <2> QED BY <1>3, <2>1
          DEF TypeOK, Terminalize, TerminalizeFails, AcceptClaim, FinishClaim
<1> QED BY <1>1, <1>2, <1>3 DEF Next, Silent

-----------------------------------------------------------------------------
(* Only a claim that is in the log is closed.                              *)
LEMMA FollowsStep ==
    ASSUME Follows, [Next]_vars
    PROVE  Follows'
<1>0. TypeOK' BY TypeStep DEF Follows
<1> USE DEF Follows, TypeOK
<1>1. CASE UNCHANGED vars
  BY <1>0, <1>1, SameLines DEF vars
<1>2. ASSUME NEW p \in Proc, Silent(p) PROVE Follows'
  <2>1. file' = file BY <1>2, SilentFile
  <2>2. \A q \in Proc : todo'[q] \subseteq todo[q] \union AcceptedIds
    BY <1>2 DEF Silent, Start, ScanFails, Scan, OpenStore, AcquireDaemonLock,
       DaemonLockRefused, Die, LeftOpen
  <2>3. \A q \in Proc : open'[q] \subseteq open[q]
    BY <1>2 DEF Silent, Start, ScanFails, Scan, OpenStore, AcquireDaemonLock,
       DaemonLockRefused, Die
  <2> QED BY <1>0, <2>1, <2>2, <2>3, SameLines
<1>3. ASSUME NEW p \in Proc, NEW r \in Request, Terminalize(p, r) PROVE Follows'
  <2>1. Written(Final(r)) /\ r \in AcceptedIds /\ open' = open
        /\ \A q \in Proc : todo'[q] \subseteq todo[q]
    BY <1>3 DEF Terminalize
  <2> QED BY <1>0, <2>1, FinalAppended, OrderKept
<1>4. ASSUME NEW p \in Proc, NEW r \in Request, TerminalizeFails(p, r) PROVE Follows'
  <2>1. AppendFails(Final(r)) /\ r \in AcceptedIds /\ open' = open
        /\ \A q \in Proc : todo'[q] \subseteq todo[q]
    BY <1>4 DEF TerminalizeFails
  <2>2. CASE Written(Final(r))
    BY <1>0, <2>1, <2>2, FinalAppended, OrderKept
  <2>3. CASE file' = file
    BY <1>0, <2>1, <2>3, SameLines
  <2> QED BY <2>1, <2>2, <2>3, Failed, LinesDiffer
<1>5. ASSUME NEW p \in Proc, NEW r \in Request, AcceptClaim(p, r) PROVE Follows'
  <2>1. todo' = todo
        /\ \A q \in Proc : open'[q] \subseteq open[q] \union {r}
        /\ \/ Written(Accepted(r))
           \/ AppendFails(Accepted(r)) /\ open' = open
    BY <1>5 DEF AcceptClaim
  <2>2. CASE Written(Accepted(r))
    <3>1. FinalFollowsAccepted' BY <2>2, OrderKept
    <3> QED BY <1>0, <2>1, <2>2, <3>1, AcceptedAppended
  <2>3. CASE file' = file /\ open' = open
    BY <1>0, <2>1, <2>3, SameLines
  <2> QED BY <2>1, <2>2, <2>3, Failed, LinesDiffer
<1>6. ASSUME NEW p \in Proc, NEW r \in Request, FinishClaim(p, r) PROVE Follows'
  <2>1. /\ todo' = todo
        /\ r \in open[p]
        /\ \A q \in Proc : open'[q] \subseteq open[q]
        /\ Written(Final(r)) \/ AppendFails(Final(r))
    BY <1>6 DEF FinishClaim
  <2>2. CASE Written(Final(r))
    <3>1. FinalFollowsAccepted' BY <2>1, <2>2, OrderKept
    <3> QED BY <1>0, <2>1, <2>2, <3>1, FinalAppended
  <2>3. CASE file' = file
    BY <1>0, <2>1, <2>3, SameLines
  <2> QED BY <2>1, <2>2, <2>3, Failed, LinesDiffer
<1> QED BY <1>1, <1>2, <1>3, <1>4, <1>5, <1>6 DEF Next, Silent

-----------------------------------------------------------------------------
(* One step of one process.                                                *)
Step(p) ==
    Silent(p) \/ \E r \in Request : \/ Terminalize(p, r) \/ TerminalizeFails(p, r)
                                   \/ AcceptClaim(p, r) \/ FinishClaim(p, r)

(* As long as no two daemons meet, the others are down and stay it.        *)
LEMMA OthersDown ==
    ASSUME TypeOK, Single, NEW p \in Proc, Step(p), ~ met'
    PROVE  /\ ~ met
           /\ \A q \in Proc \ {p} : /\ proc'[q] = "down"
                                    /\ todo'[q] = {} /\ open'[q] = {}
<1> USE DEF TypeOK, Step, Silent, Start, ScanFails, Scan, OpenStore,
        AcquireDaemonLock, DaemonLockRefused, Die, Terminalize, TerminalizeFails,
        AcceptClaim, FinishClaim
<1>1. ~ met
  OBVIOUS
<1>2. \A q \in Proc \ {p} : proc[q] = "down"
  BY <1>1 DEF Single
<1>3. \A q \in Proc \ {p} : todo[q] = {} /\ open[q] = {}
  BY <1>1, <1>2 DEF Single, Tidy
<1>4. \A q \in Proc \ {p} :
         proc'[q] = proc[q] /\ todo'[q] = todo[q] /\ open'[q] = open[q]
  OBVIOUS
<1> QED BY <1>1, <1>2, <1>3, <1>4

(* A step that appends nothing.                                            *)
LEMMA TidySilent ==
    ASSUME TypeOK, NEW p \in Proc, Tidy(p), OneFinal, Silent(p)
    PROVE  Tidy(p)' /\ OneFinal'
<1>1. file' = file BY SilentFile
<1>2. AcceptedIds \subseteq Request BY DEF AcceptedIds
<1> USE <1>1, SameLines DEF TypeOK, Tidy
<1>3. CASE Start(p) \/ ScanFails(p) \/ DaemonLockRefused(p) \/ Die(p)
  BY <1>3 DEF Start, ScanFails, DaemonLockRefused, Die
<1>4. CASE Scan(p)
  BY <1>2, <1>4 DEF Scan, LeftOpen
<1>5. CASE OpenStore(p) \/ AcquireDaemonLock(p)
  BY <1>5 DEF OpenStore, AcquireDaemonLock
<1> QED BY <1>3, <1>4, <1>5 DEF Silent

(* A claim that is left open is closed.                                    *)
LEMMA TidyTerminalize ==
    ASSUME TypeOK, NEW p \in Proc, Tidy(p), OneFinal, NEW r \in Request,
           Terminalize(p, r) \/ TerminalizeFails(p, r)
    PROVE  Tidy(p)' /\ OneFinal'
<1> USE DEF TypeOK
<1>1. r \notin FinalIds BY DEF Terminalize, TerminalizeFails, Tidy
<1>2. CASE Terminalize(p, r)
  <2>1. /\ Written(Final(r)) /\ proc' = proc /\ open' = open
        /\ proc[p] = "terminalize" /\ todo'[p] = todo[p] \ {r}
    BY <1>2 DEF Terminalize
  <2>2. OneFinal' BY <1>1, <2>1, OneMoreFinal
  <2>3. Tidy(p)' BY <2>1, FinalAppended DEF Tidy, LeftOpen
  <2> QED BY <2>2, <2>3
<1>3. CASE TerminalizeFails(p, r)
  <2>1. /\ AppendFails(Final(r)) /\ proc'[p] = "down" /\ open'[p] = {}
        /\ todo'[p] = {}
    BY <1>3 DEF TerminalizeFails, Tidy
  <2>2. Written(Final(r)) \/ file' = file BY <2>1, Failed, LinesDiffer
  <2>3. OneFinal' BY <1>1, <2>2, OneMoreFinal, SameLines
  <2> QED BY <2>1, <2>3 DEF Tidy
<1> QED BY <1>2, <1>3

(* A claim is taken up.                                                    *)
LEMMA TidyAccept ==
    ASSUME TypeOK, NEW p \in Proc, Tidy(p), OneFinal, NEW r \in Request,
           AcceptClaim(p, r)
    PROVE  Tidy(p)' /\ OneFinal'
<1> USE DEF TypeOK
<1>1. /\ proc' = proc /\ todo' = todo /\ proc[p] = "serving" /\ r \notin FinalIds
      /\ open'[p] \subseteq open[p] \union {r}
      /\ open'[p] \union lost'[p] = open[p] \union lost[p] \union {r}
  BY DEF AcceptClaim, Fresh
<1>2. Written(Accepted(r)) \/ file' = file
  BY Failed, LinesDiffer DEF AcceptClaim
<1>3. CASE Written(Accepted(r))
  <2>1. OneFinal' BY <1>3, NoMoreFinal
  <2>2. Tidy(p)' BY <1>1, <1>3, AcceptedAppended DEF Tidy, LeftOpen
  <2> QED BY <2>1, <2>2
<1>4. CASE file' = file
  BY <1>1, <1>4, SameLines DEF Tidy
<1> QED BY <1>2, <1>3, <1>4

(* A claim is finished.                                                    *)
LEMMA TidyFinish ==
    ASSUME TypeOK, NEW p \in Proc, Tidy(p), OneFinal, NEW r \in Request,
           FinishClaim(p, r)
    PROVE  Tidy(p)' /\ OneFinal'
<1> USE DEF TypeOK
<1>1. /\ proc' = proc /\ todo' = todo /\ proc[p] = "serving" /\ r \in open[p]
      /\ open'[p] = open[p] \ {r} /\ lost[p] \subseteq lost'[p]
      /\ Written(Final(r)) \/ r \in lost'[p]
  BY DEF FinishClaim
<1>2. Written(Final(r)) \/ file' = file
  BY Failed, LinesDiffer DEF FinishClaim
<1>3. r \notin FinalIds BY <1>1 DEF Tidy
<1>4. CASE Written(Final(r))
  <2>1. OneFinal' BY <1>3, <1>4, OneMoreFinal
  <2>2. Tidy(p)' BY <1>1, <1>4, FinalAppended DEF Tidy, LeftOpen
  <2> QED BY <2>1, <2>2
<1>5. CASE file' = file /\ r \in lost'[p]
  BY <1>1, <1>5, SameLines DEF Tidy
<1> QED BY <1>1, <1>2, <1>4, <1>5

(* Every step keeps Single.                                                *)
LEMMA SingleStep ==
    ASSUME TypeOK, Single, [Next]_vars
    PROVE  Single'
<1>1. CASE UNCHANGED vars
  BY <1>1, SameLines DEF vars, Single, Tidy
<1>2. CASE met'
  BY <1>2 DEF Single
<1>3. ASSUME NEW p \in Proc, Step(p), ~ met' PROVE Single'
  <2>1. ~ met /\ Tidy(p) /\ OneFinal
    BY <1>3, OthersDown DEF Single
  <2>2. Tidy(p)' /\ OneFinal'
    BY <1>3, <2>1, TidySilent, TidyTerminalize, TidyAccept, TidyFinish DEF Step
  <2>3. \A q \in Proc \ {p} : proc'[q] = "down" /\ Tidy(q)'
    BY <1>3, OthersDown DEF Tidy
  <2> QED BY <2>2, <2>3 DEF Single
<1> QED BY <1>1, <1>2, <1>3 DEF Next, Step, Silent

-----------------------------------------------------------------------------
(* Every reachable state has both.                                         *)
THEOREM LogReachable == Spec => [](Follows /\ Single)
<1>1. Init => Follows /\ Single BY LogInit
<1>2. Follows /\ Single /\ [Next]_vars => (Follows /\ Single)'
  BY FollowsStep, SingleStep DEF Follows
<1> QED BY <1>1, <1>2, PTL DEF Spec

(* Type correctness; a process serves exactly when it has the daemon lock. *)
THEOREM LogTypes == Spec => []TypeOK
<1>1. Follows => TypeOK BY DEF Follows
<1> QED BY <1>1, LogReachable, PTL

(* FinalFollowsAccepted: TerminalizeOpen and the daemon log a result only  *)
(* for a claim that the log has as accepted, also when daemons meet.       *)
THEOREM LogOrder == Spec => []FinalFollowsAccepted
<1>1. Follows => FinalFollowsAccepted BY DEF Follows
<1> QED BY <1>1, LogReachable, PTL

(* OneFinalIfAlone: a claim has one result, however often daemons die.     *)
THEOREM LogOneFinal == Spec => []OneFinalIfAlone
<1>1. Single => OneFinalIfAlone BY DEF Single, OneFinalIfAlone, Alone
<1> QED BY <1>1, LogReachable, PTL

(* OpenClaimsAreOwn: nothing that an earlier daemon left stays open.       *)
THEOREM LogOwn == Spec => []OpenClaimsAreOwn
<1>1. Single => OpenClaimsAreOwn
  BY DEF Single, Tidy, OpenClaimsAreOwn, Alone, Legible
<1> QED BY <1>1, LogReachable, PTL
=============================================================================

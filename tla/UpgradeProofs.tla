----------------------------- MODULE UpgradeProofs -----------------------------
(***************************************************************************)
(* Proofs about Upgrade, for any number of upgrades, versions and faults.  *)
(*                                                                         *)
(* Named says of every state, also after upgrades that met, that no two    *)
(* names stand for one file and that what is written was verified.  Alone  *)
(* adds what holds until two upgrades meet: one at most is running, and    *)
(* its place tells which file each name stands for and what is in it.      *)
(***************************************************************************)
EXTENDS Upgrade, TLAPS

Fresh == {"idle", "lookUp", "download", "verify", "removeNew", "removeOld", "create"}
Fetched == {"removeNew", "removeOld", "create", "write"}

Named ==
    /\ TypeOK
    /\ \A u \in Upgraders :
        /\ pc[u] \in Fresh => u \notin {exe, new, old}
        /\ pc[u] \in Fetched => binary[u] = target[u]
    /\ data \in [Files -> Versions \cup {"torn"}]

Untouched == {"lookUp", "download", "verify", "removeNew", "removeOld", "create",
              "write", "chmod", "renameExe", "restartOld"}

(* What the names stand for when u runs alone.                             *)
Place(u) ==
    /\ home[u] # None
    /\ pc[u] \in Untouched => exe = home[u]
    /\ pc[u] \in {"removeOld", "create"} => new = None
    /\ pc[u] \in {"write", "chmod", "renameExe", "renameNew"} => new = file[u] /\ new # None
    /\ pc[u] \in {"chmod", "renameExe", "renameNew"} => data[new] = target[u]
    /\ pc[u] \in {"renameNew", "rollBack", "renameOld"} => exe = None /\ old = home[u]
    /\ pc[u] = "dropNew" => exe = home[u] \/ u \in spoiled
    /\ pc[u] \in {"restart", "findOld", "removeExe"} =>
          exe # None /\ data[exe] = target[u] /\ old = home[u]

Covered ==
    /\ exe # None => data[exe] \in Versions
    /\ old # None => data[old] \in Versions
    /\ exe = None => old # None

Alone ==
    ~met => /\ Covered
            /\ \A u \in Upgraders : pc[u] \in Running => Place(u)
            /\ \A u, v \in Upgraders : {pc[u], pc[v]} \subseteq Running => u = v

(* One step of one upgrade.                                                *)
Step(u) ==
    \/ Start(u) \/ LookUp(u) \/ Download(u) \/ Verify(u)
    \/ RemoveNew(u) \/ RemoveOld(u) \/ Create(u) \/ Write(u) \/ Chmod(u)
    \/ RenameExe(u) \/ RenameNew(u) \/ RollBack(u) \/ DropNew(u)
    \/ Restart(u) \/ FindOld(u) \/ RemoveExe(u) \/ RenameOld(u)
    \/ Die(u)

(* The first state has both.                                               *)
LEMMA UpgradeInit ==
    ASSUME Init
    PROVE  Named /\ Alone
<1> USE UpgradeAssumption
<1>0. /\ {exe, new, old} \subseteq Files \cup {None} /\ exe # new /\ exe # old
      /\ new = None
  BY DEF Init, Files
<1>1. TypeOK
  <2>1. data \in [Files -> Versions \cup {"torn", "corrupt"}] BY DEF Init
  <2>2. /\ pc \in [Upgraders -> {"idle"} \cup Running \cup Ended]
        /\ home \in [Upgraders -> Files \cup {None}]
        /\ target \in [Upgraders -> Versions]
        /\ binary \in [Upgraders -> Versions \cup {None, "corrupt"}]
        /\ file \in [Upgraders -> Files \cup {None}]
    BY DEF Init
  <2>3. faults \in 0..MaxFaults
    BY DEF Init, UpgradeAssumption
  <2>4. spoiled \subseteq Upgraders /\ met \in BOOLEAN
    BY DEF Init
  <2> QED BY <1>0, <2>1, <2>2, <2>3, <2>4 DEF TypeOK
<1>2. \A u \in Upgraders : pc[u] = "idle" /\ u \notin {exe, new, old}
  BY DEF Init
<1>3. data \in [Files -> Versions \cup {"torn"}] BY DEF Init
<1>4. Named BY <1>1, <1>2, <1>3 DEF Named, Fetched
<1>5. Covered BY DEF Init, Covered, Files
<1> QED BY <1>2, <1>4, <1>5 DEF Alone, Running

(* A step changes the place of its own upgrade only.                       *)
LEMMA PlaceTyped ==
    ASSUME Named, NEW u \in Upgraders, Step(u)
    PROVE  /\ pc' \in [Upgraders -> {"idle"} \cup Running \cup Ended]
           /\ \A v \in Upgraders \ {u} : pc'[v] = pc[v]
BY DEF Named, TypeOK, Step, Goto, Running, Ended, Start, LookUp, Download, Verify,
   RemoveNew, RemoveOld, Create, Write, Chmod, RenameExe, RenameNew, RollBack,
   DropNew, Restart, FindOld, RemoveExe, RenameOld, Die

(* The variables that belong to an upgrade, and the counters.              *)
LEMMA OwnTyped ==
    ASSUME Named, NEW u \in Upgraders, Step(u)
    PROVE  /\ home' \in [Upgraders -> Files \cup {None}]
           /\ target' \in [Upgraders -> Versions]
           /\ binary' \in [Upgraders -> Versions \cup {None, "corrupt"}]
           /\ file' \in [Upgraders -> Files \cup {None}]
           /\ faults' \in 0..MaxFaults
           /\ spoiled' \subseteq Upgraders
           /\ met' \in BOOLEAN
<1>1. home' \in [Upgraders -> Files \cup {None}]
  BY DEF Named, TypeOK, Step, own, Start, LookUp, Download, Verify,
     RemoveNew, RemoveOld, Create, Write, Chmod, RenameExe, RenameNew, RollBack,
     DropNew, Restart, FindOld, RemoveExe, RenameOld, Die
<1>2. target' \in [Upgraders -> Versions]
  BY DEF Named, TypeOK, Step, own, Start, LookUp, Download, Verify,
     RemoveNew, RemoveOld, Create, Write, Chmod, RenameExe, RenameNew, RollBack,
     DropNew, Restart, FindOld, RemoveExe, RenameOld, Die
<1>3. binary' \in [Upgraders -> Versions \cup {None, "corrupt"}]
  BY DEF Named, TypeOK, Step, own, Start, LookUp, Download, Verify,
     RemoveNew, RemoveOld, Create, Write, Chmod, RenameExe, RenameNew, RollBack,
     DropNew, Restart, FindOld, RemoveExe, RenameOld, Die
<1>4. file' \in [Upgraders -> Files \cup {None}]
  BY DEF Named, TypeOK, Files, Step, own, Start, LookUp, Download, Verify,
     RemoveNew, RemoveOld, Create, Write, Chmod, RenameExe, RenameNew, RollBack,
     DropNew, Restart, FindOld, RemoveExe, RenameOld, Die
<1>5. faults' \in 0..MaxFaults
  BY UpgradeAssumption
  DEF Named, TypeOK, Fault, Step, own, Start, LookUp, Download, Verify,
     RemoveNew, RemoveOld, Create, Write, Chmod, RenameExe, RenameNew, RollBack,
     DropNew, Restart, FindOld, RemoveExe, RenameOld, Die
<1>6. spoiled' \subseteq Upgraders /\ met' \in BOOLEAN
  BY DEF Named, TypeOK, Step, own, Start, LookUp, Download, Verify,
     RemoveNew, RemoveOld, Create, Write, Chmod, RenameExe, RenameNew, RollBack,
     DropNew, Restart, FindOld, RemoveExe, RenameOld, Die
<1> QED BY <1>1, <1>2, <1>3, <1>4, <1>5, <1>6

(* What is written was verified: no file is ever anything but a release or *)
(* torn.                                                                   *)
LEMMA DataTyped ==
    ASSUME Named, NEW u \in Upgraders, Step(u)
    PROVE  data' \in [Files -> Versions \cup {"torn"}]
<1>1. CASE Write(u)
  BY <1>1 DEF Named, TypeOK, Fetched, Write
<1>2. CASE Create(u)
  BY <1>2 DEF Named, Create
<1>3. CASE ~Write(u) /\ ~Create(u)
  BY <1>3 DEF Named, Step, Start, LookUp, Download, Verify, RemoveNew, RemoveOld,
     Chmod, RenameExe, RenameNew, RollBack, DropNew, Restart, FindOld, RemoveExe,
     RenameOld, Die
<1> QED BY <1>1, <1>2, <1>3

(* Names are moved, and a file gets its first name from its own upgrade.   *)
LEMMA NamesTyped ==
    ASSUME Named, NEW u \in Upgraders, Step(u)
    PROVE  /\ {exe', new', old'} \subseteq Files \cup {None}
           /\ exe' # None => exe' # new' /\ exe' # old'
           /\ new' # None => new' # old'
           /\ {exe', new', old'} \subseteq {exe, new, old, None, u}
           /\ ~Create(u) => {exe', new', old'} \subseteq {exe, new, old, None}
<1> USE UpgradeAssumption DEF Named, TypeOK
<1>1. CASE Create(u)
  BY <1>1 DEF Create, Fresh, Files
<1>2. CASE RemoveNew(u) \/ RemoveOld(u) \/ DropNew(u) \/ RemoveExe(u)
  BY <1>2 DEF RemoveNew, RemoveOld, DropNew, RemoveExe
<1>3. CASE RenameExe(u)
  BY <1>3 DEF RenameExe
<1>4. CASE RenameNew(u)
  BY <1>4 DEF RenameNew
<1>5. CASE RollBack(u) \/ RenameOld(u)
  BY <1>5 DEF RollBack, RenameOld
<1>6. CASE Start(u) \/ LookUp(u) \/ Download(u) \/ Verify(u) \/ Write(u) \/ Chmod(u)
           \/ Restart(u) \/ FindOld(u) \/ Die(u)
  BY <1>6 DEF names, Start, LookUp, Download, Verify, Write, Chmod, Restart, FindOld,
     Die
<1> QED BY <1>1, <1>2, <1>3, <1>4, <1>5, <1>6 DEF Step

(* What an upgrade fetched is the release it looked up once it touches the *)
(* disk: Verify lets it no further otherwise.                              *)
LEMMA FetchedIsVerified ==
    ASSUME Named, NEW u \in Upgraders, Step(u)
    PROVE  \A v \in Upgraders : pc'[v] \in Fetched => binary'[v] = target'[v]
<1> USE DEF Named, TypeOK, Goto, Fetched
<1>1. CASE LookUp(u) \/ Download(u) \/ Verify(u)
  BY <1>1 DEF LookUp, Download, Verify, Verified, own
<1>2. CASE Start(u) \/ RemoveNew(u) \/ RemoveOld(u) \/ Create(u) \/ Write(u)
           \/ Chmod(u) \/ RenameExe(u) \/ RenameNew(u) \/ RollBack(u) \/ DropNew(u)
  BY <1>2 DEF Start, RemoveNew, RemoveOld, Create, Write, Chmod, RenameExe, RenameNew,
     RollBack, DropNew, own
<1>3. CASE Restart(u) \/ FindOld(u) \/ RemoveExe(u) \/ RenameOld(u) \/ Die(u)
  BY <1>3 DEF Restart, FindOld, RemoveExe, RenameOld, Die, own
<1> QED BY <1>1, <1>2, <1>3 DEF Step

(* A file that is still to be created has no name.                         *)
LEMMA FreshUnnamed ==
    ASSUME Named, NEW u \in Upgraders, Step(u)
    PROVE  \A v \in Upgraders : pc'[v] \in Fresh => v \notin {exe', new', old'}
<1> TAKE v \in Upgraders
<1> HAVE pc'[v] \in Fresh
<1>1. pc[v] \in Fresh /\ ~(Create(u) /\ v = u /\ new = None)
  BY DEF Named, TypeOK, Step, Goto, Fresh, Running, Ended, Start, LookUp, Download,
     Verify, RemoveNew, RemoveOld, Create, Write, Chmod, RenameExe, RenameNew,
     RollBack, DropNew, Restart, FindOld, RemoveExe, RenameOld, Die
<1>2. v \notin {exe, new, old, None}
  BY <1>1, UpgradeAssumption DEF Named
<1>3. CASE v # u \/ ~Create(u)
  BY <1>2, <1>3, NamesTyped
<1>4. CASE v = u /\ Create(u)
  BY <1>1, <1>2, <1>4 DEF Create
<1> QED BY <1>3, <1>4

(* Every step keeps Named.                                                 *)
LEMMA NamedStep ==
    ASSUME Named, [Next]_vars
    PROVE  Named'
<1>1. CASE UNCHANGED vars
  BY <1>1 DEF vars, Named, TypeOK
<1>2. ASSUME NEW u \in Upgraders, Step(u) PROVE Named'
  <2>1. TypeOK'
    BY <1>2, PlaceTyped, OwnTyped, DataTyped, NamesTyped DEF TypeOK
  <2> QED BY <1>2, <2>1, DataTyped, FetchedIsVerified, FreshUnnamed DEF Named
<1> QED BY <1>1, <1>2 DEF Next, Step

(* Two upgrades that run make met true, so a step of one that runs alone   *)
(* leaves the others where they do not run.                                *)
LEMMA OneRuns ==
    ASSUME Named, Alone, NEW u \in Upgraders, Step(u), ~met'
    PROVE  /\ ~met
           /\ \A v \in Upgraders : pc'[v] \in Running => v = u
           /\ pc[u] \in Running => Place(u)
<1>1. ~met
  BY DEF Named, TypeOK, Step, Start, LookUp, Download, Verify, RemoveNew, RemoveOld,
     Create, Write, Chmod, RenameExe, RenameNew, RollBack, DropNew, Restart, FindOld,
     RemoveExe, RenameOld, Die
<1>2. CASE Start(u)
  BY <1>1, <1>2, PlaceTyped DEF Start, Alone
<1>3. CASE ~Start(u)
  <2>1. pc[u] \in Running
    BY <1>3 DEF Step, Running, LookUp, Download, Verify, RemoveNew, RemoveOld,
       Create, Write, Chmod, RenameExe, RenameNew, RollBack, DropNew, Restart,
       FindOld, RemoveExe, RenameOld, Die
  <2> QED BY <1>1, <2>1, PlaceTyped DEF Alone
<1> QED BY <1>1, <1>2, <1>3

(* What the step of an upgrade that runs alone leaves.                     *)
LEMMA PlaceStep ==
    ASSUME Named, Alone, NEW u \in Upgraders, Step(u), ~met'
    PROVE  Covered' /\ (pc'[u] \in Running => Place(u)')
<1> USE UpgradeAssumption DEF Named, TypeOK, Covered, Goto, Running
<1>1. ~met /\ Covered /\ (pc[u] \in Running => Place(u))
  BY OneRuns DEF Alone
<1>2. CASE Start(u)
  BY <1>1, <1>2 DEF Place, Untouched, Whole, names, own, Start
<1>3. CASE LookUp(u)
  BY <1>1, <1>3 DEF Place, Untouched, names, own, LookUp
<1>4. CASE Download(u)
  BY <1>1, <1>4 DEF Place, Untouched, names, own, Download
<1>5. CASE Verify(u)
  BY <1>1, <1>5 DEF Place, Untouched, names, own, Verify
<1>6. CASE RemoveNew(u)
  BY <1>1, <1>6 DEF Place, Untouched, names, own, RemoveNew
<1>7. CASE RemoveOld(u)
  BY <1>1, <1>7 DEF Place, Untouched, names, own, RemoveOld
<1>8. CASE Create(u)
  BY <1>1, <1>8 DEF Place, Untouched, Fresh, Files, names, own, Create
<1>9. CASE Write(u)
  BY <1>1, <1>9 DEF Place, Untouched, Fetched, names, own, Write
<1>10. CASE Chmod(u)
  BY <1>1, <1>10 DEF Place, Untouched, names, own, Chmod
<1>11. CASE RenameExe(u)
  BY <1>1, <1>11 DEF Place, Untouched, names, own, RenameExe
<1>12. CASE RenameNew(u)
  BY <1>1, <1>12 DEF Place, Untouched, names, own, RenameNew
<1>13. CASE RollBack(u)
  BY <1>1, <1>13 DEF Place, Untouched, names, own, RollBack
<1>14. CASE DropNew(u)
  BY <1>1, <1>14 DEF Place, Untouched, names, own, DropNew
<1>15. CASE Restart(u)
  BY <1>1, <1>15 DEF Place, Untouched, names, own, Restart
<1>16. CASE FindOld(u)
  BY <1>1, <1>16 DEF Place, Untouched, names, own, FindOld
<1>17. CASE RemoveExe(u)
  BY <1>1, <1>17 DEF Place, Untouched, names, own, RemoveExe
<1>18. CASE RenameOld(u)
  BY <1>1, <1>18 DEF Place, Untouched, names, own, RenameOld
<1>19. CASE Die(u)
  BY <1>1, <1>19 DEF Place, Untouched, names, own, Die
<1> QED BY <1>2, <1>3, <1>4, <1>5, <1>6, <1>7, <1>8, <1>9, <1>10, <1>11, <1>12, <1>13, <1>14, <1>15, <1>16, <1>17, <1>18, <1>19 DEF Step

(* Every step of one upgrade keeps Alone, or it meets another.             *)
LEMMA AloneStep ==
    ASSUME Named, Alone, [Next]_vars
    PROVE  Alone'
<1>1. CASE UNCHANGED vars
  BY <1>1 DEF vars, Alone, Covered, Place
<1>2. ASSUME NEW u \in Upgraders, Step(u), ~met' PROVE Alone'
  BY <1>2, OneRuns, PlaceStep DEF Alone
<1>3. CASE met'
  BY <1>3 DEF Alone
<1> QED BY <1>1, <1>2, <1>3 DEF Next, Step

-----------------------------------------------------------------------------
(* Every reachable state is Named and Alone.                               *)
THEOREM UpgradeReachable == Spec => [](Named /\ Alone)
<1>1. Init => Named /\ Alone BY UpgradeInit
<1>2. Named /\ Alone /\ [Next]_vars => (Named /\ Alone)'
  BY NamedStep, AloneStep
<1> QED BY <1>1, <1>2, PTL DEF Spec

(* Type correctness.                                                       *)
THEOREM UpgradeTypes == Spec => []TypeOK
<1>1. Named => TypeOK BY DEF Named
<1> QED BY <1>1, UpgradeReachable, PTL

(* NothingUnverified: however many upgrades run at once, no archive that   *)
(* failed verifyChecksum gets under the executable, its .new or its .old.  *)
THEOREM UpgradeUnverified == Spec => []NothingUnverified
<1>1. Named => NothingUnverified
  <2> SUFFICES ASSUME Named, NEW f \in {exe, new, old} \ {None}
               PROVE  data[f] # "corrupt"
    BY DEF NothingUnverified
  <2>1. data[f] \in Versions \cup {"torn"} BY DEF Named, TypeOK
  <2> QED BY <2>1, UpgradeAssumption
<1> QED BY <1>1, UpgradeReachable, PTL

(* ExeIsWhole: the executable that is there is a whole release, whatever   *)
(* calls failed and wherever an upgrade died.                              *)
THEOREM UpgradeWhole == Spec => []ExeIsWhole
<1>1. Alone => ExeIsWhole BY DEF Alone, Covered, ExeIsWhole
<1> QED BY <1>1, UpgradeReachable, PTL

(* BackupCoversGap: between the renames of replaceBinary and of            *)
(* restoreOldBinary the backup is a whole release.                         *)
THEOREM UpgradeBackup == Spec => []BackupCoversGap
<1>1. Alone => BackupCoversGap BY DEF Alone, Covered, BackupCoversGap
<1> QED BY <1>1, UpgradeReachable, PTL

(* An upgrade that ends in success has put what it looked up in place.     *)
LEMMA SuccessInstalls ==
    ASSUME Named, Alone, NEW u \in Upgraders, Step(u), ~met,
           NEW v \in Upgraders, pc[v] # "upgraded", pc'[v] = "upgraded"
    PROVE  exe' # None /\ data'[exe'] = target[v] /\ old' = home[v]
<1>1. v = u /\ pc[u] = "restart" /\ Restart(u)
  BY DEF Named, TypeOK, Step, Goto, Start, LookUp, Download, Verify, RemoveNew,
     RemoveOld, Create, Write, Chmod, RenameExe, RenameNew, RollBack, DropNew,
     Restart, FindOld, RemoveExe, RenameOld, Die
<1>2. Place(u) BY <1>1 DEF Alone, Running
<1> QED BY <1>1, <1>2 DEF Place, Restart, names

(* An upgrade that ends in failure has left or put back what it found.     *)
LEMMA FailureKeeps ==
    ASSUME Named, Alone, NEW u \in Upgraders, Step(u), ~met,
           NEW v \in Upgraders, pc[v] # "failed", pc'[v] = "failed",
           v \notin spoiled'
    PROVE  exe' = home[v]
<1>1. v = u BY PlaceTyped
<1>2. pc[u] \in Running
  BY <1>1 DEF Named, TypeOK, Step, Goto, Running, Start, LookUp, Download, Verify,
     RemoveNew, RemoveOld, Create, Write, Chmod, RenameExe, RenameNew, RollBack,
     DropNew, Restart, FindOld, RemoveExe, RenameOld, Die
<1>3. Place(u) BY <1>2 DEF Alone
<1>4. /\ pc \in [Upgraders -> {"idle"} \cup Running \cup Ended]
      /\ spoiled \subseteq spoiled'
  BY DEF Named, TypeOK, Step, own, Start, LookUp, Download, Verify, RemoveNew,
     RemoveOld, Create, Write, Chmod, RenameExe, RenameNew, RollBack, DropNew,
     Restart, FindOld, RemoveExe, RenameOld, Die
<1>5. CASE pc[u] \in Untouched
  BY <1>1, <1>3, <1>4, <1>5
  DEF Place, Untouched, Step, Goto, names, Start, LookUp, Download, Verify,
     RemoveNew, RemoveOld, Create, Write, Chmod, RenameExe, RenameNew, RollBack,
     DropNew, Restart, FindOld, RemoveExe, RenameOld, Die
<1>6. CASE pc[u] \notin Untouched
  BY <1>1, <1>3, <1>4, <1>6
  DEF Place, Untouched, Step, Goto, names, Start, LookUp, Download, Verify,
     RemoveNew, RemoveOld, Create, Write, Chmod, RenameExe, RenameNew, RollBack,
     DropNew, Restart, FindOld, RemoveExe, RenameOld, Die
<1> QED BY <1>5, <1>6

(* AllOrNothing: what an upgrade reports is what it did to the executable. *)
THEOREM UpgradeAllOrNothing == Spec => AllOrNothing
<1> DEFINE Kept ==
      \A u \in Upgraders : ~met =>
          /\ (pc[u] # "upgraded" /\ pc'[u] = "upgraded") =>
                exe' # None /\ data'[exe'] = target[u] /\ old' = home[u]
          /\ (pc[u] # "failed" /\ pc'[u] = "failed" /\ u \notin spoiled') =>
                exe' = home[u]
<1>1. Named /\ Alone /\ [Next]_vars => [Kept]_vars
  <2> SUFFICES ASSUME Named, Alone, NEW u \in Upgraders, Step(u) PROVE Kept
    BY DEF Next, Step
  <2> QED BY SuccessInstalls, FailureKeeps
<1> QED BY <1>1, UpgradeReachable, PTL DEF Spec, AllOrNothing
=============================================================================

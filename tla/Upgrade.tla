------------------------------- MODULE Upgrade -------------------------------
(***************************************************************************)
(* internal/upgrade/upgrade.go: `magichop upgrade` replacing the           *)
(* executable it runs from, at the granularity of file system calls.       *)
(*                                                                         *)
(* Three names, the executable, its .new and its .old, each naming a file  *)
(* or nothing; renaming moves a name, and a file that is being written     *)
(* keeps its writer when its name changes.  Every call may fail, and a     *)
(* process may die between any two.  Nothing keeps two upgrades apart; the *)
(* history variable met says whether two have been running at once.        *)
(***************************************************************************)
EXTENDS Naturals, FiniteSets

CONSTANTS
    Upgraders,  \* processes, each runs the command once
    Versions,   \* what a release may contain
    Installed,  \* the version installed first
    Shipped,    \* the file the executable names first
    None,       \* no file
    MaxFaults   \* bound: file system calls that fail

ASSUME UpgradeAssumption ==
    /\ Installed \in Versions
    /\ Shipped \notin Upgraders /\ None \notin Upgraders \cup {Shipped}
    /\ {"corrupt", "torn"} \cap Versions = {}
    /\ MaxFaults \in Nat

VARIABLES
    exe, new, old,  \* the file each name stands for
    data,           \* what is in a file
    pc,             \* where an upgrade is
    home,           \* the file the executable was when it was started
    target,         \* the version it is to install
    binary,         \* what it fetched
    file,           \* the file it has open for writing
    faults,         \* calls that failed so far
    spoiled,        \* history: upgrades whose way back met a fault
    met             \* history: two upgrades were running at once

names == <<exe, new, old>>
own == <<home, target, binary, file>>
vars == <<exe, new, old, data, pc, home, target, binary, file, faults, spoiled,
          met>>

(* A file is created by at most one upgrade and named after it.            *)
Files == Upgraders \cup {Shipped}
Running == {"lookUp", "download", "verify", "removeNew", "removeOld", "create",
            "write", "chmod", "renameExe", "renameNew", "rollBack", "dropNew",
            "restart", "findOld", "removeExe", "renameOld", "restartOld"}
Ended == {"unchanged", "upgraded", "failed", "dead"}

TypeOK ==
    /\ {exe, new, old} \subseteq Files \cup {None}
    /\ data \in [Files -> Versions \cup {"torn", "corrupt"}]
    /\ pc \in [Upgraders -> {"idle"} \cup Running \cup Ended]
    /\ home \in [Upgraders -> Files \cup {None}]
    /\ target \in [Upgraders -> Versions]
    /\ binary \in [Upgraders -> Versions \cup {None, "corrupt"}]
    /\ file \in [Upgraders -> Files \cup {None}]
    /\ faults \in 0..MaxFaults
    /\ spoiled \subseteq Upgraders
    /\ met \in BOOLEAN
    /\ exe # None => exe # new /\ exe # old    \* a rename moves
    /\ new # None => new # old

Init ==
    /\ exe = Shipped /\ new = None /\ old = None
    /\ data = [f \in Files |-> IF f = Shipped THEN Installed ELSE "torn"]
    /\ pc = [u \in Upgraders |-> "idle"]
    /\ home = [u \in Upgraders |-> None]
    /\ target = [u \in Upgraders |-> Installed]
    /\ binary = [u \in Upgraders |-> None]
    /\ file = [u \in Upgraders |-> None]
    /\ faults = 0
    /\ spoiled = {}
    /\ met = FALSE

-----------------------------------------------------------------------------
Goto(u, place) == pc' = [pc EXCEPT ![u] = place]

(* A file system call that fails for a reason of its own.                  *)
Fault == faults < MaxFaults /\ faults' = faults + 1

Whole(f) == f # None /\ data[f] \in Versions

(* External: a user runs the command, which takes an executable to run.    *)
Start(u) ==
    /\ pc[u] = "idle"
    /\ Whole(exe)
    /\ Goto(u, "lookUp")
    /\ home' = [home EXCEPT ![u] = exe]
    /\ met' = (met \/ \E v \in Upgraders : pc[v] \in Running)
    /\ UNCHANGED <<names, data, target, binary, file, faults, spoiled>>

(* versionsEqual: of the running version and the one looked up.            *)
SameVersion(u, listed) == listed = data[home[u]]

(* verifyChecksum: the archive is the one the checksums of its release list.*)
Verified(u) == binary[u] = target[u]

(* The release asked for is looked up.  --check ends the command here, and *)
(* so does a release that is the running version.                          *)
LookUp(u) ==
    /\ pc[u] = "lookUp"
    /\ \/ Goto(u, "failed") /\ UNCHANGED target
       \/ \E listed \in Versions :
             /\ target' = [target EXCEPT ![u] = listed]
             /\ \/ Goto(u, "unchanged")      \* --check, or the same version
                \/ ~SameVersion(u, listed) /\ Goto(u, "download")
    /\ UNCHANGED <<names, data, home, binary, file, faults, spoiled, met>>

(* The archive for this Mac and the checksums are among the assets of the  *)
(* release and are read into memory, or one of them is not.                *)
Download(u) ==
    /\ pc[u] = "download"
    /\ \/ Goto(u, "failed") /\ UNCHANGED binary
       \/ \E archive \in {target[u], "corrupt"} :
             /\ binary' = [binary EXCEPT ![u] = archive]
             /\ Goto(u, "verify")
    /\ UNCHANGED <<names, data, home, target, file, faults, spoiled, met>>

(* variant: the checksum is fetched but not compared *)
Verify_NoCheck(u) ==
    /\ pc[u] = "verify"
    /\ Goto(u, "removeNew")
    /\ UNCHANGED <<names, data, own, faults, spoiled, met>>

(* The checksums have a line for the archive, and it is the archive's; the *)
(* archive has the binary; or the upgrade ends.                            *)
Verify(u) ==
    /\ pc[u] = "verify"
    /\ \/ Goto(u, "failed")
       \/ Verified(u) /\ Goto(u, "removeNew")
    /\ UNCHANGED <<names, data, own, faults, spoiled, met>>

(* replaceBinary first clears what an earlier upgrade left.                *)
RemoveNew(u) ==
    /\ pc[u] = "removeNew"
    /\ \/ new' = None /\ Goto(u, "removeOld") /\ UNCHANGED faults
       \/ Fault /\ Goto(u, "failed") /\ UNCHANGED new
    /\ UNCHANGED <<exe, old, data, own, spoiled, met>>

RemoveOld(u) ==
    /\ pc[u] = "removeOld"
    /\ \/ old' = None /\ Goto(u, "create") /\ UNCHANGED faults
       \/ Fault /\ Goto(u, "failed") /\ UNCHANGED old
    /\ UNCHANGED <<exe, new, data, own, spoiled, met>>

(* os.WriteFile: open, which creates the file or empties the one that is   *)
(* there, then write.  A write that fails leaves the torn file behind.     *)
Create(u) ==
    /\ pc[u] = "create"
    /\ \/ LET f == IF new = None THEN u ELSE new IN
             /\ new' = f
             /\ data' = [data EXCEPT ![f] = "torn"]
             /\ file' = [file EXCEPT ![u] = f]
             /\ Goto(u, "write") /\ UNCHANGED faults
       \/ Fault /\ Goto(u, "failed") /\ UNCHANGED <<new, data, file>>
    /\ UNCHANGED <<exe, old, home, target, binary, spoiled, met>>

(* variant: the error of the write is passed over *)
Write_NoError(u) ==
    /\ pc[u] = "write"
    /\ \/ /\ data' = [data EXCEPT ![file[u]] = binary[u]]
          /\ UNCHANGED faults
       \/ Fault /\ UNCHANGED data
    /\ Goto(u, "chmod")
    /\ UNCHANGED <<names, own, spoiled, met>>

Write(u) ==
    /\ pc[u] = "write"
    /\ \/ /\ data' = [data EXCEPT ![file[u]] = binary[u]]
          /\ Goto(u, "chmod") /\ UNCHANGED faults
       \/ Fault /\ Goto(u, "failed") /\ UNCHANGED data
    /\ UNCHANGED <<names, own, spoiled, met>>

Chmod(u) ==
    /\ pc[u] = "chmod"
    /\ \/ new # None /\ Goto(u, "renameExe") /\ UNCHANGED faults
       \/ new = None /\ Goto(u, "dropNew") /\ UNCHANGED faults
       \/ Fault /\ Goto(u, "dropNew")
    /\ UNCHANGED <<names, data, own, spoiled, met>>

(* variant: the executable is removed, not kept as the backup *)
RenameExe_Removes(u) ==
    /\ pc[u] = "renameExe" /\ exe # None
    /\ exe' = None /\ Goto(u, "renameNew")
    /\ UNCHANGED <<new, old, data, own, faults, spoiled, met>>

RenameExe(u) ==
    /\ pc[u] = "renameExe"
    /\ \/ /\ exe # None
          /\ old' = exe /\ exe' = None
          /\ Goto(u, "renameNew") /\ UNCHANGED faults
       \/ /\ exe = None
          /\ Goto(u, "dropNew") /\ UNCHANGED <<exe, old, faults>>
       \/ Fault /\ Goto(u, "dropNew") /\ UNCHANGED <<exe, old>>
    /\ UNCHANGED <<new, data, own, spoiled, met>>

(* variant: the new file is linked, not moved *)
RenameNew_Links(u) ==
    /\ pc[u] = "renameNew" /\ new # None
    /\ exe' = new /\ Goto(u, "restart")
    /\ UNCHANGED <<new, old, data, own, faults, spoiled, met>>

RenameNew(u) ==
    /\ pc[u] = "renameNew"
    /\ \/ /\ new # None
          /\ exe' = new /\ new' = None
          /\ Goto(u, "restart") /\ UNCHANGED faults
       \/ /\ new = None
          /\ Goto(u, "rollBack") /\ UNCHANGED <<exe, new, faults>>
       \/ Fault /\ Goto(u, "rollBack") /\ UNCHANGED <<exe, new>>
    /\ UNCHANGED <<old, data, own, spoiled, met>>

(* variant: a rename that failed is not taken back *)
RollBack_Skipped(u) ==
    /\ pc[u] = "rollBack"
    /\ Goto(u, "dropNew")
    /\ UNCHANGED <<names, data, own, faults, spoiled, met>>

(* The backup is renamed back; that this fails goes unnoticed.             *)
RollBack(u) ==
    /\ pc[u] = "rollBack"
    /\ \/ old # None /\ exe' = old /\ old' = None
          /\ UNCHANGED <<faults, spoiled>>
       \/ old = None /\ UNCHANGED <<exe, old, faults, spoiled>>
       \/ Fault /\ spoiled' = spoiled \cup {u} /\ UNCHANGED <<exe, old>>
    /\ Goto(u, "dropNew")
    /\ UNCHANGED <<new, data, own, met>>

DropNew(u) ==
    /\ pc[u] = "dropNew"
    /\ \/ new' = None /\ UNCHANGED faults
       \/ Fault /\ UNCHANGED new
    /\ Goto(u, "failed")
    /\ UNCHANGED <<exe, old, data, own, spoiled, met>>

-----------------------------------------------------------------------------
(* External: the daemon comes up from the new executable or does not.      *)
Restart(u) ==
    /\ \/ pc[u] = "restart" /\ Goto(u, "upgraded")
       \/ pc[u] = "restart" /\ Goto(u, "findOld")
       \/ pc[u] = "restartOld" /\ Goto(u, "failed")
    /\ UNCHANGED <<names, data, own, faults, spoiled, met>>

(* restoreOldBinary looks for the backup before it removes anything.       *)
FindOld(u) ==
    /\ pc[u] = "findOld"
    /\ \/ old # None /\ Goto(u, "removeExe") /\ UNCHANGED <<faults, spoiled>>
       \/ old = None /\ Goto(u, "failed") /\ UNCHANGED <<faults, spoiled>>
       \/ Fault /\ Goto(u, "failed") /\ spoiled' = spoiled \cup {u}
    /\ UNCHANGED <<names, data, own, met>>

RemoveExe(u) ==
    /\ pc[u] = "removeExe"
    /\ \/ exe' = None /\ Goto(u, "renameOld") /\ UNCHANGED <<faults, spoiled>>
       \/ /\ Fault /\ Goto(u, "failed") /\ UNCHANGED exe
          /\ spoiled' = spoiled \cup {u}
    /\ UNCHANGED <<new, old, data, own, met>>

RenameOld(u) ==
    /\ pc[u] = "renameOld"
    /\ \/ /\ old # None
          /\ exe' = old /\ old' = None
          /\ Goto(u, "restartOld") /\ UNCHANGED <<faults, spoiled>>
       \/ /\ old = None
          /\ Goto(u, "failed") /\ UNCHANGED <<exe, old, faults, spoiled>>
       \/ /\ Fault /\ Goto(u, "failed") /\ UNCHANGED <<exe, old>>
          /\ spoiled' = spoiled \cup {u}
    /\ UNCHANGED <<new, data, own, met>>

(* External: the process is killed, or the machine goes down.              *)
Die(u) ==
    /\ pc[u] \in Running
    /\ Goto(u, "dead")
    /\ UNCHANGED <<names, data, own, faults, spoiled, met>>

Next ==
    \E u \in Upgraders :
        \/ Start(u) \/ LookUp(u) \/ Download(u) \/ Verify(u)
        \/ RemoveNew(u) \/ RemoveOld(u) \/ Create(u) \/ Write(u) \/ Chmod(u)
        \/ RenameExe(u) \/ RenameNew(u) \/ RollBack(u) \/ DropNew(u)
        \/ Restart(u) \/ FindOld(u) \/ RemoveExe(u) \/ RenameOld(u)
        \/ Die(u)

Spec == Init /\ [][Next]_vars

-----------------------------------------------------------------------------
(* As long as no two upgrades met:                                         *)

(* The executable is a whole, verified release whenever it is there, also  *)
(* after a crash or a failed write: it changes by renaming only, and what  *)
(* is renamed to it was written without an error and passed verifyChecksum.*)
ExeIsWhole == ~met /\ exe # None => data[exe] \in Versions

(* While there is no executable, the backup is one: between the two        *)
(* renames, in the way back, and when a crash or a fault ends either.      *)
BackupCoversGap ==
    ~met /\ exe = None => old # None /\ data[old] \in Versions

(* An upgrade that reports success has installed the version it looked up  *)
(* and kept the one before as the backup; one that reports failure leaves  *)
(* the executable it found, unless the way back failed too.                *)
AllOrNothing ==
    [][\A u \in Upgraders : ~met =>
          /\ (pc[u] # "upgraded" /\ pc'[u] = "upgraded") =>
                exe' # None /\ data'[exe'] = target[u] /\ old' = home[u]
          /\ (pc[u] # "failed" /\ pc'[u] = "failed" /\ u \notin spoiled') =>
                exe' = home[u]]_vars

(* However two upgrades meet, no archive that failed its checksum gets     *)
(* under any of the names (upgrade.go:134: verification comes before the   *)
(* first call that touches the disk).                                      *)
NothingUnverified == \A f \in {exe, new, old} \ {None} : data[f] # "corrupt"
=============================================================================

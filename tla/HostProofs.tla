------------------------------ MODULE HostProofs ------------------------------
(***************************************************************************)
(* Proofs about Host, for any number of daemon processes and calls, any    *)
(* contents of the config file and any input.                              *)
(*                                                                         *)
(* The invariant has two halves.  Outer is about the files, the agent and  *)
(* the command that replaces the daemon, and only says that they have      *)
(* their types.  Inner is about the processes and the calls they serve:    *)
(* the daemon lock is with the process that is between taking it and       *)
(* giving it up, so that only one is in the part that touches the socket;  *)
(* a call in progress is served by a process that got as far as serving;   *)
(* and what a call is about was an address before the daemon saw it, if    *)
(* the command could read the config, and an address means itself under    *)
(* every config that does not use it as an alias.                          *)
(***************************************************************************)
EXTENDS Host, TLAPS

ProcRecord == [pc : {"down", "load", "lock", "remove", "listen", "serve",
                     "close", "unlock", "exit"}, agent : BOOLEAN,
               build : {"old", "new", None}, cfg : Config \cup {None}]

CallRecord == [pc : {"new", "asked", "running", "ended"},
               kind : {"claim", "release", None}, at : Proc \cup {None},
               device : Input \cup Address \cup {None},
               meant : Address \cup {None},
               hears : BOOLEAN, done : BOOLEAN,
               exit : {"none", "ok", "error", "invalid_response",
                       "unavailable", "interrupted"}]

Outer ==
    /\ config \in Content \cup {None}
    /\ plist \in {"absent", "torn", "whole"}
    /\ exe \in {"old", "new"} /\ job \in BOOLEAN
    /\ cmd \in [kind : {"install", "uninstall", "upgrade", "wayBack", None},
                pc : {"idle", "ensure", "write", "stat", "unload", "load", "dial",
                      "remove"}, kept : BOOLEAN]
    /\ commands \in 0..MaxCommands /\ troubles \in 0..MaxTroubles

Locked == {"remove", "listen", "serve", "close", "unlock"}
Past == {"serve", "close", "unlock", "exit"}     \* served at some time

ProcsTyped == proc \in [Proc -> ProcRecord]
LockTyped ==
    /\ holder \in Proc \cup {None}
    /\ \A p \in Proc : holder = p <=> proc[p].pc \in Locked
SocketTyped == socket \in Proc \cup {None, "stale"}
CallsTyped == call \in [Calls -> CallRecord]
ConfigRead == \A p \in Proc : proc[p].pc \notin {"down", "load"} => proc[p].cfg # None

(* What a call in progress knows: who serves it, and what it is about.     *)
Sound(c) ==
    /\ c.pc \in {"asked", "running"} => c.at \in Proc /\ proc[c.at].pc \in Past
    /\ c.pc = "asked" /\ c.meant # None => c.device = c.meant
    /\ c.pc = "running" /\ c.meant # None =>
           c.device = c.meant \/ c.meant \in DOMAIN proc[c.at].cfg.devices
    /\ c.pc = "running" => c.device \in Address
    /\ c.exit = "ok" => c.done

CallsSound == \A c \in Calls : Sound(call[c])

(* A process works on a device for one call at a time.                     *)
OneCall ==
    \A b, c \in Calls :
        /\ call[b].pc = "running" /\ call[c].pc = "running"
        /\ call[b].at = call[c].at /\ call[b].device = call[c].device
        => b = c

Inner == /\ ProcsTyped /\ LockTyped /\ SocketTyped /\ CallsTyped
         /\ ConfigRead /\ ServingReachable /\ CallsSound /\ OneCall

-----------------------------------------------------------------------------
(* Configuration                                                           *)

(* A normalized address is an address, or an error.                        *)
LEMMA Normalized ==
    ASSUME NEW raw
    PROVE  NormalizeAddress(raw) \in Address \cup {None}
<1>1. CASE raw \in Raw /\ raw.sep # "mixed"
  <2>1. raw.hex \in Hex BY <1>1 DEF Raw
  <2> QED BY <1>1, <2>1 DEF NormalizeAddress, Address
<1>2. CASE ~(raw \in Raw /\ raw.sep # "mixed")
  BY <1>2 DEF NormalizeAddress
<1> QED BY <1>1, <1>2

(* An address is written like one, is no error, and is normal already.     *)
LEMMA AddressIsNormal ==
    ASSUME NEW a \in Address
    PROVE  a \in Raw /\ a # None /\ NormalizeAddress(a) = a
<1>1. a \in Raw BY DEF Address, Raw
<1>2. a # None BY <1>1, HostAssumption
<1>3. a.sep = ":" /\ a = [hex |-> a.hex, sep |-> ":"] BY DEF Address
<1> QED BY <1>1, <1>2, <1>3 DEF NormalizeAddress

(* A config that could be read maps aliases to addresses.                  *)
LEMMA ConfigDevices ==
    ASSUME NEW cfg \in Config, cfg # None
    PROVE  \A a \in DOMAIN cfg.devices : cfg.devices[a] \in Address
<1>1. PICK content \in Content \cup {None} : cfg = Load(content)
  BY DEF Config
<1>2. CASE content = None
  <2>1. cfg = [devices |-> <<>>, default |-> None] BY <1>1, <1>2 DEF Load
  <2>2. DOMAIN cfg.devices = {} BY <2>1
  <2> QED BY <2>2
<1>3. CASE content # None
  <2> DEFINE normal == [a \in DOMAIN content.devices |->
                           NormalizeAddress(content.devices[a])]
  <2>1. /\ \A a \in DOMAIN content.devices : normal[a] # None
        /\ cfg = [devices |-> normal, default |-> content.default]
    BY <1>1, <1>3 DEF Load
  <2>2. DOMAIN cfg.devices = DOMAIN content.devices BY <2>1
  <2>3. \A a \in DOMAIN content.devices : normal[a] \in Address
    BY <2>1, Normalized
  <2> QED BY <2>1, <2>2, <2>3
<1> QED BY <1>2, <1>3

(* A resolved input is an address or an error.                             *)
LEMMA Resolved ==
    ASSUME NEW cfg \in Config, cfg # None, NEW input
    PROVE  ResolveDevice(cfg, input) \in Address \cup {None}
BY ConfigDevices, Normalized DEF ResolveDevice

(* An address means itself under every config that does not use it as an   *)
(* alias: only there can it do harm that the daemon resolves once more     *)
(* what the command has resolved.                                          *)
LEMMA AddressMeansItself ==
    ASSUME NEW cfg \in Config, cfg # None, NEW a \in Address,
           a \notin DOMAIN cfg.devices
    PROVE  ResolveDevice(cfg, a) = a
BY AddressIsNormal DEF ResolveDevice

-----------------------------------------------------------------------------
(* The processes and their calls                                           *)

(* Two processes never have the lock.                                      *)
LEMMA OneLocked ==
    ASSUME LockTyped, NEW p \in Proc, NEW q \in Proc,
           proc[p].pc \in Locked, proc[q].pc \in Locked
    PROVE  p = q
BY DEF LockTyped

(* What only the calls depend on stays when the calls are left alone and   *)
(* no process that has served is lost or reads another config.             *)
LEMMA CallsLeft ==
    ASSUME Inner, UNCHANGED call,
           \A p \in Proc : proc[p].pc \in Past =>
               proc'[p].pc \in Past /\ proc'[p].cfg = proc[p].cfg
    PROVE  CallsTyped' /\ CallsSound' /\ OneCall'
BY DEF Inner, CallsTyped, CallsSound, Sound, OneCall

(* A process goes on to another place.                                     *)
LEMMA ProcessMoves ==
    ASSUME Inner, NEW p \in Proc, UNCHANGED call,
           NEW pc \in {"lock", "remove", "listen", "serve", "close", "unlock", "exit"},
           proc[p].pc \in Past => pc \in Past,
           \/ proc' = [proc EXCEPT ![p].pc = pc] /\ proc[p].pc \notin {"down", "load"}
           \/ /\ proc[p].pc \notin Past
              /\ \E cfg \in Config :
                     cfg # None /\ proc' = [proc EXCEPT ![p].pc = pc, ![p].cfg = cfg]
    PROVE  /\ ProcsTyped' /\ ConfigRead'
           /\ CallsTyped' /\ CallsSound' /\ OneCall'
           /\ proc'[p].pc = pc
           /\ \A q \in Proc \ {p} : proc'[q] = proc[q]
<1>1. proc[p] \in ProcRecord BY DEF Inner, ProcsTyped
<1>2. CASE proc' = [proc EXCEPT ![p].pc = pc] /\ proc[p].pc \notin {"down", "load"}
  <2>1. /\ proc'[p] \in ProcRecord /\ proc'[p].pc = pc /\ proc'[p].cfg = proc[p].cfg
        /\ proc[p].cfg # None
        /\ DOMAIN proc' = Proc /\ \A q \in Proc \ {p} : proc'[q] = proc[q]
    BY <1>1, <1>2 DEF Inner, ProcsTyped, ProcRecord, ConfigRead
  <2>2. ProcsTyped' BY <1>2, <2>1 DEF Inner, ProcsTyped
  <2>3. ConfigRead' BY <2>1 DEF Inner, ConfigRead
  <2> QED BY <2>1, <2>2, <2>3, CallsLeft
<1>3. ASSUME NEW cfg \in Config, cfg # None, proc[p].pc \notin Past,
             proc' = [proc EXCEPT ![p].pc = pc, ![p].cfg = cfg]
      PROVE  /\ ProcsTyped' /\ ConfigRead'
             /\ CallsTyped' /\ CallsSound' /\ OneCall'
             /\ proc'[p].pc = pc
             /\ \A q \in Proc \ {p} : proc'[q] = proc[q]
  <2>1. /\ proc'[p] \in ProcRecord /\ proc'[p].pc = pc /\ proc'[p].cfg = cfg
        /\ DOMAIN proc' = Proc /\ \A q \in Proc \ {p} : proc'[q] = proc[q]
    BY <1>1, <1>3 DEF Inner, ProcsTyped, ProcRecord
  <2>2. ProcsTyped' BY <1>3, <2>1 DEF Inner, ProcsTyped
  <2>3. ConfigRead' BY <1>3, <2>1 DEF Inner, ConfigRead
  <2>4. \A q \in Proc : proc[q].pc \in Past =>
            proc'[q].pc \in Past /\ proc'[q].cfg = proc[q].cfg
    BY <1>3, <2>1
  <2> QED BY <2>1, <2>2, <2>3, <2>4, CallsLeft
<1> QED BY <1>2, <1>3

(* Processes that end free the lock and the socket and end their calls.    *)
LEMMA GoneInner ==
    ASSUME Inner, NEW dead \in SUBSET Proc, Gone(dead)
    PROVE  Inner'
<1>1. /\ proc' = [p \in Proc |-> IF p \in dead THEN Down ELSE proc[p]]
      /\ holder' = IF holder \in dead THEN None ELSE holder
      /\ socket' = IF socket \in dead THEN "stale" ELSE socket
      /\ call' = [c \in Calls |-> IF call[c].at \in dead
                                  THEN Ended(c, "invalid_response", FALSE) ELSE call[c]]
  BY DEF Gone
<1>2. Down \in ProcRecord /\ Down.pc = "down"
  BY DEF Down, ProcRecord
<1>3. ProcsTyped' BY <1>1, <1>2 DEF Inner, ProcsTyped
<1>4. LockTyped'
  BY <1>1, <1>2, HostAssumption DEF Inner, LockTyped, Locked
<1>5. SocketTyped' BY <1>1 DEF Inner, SocketTyped
<1>6. ConfigRead' BY <1>1, <1>2 DEF Inner, ConfigRead
<1>7. ServingReachable' BY <1>1, <1>2 DEF Inner, ServingReachable
<1>8. ASSUME NEW c \in Calls
      PROVE  /\ Ended(c, "invalid_response", FALSE) \in CallRecord
             /\ Ended(c, "invalid_response", FALSE).pc = "ended"
             /\ Ended(c, "invalid_response", FALSE).exit # "ok"
  BY DEF Ended, NewCall, CallRecord
<1>9. CallsTyped' BY <1>1, <1>8 DEF Inner, CallsTyped
<1>10. ASSUME NEW c \in Calls PROVE Sound(call[c])'
  BY <1>1, <1>2, <1>8, <1>10 DEF Inner, CallsSound, Sound, CallsTyped
<1>11. CallsSound' BY <1>10 DEF CallsSound
<1>12. OneCall' BY <1>1, <1>8 DEF Inner, OneCall
<1> QED BY <1>3, <1>4, <1>5, <1>6, <1>7, <1>9, <1>11, <1>12 DEF Inner

(* A process is started.                                                   *)
LEMMA SpawnInner ==
    ASSUME Outer, Inner, NEW p \in Proc, NEW agent \in BOOLEAN, Spawn(p, agent)
    PROVE  Inner'
<1> DEFINE started == [pc |-> "load", agent |-> agent, build |-> exe, cfg |-> None]
<1>1. /\ proc[p].pc = "down" /\ proc' = [proc EXCEPT ![p] = started]
      /\ UNCHANGED <<holder, socket, call>>
  BY DEF Spawn
<1>2. started \in ProcRecord BY DEF ProcRecord, Outer
<1>3. proc'[p] = started /\ \A q \in Proc \ {p} : proc'[q] = proc[q]
  BY <1>1 DEF Inner, ProcsTyped
<1>4. ProcsTyped' BY <1>1, <1>2 DEF Inner, ProcsTyped
<1>5. \A q \in Proc :
          /\ proc[q].pc \in Past => proc'[q].pc \in Past /\ proc'[q].cfg = proc[q].cfg
          /\ proc[q].pc \in Locked <=> proc'[q].pc \in Locked
  BY <1>1, <1>3 DEF Past, Locked
<1>6. LockTyped' BY <1>1, <1>5 DEF Inner, LockTyped
<1>7. ConfigRead' /\ ServingReachable'
  BY <1>1, <1>3 DEF Inner, ConfigRead, ServingReachable
<1> QED BY <1>1, <1>4, <1>5, <1>6, <1>7, CallsLeft DEF Inner, SocketTyped

(* Each step of a daemon, and the end of its Accept loop.                  *)
LEMMA DaemonStepInner ==
    ASSUME Outer, Inner, NEW p \in Proc, DaemonStep(p) \/ AcceptFails(p) \/ Die(p)
    PROVE  Inner'
<1> USE DEF Inner
<1>1. CASE Exit(p)
  BY <1>1, GoneInner DEF Exit
<1>2. CASE proc[p].pc = "load" /\ ~Exit(p)
  <2>1. LoadConfig(p) BY <1>2 DEF DaemonStep, LoadConfig, AcquireDaemonLock, LockRefused,
          RemoveSocket, Listen, ListenFails, CloseListener, ReleaseDaemonLock, Ends,
          AcceptFails, Die
  <2>2. PICK cfg \in Config : /\ cfg # None
                             /\ proc' = [proc EXCEPT ![p].pc = "lock", ![p].cfg = cfg]
                             /\ UNCHANGED <<holder, socket, call>>
    BY <1>2, <2>1 DEF LoadConfig, CanStart, Config, Outer
  <2>3. /\ ProcsTyped' /\ ConfigRead' /\ CallsTyped' /\ CallsSound' /\ OneCall'
        /\ proc'[p].pc = "lock" /\ \A q \in Proc \ {p} : proc'[q] = proc[q]
    BY <1>2, <2>2, ProcessMoves DEF Past
  <2>4. LockTyped' /\ SocketTyped' /\ ServingReachable'
    BY <1>2, <2>2, <2>3 DEF LockTyped, Locked, SocketTyped, ServingReachable
  <2> QED BY <2>3, <2>4
<1>3. CASE AcquireDaemonLock(p)
  <2>1. /\ proc[p].pc = "lock" /\ holder = None /\ holder' = p
        /\ proc' = [proc EXCEPT ![p].pc = "remove"] /\ UNCHANGED <<socket, call>>
    BY <1>3 DEF AcquireDaemonLock, To
  <2>2. /\ ProcsTyped' /\ ConfigRead' /\ CallsTyped' /\ CallsSound' /\ OneCall'
        /\ proc'[p].pc = "remove" /\ \A q \in Proc \ {p} : proc'[q] = proc[q]
    BY <2>1, ProcessMoves DEF Past
  <2>3. \A q \in Proc : proc[q].pc \notin Locked
    BY <2>1, HostAssumption DEF LockTyped
  <2>4. LockTyped' BY <2>1, <2>2, <2>3 DEF LockTyped, Locked
  <2>5. SocketTyped' /\ ServingReachable'
    BY <2>1, <2>2 DEF SocketTyped, ServingReachable
  <2> QED BY <2>2, <2>4, <2>5
<1>4. CASE RemoveSocket(p)
  <2>1. /\ proc[p].pc = "remove" /\ socket' \in {None, socket}
        /\ proc' = [proc EXCEPT ![p].pc = "listen"] /\ UNCHANGED <<holder, call>>
    BY <1>4 DEF RemoveSocket, To
  <2>2. /\ ProcsTyped' /\ ConfigRead' /\ CallsTyped' /\ CallsSound' /\ OneCall'
        /\ proc'[p].pc = "listen" /\ \A q \in Proc \ {p} : proc'[q] = proc[q]
    BY <2>1, ProcessMoves DEF Past
  <2>3. \A q \in Proc : proc[q].pc # "serve"
    BY <2>1, OneLocked DEF Locked
  <2>4. LockTyped' BY <2>1, <2>2 DEF LockTyped, Locked
  <2>5. SocketTyped' /\ ServingReachable'
    BY <2>1, <2>2, <2>3 DEF SocketTyped, ServingReachable
  <2> QED BY <2>2, <2>4, <2>5
<1>5. CASE Listen(p)
  <2>1. /\ proc[p].pc = "listen" /\ socket' = p
        /\ proc' = [proc EXCEPT ![p].pc = "serve"] /\ UNCHANGED <<holder, call>>
    BY <1>5 DEF Listen, To
  <2>2. /\ ProcsTyped' /\ ConfigRead' /\ CallsTyped' /\ CallsSound' /\ OneCall'
        /\ proc'[p].pc = "serve" /\ \A q \in Proc \ {p} : proc'[q] = proc[q]
    BY <2>1, ProcessMoves DEF Past
  <2>3. \A q \in Proc \ {p} : proc[q].pc # "serve"
    BY <2>1, OneLocked DEF Locked
  <2>4. LockTyped' BY <2>1, <2>2 DEF LockTyped, Locked
  <2>5. SocketTyped' /\ ServingReachable'
    BY <2>1, <2>2, <2>3 DEF SocketTyped, ServingReachable
  <2> QED BY <2>2, <2>4, <2>5
<1>6. CASE AcceptFails(p)
  <2>1. /\ proc[p].pc = "serve" /\ UNCHANGED <<holder, socket, call>>
        /\ proc' = [proc EXCEPT ![p].pc = "close"]
    BY <1>6 DEF AcceptFails, To
  <2>2. /\ ProcsTyped' /\ ConfigRead' /\ CallsTyped' /\ CallsSound' /\ OneCall'
        /\ proc'[p].pc = "close" /\ \A q \in Proc \ {p} : proc'[q] = proc[q]
    BY <2>1, ProcessMoves DEF Past
  <2>3. LockTyped' BY <2>1, <2>2 DEF LockTyped, Locked
  <2>4. SocketTyped' /\ ServingReachable'
    BY <2>1, <2>2 DEF SocketTyped, ServingReachable
  <2> QED BY <2>2, <2>3, <2>4
<1>7. CASE CloseListener(p)
  <2>1. /\ proc[p].pc = "close" /\ socket' = None /\ UNCHANGED <<holder, call>>
        /\ proc' = [proc EXCEPT ![p].pc = "unlock"]
    BY <1>7 DEF CloseListener, To
  <2>2. /\ ProcsTyped' /\ ConfigRead' /\ CallsTyped' /\ CallsSound' /\ OneCall'
        /\ proc'[p].pc = "unlock" /\ \A q \in Proc \ {p} : proc'[q] = proc[q]
    BY <2>1, ProcessMoves DEF Past
  <2>3. \A q \in Proc : proc[q].pc # "serve"
    BY <2>1, OneLocked DEF Locked
  <2>4. LockTyped' BY <2>1, <2>2 DEF LockTyped, Locked
  <2>5. SocketTyped' /\ ServingReachable'
    BY <2>1, <2>2, <2>3 DEF SocketTyped, ServingReachable
  <2> QED BY <2>2, <2>4, <2>5
<1>8. CASE ReleaseDaemonLock(p)
  <2>1. /\ proc[p].pc = "unlock" /\ holder' = None /\ UNCHANGED <<socket, call>>
        /\ proc' = [proc EXCEPT ![p].pc = "exit"]
    BY <1>8 DEF ReleaseDaemonLock, To
  <2>2. /\ ProcsTyped' /\ ConfigRead' /\ CallsTyped' /\ CallsSound' /\ OneCall'
        /\ proc'[p].pc = "exit" /\ \A q \in Proc \ {p} : proc'[q] = proc[q]
    BY <2>1, ProcessMoves DEF Past
  <2>3. \A q \in Proc \ {p} : proc[q].pc \notin Locked
    BY <2>1, OneLocked DEF Locked
  <2>4. LockTyped' BY <2>1, <2>2, <2>3, HostAssumption DEF LockTyped, Locked
  <2>5. SocketTyped' /\ ServingReachable'
    BY <2>1, <2>2 DEF SocketTyped, ServingReachable
  <2> QED BY <2>2, <2>4, <2>5
<1> QED
  BY <1>1, <1>2, <1>3, <1>4, <1>5, <1>6, <1>7, <1>8
  DEF DaemonStep, Die, LoadConfig, LockRefused, ListenFails, Ends

(* One call changes and the processes stay: what is to be shown of it.     *)
LEMMA OneCallChanges ==
    ASSUME Inner, UNCHANGED daemons, NEW c \in Calls, NEW d \in CallRecord,
           call' = [call EXCEPT ![c] = d], Sound(d),
           d.pc = "running" =>
              \/ /\ call[c].pc = "running"
                 /\ d.at = call[c].at /\ d.device = call[c].device
              \/ \A b \in Calls : ~(/\ call[b].pc = "running" /\ call[b].at = d.at
                                    /\ call[b].device = d.device)
    PROVE  Inner'
<1>1. call'[c] = d /\ \A b \in Calls \ {c} : call'[b] = call[b]
  BY DEF Inner, CallsTyped
<1>2. CallsTyped' BY DEF Inner, CallsTyped
<1>3. CallsSound' BY <1>1 DEF Inner, CallsSound, Sound, daemons
<1>4. OneCall'
  <2> SUFFICES ASSUME NEW a \in Calls, NEW b \in Calls,
                      call'[a].pc = "running", call'[b].pc = "running",
                      call'[a].at = call'[b].at, call'[a].device = call'[b].device,
                      a # b
               PROVE  FALSE
    BY DEF OneCall
  <2>1. CASE a = c BY <1>1, <2>1 DEF Inner, OneCall
  <2>2. CASE b = c BY <1>1, <2>2 DEF Inner, OneCall
  <2>3. CASE a # c /\ b # c BY <1>1, <2>3 DEF Inner, OneCall
  <2> QED BY <2>1, <2>2, <2>3
<1> QED
  BY <1>2, <1>3, <1>4
  DEF Inner, daemons, ProcsTyped, LockTyped, SocketTyped, ConfigRead, ServingReachable
(* What is sent is an address, unless the input could not be resolved.     *)
LEMMA SentAsMeant ==
    ASSUME Outer, NEW input \in Input
    PROVE  /\ Meant(input) \in Address \cup {None}
           /\ Sent(input) \in Input \cup Address
           /\ Meant(input) # None => Sent(input) = Meant(input)
<1>1. Load(config) \in Config BY DEF Outer, Config
<1>2. Meant(input) \in Address \cup {None} BY <1>1, Resolved DEF Meant
<1> QED BY <1>2 DEF Sent

(* Only a call whose daemon said so exits with 0.                          *)
LEMMA AnsweredCall ==
    ASSUME Inner, NEW c \in Calls, NEW replies, NEW done \in BOOLEAN,
           Outcome(call[c].kind, replies) \in {"ok", "error", "invalid_response"},
           Outcome(call[c].kind, replies) = "ok" => done,
           Answer(c, replies, done)
    PROVE  Inner'
<1> DEFINE d == Ended(c, Outcome(call[c].kind, replies), done)
<1>1. d \in CallRecord /\ d.pc = "ended" /\ (d.exit = "ok" => d.done)
  BY DEF Ended, NewCall, CallRecord
<1>2. Sound(d) BY <1>1 DEF Sound
<1>3. UNCHANGED daemons /\ call' = [call EXCEPT ![c] = d] BY DEF Answer
<1> HIDE DEF d
<1> QED BY <1>1, <1>2, <1>3, OneCallChanges

(* Each step of a call.                                                    *)
LEMMA CallInner ==
    ASSUME Outer, Inner, NEW c \in Calls,
           \/ \E kind \in {"claim", "release"}, input \in Input : Call(c, kind, input)
           \/ Interrupt(c) \/ Accept(c) \/ Refuse(c)
           \/ \E ok \in BOOLEAN : Finish(c, ok)
    PROVE  Inner'
<1>0. call[c] \in CallRecord /\ Sound(call[c]) BY DEF Inner, CallsTyped, CallsSound
<1>1. ASSUME NEW kind \in {"claim", "release"}, NEW input \in Input, Call(c, kind, input)
      PROVE  Inner'
  <2>1. CASE \E p \in Proc :
               /\ Serves(p)
               /\ call' = [call EXCEPT ![c] =
                      [NewCall EXCEPT !.pc = "asked", !.kind = kind, !.at = p,
                                      !.device = Sent(input), !.meant = Meant(input),
                                      !.hears = TRUE]]
    <3>1. PICK p \in Proc :
               /\ Serves(p)
               /\ call' = [call EXCEPT ![c] =
                      [NewCall EXCEPT !.pc = "asked", !.kind = kind, !.at = p,
                                      !.device = Sent(input), !.meant = Meant(input),
                                      !.hears = TRUE]]
      BY <2>1
    <3> DEFINE d == [NewCall EXCEPT !.pc = "asked", !.kind = kind, !.at = p,
                                    !.device = Sent(input), !.meant = Meant(input),
                                    !.hears = TRUE]
    <3>2. /\ d \in CallRecord /\ d.pc = "asked" /\ d.at = p /\ d.exit = "none"
          /\ d.device = Sent(input) /\ d.meant = Meant(input)
      BY SentAsMeant DEF NewCall, CallRecord
    <3>3. Sound(d) BY <3>1, <3>2, SentAsMeant DEF Sound, Serves, Past
    <3>4. call' = [call EXCEPT ![c] = d] /\ UNCHANGED daemons
      BY <1>1, <3>1 DEF Call
    <3> HIDE DEF d
    <3> QED BY <3>2, <3>3, <3>4, OneCallChanges
  <2>2. CASE call' = [call EXCEPT ![c].pc = "ended", ![c].exit = "unavailable"]
    <3> DEFINE d == [call[c] EXCEPT !.pc = "ended", !.exit = "unavailable"]
    <3>1. d \in CallRecord /\ d.pc = "ended" /\ d.exit = "unavailable"
      BY <1>0 DEF CallRecord
    <3>2. Sound(d) BY <3>1 DEF Sound
    <3>3. call' = [call EXCEPT ![c] = d] /\ UNCHANGED daemons
      BY <1>1, <2>2 DEF Call, Inner, CallsTyped
    <3> HIDE DEF d
    <3> QED BY <3>1, <3>2, <3>3, OneCallChanges
  <2> QED BY <1>1, <2>1, <2>2 DEF Call
<1>2. CASE Interrupt(c)
  <2> DEFINE d == [call[c] EXCEPT !.hears = FALSE]
  <2>1. /\ d \in CallRecord /\ d.pc = call[c].pc /\ d.at = call[c].at
        /\ d.device = call[c].device /\ d.meant = call[c].meant
        /\ d.exit = call[c].exit /\ d.done = call[c].done
    BY <1>0 DEF CallRecord
  <2>2. Sound(d) BY <1>0, <2>1 DEF Sound
  <2>3. call' = [call EXCEPT ![c] = d] /\ UNCHANGED daemons
    BY <1>2 DEF Interrupt
  <2> HIDE DEF d
  <2> QED BY <2>1, <2>2, <2>3, OneCallChanges
<1>3. CASE Accept(c)
  <2> DEFINE d == [call[c] EXCEPT !.pc = "running", !.device = Requested(c)]
  <2>1. /\ call[c].pc = "asked" /\ Requested(c) # None
        /\ ~Busy(call[c].at, Requested(c))
        /\ call' = [call EXCEPT ![c].pc = "running", ![c].device = Requested(c)]
        /\ UNCHANGED daemons
    BY <1>3 DEF Accept
  <2>2. call[c].at \in Proc /\ proc[call[c].at].pc \in Past
    BY <1>0, <2>1 DEF Sound
  <2>3. proc[call[c].at].cfg \in Config /\ proc[call[c].at].cfg # None
    BY <2>2 DEF Inner, ProcsTyped, ProcRecord, ConfigRead, Past
  <2>4. Requested(c) \in Address
    BY <2>1, <2>3, Resolved DEF Requested
  <2>5. call[c].meant # None =>
            \/ Requested(c) = call[c].meant
            \/ call[c].meant \in DOMAIN proc[call[c].at].cfg.devices
    BY <1>0, <2>1, <2>3, AddressMeansItself DEF Requested, Sound, CallRecord
  <2>6. /\ d \in CallRecord /\ d.pc = "running" /\ d.at = call[c].at
        /\ d.device = Requested(c) /\ d.meant = call[c].meant
        /\ d.exit = call[c].exit /\ d.done = call[c].done
    BY <1>0, <2>4 DEF CallRecord
  <2>7. Sound(d) BY <1>0, <2>2, <2>4, <2>5, <2>6 DEF Sound
  <2>8. \A b \in Calls : ~(/\ call[b].pc = "running" /\ call[b].at = d.at
                           /\ call[b].device = d.device)
    BY <2>1, <2>6 DEF Busy
  <2>9. call' = [call EXCEPT ![c] = d] BY <2>1 DEF Inner, CallsTyped
  <2> HIDE DEF d
  <2> QED BY <2>1, <2>6, <2>7, <2>8, <2>9, OneCallChanges
<1>4. CASE Refuse(c)
  <2> DEFINE replies == <<[ok |-> FALSE]>>
  <2>1. Len(replies) = 1 /\ ~replies[1].ok OBVIOUS
  <2>2. Outcome(call[c].kind, replies) \in {"error", "invalid_response"}
    BY <2>1 DEF Outcome, Expected
  <2>3. Answer(c, replies, FALSE) BY <1>4 DEF Refuse
  <2> HIDE DEF replies
  <2> QED BY <2>2, <2>3, AnsweredCall
<1>5. ASSUME NEW ok \in BOOLEAN, Finish(c, ok) PROVE Inner'
  <2> DEFINE replies == IF call[c].kind = "claim" THEN <<[ok |-> TRUE], [ok |-> ok]>>
                                                  ELSE <<[ok |-> ok]>>
  <2>1. /\ call[c].kind = "claim" => Len(replies) = 2 /\ replies[2].ok = ok
        /\ call[c].kind # "claim" => Len(replies) = 1 /\ replies[1].ok = ok
    OBVIOUS
  <2>2. Outcome(call[c].kind, replies) = IF ok THEN "ok" ELSE "error"
    BY <2>1 DEF Outcome, Expected
  <2>3. Answer(c, replies, ok) BY <1>5 DEF Finish
  <2> HIDE DEF replies
  <2> QED BY <2>2, <2>3, AnsweredCall
<1> QED BY <1>1, <1>2, <1>3, <1>4, <1>5
(* Every step of the processes, the calls and the commands.                *)
LEMMA InnerStep ==
    ASSUME Outer, Inner, [Next]_vars
    PROVE  Inner'
<1>1. CASE UNCHANGED <<proc, holder, socket, call>>
  BY <1>1 DEF Inner, ProcsTyped, LockTyped, SocketTyped, CallsTyped,
              ConfigRead, ServingReachable, CallsSound, Sound, OneCall
<1>2. ASSUME NEW p \in Proc, LaunchdStarts(p) \/ DaemonCommand(p)
      PROVE  Inner'
  BY <1>2, SpawnInner DEF LaunchdStarts, DaemonCommand
<1>3. ASSUME NEW p \in Proc, DaemonStep(p) \/ AcceptFails(p) \/ Die(p)
      PROVE  Inner'
  BY <1>3, DaemonStepInner
<1>8. CASE MendLog \/ \E p \in Proc : AppendCutShort(p)
  BY <1>1, <1>8 DEF MendLog, AppendCutShort
<1>4. CASE Unload
  <2>1. UNCHANGED <<proc, holder, socket, call>> \/ Gone({p \in Proc : proc[p].agent})
    BY <1>4 DEF Unload, daemons
  <2> QED BY <1>1, <2>1, GoneInner
<1>5. CASE EditConfig \/ StartCommand \/ KillCommand \/ CommandStep
  BY <1>1, <1>4, <1>5
  DEF EditConfig, StartCommand, KillCommand, CommandStep, EnsureConfig, WritePlist,
      StatPlist, LoadAgent, SocketAnswers, SocketTimeout, RemovePlist, daemons
<1>6. ASSUME NEW c \in Calls,
             \/ \E kind \in {"claim", "release"}, input \in Input : Call(c, kind, input)
             \/ Interrupt(c) \/ Accept(c) \/ Refuse(c)
             \/ \E ok \in BOOLEAN : Finish(c, ok)
      PROVE  Inner'
  BY <1>6, CallInner
<1>7. CASE UNCHANGED vars
  BY <1>1, <1>7 DEF vars, daemons
<1> QED BY <1>2, <1>3, <1>5, <1>6, <1>7, <1>8 DEF Next

-----------------------------------------------------------------------------
(* The files, the agent, the commands and the bounds                       *)

(* A command or a trouble is counted up to its bound.                      *)
LEMMA Counted ==
    ASSUME Outer, Typed \/ Trouble \/ UNCHANGED counts
    PROVE  commands' \in 0..MaxCommands /\ troubles' \in 0..MaxTroubles
BY HostAssumption DEF Outer, Typed, Trouble, counts

(* Steps of the command that replaces the daemon, and the user's edits.    *)
LEMMA OuterCommand ==
    ASSUME Outer, EditConfig \/ StartCommand \/ KillCommand \/ CommandStep
    PROVE  Outer'
<1> DEFINE CommandRecord ==
        [kind : {"install", "uninstall", "upgrade", "wayBack", None},
         pc : {"idle", "ensure", "write", "stat", "unload", "load", "dial", "remove"},
         kept : BOOLEAN]
<1>1. commands' \in 0..MaxCommands /\ troubles' \in 0..MaxTroubles
  BY Counted
  DEF EditConfig, StartCommand, KillCommand, CommandStep, EnsureConfig, WritePlist,
      StatPlist, Unload, LoadAgent, SocketAnswers, SocketTimeout, RemovePlist
<1>2. /\ config' \in Content \cup {None} /\ plist' \in {"absent", "torn", "whole"}
      /\ exe' \in {"old", "new"} /\ job' \in BOOLEAN
  BY HostAssumption
  DEF Outer, EditConfig, StartCommand, KillCommand, CommandStep, EnsureConfig, WritePlist,
      StatPlist, Unload, LoadAgent, SocketAnswers, SocketTimeout, RemovePlist, Fails, files
<1>3. NoCommand \in CommandRecord BY DEF NoCommand
<1>4. cmd \in CommandRecord /\ job \in BOOLEAN BY DEF Outer
<1>5. \A kind \in {"install", "uninstall", "upgrade"}, pc \in {"ensure", "unload", "stat"} :
        [NoCommand EXCEPT !.kind = kind, !.pc = pc] \in CommandRecord
  BY <1>3
<1>6. \A pc \in {"stat", "write", "unload", "load", "dial", "remove"} :
        /\ [cmd EXCEPT !.pc = pc] \in CommandRecord
        /\ [cmd EXCEPT !.kind = "wayBack", !.pc = pc] \in CommandRecord
        /\ \A kept \in BOOLEAN : [cmd EXCEPT !.pc = pc, !.kept = kept] \in CommandRecord
  BY <1>4
<1> HIDE DEF CommandRecord
<1>7. cmd' \in CommandRecord
  <2>1. CASE StartCommand BY <1>5, <2>1 DEF StartCommand
  <2>2. CASE Unload BY <1>4, <1>6, <2>2 DEF Unload, AfterUnload
  <2>3. CASE EditConfig \/ KillCommand \/ EnsureConfig \/ WritePlist \/ StatPlist
    BY <1>3, <1>4, <1>6, <2>3
    DEF EditConfig, KillCommand, EnsureConfig, WritePlist, StatPlist, Proceed, Stop
  <2>4. CASE LoadAgent \/ SocketTimeout \/ RemovePlist \/ \E p \in Proc : SocketAnswers(p)
    BY <1>3, <1>4, <1>6, <2>4
    DEF LoadAgent, SocketAnswers, SocketTimeout, RemovePlist, Proceed, Stop, Fails
  <2> QED BY <2>1, <2>2, <2>3, <2>4 DEF CommandStep
<1> QED BY <1>1, <1>2, <1>7 DEF Outer, CommandRecord

(* The daemons and the calls leave the rest alone.                         *)
LEMMA OuterStep ==
    ASSUME Outer, [Next]_vars
    PROVE  Outer'
<1>1. CASE EditConfig \/ StartCommand \/ KillCommand \/ CommandStep
  BY <1>1, OuterCommand
<1>2. CASE UNCHANGED <<files, job, cmd>> /\ (Typed \/ Trouble \/ UNCHANGED counts)
  BY <1>2, Counted DEF Outer, files
<1>3. ASSUME NEW p \in Proc,
             \/ LaunchdStarts(p) \/ DaemonCommand(p)
             \/ DaemonStep(p) \/ AcceptFails(p) \/ Die(p)
      PROVE  Outer'
  BY <1>2, <1>3
  DEF LaunchdStarts, DaemonCommand, Spawn, DaemonStep, AcceptFails, Die, Exit, LoadConfig,
      AcquireDaemonLock, LockRefused, RemoveSocket, Listen, ListenFails, CloseListener,
      ReleaseDaemonLock, Ends
<1>4. ASSUME NEW c \in Calls,
             \/ \E kind \in {"claim", "release"}, input \in Input : Call(c, kind, input)
             \/ Interrupt(c) \/ Accept(c) \/ Refuse(c)
             \/ \E ok \in BOOLEAN : Finish(c, ok)
      PROVE  Outer'
  BY <1>2, <1>4 DEF Call, Interrupt, Accept, Refuse, Finish, Answer
<1>5. CASE UNCHANGED vars
  BY <1>2, <1>5 DEF vars
<1>6. CASE MendLog \/ \E p \in Proc : AppendCutShort(p)
  BY <1>2, <1>6 DEF MendLog, AppendCutShort
<1> QED BY <1>1, <1>3, <1>4, <1>5, <1>6 DEF Next

(* The log can be read or not.                                             *)
LEMMA ReadableStep ==
    ASSUME readable \in BOOLEAN, [Next]_vars
    PROVE  readable' \in BOOLEAN
<1>1. CASE UNCHANGED readable
  BY <1>1
<1>2. ASSUME NEW dead, Gone(dead) PROVE readable' \in BOOLEAN
  <2> HIDE DEF Writes
  <2> QED BY <1>2 DEF Gone
<1>3. ASSUME NEW p \in Proc,
             \/ LaunchdStarts(p) \/ DaemonCommand(p)
             \/ DaemonStep(p) \/ AcceptFails(p) \/ Die(p) \/ AppendCutShort(p)
      PROVE  readable' \in BOOLEAN
  <2>1. UNCHANGED readable \/ readable' = FALSE \/ Gone({p})
    BY <1>3
    DEF LaunchdStarts, DaemonCommand, Spawn, DaemonStep, AcceptFails, Die, Exit, LoadConfig,
        AcquireDaemonLock, LockRefused, RemoveSocket, Listen, ListenFails, CloseListener,
        ReleaseDaemonLock, Ends, AppendCutShort
  <2> QED BY <1>2, <2>1
<1>4. CASE EditConfig \/ StartCommand \/ KillCommand \/ CommandStep
  <2>1. UNCHANGED readable \/ Gone({p \in Proc : proc[p].agent})
    BY <1>4
    DEF EditConfig, StartCommand, KillCommand, CommandStep, EnsureConfig, WritePlist,
        StatPlist, Unload, LoadAgent, SocketAnswers, SocketTimeout, RemovePlist, daemons
  <2> QED BY <1>2, <2>1
<1>5. ASSUME NEW c \in Calls,
             \/ \E kind \in {"claim", "release"}, input \in Input : Call(c, kind, input)
             \/ Interrupt(c) \/ Accept(c) \/ Refuse(c)
             \/ \E ok \in BOOLEAN : Finish(c, ok)
      PROVE  readable' \in BOOLEAN
  BY <1>5 DEF Call, Interrupt, Accept, Refuse, Finish, Answer, daemons
<1>6. CASE MendLog \/ UNCHANGED vars
  BY <1>6 DEF MendLog, vars, daemons
<1> QED BY <1>3, <1>4, <1>5, <1>6 DEF Next

-----------------------------------------------------------------------------
(* The theorems                                                            *)

(* The first state has the invariant.                                      *)
LEMMA HostInit ==
    ASSUME Init
    PROVE  Outer /\ Inner
<1>1. Outer BY HostAssumption DEF Init, Outer, NoCommand
<1>2. ProcsTyped BY DEF Init, ProcsTyped, ProcRecord, Down
<1>3. \A p \in Proc : proc[p].pc = "down" BY DEF Init, Down
<1>4. LockTyped /\ SocketTyped /\ ConfigRead /\ ServingReachable
  BY <1>3, HostAssumption
  DEF Init, LockTyped, Locked, SocketTyped, ConfigRead, ServingReachable
<1>5. NewCall \in CallRecord /\ NewCall.pc = "new" /\ NewCall.exit = "none"
  BY DEF NewCall, CallRecord
<1>6. CallsTyped /\ CallsSound /\ OneCall
  BY <1>5 DEF Init, CallsTyped, CallsSound, Sound, OneCall
<1> QED BY <1>1, <1>2, <1>4, <1>6 DEF Inner

(* The whole invariant, from which the theorems follow.                    *)
LEMMA HostInvariant == Spec => [](Outer /\ Inner)
<1>1. Init => Outer /\ Inner BY HostInit
<1>2. Outer /\ Inner /\ [Next]_vars => (Outer /\ Inner)'
  BY OuterStep, InnerStep
<1> QED BY <1>1, <1>2, PTL DEF Spec

(* Every variable keeps its type, and the daemon lock is with the process  *)
(* that is between taking it and giving it up.                             *)
THEOREM HostTypes == Spec => []TypeOK
<1>1. Outer /\ Inner /\ readable \in BOOLEAN => TypeOK
  BY DEF Outer, Inner, TypeOK, ProcsTyped, ProcRecord, LockTyped, Locked, SocketTyped,
         CallsTyped, CallRecord
<1>2. Init => readable \in BOOLEAN BY DEF Init
<1>3. readable \in BOOLEAN /\ [Next]_vars => (readable \in BOOLEAN)'
  BY ReadableStep
<1> QED BY <1>1, <1>2, <1>3, HostInvariant, PTL DEF Spec

(* A daemon that serves is the one the name of the socket leads to.        *)
THEOREM HostReachable == Spec => []ServingReachable
<1>1. Outer /\ Inner => ServingReachable BY DEF Inner
<1> QED BY <1>1, HostInvariant, PTL

(* A daemon works on the device the config meant when the command was      *)
(* typed, whatever config the daemon has read and whatever the aliases in  *)
(* both, unless the daemon's has that address for an alias.                *)
THEOREM HostAddress == Spec => []AddressAsMeant
<1>1. Outer /\ Inner => AddressAsMeant
  BY DEF Inner, CallsSound, Sound, AddressAsMeant
<1> QED BY <1>1, HostInvariant, PTL

(* One request is carried out for a device at a time, also by daemons that *)
(* follow each other, except next to one that gave its lock up.            *)
THEOREM HostOneWorker == Spec => []OneWorker
<1>1. Outer /\ Inner => OneWorker
  <2> SUFFICES ASSUME Inner, NEW b \in Calls, NEW c \in Calls,
                      call[b].pc = "running", call[c].pc = "running",
                      call[b].device = call[c].device,
                      proc[call[b].at].pc # "exit", proc[call[c].at].pc # "exit"
               PROVE  b = c
    BY DEF OneWorker
  <2>1. /\ call[b].at \in Proc /\ proc[call[b].at].pc \in Locked
        /\ call[c].at \in Proc /\ proc[call[c].at].pc \in Locked
    BY DEF Inner, CallsSound, Sound, Past, Locked
  <2>2. call[b].at = call[c].at BY <2>1, OneLocked DEF Inner
  <2> QED BY <2>2 DEF Inner, OneCall
<1> QED BY <1>1, HostInvariant, PTL

(* A command that exits with 0 was carried out.                            *)
THEOREM HostZero == Spec => []ZeroIsDone
<1>1. Outer /\ Inner => ZeroIsDone
  BY DEF Inner, CallsSound, Sound, ZeroIsDone
<1> QED BY <1>1, HostInvariant, PTL

-----------------------------------------------------------------------------
(* What answers a command that has replaced the daemon                     *)

(* The processes launchd started: none while no agent is loaded, and only  *)
(* such as run the executable that is in place once a command has really   *)
(* unloaded the agent.  What it unloads ends with it, and what is started  *)
(* after that runs what the command has put there.                         *)
AgentOfJob == ~job => \A p \in Proc : ~proc[p].agent
Restarted ==
    cmd.pc \in {"load", "dial"} /\ ~cmd.kept
        => \A p \in Proc : proc[p].agent => proc[p].build = exe
Current == AgentOfJob /\ Restarted

(* A step that starts no process of launchd and leaves the rest alone.     *)
LEMMA NoNewAgent ==
    ASSUME Current, UNCHANGED <<files, job, cmd>>,
           \A p \in Proc : proc'[p].agent =>
               proc[p].agent /\ proc'[p].build = proc[p].build
    PROVE  Current'
BY DEF Current, AgentOfJob, Restarted, files

(* The end of processes makes no agent.                                    *)
LEMMA GoneAgents ==
    ASSUME ProcsTyped, NEW dead \in SUBSET Proc, Gone(dead)
    PROVE  \A p \in Proc : proc'[p].agent =>
               p \notin dead /\ proc[p].agent /\ proc'[p].build = proc[p].build
<1>1. PICK no \in BOOLEAN : no = FALSE OBVIOUS
<1>2. Down.agent = no BY <1>1 DEF Down
<1>3. \A p \in Proc : proc'[p] = IF p \in dead THEN Down ELSE proc[p] BY DEF Gone
<1> QED BY <1>1, <1>2, <1>3

(* A daemon that goes on, or ends, is the agent's if it was before.        *)
LEMMA DaemonStepAgents ==
    ASSUME ProcsTyped, NEW p \in Proc, DaemonStep(p) \/ AcceptFails(p) \/ Die(p)
    PROVE  /\ UNCHANGED <<files, job, cmd>>
           /\ \A q \in Proc : proc'[q].agent =>
                  proc[q].agent /\ proc'[q].build = proc[q].build
<1>1. proc[p] \in ProcRecord BY DEF ProcsTyped
<1>2. UNCHANGED <<files, job, cmd>>
  BY DEF DaemonStep, AcceptFails, Die, Exit, LoadConfig, AcquireDaemonLock, LockRefused,
         RemoveSocket, Listen, ListenFails, CloseListener, ReleaseDaemonLock, Ends
<1>3. CASE Exit(p)
  BY <1>2, <1>3, GoneAgents DEF Exit
<1>4. ASSUME NEW pc, proc' = [proc EXCEPT ![p].pc = pc]
      PROVE  \A q \in Proc : proc'[q].agent =>
                 proc[q].agent /\ proc'[q].build = proc[q].build
  <2>1. proc'[p].agent = proc[p].agent /\ proc'[p].build = proc[p].build
    BY <1>1, <1>4 DEF ProcsTyped, ProcRecord
  <2>2. \A q \in Proc \ {p} : proc'[q] = proc[q] BY <1>4 DEF ProcsTyped
  <2> QED BY <2>1, <2>2
<1>5. ASSUME NEW pc, NEW cfg, proc' = [proc EXCEPT ![p].pc = pc, ![p].cfg = cfg]
      PROVE  \A q \in Proc : proc'[q].agent =>
                 proc[q].agent /\ proc'[q].build = proc[q].build
  <2>1. proc'[p].agent = proc[p].agent /\ proc'[p].build = proc[p].build
    BY <1>1, <1>5 DEF ProcsTyped, ProcRecord
  <2>2. \A q \in Proc \ {p} : proc'[q] = proc[q] BY <1>5 DEF ProcsTyped
  <2> QED BY <2>1, <2>2
<1>6. \/ Exit(p)
      \/ \E pc : \/ proc' = [proc EXCEPT ![p].pc = pc]
                 \/ \E cfg : proc' = [proc EXCEPT ![p].pc = pc, ![p].cfg = cfg]
  BY DEF DaemonStep, AcceptFails, Die, LoadConfig, AcquireDaemonLock, LockRefused,
         RemoveSocket, Listen, ListenFails, CloseListener, ReleaseDaemonLock, Ends, To
<1> QED BY <1>2, <1>3, <1>4, <1>5, <1>6

(* Each step of the command that replaces the daemon.                      *)
LEMMA CommandCurrent ==
    ASSUME Outer, ProcsTyped, Current, StartCommand \/ KillCommand \/ CommandStep
    PROVE  Current'
<1> USE DEF files, daemons
<1>1. cmd \in [kind : {"install", "uninstall", "upgrade", "wayBack", None},
               pc : {"idle", "ensure", "write", "stat", "unload", "load", "dial",
                     "remove"}, kept : BOOLEAN]
  BY DEF Outer
<1>2. CASE Unload
  <2> DEFINE agents == {p \in Proc : proc[p].agent}
  <2>1. CASE job' = FALSE /\ Gone(agents)
    <3>1. agents \in SUBSET Proc /\ \A p \in Proc : proc[p].agent => p \in agents
      OBVIOUS
    <3> HIDE DEF agents
    <3>2. \A p \in Proc : ~proc'[p].agent BY <2>1, <3>1, GoneAgents
    <3> QED BY <2>1, <3>2 DEF Current, AgentOfJob, Restarted
  <2>2. CASE cmd' = [cmd EXCEPT !.pc = AfterUnload, !.kept = job]
             /\ UNCHANGED <<files, job, daemons>>
    <3>1. cmd'.kept = job BY <1>1, <2>2
    <3>2. Restarted' BY <2>2, <3>1 DEF Current, AgentOfJob, Restarted
    <3> QED BY <2>2, <3>2 DEF Current, AgentOfJob
  <2>3. \/ job' = FALSE /\ Gone(agents)
        \/ /\ cmd' = [cmd EXCEPT !.pc = AfterUnload, !.kept = job]
           /\ UNCHANGED <<files, job, daemons>>
    <3> HIDE DEF daemons
    <3> QED BY <1>2 DEF Unload
  <2> QED BY <2>1, <2>2, <2>3
<1>3. ASSUME cmd'.pc \notin {"load", "dial"}, UNCHANGED <<job, proc>> PROVE Current'
  BY <1>3 DEF Current, AgentOfJob, Restarted
<1>4. Stop \/ Fails => cmd'.pc \notin {"load", "dial"}
  <2>1. NoCommand.pc = "idle" BY DEF NoCommand
  <2>2. Stop => cmd'.pc = "idle" BY <2>1 DEF Stop
  <2>3. cmd' = [cmd EXCEPT !.kind = "wayBack", !.pc = "stat"] => cmd'.pc = "stat"
    BY <1>1
  <2>4. Fails => Stop \/ cmd' = [cmd EXCEPT !.kind = "wayBack", !.pc = "stat"]
    BY DEF Fails
  <2> QED BY <2>2, <2>3, <2>4
<1>5. CASE LoadAgent
  <2>1. CASE Fails /\ UNCHANGED <<job, daemons>>
    BY <1>3, <1>4, <2>1
  <2>2. CASE job' = TRUE /\ Proceed("dial") /\ UNCHANGED <<exe, daemons>>
    <3>1. cmd.pc = "load" /\ cmd'.kept = cmd.kept
      BY <1>1, <1>5, <2>2 DEF LoadAgent, At, Proceed
    <3> QED BY <2>2, <3>1 DEF Current, AgentOfJob, Restarted
  <2> QED BY <1>5, <2>1, <2>2 DEF LoadAgent
<1>6. CASE EnsureConfig \/ StatPlist \/ WritePlist
  <2>1. cmd'.pc \notin {"load", "dial"}
    <3>1. CASE EnsureConfig BY <1>1, <1>4, <3>1 DEF EnsureConfig, Proceed
    <3>2. CASE StatPlist BY <1>1, <1>4, <3>2 DEF StatPlist, Proceed
    <3>3. CASE WritePlist BY <1>1, <1>4, <3>3 DEF WritePlist, Proceed
    <3> QED BY <1>6, <3>1, <3>2, <3>3
  <2> QED BY <1>3, <1>6, <2>1 DEF EnsureConfig, StatPlist, WritePlist
<1>7. CASE StartCommand
  <2>1. cmd'.pc \notin {"load", "dial"} /\ UNCHANGED <<job, daemons>>
    BY <1>7 DEF StartCommand, NoCommand
  <2> QED BY <1>3, <2>1
<1>8. CASE \/ KillCommand \/ SocketTimeout \/ RemovePlist
           \/ \E p \in Proc : SocketAnswers(p)
  BY <1>3, <1>4, <1>8 DEF KillCommand, SocketTimeout, RemovePlist, SocketAnswers
<1> QED BY <1>2, <1>5, <1>6, <1>7, <1>8 DEF CommandStep

(* Every step keeps the agents current.                                    *)
LEMMA CurrentStep ==
    ASSUME Outer, Inner, Current, [Next]_vars
    PROVE  Current'
<1>0. ProcsTyped BY DEF Inner
<1>1. ASSUME NEW p \in Proc, DaemonStep(p) \/ AcceptFails(p) \/ Die(p)
      PROVE  Current'
  BY <1>0, <1>1, DaemonStepAgents, NoNewAgent
<1>2. ASSUME NEW p \in Proc, LaunchdStarts(p) PROVE Current'
  <2>1. /\ job /\ UNCHANGED <<files, job, cmd>>
        /\ proc'[p].build = exe /\ \A q \in Proc \ {p} : proc'[q] = proc[q]
    BY <1>0, <1>2 DEF LaunchdStarts, Spawn, ProcsTyped
  <2> QED BY <2>1 DEF Current, AgentOfJob, Restarted, files
<1>3. ASSUME NEW p \in Proc, DaemonCommand(p) PROVE Current'
  <2>1. PICK no \in BOOLEAN : no = FALSE OBVIOUS
  <2>2. /\ UNCHANGED <<files, job, cmd>> /\ proc'[p].agent = no
        /\ \A q \in Proc \ {p} : proc'[q] = proc[q]
    BY <1>0, <1>3, <2>1 DEF DaemonCommand, Spawn, ProcsTyped
  <2> QED BY <2>1, <2>2, NoNewAgent
<1>4. CASE StartCommand \/ KillCommand \/ CommandStep
  BY <1>0, <1>4, CommandCurrent
<1>5. CASE EditConfig \/ UNCHANGED vars
  BY <1>5 DEF EditConfig, vars, daemons, files, Current, AgentOfJob, Restarted
<1>7. CASE MendLog \/ \E p \in Proc : AppendCutShort(p)
  BY <1>7, NoNewAgent DEF MendLog, AppendCutShort
<1>6. ASSUME NEW c \in Calls,
             \/ \E kind \in {"claim", "release"}, input \in Input : Call(c, kind, input)
             \/ Interrupt(c) \/ Accept(c) \/ Refuse(c)
             \/ \E ok \in BOOLEAN : Finish(c, ok)
      PROVE  Current'
  BY <1>6, NoNewAgent DEF Call, Interrupt, Accept, Refuse, Finish, Answer, daemons
<1> QED BY <1>1, <1>2, <1>3, <1>4, <1>5, <1>6, <1>7 DEF Next

(* Install, upgrade and the way back of an upgrade never take an agent of  *)
(* the executable they replaced for the one they started, whatever dies,   *)
(* is started or is edited meanwhile, unless the agent was not unloaded.   *)
THEOREM HostAnswersCurrent == Spec => AnswersAreCurrent
<1>1. Init => Current
  <2> SUFFICES ASSUME Init PROVE Current OBVIOUS
  <2>1. PICK no \in BOOLEAN : no = FALSE OBVIOUS
  <2>2. \A p \in Proc : proc[p].agent = no BY <2>1 DEF Init, Down
  <2> QED BY <2>1, <2>2 DEF Current, AgentOfJob, Restarted
<1>2. Outer /\ Inner /\ Current /\ [Next]_vars => Current'
  BY CurrentStep
<1>3. Current =>
        [\A p \in Proc : SocketAnswers(p) /\ proc[p].agent /\ ~cmd.kept
             => proc[p].build = exe]_vars
  BY DEF Current, Restarted, SocketAnswers, At
<1> QED BY <1>1, <1>2, <1>3, HostInvariant, PTL DEF Spec, AnswersAreCurrent
=============================================================================

--------------------------------- MODULE Host ---------------------------------
(***************************************************************************)
(* One Mac: the config file, the LaunchAgent that keeps the daemon alive,  *)
(* the daemon processes behind the socket, and the commands of the user:   *)
(* claim and release, which call the daemon, and install, uninstall and    *)
(* upgrade, which replace it.                                              *)
(*                                                                         *)
(* StateLog has the log that a daemon reads as it starts, Daemon what it   *)
(* does with a request, and Upgrade all the ways in which an executable is *)
(* replaced or is not; here each of these is one step, and of the log      *)
(* remains whether it can be read.  The commands and the daemon read the   *)
(* same config file, at different times.                                   *)
(***************************************************************************)
EXTENDS Naturals, Sequences, FiniteSets

CONSTANTS
    Proc,           \* daemon processes
    Calls,          \* calls of claim or release
    Content,        \* what the config file may hold
    Template,       \* what EnsureConfig writes
    Input,          \* what may be typed as the device
    Hex,            \* the digits of an address
    None,           \* no file, no process, no device
    MaxCommands,    \* bound: commands typed
    MaxTroubles     \* bound: edits of the config, deaths, calls that fail

Raw == [hex : Hex, sep : {":", "-", "mixed"}]    \* an address as it is written
Address == [hex : Hex, sep : {":"}]

ASSUME HostAssumption ==
    /\ Template \in Content /\ None \notin Proc \cup Raw
    /\ {MaxCommands, MaxTroubles} \subseteq Nat

VARIABLES
    config,     \* what the config file holds
    plist,      \* the LaunchAgent file: absent, torn or whole
    exe,        \* the build the executable is
    job,        \* whether launchd has the agent loaded
    proc,       \* the daemon processes
    holder,     \* who has the daemon lock
    socket,     \* whose listener the name of the socket leads to
    readable,   \* whether every line of state.jsonl can be read
    cmd,        \* the install, uninstall or upgrade that is running
    call,       \* the calls: what the command and the daemon do
    commands, troubles          \* how many there have been

files == <<config, plist, exe>>
daemons == <<proc, holder, socket, readable>>
counts == <<commands, troubles>>
vars == <<files, job, daemons, cmd, call, counts>>

-----------------------------------------------------------------------------
(* Configuration                                                           *)

NormalizeAddress(raw) ==
    IF raw \in Raw /\ raw.sep # "mixed" THEN [hex |-> raw.hex, sep |-> ":"]
                                        ELSE None

(* config.Load: the defaults if there is no file, None for an error: the   *)
(* file is open to others, is not JSON, or has an address that is none.    *)
Load(content) ==
    IF content = None THEN [devices |-> <<>>, default |-> None]
    ELSE LET d == content.devices
             normal == [a \in DOMAIN d |-> NormalizeAddress(d[a])]
         IN IF content.safe /\ \A a \in DOMAIN d : normal[a] # None
            THEN [devices |-> normal, default |-> content.default]
            ELSE None

(* The address, or None for an error.  An alias may be spelled like an     *)
(* address, and then comes first.                                          *)
ResolveDevice(cfg, input) ==
    LET named == IF input = None THEN cfg.default ELSE input
    IN IF named \in DOMAIN cfg.devices \ {None} THEN cfg.devices[named]
                                                ELSE NormalizeAddress(named)

Config == {Load(c) : c \in Content \cup {None}}

-----------------------------------------------------------------------------
Down == [pc |-> "down", agent |-> FALSE, build |-> None, cfg |-> None]
NoCommand == [kind |-> None, pc |-> "idle", kept |-> FALSE]

(* A call: the daemon process that serves it, the device it is about (as   *)
(* it was sent, then as an address), the address the config gave it,       *)
(* whether its command still listens, what that exits with, and what the   *)
(* daemon made of it.                                                      *)
NewCall == [pc |-> "new", kind |-> None, at |-> None, device |-> None,
            meant |-> None, hears |-> FALSE, exit |-> "none", done |-> FALSE]

TypeOK ==
    /\ config \in Content \cup {None}
    /\ plist \in {"absent", "torn", "whole"}
    /\ exe \in {"old", "new"} /\ job \in BOOLEAN
    /\ proc \in [Proc -> [pc : {"down", "load", "lock", "remove", "listen", "serve",
                                "close", "unlock", "exit"}, agent : BOOLEAN,
                          build : {"old", "new", None}, cfg : Config \cup {None}]]
    /\ holder \in Proc \cup {None}
    /\ socket \in Proc \cup {None, "stale"}
    /\ readable \in BOOLEAN
    /\ cmd \in [kind : {"install", "uninstall", "upgrade", "wayBack", None},
                pc : {"idle", "ensure", "write", "stat", "unload", "load", "dial",
                      "remove"}, kept : BOOLEAN]
    /\ call \in [Calls -> [pc : {"new", "asked", "running", "ended"},
                          kind : {"claim", "release", None}, at : Proc \cup {None},
                          device : Input \cup Address \cup {None},
                          meant : Address \cup {None},
                          hears : BOOLEAN, done : BOOLEAN,
                          exit : {"none", "ok", "error", "invalid_response",
                                  "unavailable", "interrupted"}]]
    /\ commands \in 0..MaxCommands /\ troubles \in 0..MaxTroubles
    /\ \A p \in Proc : holder = p <=>
           proc[p].pc \in {"remove", "listen", "serve", "close", "unlock"}

Init ==
    /\ config \in Content \cup {None}
    /\ job \in BOOLEAN /\ exe = "old"
    /\ plist = IF job THEN "whole" ELSE "absent"
    /\ proc = [p \in Proc |-> Down]
    /\ holder = None /\ socket = None /\ readable = TRUE
    /\ cmd = NoCommand
    /\ call = [c \in Calls |-> NewCall]
    /\ commands = 0 /\ troubles = 0

Typed == commands < MaxCommands /\ commands' = commands + 1 /\ UNCHANGED troubles
Trouble == troubles < MaxTroubles /\ troubles' = troubles + 1 /\ UNCHANGED commands

(* External: the user, or an editor, puts other contents in the file.      *)
EditConfig ==
    /\ Trouble
    /\ config' \in Content \ {config}
    /\ UNCHANGED <<plist, exe, job, daemons, cmd, call>>

-----------------------------------------------------------------------------
(* Daemon processes                                                        *)

To(p, pc) == proc' = [proc EXCEPT ![p].pc = pc]

Spawn(p, agent) ==
    /\ proc[p].pc = "down"
    /\ proc' = [proc EXCEPT ![p] = [pc |-> "load", agent |-> agent,
                                    build |-> exe, cfg |-> None]]
    /\ UNCHANGED <<files, job, holder, socket, readable, cmd, call>>

AgentAlive == \E p \in Proc : proc[p].agent

(* RunAtLoad and KeepAlive.                                                *)
LaunchdStarts(p) == job /\ ~AgentAlive /\ Spawn(p, TRUE) /\ UNCHANGED counts

(* magichop daemon, typed in a terminal.                                   *)
DaemonCommand(p) == Spawn(p, FALSE) /\ Typed

(* The call is over; nobody hears its end if the command was interrupted.  *)
Ended(c, exit, done) ==
    [NewCall EXCEPT !.pc = "ended", !.done = done,
                    !.exit = IF call[c].hears THEN exit ELSE "interrupted"]

(* Whether the process may be writing a line of the log: it serves a call, *)
(* or is starting with a config, and closes the claims left open.          *)
Writes(p) ==
    \/ proc[p].pc = "load" /\ Load(config) # None
    \/ \E c \in Calls : call[c].at = p

(* These processes are gone: their lock is free, their socket leads        *)
(* nowhere, and whoever waits for them reads the end of the connection.    *)
(* What one was writing may be cut short (StateLog).                       *)
Gone(dead) ==
    /\ proc' = [p \in Proc |-> IF p \in dead THEN Down ELSE proc[p]]
    /\ holder' = IF holder \in dead THEN None ELSE holder
    /\ socket' = IF socket \in dead THEN "stale" ELSE socket
    /\ call' = [c \in Calls |-> IF call[c].at \in dead
                               THEN Ended(c, "invalid_response", FALSE) ELSE call[c]]
    /\ readable' \in {readable, readable /\ ~\E p \in dead : Writes(p)}

Exit(p) == Gone({p}) /\ UNCHANGED <<files, job, cmd>>

(* External: the process is killed, or panics.                             *)
Die(p) == proc[p].pc # "down" /\ Exit(p) /\ Trouble

(* What a start needs besides luck: a config and a log that can be read.   *)
CanStart == Load(config) # None /\ readable

(* The config is read once.  A line of the log that cannot be read ends    *)
(* this start, and every later one.  The results of open claims may fail   *)
(* to be written, and the logger to be opened.                             *)
LoadConfig(p) ==
    /\ proc[p].pc = "load"
    /\ \/ /\ CanStart
          /\ proc' = [proc EXCEPT ![p].pc = "lock", ![p].cfg = Load(config)]
          /\ UNCHANGED <<files, job, holder, socket, readable, cmd, call, counts>>
       \/ ~CanStart /\ Exit(p) /\ UNCHANGED counts
       \/ Exit(p) /\ Trouble

(* A daemon that serves goes on when a write is cut short.                 *)
AppendCutShort(p) ==
    /\ \E c \in Calls : call[c].at = p
    /\ readable' = FALSE
    /\ Trouble
    /\ UNCHANGED <<files, job, proc, holder, socket, cmd, call>>

(* External: the user repairs the log or removes it.                       *)
MendLog ==
    /\ ~readable /\ readable' = TRUE
    /\ UNCHANGED <<files, job, proc, holder, socket, cmd, call, counts>>

AcquireDaemonLock(p) ==
    /\ proc[p].pc = "lock" /\ holder = None
    /\ To(p, "remove")
    /\ holder' = p
    /\ UNCHANGED <<files, job, socket, readable, cmd, call, counts>>

(* variant: the socket of another daemon is removed before the lock is taken *)
LockRefused_Removes(p) ==
    /\ proc[p].pc = "lock" /\ holder # None
    /\ proc' = [proc EXCEPT ![p] = Down]
    /\ socket' = None
    /\ UNCHANGED <<files, job, holder, readable, cmd, call, counts>>

(* variant: the daemon serves without the lock, on the socket of the other *)
LockRefused_Serves(p) ==
    /\ proc[p].pc = "lock" /\ holder # None
    /\ To(p, "remove")
    /\ UNCHANGED <<files, job, holder, socket, readable, cmd, call, counts>>

LockRefused(p) ==
    /\ proc[p].pc = "lock" /\ holder # None
    /\ Exit(p) /\ UNCHANGED counts

(* variant: the socket of a daemon that died stays *)
RemoveSocket_Kept(p) ==
    /\ proc[p].pc = "remove"
    /\ To(p, "listen")
    /\ UNCHANGED <<files, job, holder, socket, readable, cmd, call, counts>>

(* An error of the removal is passed over.                                 *)
RemoveSocket(p) ==
    /\ proc[p].pc = "remove"
    /\ To(p, "listen")
    /\ \/ socket' = None /\ UNCHANGED counts
       \/ UNCHANGED socket /\ Trouble
    /\ UNCHANGED <<files, job, holder, readable, cmd, call>>

Listen(p) ==
    /\ proc[p].pc = "listen" /\ socket = None
    /\ socket' = p
    /\ To(p, "serve")
    /\ UNCHANGED <<files, job, holder, readable, cmd, call, counts>>

ListenFails(p) ==
    /\ proc[p].pc = "listen" /\ socket # None
    /\ Exit(p) /\ UNCHANGED counts

(* Accept fails, and Run returns: the deferred calls close the listener,   *)
(* which removes whatever the socket's name leads to, then give the lock   *)
(* up; the process, with the requests it still serves, ends after them.    *)
AcceptFails(p) ==
    /\ proc[p].pc = "serve"
    /\ To(p, "close") /\ Trouble
    /\ UNCHANGED <<files, job, holder, socket, readable, cmd, call>>

CloseListener(p) ==
    /\ proc[p].pc = "close"
    /\ To(p, "unlock")
    /\ socket' = None
    /\ UNCHANGED <<files, job, holder, readable, cmd, call, counts>>

ReleaseDaemonLock(p) ==
    /\ proc[p].pc = "unlock"
    /\ To(p, "exit")
    /\ holder' = None
    /\ UNCHANGED <<files, job, socket, readable, cmd, call, counts>>

Ends(p) == proc[p].pc = "exit" /\ Exit(p) /\ UNCHANGED counts

DaemonStep(p) ==
    \/ LoadConfig(p) \/ AcquireDaemonLock(p) \/ LockRefused(p)
    \/ RemoveSocket(p) \/ Listen(p) \/ ListenFails(p) \/ CloseListener(p)
    \/ ReleaseDaemonLock(p) \/ Ends(p)

Serves(p) == proc[p].pc = "serve" /\ socket = p

-----------------------------------------------------------------------------
(* install mac, uninstall mac, and the end of upgrade                      *)

At(kinds, pc) == cmd.kind \in kinds /\ cmd.pc = pc

Proceed(pc) == cmd' = [cmd EXCEPT !.pc = pc]

Stop == cmd' = NoCommand

(* A failure after the executable was replaced: the old one is put back,   *)
(* and the agent started again; a second failure ends the command.         *)
Fails ==
    IF cmd.kind = "upgrade"
    THEN exe' = "old" /\ cmd' = [cmd EXCEPT !.kind = "wayBack", !.pc = "stat"]
    ELSE Stop /\ UNCHANGED exe

StartCommand ==
    /\ cmd.kind = None
    /\ Typed
    /\ \/ cmd' = [NoCommand EXCEPT !.kind = "install", !.pc = "ensure"] /\ UNCHANGED exe
       \/ cmd' = [NoCommand EXCEPT !.kind = "uninstall", !.pc = "unload"] /\ UNCHANGED exe
       \/ /\ exe = "old" /\ exe' = "new"
          /\ cmd' = [NoCommand EXCEPT !.kind = "upgrade", !.pc = "stat"]
    /\ UNCHANGED <<config, plist, job, daemons, call>>

(* A config that is cut short cannot be loaded.                            *)
EnsureConfig ==
    /\ At({"install"}, "ensure")
    /\ \/ /\ Proceed("write") /\ UNCHANGED counts
          /\ config' = IF config = None THEN Template ELSE config
       \/ /\ Stop /\ Trouble
          /\ \/ UNCHANGED config
             \/ config = None /\ config' \in {c \in Content : Load(c) = None}
    /\ UNCHANGED <<plist, exe, job, daemons, call>>

WritePlist ==
    /\ At({"install"}, "write")
    /\ \/ plist' = "whole" /\ Proceed("unload") /\ UNCHANGED counts
       \/ plist' \in {plist, "torn"} /\ Stop /\ Trouble
    /\ UNCHANGED <<config, exe, job, daemons, call>>

(* Only an agent that is installed is restarted.                           *)
StatPlist ==
    /\ At({"upgrade", "wayBack"}, "stat")
    /\ IF plist = "absent" THEN Stop ELSE Proceed("unload")
    /\ UNCHANGED <<files, job, daemons, call, counts>>

AfterUnload == IF cmd.kind = "uninstall" THEN "remove" ELSE "load"

(* variant: the agent is not unloaded before it is loaded *)
Unload_Skipped ==
    /\ At({"install", "uninstall", "upgrade", "wayBack"}, "unload")
    /\ Proceed(AfterUnload)
    /\ UNCHANGED <<files, job, daemons, call, counts>>

(* launchctl unload ends the agent's process.  Its error is passed over,   *)
(* and the agent may then still be loaded.                                 *)
Unload ==
    /\ At({"install", "uninstall", "upgrade", "wayBack"}, "unload")
    /\ \/ /\ plist = "whole"
          /\ job' = FALSE
          /\ Gone({p \in Proc : proc[p].agent})
          /\ cmd' = [cmd EXCEPT !.pc = AfterUnload, !.kept = FALSE]
          /\ UNCHANGED counts
       \/ /\ \/ plist # "whole" /\ UNCHANGED counts
             \/ Trouble
          /\ cmd' = [cmd EXCEPT !.pc = AfterUnload, !.kept = job]
          /\ UNCHANGED <<job, daemons, call>>
    /\ UNCHANGED files

(* launchctl load of an agent that is loaded changes nothing, and may or   *)
(* may not be an error.                                                    *)
LoadAgent ==
    /\ At({"install", "upgrade", "wayBack"}, "load")
    /\ \/ plist = "whole" /\ job' = TRUE /\ Proceed("dial") /\ UNCHANGED <<exe, counts>>
       \/ (plist # "whole" \/ job) /\ Fails /\ UNCHANGED <<job, counts>>
       \/ Fails /\ Trouble /\ UNCHANGED job
    /\ UNCHANGED <<config, plist, daemons, call>>

(* waitForDaemonSocket: any daemon that answers will do.                   *)
SocketAnswers(p) ==
    /\ At({"install", "upgrade", "wayBack"}, "dial")
    /\ Serves(p)
    /\ Stop
    /\ UNCHANGED <<files, job, daemons, call, counts>>

SocketTimeout ==
    /\ At({"install", "upgrade", "wayBack"}, "dial")
    /\ Fails
    /\ UNCHANGED <<config, plist, job, daemons, call, counts>>

RemovePlist ==
    /\ At({"uninstall"}, "remove")
    /\ Stop
    /\ \/ plist' = "absent" /\ UNCHANGED counts
       \/ UNCHANGED plist /\ Trouble
    /\ UNCHANGED <<config, exe, job, daemons, call>>

(* External: the user ends the command.                                    *)
KillCommand ==
    /\ cmd.kind # None /\ Trouble
    /\ Stop
    /\ UNCHANGED <<files, job, daemons, call>>

CommandStep ==
    \/ EnsureConfig \/ WritePlist \/ StatPlist \/ Unload \/ LoadAgent
    \/ (\E p \in Proc : SocketAnswers(p)) \/ SocketTimeout \/ RemovePlist

-----------------------------------------------------------------------------
(* claim and release                                                       *)

(* variant: what was typed is left to the daemon to resolve *)
Sent_AsTyped(input) == input

(* The config as it is now; an error leaves the input as it was typed.     *)
Meant(input) == IF Load(config) = None THEN None ELSE ResolveDevice(Load(config), input)

Sent(input) == IF Meant(input) = None THEN input ELSE Meant(input)

(* Calls differ by name only, and take their names in turn.                *)
Unused == CHOOSE c \in Calls : call[c].pc = "new"

Call(c, kind, input) ==
    /\ call[c].pc = "new" /\ c = Unused
    /\ Typed
    /\ \/ \E p \in Proc :
             /\ Serves(p)
             /\ call' = [call EXCEPT ![c] =
                    [NewCall EXCEPT !.pc = "asked", !.kind = kind, !.at = p,
                                    !.device = Sent(input), !.meant = Meant(input),
                                    !.hears = TRUE]]
       \/ /\ ~\E p \in Proc : Serves(p)
          /\ call' = [call EXCEPT ![c].pc = "ended", ![c].exit = "unavailable"]
    /\ UNCHANGED <<files, job, daemons, cmd>>

(* External: the user gives up; the daemon does not notice.                *)
Interrupt(c) ==
    /\ call[c].hears /\ Trouble
    /\ call' = [call EXCEPT ![c].hears = FALSE]
    /\ UNCHANGED <<files, job, daemons, cmd>>

(* callDaemon reads an accepted and a final message for a claim, and one   *)
(* result for a release; too few are an error of their own.                *)
Expected(kind) == IF kind = "claim" THEN 2 ELSE 1

(* variant: that the daemon answered is taken for success *)
Outcome_Answered(kind, replies) == "ok"

Outcome(kind, replies) ==
    IF Len(replies) < Expected(kind) THEN "invalid_response"
    ELSE IF replies[Expected(kind)].ok THEN "ok" ELSE "error"

Answer(c, replies, done) ==
    /\ call' = [call EXCEPT ![c] = Ended(c, Outcome(call[c].kind, replies), done)]
    /\ UNCHANGED <<files, job, daemons, cmd, counts>>

Requested(c) == ResolveDevice(proc[call[c].at].cfg, call[c].device)

Busy(p, address) ==
    \E c \in Calls : call[c].pc = "running" /\ call[c].at = p /\ call[c].device = address

(* variant: the lock of the device is not looked at *)
Accept_Always(c) ==
    /\ call[c].pc = "asked" /\ Requested(c) # None
    /\ call' = [call EXCEPT ![c].pc = "running", ![c].device = Requested(c)]
    /\ UNCHANGED <<files, job, daemons, cmd, counts>>

Accept(c) ==
    /\ call[c].pc = "asked"
    /\ Requested(c) # None /\ ~Busy(call[c].at, Requested(c))
    /\ call' = [call EXCEPT ![c].pc = "running", ![c].device = Requested(c)]
    /\ UNCHANGED <<files, job, daemons, cmd, counts>>

(* The device is unknown or busy, blueutil is missing, or the log refuses  *)
(* the claim: a single message says so, for a claim too.                   *)
Refuse(c) == call[c].pc = "asked" /\ Answer(c, <<[ok |-> FALSE]>>, FALSE)

Finish(c, ok) ==
    /\ call[c].pc = "running"
    /\ Answer(c, IF call[c].kind = "claim" THEN <<[ok |-> TRUE], [ok |-> ok]>>
                                            ELSE <<[ok |-> ok]>>, ok)

-----------------------------------------------------------------------------
Next ==
    \/ EditConfig
    \/ \E p \in Proc : \/ LaunchdStarts(p) \/ DaemonCommand(p)
                       \/ DaemonStep(p) \/ AcceptFails(p) \/ Die(p)
                       \/ AppendCutShort(p)
    \/ MendLog
    \/ StartCommand \/ CommandStep
    \/ KillCommand
    \/ \E c \in Calls : \/ \E kind \in {"claim", "release"}, input \in Input :
                             Call(c, kind, input)
                        \/ Interrupt(c) \/ Accept(c) \/ Refuse(c)
                        \/ \E ok \in BOOLEAN : Finish(c, ok)

Spec == Init /\ [][Next]_vars

(***************************************************************************)
(* launchd restarts the agent, every process is scheduled, and a request   *)
(* comes to an end (Daemon, EveryConnAnswered).                            *)
(***************************************************************************)
Fairness ==
    /\ WF_vars(\E p \in Proc : LaunchdStarts(p))
    /\ \A p \in Proc : WF_vars(DaemonStep(p))

FairSpec == Spec /\ Fairness

-----------------------------------------------------------------------------
(* A daemon that serves can be reached: the name of the socket leads to    *)
(* its listener and to no other, however many daemons start, fail or die   *)
(* around it.  Each removes the socket it finds and, leaving, the socket   *)
(* there is, and does either only while it has the lock.                   *)
ServingReachable == \A p \in Proc : proc[p].pc = "serve" => socket = p

(* The device a daemon works on is the one the config meant when the       *)
(* command was typed, though the daemon has read another config and        *)
(* resolves once more what it is sent (config.go:172).  Two exceptions:    *)
(* the command could not read the config; or the daemon's config has that  *)
(* very address for an alias, which Load does not refuse (config.go:108).  *)
AddressAsMeant ==
    \A c \in Calls : call[c].pc = "running" /\ call[c].meant # None =>
        \/ call[c].device = call[c].meant
        \/ call[c].meant \in DOMAIN proc[call[c].at].cfg.devices

(* Two requests are never carried out for one device at a time, also by    *)
(* daemons that follow each other, except next to a daemon that could not  *)
(* accept connections any more and is on its way out.                      *)
OneWorker ==
    \A b, c \in Calls :
        /\ call[b].pc = "running" /\ call[c].pc = "running"
        /\ call[b].device = call[c].device
        /\ proc[call[b].at].pc # "exit" /\ proc[call[c].at].pc # "exit"
        => b = c

(* A command that exits with 0 was carried out.                            *)
ZeroIsDone == \A c \in Calls : call[c].exit = "ok" => call[c].done

(* Install, upgrade and the way back of an upgrade take any daemon that    *)
(* answers for the one they started.  If it is the agent's, it does run    *)
(* the executable now in place, unless the old agent could not be unloaded *)
(* (upgrade.go:454, install.go:38).                                        *)
AnswersAreCurrent ==
    [][\A p \in Proc : SocketAnswers(p) /\ proc[p].agent /\ ~cmd.kept
          => proc[p].build = exe]_vars

(* As long as the agent is loaded and the config and the log can be read,  *)
(* there is again and again a daemon that answers: a daemon that is        *)
(* refused the lock ends, launchd starts another, and a stale socket is no *)
(* obstacle.  It is not so once a line of the log was cut short, which     *)
(* every start trips over until the log is mended (state.go:99-104); any   *)
(* other failure of a start is taken to pass.                              *)
LoadedServes ==
    (job /\ CanStart) ~> (~job \/ ~CanStart \/ \E p \in Proc : Serves(p))

(* README.md:115: "JSON output is available for user-facing daemon         *)
(* commands", the first of which is `magichop claim --json`.  It takes     *)
(* that the command understands what the daemon answers.                   *)
AnswerUnderstood ==
    [][\A c \in Calls : Refuse(c) => call'[c].exit # "invalid_response"]_vars
=============================================================================

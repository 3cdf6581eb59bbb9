# MagicHop: specification and verification

MagicHop lets several Macs share Bluetooth peripherals. A *coordinator* runs an
embedded NATS server; each Mac runs a *daemon*; `magichop claim` makes the local
daemon ask the coordinator, which asks the Mac that has the device to release it
before the requester pairs with it. This directory specifies the parts of it
that have state and concurrency, checks them with TLC and proves theorems about
them with TLAPS.

## Inventory

Paths are relative to `src/`.

**Coordinator core** (`internal/coordinator/core.go`). State: `nodes` (devices,
last heartbeat, live), `locks` (per device: request id and deadline), both under
one mutex that is held for single operations only. Operations: `Register`,
`Heartbeat`, `MarkDead`, `ReapDeadNodes`, `HandleClaim`. HandleClaim passes
through several locked sections (sweep of expired locks, choice of the peer and
locking; marking the peer dead; removing the lock) and waits at most 300 ms for
the peer in between. Hard: expiry of a lock under a stalled handler, cleanup
that comes late, an answer that races the timeout, retries, stale registrations.
Correct if no two requests for a device are ever in the window in which a
release may be acted on, if a lock is there exactly as long as that window, if
refusals (`claim_busy`, `no_peer`) have a cause, and if every claim is answered.

**Coordinator server** (`internal/coordinator/coordinator.go`). NATS
subscriptions that call the core; the claim subscription runs its callbacks one
after another. Nothing is persisted: a restart loses registry and locks.

**Daemon service** (`internal/daemon/daemon.go`). State: a token per device (a
channel of capacity one), guards (a device that was just claimed is not released
for a while), the replay table of claims by client request id and of peer
releases by request id, the coordinator client. Actors: one goroutine per local
connection, one callback that serves peer releases, the goroutines it leaves
behind (`finishPeerRelease`), the connect loop and the heartbeat loop. Hard: the
token is passed from the callback to a goroutine, and every error path must give
it back once; guard and lock are checked in two steps; the replay tables are
read and written in different critical sections; appends to the log may fail.

**Daemon start and state log** (`internal/daemon/daemon.go` `Run`,
`internal/state/state.go`). `state.jsonl` is appended to and synced;
`TerminalizeOpen` closes the claims an earlier process left open; a flock keeps
a second daemon out. Hard: death at any point, writes that are cut short, a
second daemon.

**Bluetooth operations** (`internal/bluetooth/bluetooth.go`). `Acquire` and
`Release` as sequences of `blueutil` commands, each bounded by what is left of a
budget. Correct if they end within the budget and report success only after the
device was seen in the wanted state.

**Upgrade** (`internal/upgrade/upgrade.go`). Downloads, verifies and replaces the
binary with a backup and a rollback, then restarts the LaunchAgent. Hard: a
crash between the two renames, two upgrades at once, a way back that fails too.

**Command line, installation, configuration** (`cmd/root.go`,
`internal/install/install.go`, `internal/config/config.go`). State: the config
file, the LaunchAgent file, what launchd has loaded, the daemon's lock file and
socket. `claim` and `release` resolve the device by the config as it is now,
send one request to whoever answers on the socket, and read the messages they
expect; the daemon resolves the device again by the config it read when it
started. `install mac`, `uninstall mac` and the end of `upgrade` unload and load
the agent and wait for a daemon to answer. Hard: daemons that start while
another serves, sockets of daemons that died, a config that changes between its
readers, `launchctl` errors that are dropped, a daemon that ends while it
serves. Correct if a daemon that serves can be reached, the device is the one
that was meant, exit code 0 means done, no device is worked on twice at once,
the daemon that answers is the one just installed, and while the agent is loaded
and the config and the log can be read, some daemon serves again and again.

**No state of their own**: message types (`internal/protocol`, present in the
modules as the messages they exchange), build metadata (`internal/release`).

How they interact: daemon to coordinator by request/reply (`register`, `claim`)
and by one-way heartbeats; coordinator to daemon by request/reply (`release`)
with a 300 ms timeout; command line to daemon over a Unix socket; daemon to
`blueutil` by running it. Any message or answer may be lost or late.

## Modules

| Module | Models |
| --- | --- |
| `ReleaseLease` | abstract: one lease per device, open while a peer is being asked, given up if it declines, otherwise ended by time alone |
| `Coordinator` | `core.go` and the subscriptions that call it; implements `ReleaseLease` |
| `CoordinatorProofs` | theorems about `Coordinator` |
| `LeaseProofs` | the refinement of `ReleaseLease` and more about `Coordinator`, on top of `CoordinatorProofs` |
| `Daemon` | the service: claims, local releases, peer releases, their lock, guards and replay tables |
| `DaemonProofs` | theorems about `Daemon` |
| `Bluetooth` | one call of `Acquire` or `Release`, command by command, under its budget |
| `BluetoothProofs` | theorems about `Bluetooth` |
| `Handoff` | coordinator, daemons and the messages between them, around one device |
| `HandoffProofs` | theorems about `Handoff` |
| `Host` | one Mac: config, LaunchAgent, daemon processes, lock and socket, and the commands of the user |
| `HostProofs` | theorems about `Host` |
| `StateLog` | the state log and the starts and deaths of daemon processes |
| `StateLogProofs` | theorems about `StateLog` |
| `Upgrade` | replacing the executable, call by call |
| `UpgradeProofs` | theorems about `Upgrade` |
| `MC*` | instances for TLC |

**Time** is relative in `Coordinator`, `Daemon` and `Bluetooth`: a deadline is the time left, a heartbeat an
age, and `Tick` lets one unit pass. Tick is never held back, so a goroutine may
be arbitrarily slow between any two steps: a lock may expire while its claim is
still waiting for the peer. One unit stands for the resolution at which the
order of events matters, not for a particular duration.

**Coordinator.** One handler per call of HandleClaim in progress:
`ReceiveClaim` (lines 135-140), `CheckBudget` (141-146), `ClaimBusy`, `NoPeer`
and `AskPeer` (the three exits of `prepareClaim`, each with the sweep of expired
locks), the answers `ReleaseStarted`, `ReleaseDeclined`, `ReleaseUnknown`,
`ReleaseError` and `ReleaseTimeout`, then `MarkDead` or `ClearLock` in a locked
section of its own, and `Respond`. `generation` is written and never read by the
code and is left out. Two history variables: `protect`, the time in which a
release that was asked for may still be acted on (from the ask to the deadline,
unless the peer declines), and `failed`, the nodes an ask of which has failed.
A request id is never in two handlers at once, because a client retries only
after its attempt has ended and the claim subscription is serial.

**Daemon.** One record per connection with its place in `handleClaim`,
`runClaim` or `handleRelease`, one for the release callback, one per goroutine of
`finishPeerRelease`. What `blueutil` and the coordinator answer is left open.
`Unlock` of a token that is already back blocks, as sending on the full channel
does. `rememberPeer` after an unlock is one step with it: only the callback, of
which there is one, reads that table. An append may fail with the event in the
file (the sync failed) or without. The log is reduced to whether a client
request id was accepted and which results were logged for it. A release from a
requester of the same name is refused like one for an unknown device; whether
names agree is left open (`PeerStale`).
History: `settled`, the time in which a release must not unpair again, and
`raced`, whether a claim set its guard while the callback was between its check
of the guard and its taking of the lock.

**Bluetooth.** `pc` is the command or pause of `acquire`, `release` and
`waitConnectedState` that comes next; `left` is what remains of the budget and
`window` of the current wait. A command takes any time up to its timeout and one
late kill more (`Slack`), and may fail at will. `DeviceFollows` is the world:
what a command asked of the device comes true later or never, until the next
command asks for something else. The context may end at any time (`Cancel`).
Durations are the code's, in units of 100 ms.

**Handoff.** One device that every Mac is configured for. Each side of
`Coordinator` and `Daemon` is reduced to what the other can notice, and the
messages are explicit: `claims` and `asks` in flight, `result` for the answer to
the request a claimant still waits for (NATS drops any other), `serving` for the
one ask the coordinator waits for. Time is reduced to the set `over` of claims
whose deadline has passed, in any order; a lock expires only after that, since
the coordinator counts the same remaining time from a later moment. (The
remaining time is cut to whole milliseconds; this difference is left out.) The
age of heartbeats is left open: a live Mac may be asked, or be taken to have been
silent for too long, as one that sleeps is. `SubscribeFails` and `Die` are the two ways back to
`Register`; a daemon that keeps running has no other, as in the code. `Restart`
is the coordinator starting again: registry and locks are gone, connections and
subscriptions come back by themselves (the NATS client reconnects), and messages
on their way may still arrive. The history variable `orphans` has the claims
whose lock a restart lost; both safety properties make an exception for exactly
these, so at most one claim per restart loses the protection of its lock. A late
answer, a failed subscription, a death and a restart are *troubles*, and their
number is bounded. Nothing in the model has to happen, so a message that is lost
is one that never arrives. A failed
acquire may have connected or disconnected the Mac. The place of a claim says
whether it was promised the device (`wait`, `acquire`) or told that there is
nobody to ask (`lookAgain`, `acquireUnasked`).

**StateLog.** The file is a sequence of lines; a write may be cut short
(`TornWrites`), what is appended next then shares its line. A start is `Scan`,
`Terminalize` per open claim in any order, `OpenStore`, `AcquireDaemonLock`. A
process may die at any point. The scan is one step.

**Upgrade.** Each upgrade is a process; each file system call of
`replaceBinary` and `restoreOldBinary` is a step that may fail (at most
`MaxFaults` times), and the process may die before any of them. Names (the
executable, `.new`, `.old`) and files are apart, so a writer keeps its file when
the name moves. A file holds a version, is torn, or holds an archive that failed
its checksum. `LookUp`, `Download` and `Verify` happen in memory, before the
first call that touches the disk.
History: `met`, whether two upgrades ever ran at once, and `spoiled`, the
upgrades whose way back met a fault.

**Host.** A daemon process goes through `load` (config, log), `lock`, `remove`,
`listen`, `serve`, and, if its accept loop fails, `close`, `unlock`, `exit`, in
the order of `Run` and its deferred calls. `socket` is the process whose listener
the socket's name leads to, nothing, or `"stale"`: the name of a listener that is
gone. launchd starts the agent's process again whenever there is none
(KeepAlive); a daemon may also be typed in a terminal. `cmd` is the one install,
uninstall or upgrade that is running, with its place; when an upgrade cannot
restart the agent, its way back puts the old executable back and starts over
(`wayBack`). A call of `claim` or `release` is a record with the process that
serves it, the address the config gave the input when it was typed (`meant`) and
what became of it. What the daemon does with a claim is one step with any
outcome; the order of its replies and their number are kept. Content of the
config: a map from aliases to addresses as they may be written, and a default;
an alias may itself be spelled like an address. Of the log `Host` keeps whether
every line of it can be read (`readable`): a process that dies while it writes
(`Gone`), or a write that fails in one that goes on (`AppendCutShort`), may cut a
line short, and then every start ends at once (`LoadConfig`) until somebody mends
the log (`MendLog`). Every other failure of a start, an install or a call of
`launchctl` is one of the *troubles* whose number is bounded; an install that
fails as it writes the config may leave one that cannot be loaded.
Left out: a config path other than the default for daemon and commands alike
(the daemon has `--config`, the commands have `MAGICHOP_CONFIG`); what `status`,
`devices`, `doctor` and `version` print; the Raycast scripts.

## Runs

| Run | Instance | Shows |
| --- | --- | --- |
| `claims_overlap` | 2 handlers, 2 nodes, 1 device, 2 requests, budget up to 2 | types, `ReleaseExclusive`, `LockBacksProtection`, `ImplementsLease`, `NoPeerOnlyForCause` |
| `claims_answered` | 2 handlers, budget 1, with fairness | `EveryClaimAnswered`, `BusyJustified` |
| `claim_retry` | 1 request, retried | violated: a retry is refused on account of its own lock |
| `release_replay` | 1 connection, 2 releases, one for a device that is not configured, with fairness | types, `LockAccounted`, `SuccessIsLogged`, `NoSecondUnpair`, `GuardMissedOnlyByRace`, `EveryConnAnswered`, `EveryReleaseAnswered`, `DeviceLockFreed` |
| `bluetooth_calls` | durations of the code; budgets of 0, 0.7, 2, 11 and 13 s, with fairness | types, `BudgetKept`, `SuccessIsReal`, `TimeoutIsReal`, `RetryCanVerify`, `EveryCallEnds` |
| `handoff` | 3 Macs, 2 of them connected at first and claiming, 2 claims, 1 retry, 1 trouble (late answer, failed subscription, death or restart) | types, `OneAcquirer`, `ReleaseHasLock` |
| `peer_forgotten` | 2 Macs that have yet to connect, 2 claims, 1 late answer or death | violated: a connected holder is not asked |
| `log_starts` | 2 daemons, 3 requests, torn writes | types, `OpenClaimsAreOwn`, `OneFinalIfAlone`, `FinalFollowsAccepted` |
| `log_second_start` | 2 daemons, 2 requests | violated: two final results for a claim |
| `upgrade_runs` | 3 upgrades, 2 faults | types, `ExeIsWhole`, `BackupCoversGap`, `NothingUnverified`, `AllOrNothing` |
| `host_commands` | 2 daemon processes, 2 calls, 3 commands, 1 trouble (an edit of the config, a death, a call that fails, a write that is cut short), with fairness | types, `ServingReachable`, `AddressAsMeant`, `OneWorker`, `ZeroIsDone`, `AnswersAreCurrent`, `LoadedServes` |
| `claim_refused` | 1 daemon, 1 call, 2 commands, no trouble | violated: a claim that is refused is reported as an invalid response |

**Bounds.** Two handlers and two requests are what a stale cleanup takes: one
stalls, the other takes the expired lock over, the first request comes back. A
budget of two units distinguishes a lock that is fresh, about to expire and
expired, a heartbeat limit of one unit does the same for nodes. One connection
and two releases put three parties, among them a goroutine left by an earlier
release, in competition for one device; that more connections and releases
change nothing about the lock is proved (`DaemonLock`). In `handoff` two claims may come from
one Mac or from two; with two Macs only, the claimant's own device lock would
keep the other claim away, so it takes a third for the coordinator's lock to
matter. One retry and one trouble meet in every order: a retry while the first
ask is answered late, a death of the Mac that was asked or of the one that asks.
The third Mac may connect at any time, before, between and after the claims; it
never claims, since which two of the Macs claim makes no difference.
`peer_forgotten` starts before any connection.
Two daemon processes are the agent's and one beside it, or one that leaves and
its successor; two calls, which take their names in turn (`Unused`), meet at one device or two; three commands are, say, an
install, a claim and an upgrade. The config has three contents: in two, one alias
means different devices, one of the two also has an alias that is spelled like
the address of the other device, and the third cannot be loaded. One trouble is
enough to cut the log short, and mending it is none.
Three requests in the log allow claims that are open, finished and
being closed at once. Three upgrades are one that fails, one that cleans up
after it and one more; two faults are a failure and the failure of its
rollback. The budgets of Bluetooth calls reach every exit, including an attempt
to connect that is repeated several times.

`ExeIsWhole`, `BackupCoversGap`, `AllOrNothing` and `OneFinalIfAlone` hold for upgrades and
daemons that do not overlap; `log_second_start` and the note on upgrades below show why they are conditional.

**Stopping.** `handoff`, the upgrades and `Host` may come to an end (`CHECK_DEADLOCK
FALSE`): claims, commands, faults and upgrades are used up, and a finished Bluetooth call
does nothing more. The other runs check for deadlock.

**Fairness.** Weak fairness of each goroutine's own steps (the Go scheduler
runs every goroutine that can run), of Tick, and of the steps of a Bluetooth
call (every command has a timeout). No fairness of anything others decide: peers
need not answer, clients need not send, nodes need not register. A callback that
waits for its peer ends because the clock runs. In `Host` launchd's restart of
the agent is fair too (KeepAlive, `install.go:130-131`); commands, edits, repairs
of the log and failures are not. `LoadedServes` therefore promises nothing once
the log was cut short, and takes the other failures of a start (a full disk, a
log that cannot be opened) to pass, which is what the bound on troubles says. `handoff` and the logs and
upgrades are checked for safety only and need none.

## Proofs

`CoordinatorProofs` proves, for all sets and all time constants that satisfy the
two named assumptions of `Coordinator`:

* `TypeCorrect`: `Spec => []TypeOK`.
* `LocksBackProtection`: `Spec => []LockBacksProtection`. The property is not
  inductive by itself: `ClearLock` removes a lock by its request's name, so a
  request being refused must be known to be no longer protected
  (`DeclinedUnprotected`), and that stays true only because no other handler can
  take up the same request meanwhile (`InFlightUnique`). `LockInv` is the
  conjunction of the three.
* `ReleasesAreExclusive`: `Spec => []ReleaseExclusive`, since two protected
  requests would have to be the id of the same lock.

`BluetoothProofs` proves, for all durations that satisfy the assumption of
`Bluetooth`: `TypeCorrect`, `BudgetIsKept` (no sequence of commands overdraws the
budget by more than one late kill), `SuccessesAreReal`, `TimeoutsAreReal` and
`RetriesCanVerify`. They rest on `CallInv`, which adds to the types what is known
at each place of the call: that a result is set exactly when the call has
finished, that what was last asked of the device agrees with what the call waits
for, and that a repeated attempt starts with room for a whole check.
`CallsRunOutOfSteps` is the safety half of `EveryCallEnds`: `StepsLeft`, four
times the budget left plus the rank of the place, is a number that every step of
a call makes smaller. The places are passed in one order but for naps and for the
check that used up its window; each takes a unit of time at least, which needs
that a call waits only with an answer that is not yet the wanted one (`Waiting`).
What remains for `EveryCallEnds` is that a call that can go on does so.

`DaemonProofs` proves, for any connections, devices, releases and times that
satisfy the assumption of `Daemon`:

* `DaemonTypes`: `Spec => []TypeOK`.
* `DaemonLock`: `Spec => []LockAccounted`. The number of those that have the lock
  of a device, connections, callback and goroutines together, changes exactly
  when its token does; the lemmas `Takes`, `Gives` and `HandsOn` say so for the
  three ways in which an action can touch it.
* `DaemonSuccessLogged`: `Spec => []SuccessIsLogged`, from an invariant that also
  says what a connection about to remember its result has logged.
* `DaemonWorkIsLogged`: from the same invariant, no claim looks at the device,
  asks the coordinator, connects or sets a guard before its acceptance is in the
  log, so that a death at any of these leaves a claim that the next start closes.
* `DaemonNoSecondUnpair`: `Spec => NoSecondUnpair`. An answer is remembered for
  at least as long as its unpairing must not be repeated, and a callback past the
  replay table has found no such answer (`ReplayCovers`).
* `DaemonGuardMissed`: `Spec => GuardMissedOnlyByRace`. Between the callback's
  look at the guard and its taking the lock, a guard that is set is seen as a
  race; after that none can be set, since the callback has the lock that the
  claim would need (`RaceSeen`, from `LockAccounted`).
* `DaemonNeverBlocks`: whoever gives a lock back finds its channel empty, so the
  sends of `unlockDevice` never block.
* `DaemonRequestsRunOut`: the safety half of `EveryConnAnswered` and
  `EveryReleaseAnswered`. Each own step of a connection and of the callback leads
  to a place of lower rank, and no step of others leads back. With
  `DaemonNeverBlocks` only scheduling is left to assume.

`HostProofs` proves, for any number of processes and calls, any contents of the
config and any input: `HostTypes`, `HostReachable`, `HostAddress`,
`HostOneWorker` and `HostZero`, one for each invariant of `host_commands`. They
follow from `Outer /\ Inner`: the lock is with the one process between taking it
and giving it up, so only that one touches the socket; a call in progress is
served by a process that got as far as serving; and what is asked of a daemon is
an address already, which resolves to itself under every config that does not
use it as an alias (`AddressMeansItself`), so that it does not matter which one
the daemon read. `Load` accepts a config that does, and the daemon then works on
the alias's device: this is the exception `AddressAsMeant` makes, and no
assumption of `Host` keeps such configs out. The assumption only says that what
install writes is one of the possible contents, that `None` is neither a process
nor an address, and that the bounds are numbers.
`HostAnswersCurrent` (`Spec => AnswersAreCurrent`) needs `Current`: an agent's
process exists only while the agent is loaded, and once a command has really
unloaded it, every agent's process was started from the executable that is in
place now, since only the command itself replaces the executable, and not while
it loads and dials.

`LeaseProofs` goes on from `CoordinatorProofs`:

* `LocksImplementLease`: `Spec => ImplementsLease`, the whole refinement of
  `ReleaseLease`: the first state maps to its first state, and every step,
  of any handler in any of its locked sections, to a step of one lease, to the
  passing of time, or to none (`StepImplements`).
* `SettledLocksAreKept`, what this means for the table itself: a lock whose ask is
  answered or was given up is left alone by every step but the clock's, until its
  time is up.
* `BusyIsJustified` and `NoPeerHasCause`, the action properties of the two exits
  of `prepareClaim`.
* `ClaimsHaveOneExit`: `prepareClaim` always takes exactly one of its exits. If
  some node can release the device, then exactly one of them is the choice of
  `choosePeerLocked` (`OnePeer`), in whatever order the map of nodes is read; the
  least age and the least name exist by the library's `WFMin`.
* `HandlersRunOut`: the safety half of `EveryClaimAnswered`. Each step of a
  handler and each answer of the peer lowers the rank of its place; otherwise the
  place stays, and only the clock changes the time it waits for the peer.

They need to know, besides `LockInv`, what a lock means: every lock is either
backed by a protected request or about to be cleared by the handler whose peer
declined (`LockMeans`), that a handler on its way to `prepareClaim` has no answer
yet (`Undecided`), and that a registered node that is not live has been silent
too long or failed an ask (`DeadForCause`).

`StateLogProofs` proves, for any number of processes and requests and with torn
writes: `LogTypes`, `LogOrder` (`FinalFollowsAccepted`), `LogOneFinal`
(`OneFinalIfAlone`) and `LogOwn` (`OpenClaimsAreOwn`). `Follows` says that whoever
is about to close a claim read or wrote its acceptance in a log that only grows,
and holds always; `Single` says, while no two daemons have met, that at most one
process is up and that what it is still to close has no result yet.

`UpgradeProofs` proves, for any number of upgrades and faults: `UpgradeTypes`,
`UpgradeUnverified`, `UpgradeWhole`, `UpgradeBackup` and `UpgradeAllOrNothing`. `Named` holds also when
upgrades meet: a file that has a name was made from a verified download. `Alone`
says, for each place of the one upgrade that runs, which file has which name.

`HandoffProofs` proves, for any number of Macs, claims, retries, late answers,
deaths and restarts: `HandoffTypes`, `HandoffOneAcquirer` and
`HandoffReleaseHasLock`. Neither property is inductive. The lock must be known to
be with the claim that was promised the device and no ask for it left to be
declined or acted on (`Promise`), with the claim that is being served (`Served`), and with
every claim whose ask is still in the network or in a callback; such an ask is in
one place only, and the coordinator has no answer to it yet (`Pending`), so that
`PeerDeclined` can never clear the lock under an ask that is still acted on.
`Holds` is the conjunction of the three. It has two more consequences:
`HandoffNotTakenBack` (while a claim that was promised the device is on its way to
it, no Mac gives the device away, to that claim or another, but for passed
deadlines and locks lost in a restart) and `HandoffNeverBoth` (a Mac whose own
claim is in progress does not act on a release). The assumption says, besides the types
of the bounds, that `None` is not a Mac, claim, ask or callback.

The theorems are about every value of the constants; the runs show the same
properties on small instances, and that the mutants break them.

Only model-checked: liveness (`EveryClaimAnswered`, `EveryConnAnswered`,
`EveryReleaseAnswered`, `DeviceLockFreed`, `EveryCallEnds`, `LoadedServes`).
Fairness speaks of ENABLED, which the prover does not handle; the theorems on
steps that run out are as far as it goes. Every safety property of a passing run
has its theorem. The four
violated properties are refuted by their runs.

## Findings

* A retry of a claim is refused because of its own lock (`core.go:191`;
  `daemon_test.go:162` expects the retry to succeed). Run `claim_retry`.
* A Mac whose ask failed once, because it had registered but not yet subscribed
  or because it took longer than 300 ms, is not asked again while its daemon
  runs (`core.go:168`,
  `core.go:107`, `daemon.go:236`; `README.md:10` says claims ask). Run
  `peer_forgotten`.
* A second daemon closes the claims of the one that is serving before it is
  refused (`daemon.go:85`; `daemon_test.go:57`). Run `log_second_start`.
* A claim that the daemon refuses at once is answered with one message where the
  command expects two, so the reason is lost (`root.go:124`, `daemon.go:385-413`;
  `README.md:115` promises JSON). Run `claim_refused`.

Noticed, without a run of their own: the same client request id on two
connections can be accepted twice (`daemon.go:388`); only one peer is asked,
the one heard of last, so with three Macs the holder may not be the one
(`core.go:242-249`); `MaxStartDelayMS` is sent and not looked at by the daemon;
`ReapDeadNodes` is called by tests only; two upgrades at once can leave neither
executable nor backup, when one clears `.new` and `.old` between the two renames
of the other (`upgrade.go:409`); the archive of a release is chosen by the names
of its system and architecture occurring in its name, so on Linux with `arm` an
archive for `arm64` fits as well (`upgrade.go:209-233`); on a Mac the names
decide; a daemon whose accept loop failed gives the daemon lock up while its
requests still run, which is the exception in `OneWorker` (`daemon.go:129`); an
alias spelled exactly like an address is accepted, and the daemon, which looks at
aliases first as it resolves the address that the command has resolved already,
then works on the alias's device instead (`config.go:108-114`, `config.go:172`;
the exception in `AddressAsMeant`); a line of `state.jsonl` that was cut short
keeps every later start from serving until the file is mended
(`state.go:99-104`, `daemon.go:85-87`); guards do not survive a restart
(`daemon.go:552`);
the daemon never looks at `MAGICHOP_CONFIG`, since its `--config` has a default,
while `claim` and `release` do (`root.go:95`, `root.go:176`, `config.go:72`);
`claim` writes its client request id to a file that nothing reads
(`root.go:120`); `status` shows a finished claim twice, from the list of recent
results and from the replay table (`daemon.go:776-798`).

## Plan

Done: `Coordinator`, `Daemon`, `StateLog`, `Bluetooth`, `Upgrade`, `Handoff` with
the coordinator's restart, `Host`, their runs, and the proofs above. Left:

* `Handoff`: liveness (with a peer that answers, the device changes hands).

## Not modelled

`status`, `devices`, `doctor`, `version` and the reading of the log's tail only
read and print. The Raycast scripts are text that calls `claim`. Starting and
stopping the embedded NATS server, encoding and shape validation of messages,
parsing of checksum files and archives, and the opening of log files are I/O or
pure conversions whose failures are exits of the actions that use them. Build
metadata is a string, and the Windows lock does nothing on a platform that the
daemon is not for.

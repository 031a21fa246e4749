# ssh-arcadelobby in TLA+

The arcade is one Go process: it accepts SSH connections, decides who may come
in and how many, shows a menu, and bridges the player's terminal to a game
server over a second SSH connection. Around that it watches the games, reloads
their list and an operator notice, keeps accounts, and publishes a live player count. Almost everything that can go
wrong happens *between* goroutines: caps counted by sessions that end in every
possible way, one terminal handed from the menu to a game and back while keys
are in flight, a list reloaded while probes run, a shutdown that races all of
it. These modules model those parts, TLC checks them on small instances, and
TLAPS proves the central invariants for every size.

Paths below are relative to the repository (`src/` here).

## 1. Inventory

| component | state it keeps | operations | interacts with |
|---|---|---|---|
| pre-authentication guard (`internal/server/authguard.go`, callbacks in `auth.go`, `server.go`) | pending / served / guest transports, guests per address, per-transport deadline | wrap, SetDeadline, authenticated, admitGuest, Close, closePending | the SSH library moves deadlines; auth callbacks call in; shutdown closes a snapshot |
| session limits and middleware (`limits.go`, `scope.go`, `pty.go`) | counters global / guest / per key / per address | resolveIdentity, acquire, release, RequirePTY | runs around `handle`; unwinds in reverse order |
| presence tracker (`internal/presence/tracker.go`) | seats and the game each is in | Join, Enter, Lobby, Leave, Counts | written by `handle`, read by the publisher |
| presence publisher (`publisher.go`) | once flags, stop/done channels, the file, `failing` | Start, loop, Close, Build, write | reads tracker and registry under different locks |
| games registry and prober (`internal/registry`) | list, health per game, remembered mtime, subscriber channels, kick | New, loop, reloadIfChanged, probeCycle, Report, Subscribe, ProbeNow, Close | operator's file, games, bridges (Report), lobbies (pokes) |
| session handler and pumps (`handler.go`, `pump.go`) | current destination of input and of resizes, latest size | handle, runLobby, SetDest, Attach, Detach, the two loops | menu program, bridge, client |
| bridge (`internal/bridge/bridge.go`) | the upstream session, three helper goroutines | Run, dialWithTimeout | game server, pumps |
| lobby menu (`internal/lobby/lobby.go`, `view.go`) | copies of list and notice, cursor, dialogs, idle clock, waiting commands | Update, activate, confirmAlpha, launchGame, the rows drawn | registry and banner pokes, store, `runLobby` |
| operator banner (`internal/banner`) | notice, mtime, subscriber channels, kick | New, loop, reloadIfChanged, loadFile, notify, ReloadNow, Close | operator's file, lobby menu |
| account store (`internal/store`, `prefs.go`) | SQLite tables, schema version, one connection | migrate, TouchAccount, HasAlphaAck, AckAlphaWarning | `handle`, lobby menu, crashes and deployments |
| proxy protocol (`internal/proxyproto`) | none | encode / decode the identity | bridge, games |
| lifecycle (`cmd/ssh-arcadelobby/main.go`, `shutdown.go`, `server.go`) | which parts are open, the signal channel | boot order, Shutdown, deferred closes | everything |
| configuration, key files, logging, Windows and test code, scripts | | | |

What is hard in each, and what makes it correct:

* **Guard.** A handshake that stays silent, a guest that authenticates and never
  opens a shell, `admitGuest` on bytes read before `Close`, and `closePending`
  walking a stale snapshot. Correct: exact counters, caps, a share of the
  connections that guests cannot take, every handshake ends, shutdown drains.
* **Limits and seats.** Four counters changed by goroutines that leave by
  different doors. Correct: every counter equals the number of holders; a seat
  exists only inside a slot.
* **Publisher.** `Start`, the loop and `Close` share a file and a flag without a
  lock; seats and games are read at different moments. Correct: one publisher at
  a time, a consistent document, offline for good after `Close`.
* **Registry.** A change and its `notify` are two critical sections, pokes
  coalesce, probe results age, the file is stat'ed twice and then read. Correct:
  damping, no lost wakeup, a reload costs nobody their health, the list and the
  status converge.
* **Session.** Two pumps are switched between consumers without being stopped.
  Correct: no key taken by the wrong reader, the latest size arrives, the pump
  never wedges, a dead player's handler returns, no goroutine leaks.
* **Menu.** Update works on copies that the registry and the banner change behind;
  every poke arms one more wait; a dialog stays open while the list moves; a tick that
  is not armed again is the last. Correct: the selected row is on the screen, old copies
  are refreshed, only what was chosen and agreed to is launched, a visit ends.
* **Banner.** A file looked at three times per reload while it is saved, broken or
  removed. Correct: the notice is that of one good save, never of an older one than
  before, and of the last one in the end; no menu misses it.
* **Store.** A crash between two statements, a statement that fails while it has the
  only connection, a binary older than the database. Correct: whole transactions on
  disk, a router that boots again, a connection that is given back.
* **Lifecycle.** A signal, a failing listener and clients that stay. Correct: offline
  first, parts outlive their users, the process ends.

`PROJECT.json` lists every hazard with its line and the properties that cover it.

## 2. Modules

| module | models | composes |
|---|---|---|
| `AuthGuard` | the guard with the callbacks that drive it | |
| `Lifecycle` | main, boot, Server.Shutdown, deferred closes | EXTENDS `AuthGuard`: every step of the guard is a step of the process |
| `Sessions` | middleware chain, limits, seats | |
| `Publisher` | Counts, Build, the publisher's goroutines | EXTENDS `Sessions`: session steps and publisher steps interleave |
| `Registry` | list, health, loop, Reports, lobbies as subscribers | |
| `ShellSession` | one shell: handler, pumps, menu program, watcher, bridge | |
| `LobbyMenu` | one visit to the menu: Update, its commands, the drawn rows | |
| `HotFile` | *abstract*: what a hot-reloaded file promises its readers | |
| `Banner` | the notice: reload loop, pokes, menus as subscribers | INSTANCE `HotFile` |
| `Accounts` | SQLite store, migrations, crashes, deployments | |
| `AuthGuardProofs`, `LifecycleProofs`, `RegistryProofs`, `ShellSessionProofs`, `BannerProofs`, `LobbyMenuProofs`, `AccountsProofs` | theorems | EXTEND the module of that name |
| `SessionsProofs` | theorems about `Sessions` and `Publisher` | EXTENDS `Publisher` |
| `MCLifecycle`, `MCSessions`, ... | instances and symmetry sets for TLC | EXTEND the module of that name |

Definitions that start with `Mut` are plausible bugs: an altered form of the
definition that follows them. None is used by a specification; they show which
bug each property would catch.

### AuthGuard

`pending`, `connections`, `guestConnections`, `guestIPs`, `closed` are the fields
of `authGuard`; `ready` and `deadline` those of `guardedConn`. Deadlines are
three ordered values: none, the authentication deadline, a later one. A step is
one lock region: `authenticated()` is `MarkReady` (under `deadlineMu`) then
`LeavePending` (under `guard.mu`); `Close` is `HangUp`/`Expire`/`CloseNext` (the
once starts, the socket goes) then `Release`. `closePending` takes its snapshot in
`ClosePending` and closes it member by member in `CloseNext`. `QueryKey` is the
unsigned public-key query, which already writes the connection's extension.
Nothing is assumed of a client: it may stop at any point.

### Lifecycle

`stage` is where main stands, from the configuration to the exit; `up` is which parts
are open. `done` is the one-place channel that the signal handler and the goroutine of
ListenAndServe share. `Shutdown` closes the guard, `CloseNext` (of `AuthGuard`) goes
through its snapshot, `StopListening` and `Drained` are the library's Shutdown, modelled
from how `shutdown.go` uses it: it waits for the transports it serves. Sessions are not
kicked, so `DrainTimeout` (30 s, then `os.Exit(1)`, which skips the deferred calls) is
what ends a drain with players in it. Session handlers that outlive their transport for a
moment are not waited for by the library; the model follows the transports.

### Sessions

A member of `Shells` runs `Open` (scopeSession and resolveIdentity), `Acquire` or
`TurnAway`, `RejectNoPTY` or `Join`, then any number of `Check`, `Enter`, `Lobby`, and
`Leave`, `Release`; the name is reused afterwards, so long histories of one slot are
covered. `listing` is the registry's entry for each game, whose liveness and
`allow_guests` change at any moment (`ListingChanges`). `Check` is `handle`'s Playable, on
the list of that moment; it keeps the game in `choice`, and `Enter` takes the seat in a
critical section of its own. So a guest can be seated in a game that has become key-only
since, or that becomes so while he plays; `overtaken` is a history variable that remembers
for which guests that happened. `SeatsHoldSlots` says that there is no other way.

### Publisher

Each of the three goroutines that can publish goes through count, list, temp file
and rename; the write may fail at each half. A snapshot keeps who is counted where
and which games are listed and online; its JSON text and times are left out. A
sync.Once is `new`, `running` or `done`: `Close` blocks on a `Start` that is inside
its `Do`.

### Registry

A file's content is the set of games it lists; the empty set stands for every file
`loadFile` rejects. `reloadIfChanged` is three steps: `Stat`, `LoadStat` (the second
stat) and `ReadAndSwap`; the operator may write between any two. Each of the three
calls may fail: `StatFails` remembers nothing, `ReadFails` remembers the first stat's mtime
like a bad file's, so a good file may stay unread until the next save. `unread` is a history
variable for that. Probes run one by
one between `ProbeSnapshot` and `ApplyProbes`, and the world changes in between. A
Report is `DialFails` (in the bridge), `Report` (under `r.mu`) and `ReportNotify`. A dial
may fail although the prober finds the game up: ErrDialFailed covers a handshake that
stalls after the banner. A
lobby subscribes, pulls, waits, wakes. The failure counter saturates at
`FailThreshold`, because the code only compares it with that. Channels closed by
`Close` are not modelled as wakeups: the process is going down.

### Banner and HotFile

`saves` is the history of the file; a save's number is its mtime. `reloadIfChanged` is
`Stat`, then `Clear` (missing) or `LoadStat` and `ReadAndSwap`, with the operator between
any two; `Notify` follows only when the notice changed. `StatFails` and `ReadFails` are I/O
errors, at boot too. `from` is a ghost: which save the notice came from; `unread` another:
an error hid the last save and its mtime is remembered. `HotFile` knows nothing of stats and
mtimes: some good save is served, the same or a newer one, a save may be missed by an I/O
error (`Miss`), and an open watcher catches up with a file that stays as it is and was not
missed. `ImplementsHotFile` maps `at` to `from`, `served` to the notice and `open` to
"`Close` has not been called".

### LobbyMenu

One visit, from `New` to the return of `Run`. `reg` and `on` are the registry's list and
the banner's flag, which `Change` alters at any moment (a reload or a probe cycle, under the
lock); `Notify`, its `notify()`, comes in a critical section of its own, and `owed` counts
the ones still to come. `games` and `notice` are the model's copies. A poke goes through `token` (the channel), `WaitReturns` (the command) and
`msgs` (on its way) to `Poked`, which re-arms *both* channels as the code does, so `waits`
grows. `Activate` and `ConfirmAlpha` end in `launching`: `LaunchGame` is the second
registry read of the same Update. `Drawn` is `fillMenu`'s loop with the constants of
`view.go`. `aim` is a ghost: the game activated and whether it was agreed to. `Warns` and
`Trusted` overlap for a keyed player because a failing store reads as "not acknowledged".

### Accounts

One connection: `holder` has it in a transaction, `tx` is its view, `db` the committed
database, `synced` what a lost machine comes back with (WAL with synchronous NORMAL).
`migrate` is `Open`, then for each migration `BeginMigration`, `Exec`, `Bump`,
`CommitMigration`; the version is read outside the transaction, as in the code. The code has
one migration; the loop is modelled for `Latest` of them and for binaries that know fewer.
`BootFails` and `AckFails` fail any statement; of a failed commit it is open whether it
took. `Crash` and `Deploy` may happen at any point.

### ShellSession

The handler's place `h` walks through `handle`, `runLobby` and `bridge.Run`. Every
mode makes a fresh pipe and a fresh resize channel; only the newest of each can
matter, so a goroutine holds `cur`, `old` or `none`. The input pump takes its
destination under the lock (`PumpRoute`) and writes outside it (`Handover` with the
reader, or `PumpDrop` when the pipe was closed). `PumpCloseDest` is the end of its loop in
three steps: take the destination, close it, close done. The winch pump's `deliver` is the code's
try, drain, try loop. `ProgSwallow` is the Read that a finished menu program leaves
in flight; `WatcherStep` and `WatcherStops` are the cases of the watcher's select. The
bridge is `Dialed`, `Opened` (session, environment, PTY and shell requests), the
stdin goroutine (`CopyChunk`, `CopyFails`, `CopyEnds`), the resize goroutine
(`Forward`, `ForwardEnds`) and the context watcher (`CtxCloses`). Chunks are numbered,
which is all that order and loss need; output towards the player is not modelled.
When a new bridge opens, helpers of an earlier one that still hold old channels are
no longer told apart: they can only end.

## 3. Runs

| run | question | instance |
|---|---|---|
| `lifecycle` | from boot to exit: do caps, ledger, keyed share, clamp and kind hold in every interleaving; do silent handshakes end, do the parts close in order, does the process end? | 3 transports, 2 addresses, 2 connections of which 1 guest, 1 pending |
| `sessions` | caps, exact counters, reserved budget, seats inside slots, no guest in a key-only game but by a later reload | 4 shells, 2 keys, 2 addresses, 2 games, 3 connections, 2 guests |
| `publisher` | one publisher, consistent document, offline at the end, does `Close` return? | 2 shells, 1 key, 1 game |
| `registry` | damping, no lost wakeup, reload keeps health | 2 games, 1 lobby, 1 bridge, 1 write, threshold 2 |
| `registry_live` | do list and status converge to file and games although stats, reads and dials fail; are kicks and `Close` served? | 2 games, 1 bridge, 2 writes, threshold 1 |
| `shell` | does a game get its keys without a gap, and the attached side the latest size? | 4 chunks, 2 resizes |
| `shell_live` | pump, dead player, end of input, goroutines | 2 chunks, 1 resize |
| `shell_stall` | a dead player with a game that never answers | *violated*: finding |
| `shell_eof` | end of input at any moment | *violated*: finding |
| `lobby` | cursor drawn, stale copies poked, consent, idle end, waits end | 3 lists of 1, 2 and 8 games, 2 changes, idle after 2 ticks, guest or keyed |
| `banner` | is every behaviour one of `HotFile`; does every menu learn of a change? | 2 notices, disabled, bad and missing files, 3 saves, 1 menu |
| `accounts` | is the database whole, does the router come up, is the connection given back? | 3 sessions of 2 keys, 1 game, 2 migrations, 3 faults |

**Why the bounds are enough to meet the interesting cases.** The session caps are smaller
than the number of shells, so each is reached with someone left outside, and the
per-address and per-key caps refuse before the global one does. In `lifecycle` the pending and
the guest caps refuse on their own; all its transport slots can be taken, and the
refusal of one more, like the per-address cap on its own, is covered by the proofs for any
number of clients. Transports and shells are reused, so bounded sets still give
unbounded histories. `FailThreshold = 2` separates the first failure from the
deciding one. Two writes are what a write racing the read of another needs. Four
chunks are one that launches a game, one that reaches it, one that a stale Read could
steal and one that would then show the gap; two resizes are one in the channel and one being
delivered that must displace it. The longest list of `lobby` has eight games, one more than
the menu draws without the notice and three more than with it; its alpha games change
row, status and admission between the lists, and two changes put one on each side of the
open dialog. Three saves are what the first stat, the second stat and the read of one
reload need to see different files. Three faults are a crash inside a migration, another
one on the way back, and a deployment; two migrations give a version between the old and
the new. Everything else is unbounded in time: the only counters with a cap are
`MaxWrites`, `MaxTyped`, `MaxResizes`, `MaxSaves`, `MaxChanges` and `MaxFaults`. Some
instances leave out what others cover: `publisher` has keyed shells only (guests are in
`sessions` and in the proofs; with two shells and a cap of two its `sessions <=
MaxConnections` cannot fail, `DocumentCorrect` proves it for any number), the registry runs have no fleet versions (the proofs
do), `registry_live` has no lobby and a threshold of one. `TypeOK` is a theorem of every
module. Symmetry is used only in runs
without liveness properties. `TracksGames` is checked of one game, since no action tells two
games apart.

**Deadlock.** It is checked in all runs but the registry's and the banner's. Where it is, only a
session whose goroutines have all ended, a visit that is over or a process that has exited may
stutter (`Finished`, `Exited`). A registry or banner loop that has exited with nobody
subscribed really has nothing left to do.

**Fairness.** Weak fairness stands for a goroutine that is scheduled and whose next
statement does not block. `Expire` is weakly fair because a set socket deadline passes.
Strong fairness is used for single cases of a `select` (`Kicked`, `Stopped`,
`StopLoop`, `WatcherStops`): Go picks at random among ready cases, so one that is ready
at every visit is taken in the end, although ticker or kicks compete with it. A game
that has seen the end of its stdin exits (`bridge.go:154` relies on it: "closing stdin
sends EOF upstream; the game flushes and exits"), and `Opened` is fair only under `GameAnswers`, which is exactly what
`shell_stall` takes away. In the menu the tick's timer fires, and the QuitMsg, which
competes with keys and pokes for the program's channel, is received in the end (strong,
as for a select). A stat of the banner's file that is tried again and again succeeds in the end
(strong, on `Stat`): `StatFails` keeps the old notice and the next tick tries again. In
`Accounts` the container runtime restarts the process (`restart: unless-stopped`,
`deploy/docker-compose.yml`) and a statement that has the connection returns; only a bounded
number of faults happens, so "comes up again" means "once they stop". In `Lifecycle` the
goroutines of main run and the shutdown deadline passes. Nothing is assumed of clients, of
operators, or of a game being up, and of the file system only that a stat does not fail for
ever: for the banner by that strong fairness, for the registry as a premise of `Converges`.
Reads may fail whenever they like.

## 4. Findings

1. `shell_stall`: after the handshake the bridge waits for the game's answers without a
   deadline, and the goroutine that watches the player's context starts only later. A
   game that goes silent there holds the handler, the seat and the session slot of a
   player who is gone.
2. `shell_eof`: the end of input is announced once, to the destination set at that
   moment. When it falls between two modes the next game's pipe is never closed, and
   the session stays until the game ends or the connection dies.
Smaller observations that are not worth a run: the comment on `winchPump.Detach`
says the consumer has exited by then, while `runLobby` detaches before it joins the watcher
and nobody joins the bridge's resize goroutine (harmless: `LatestSizeDelivered` and
`NoGoroutineLeaks` hold); and a new detected version alone does not poke subscribers,
although `Subscribe` promises any change (the menu also pulls once a second). That is why
`StatusChangesPoked` speaks of the list and the online status only. Further:

* The comment on `loadFile` (`registry.go:333`) relies on the recorded mtime predating a
  racing write. Two saves within one tick of the file system's clock share an mtime, and the
  second is then not read until the next save: `SameTick = TRUE` in `MCRegistryLive.cfg`
  makes `Converges` fail.
* A read error of a file whose stat worked is recorded like a bad file, so it is not tried
  again before the next save (registry and banner; `ReadFails`). That is why `Converges` and
  `HotFile` except an `unread` save.
* A game that sends its SSH banner and then stalls in the handshake is reported offline by
  every bridge and shown online by the next probe, for ever: `TracksGames` promises a
  lasting "online" only once the Reports stop.
* A guest may play on in a game that is made key-only after he was checked; nothing ends the
  visit (`SeatsHoldSlots` says only so much).
* Every poke leaves one more wait behind than it consumed (`lobby.go:187`), until the visit
  ends; `WaitsEnd` shows that they end then.
* An account first created by `AckAlphaWarning`, because `TouchAccount` failed, keeps an empty
  `public_key`: the upsert does not fill it in later.
* `activate` decides on the warning from one registry read, and `launchGame` reads again
  without looking at `alpha`: a game that becomes alpha in between is launched without a
  warning. `LaunchConsented` therefore speaks of what the game was when it was activated.
* A terminal too small for the frame shows no dialog but still takes its keys.
* The proxy key is written in place (`server.go:185`): a crash there leaves a cut-off file that
  later boots refuse.

## 5. Proofs

All theorems are about `Spec` of the module, for every value of the constants that
satisfies its ASSUMEs (those of the limits are what `config.Load` enforces).

**AuthGuardProofs.** `CapsHold` speaks of sets, `guestIPs` is a counter, and neither is
inductive. The invariant adds: a transport is in the guard's sets only between wrap and
release, what the extension says in each authentication state, and the ledger (a
counter equals the number of live guest transports of that address). From it follow
`TypeCorrect` (no counter goes below zero: releasing implies a positive count), `ClampCorrect`, `KindCorrect`,
`LedgerCorrect`, `CapsCorrect`, `KeyedShareCorrect` and the action property
`ClosedCorrect`.

**LifecycleProofs.** `RunsTheGuard`: a step of the process is a step of the guard or leaves it
alone, so `LSpec => Spec` of `AuthGuard` and all of the above holds from boot to exit.
`ShutdownInOrder` follows from an invariant that says, for each stage of main, what is open
(`BootInv`), that the guard is closed from Shutdown on and its snapshot worked off before
the drain ends (`StopInv`), and that the stages after the drain have no transport.

**BannerProofs.** The invariant says that the notice is what save `from` loads as
(`Served`) and that a removal seen by the first stat is not older than that save
(`SeenGone`): without it `Clear` could go back. From it `PokedCorrect`, and `RefinesHotFile`:
`Save` maps to Save, `Clear` to Serve of the removal, `ReadAndSwap` to Serve of the last
save, `ReadFails` to Miss or a stutter, `Close` to Shut, everything else to a stutter. The liveness half of `HotFile` is
TLC's.

**LobbyMenuProofs.** `TypeOK` gives `CursorDrawn` by arithmetic, once for each height that a
notice leaves (lists of any length). `Consent` ties the dialog's game and the launch in progress to
the game activated, which makes `LaunchConsented` an action property of the
invariant. `Armed` counts waits and messages together: a channel nobody waits on has a
pokeMsg on the way that will re-arm it. That is what `StaleMenuPoked` needs to survive a
change, whose notify is then still to come, and the notify itself.

**AccountsProofs.** `DatabaseWhole` is not inductive: a commit replaces the database by the
open transaction's view. `BootView` and `AckView` say what that view is at each
statement and who owns it, and that the loop variable of `migrate`, read outside the
transaction, is still the version on disk.

**SessionsProofs.** `acquire` compares counters, the promises are about shells; the
bridge is `LedgerExact`. It is inductive only with `Identified` (a keyed shell that
passed `resolveIdentity` has a key, so acquire and release touch the same entry) and the
types. `Caps` are the comparisons of `acquire` turned into an invariant, and `Seated`
ties a seat to the place of its goroutine and, what `SeatsHoldSlots` alone does not say, a
guest's choice to the list from `Check` on, before the seat shows it. Results: `LedgerCorrect`, `CapsCorrect`,
`KeyedBudgetCorrect`, `SeatsCorrect`.

Its second half is about `Publisher`. `PublisherImplementsSessions`: no step of the publisher
changes what `Sessions` models, so `PSpec => Spec` and all of the above holds while it
publishes. `Turns` says whose turn it is: `Start` is inside publish exactly while the Once
runs, the loop is up only between `Start` and done, `Close` publishes only after done. From it
follow `PublisherExclusion` and `CloseNeverOrphaned`, and `ClosedCorrect`, because a closed
publisher has no turn left to give. `DocumentCorrect` needs what Build knew when it counted:
`CountsOK` says it of the counts a publisher carries to the games list, and `IInv` of
`Sessions` makes it true of `Tracker.Counts` (`CountsConsistent`). The sums are counted, not
added: `PlacesIn` has one place for each player of each game, and `PlacesCount` gives a
bijection between these places and the pairs of a game and a player in it. Such pairs are no more than
the seats outside the menu, and with the menu's players they cover everybody.
`SnapshotConsistent` then shows that games which come and go before the list is read cannot
break a document.

**RegistryProofs.** Types, `Listed` (the list is never empty), `Damped` and
`StatusChangesPoked` are together inductive. The argument for no lost wakeup: a step that
changes the statuses leaves a notify pending (`PendingSuffices`), a notify fills every
channel (`NotifyPokes`), a lobby's own step makes it up to date, awake or gone
(`OthersPoked`), and every other step keeps all three (`PokedStays`). `ReloadCorrect` is
an action property derived from the invariant. `NoSaveOverlooked` is the safety half of
`Converges`: no mtime the loop holds is ahead of the file (`Behind`), so every save makes it
look changed, and a file that looks unchanged and is good is the one served, or its read
failed after its mtime was taken (`UnchangedMeansServed`). It is stated for files whose saves have different mtimes, see the
observation on `SameTick` above.

**ShellSessionProofs.** Two properties that a run checks, and the clean switch between modes.
`LatestSizeDelivered` speaks of a winch pump at rest; `Settled` also covers a deliver still
busy with the channel of an earlier mode, and says that what waits in the channel is the
latest size, or the channel is empty and the consumer has it (`SizesCorrect`).
`NoKeySwallowed` needs `Gapless`: while the game of this visit lives, every chunk the pump
has read is the game's or in the pump's hands on its way to it. That rests on `Visit` (between the two
`SetDest` of a bridge the pipe is the bridge's and no menu program reads), `Fresh` (before the
shell opens the game has nothing) and `Live` (`KeysCorrect`). `Owned` says which part of
`handle` still owns which destination, pipe and goroutine, and gives `ModesApart`: a mode
starts, and the handler returns, with nothing of the mode before attached.

**Only model-checked.** All liveness properties, that of `HotFile` included: fairness and
ENABLED are outside the prover. `CloseNeverOrphaned`, `NoSaveOverlooked` and `ModesApart` are
the safety those of `Publisher`, `Registry` and `ShellSession` rest on. Every invariant and
every action property of a passing run is a theorem, except the action half of
`KickStartsCycle`. The inductive invariants were checked with TLC before they were proved.

## 6. Not modelled, and plan

* **Proxy protocol**: builds and parses strings (base64, a length limit) in one
  function each; no state, nothing that interleaves.
* **Configuration**: reading the environment; its guarantees are the ASSUMEs of
  `AuthGuard` and `Sessions`. `ARCADE_LOBBY_IDLE_TIMEOUT=0`, which turns the idle timeout off,
  is outside `LobbyMenu`'s assumption.
* **Key files, logging, version, Windows output**: file and console I/O.
* **View**: texts, styles and the cells of a hit box; only which rows are drawn and can be
  clicked is modelled.
* **Test fixtures, deployment and monitoring scripts.**

Next, in this order:

1. `Admission`: an abstract "bounded seats" specification that `AuthGuard` and `Sessions`
   both implement.
2. `Registry` as a second implementation of `HotFile`, which needs a history of the saves in
   `Registry`.
3. The safety the menu's and the store's liveness rests on (`WaitsEnd`, `ConnectionReturns`), as
   theorems.
4. `ProxyProto`: encoding, decoding and the length limit as operators, checked against a
   reference definition over bounded inputs.

------------------------------ MODULE Registry ------------------------------
(***************************************************************************)
(* internal/registry: the games list, hot-reloaded from a file, with the   *)
(* probed liveness of every game and the coalesced pokes to subscribers.   *)
(*                                                                         *)
(* Goroutines: the probe/reload loop; the bridges that Report a failed     *)
(* dial; the lobbies that subscribe, wait for a poke and pull Games(); the *)
(* caller of Close.  Outside the process, operators rewrite the file and   *)
(* games go up and down.  A change and the notify() that announces it are  *)
(* separate steps, because r.mu is released in between.                    *)
(*                                                                         *)
(* A file's content is the set of games its entries name; {} stands for    *)
(* every file loadFile rejects (torn, malformed, no entries).              *)
(***************************************************************************)
EXTENDS Integers, FiniteSets

CONSTANTS
    Games,          \* game IDs
    Versions,       \* fleet versions a banner can carry
    NoVersion,      \* no version detected: ""
    NoGame,         \* an idle reporter's game
    Subs, Reporters,
    FailThreshold,
    MaxWrites,      \* bound: how often the operator touches the file
    SameTick        \* TRUE: two writes may share one mtime

ASSUME RegistryAssumption ==
    /\ Games # {}
    /\ NoVersion \notin Versions
    /\ NoGame \notin Games
    /\ FailThreshold \in Nat \ {0}
    /\ MaxWrites \in Nat
    /\ SameTick \in BOOLEAN

VARIABLES
    exists, content, mtime, writes,         \* the file (external)
    unread,                                 \* history: an I/O error hid the file's
                                            \* last save, and its mtime is remembered
    alive,                                  \* what a probe of a game finds (external)
    games, online, fails, version, seen,    \* Registry, health, r.mtime
    loop, stat, stat2, result,              \* the loop goroutine and its locals
    kick, stop,                             \* r.kick holds a token; r.stop is closed
    closer,                                 \* the caller of Close
    repPc, repGame,                         \* bridges inside Report
    subs, buf, subPc, view                  \* r.subs, channel buffers, lobbies

fileVars == <<exists, content, mtime, writes, unread>>
regVars == <<games, online, fails, version, seen>>
loopVars == <<loop, stat, stat2, result>>
ctlVars == <<kick, stop, closer>>
repVars == <<repPc, repGame>>
subVars == <<subs, buf, subPc, view>>
vars == <<fileVars, alive, regVars, loopVars, ctlVars, repVars, subVars>>

Down == "down"                              \* no SSH banner within DialTimeout
Unprobed == "unprobed"
Findings == Versions \cup {NoVersion, Down}

LoopStates == {"off", "stat", "load", "read", "notifyReload", "snapshot",
               "probe", "notifyProbe", "select", "exited"}

(* What Games() shows a lobby.                                             *)
Shown == [g \in games |-> [online |-> online[g], version |-> version[g]]]
Views == UNION {[S -> [online : BOOLEAN, version : Versions \cup {NoVersion}]] :
                    S \in SUBSET Games}

FileOK ==
    /\ exists \in BOOLEAN /\ content \in SUBSET Games
    /\ mtime \in Nat /\ writes \in Nat /\ unread \in BOOLEAN
    /\ alive \in [Games -> Findings]

HealthOK ==
    /\ games \in SUBSET Games
    /\ online \in [Games -> BOOLEAN]
    /\ fails \in [Games -> 0..FailThreshold]
    /\ version \in [Games -> Versions \cup {NoVersion}]
    /\ seen \in Nat

LoopOK ==
    /\ loop \in LoopStates
    /\ stat \in Nat /\ stat2 \in Nat
    /\ result \in [Games -> Findings \cup {Unprobed}]
    /\ kick \in BOOLEAN /\ stop \in BOOLEAN
    /\ closer \in {"none", "stopping", "closed"}

CallersOK ==
    /\ repPc \in [Reporters -> {"idle", "report", "notify"}]
    /\ repGame \in [Reporters -> Games \cup {NoGame}]
    /\ subs \subseteq Subs
    /\ buf \in [Subs -> BOOLEAN]
    /\ subPc \in [Subs -> {"out", "fresh", "waiting", "woken"}]
    /\ view \in [Subs -> Views]

TypeOK == FileOK /\ HealthOK /\ LoopOK /\ CallersOK

NoView == [g \in {} |-> [online |-> FALSE, version |-> NoVersion]]

(* New: a bad file is a hard error at boot, so the process starts with a   *)
(* good one, every game offline until the first probe.                     *)
Init ==
    /\ exists = TRUE /\ content \in (SUBSET Games) \ {{}}
    /\ mtime = 0 /\ writes = 0 /\ unread = FALSE
    /\ alive \in [Games -> {NoVersion, Down}]
    /\ games = content
    /\ online = [g \in Games |-> FALSE]
    /\ fails = [g \in Games |-> 0]
    /\ version = [g \in Games |-> NoVersion]
    /\ seen = mtime
    /\ loop = "off" /\ stat = 0 /\ stat2 = 0
    /\ result = [g \in Games |-> Unprobed]
    /\ kick = FALSE /\ stop = FALSE /\ closer = "none"
    /\ repPc = [r \in Reporters |-> "idle"]
    /\ repGame = [r \in Reporters |-> NoGame]
    /\ subs = {} /\ buf = [s \in Subs |-> FALSE]
    /\ subPc = [s \in Subs |-> "out"]
    /\ view = [s \in Subs |-> NoView]

----------------------------------------------------------------------------
(* The world outside: the operator saves or removes the file, games come,  *)
(* go and are upgraded.                                                    *)
WriteFile(c) ==
    /\ writes < MaxWrites
    /\ writes' = writes + 1
    /\ exists' = TRUE
    /\ content' = c
    /\ mtime' \in {mtime + 1} \cup (IF SameTick THEN {mtime} ELSE {})
    /\ unread' = FALSE
    /\ UNCHANGED <<alive, regVars, loopVars, ctlVars, repVars, subVars>>

RemoveFile ==
    /\ exists /\ writes < MaxWrites
    /\ writes' = writes + 1
    /\ exists' = FALSE
    /\ content' = {}
    /\ unread' = FALSE
    /\ UNCHANGED <<mtime, alive, regVars, loopVars, ctlVars, repVars, subVars>>

GameBecomes(g, f) ==
    /\ alive[g] # f
    /\ alive' = [alive EXCEPT ![g] = f]
    /\ UNCHANGED <<fileVars, regVars, loopVars, ctlVars, repVars, subVars>>

----------------------------------------------------------------------------
(* Start launches the loop; its first cycle runs immediately.              *)
Start ==
    /\ loop = "off"
    /\ loop' = "stat"
    /\ UNCHANGED <<fileVars, alive, regVars, stat, stat2, result, ctlVars, repVars, subVars>>

(* reloadIfChanged, first stat: unchanged or missing goes on to the probes. *)
Stat ==
    /\ loop = "stat"
    /\ IF exists /\ mtime # seen
       THEN loop' = "load" /\ stat' = mtime
       ELSE loop' = "snapshot" /\ UNCHANGED stat
    /\ UNCHANGED <<fileVars, alive, regVars, stat2, result, ctlVars, repVars, subVars>>

(* The stat fails on a file that is there and has changed: nothing is      *)
(* remembered, the next cycle tries again.                                 *)
StatFails ==
    /\ loop = "stat" /\ exists /\ mtime # seen
    /\ loop' = "snapshot"
    /\ UNCHANGED <<fileVars, alive, regVars, stat, stat2, result, ctlVars, repVars, subVars>>

(* Mutant of Loaded: a successful reload notifies nobody.                  *)
MutLoadedQuietly(next) == loop' = "snapshot" /\ stat' = 0 /\ stat2' = 0

(* reloadIfChanged returns; its locals are gone.                           *)
Loaded(next) == loop' = next /\ stat' = 0 /\ stat2' = 0

(* reloadIfChanged's error path: the first stat's mtime is remembered and  *)
(* the previous registry kept.                                             *)
Reject ==
    /\ seen' = stat
    /\ Loaded("snapshot")
    /\ UNCHANGED <<games, online, fails, version>>

(* loadFile's own stat, before the read.                                   *)
LoadStat ==
    /\ loop = "load"
    /\ \/ /\ exists
          /\ stat2' = mtime
          /\ loop' = "read"
          /\ UNCHANGED <<regVars, stat>>
       \/ /\ ~exists
          /\ Reject
    /\ UNCHANGED <<fileVars, alive, result, ctlVars, repVars, subVars>>

(* loadFile's stat or read fails on a file that is there, good or bad.  Its *)
(* mtime is remembered all the same: if no save came since the first stat, *)
(* the file is not looked at again before the next one.                    *)
ReadFails ==
    /\ loop \in {"load", "read"} /\ exists
    /\ Reject
    /\ unread' = (stat = mtime)
    /\ UNCHANGED <<exists, content, mtime, writes, alive, result, ctlVars, repVars, subVars>>

(* Mutant of Swap: every game starts over with fresh health.               *)
MutSwapFresh(new) ==
    /\ games' = new
    /\ online' = [g \in Games |-> FALSE]
    /\ fails' = [g \in Games |-> 0]
    /\ version' = [g \in Games |-> NoVersion]

(* The swap under r.mu: a game keeps its health by ID, a new one starts    *)
(* offline, a dropped one is forgotten.                                    *)
Swap(new) ==
    LET kept == games \cap new IN
    /\ games' = new
    /\ online' = [g \in Games |-> g \in kept /\ online[g]]
    /\ fails' = [g \in Games |-> IF g \in kept THEN fails[g] ELSE 0]
    /\ version' = [g \in Games |-> IF g \in kept THEN version[g] ELSE NoVersion]

(* loadFile's read and validation, then the outcome under r.mu.            *)
ReadAndSwap ==
    /\ loop = "read"
    /\ \/ /\ exists /\ content # {}
          /\ Swap(content)
          /\ seen' = stat2
          /\ Loaded("notifyReload")
       \/ /\ ~exists \/ content = {}
          /\ Reject
    /\ UNCHANGED <<fileVars, alive, result, ctlVars, repVars, subVars>>

(* notify: a token into every subscriber channel that has none.            *)
Notify == buf' = [s \in Subs |-> buf[s] \/ s \in subs]

LoopNotify ==
    /\ loop \in {"notifyReload", "notifyProbe"}
    /\ Notify
    /\ loop' = IF loop = "notifyReload" THEN "snapshot" ELSE "select"
    /\ UNCHANGED <<fileVars, alive, regVars, stat, stat2, result, ctlVars, repVars, subs, subPc, view>>

(* probeCycle: the list is copied, then every game is probed at once.      *)
ProbeSnapshot ==
    /\ loop = "snapshot"
    /\ loop' = "probe"
    /\ result' = [g \in Games |-> Unprobed]
    /\ UNCHANGED <<fileVars, alive, regVars, stat, stat2, ctlVars, repVars, subVars>>

(* probe: dial and banner; the answer ages until wg.Wait lets it through.  *)
Probe(g) ==
    /\ loop = "probe"
    /\ g \in games /\ result[g] = Unprobed
    /\ result' = [result EXCEPT ![g] = alive[g]]
    /\ UNCHANGED <<fileVars, alive, regVars, loop, stat, stat2, ctlVars, repVars, subVars>>

(* fails saturates at FailThreshold: it is only ever compared with it.     *)
OneMore(n) == IF n < FailThreshold THEN n + 1 ELSE n

(* The health of a game after its probe result is applied.                 *)
FailsAfter(g) ==
    IF g \notin games THEN fails[g]
    ELSE IF result[g] # Down THEN 0 ELSE OneMore(fails[g])

(* Mutants of OnlineAfter: one failure too many; never offline by probes.  *)
MutOnlineOneMore(g) ==
    IF g \notin games THEN online[g]
    ELSE IF result[g] # Down THEN TRUE
    ELSE online[g] /\ FailsAfter(g) <= FailThreshold
MutOnlineSticky(g) ==
    online[g] \/ (g \in games /\ result[g] # Down)
OnlineAfter(g) ==
    IF g \notin games THEN online[g]
    ELSE IF result[g] # Down THEN TRUE
    ELSE online[g] /\ FailsAfter(g) < FailThreshold

VersionAfter(g) ==
    IF g \in games /\ result[g] \in Versions THEN result[g] ELSE version[g]

(* probeCycle's second critical section.                                   *)
ApplyProbes ==
    /\ loop = "probe"
    /\ \A g \in games : result[g] # Unprobed
    /\ fails' = [g \in Games |-> FailsAfter(g)]
    /\ online' = [g \in Games |-> OnlineAfter(g)]
    /\ version' = [g \in Games |-> VersionAfter(g)]
    /\ loop' = IF online' # online THEN "notifyProbe" ELSE "select"
    /\ result' = [g \in Games |-> Unprobed]
    /\ UNCHANGED <<fileVars, alive, games, seen, stat, stat2, ctlVars, repVars, subVars>>

(* Mutants of loop's select: the ticker, or a kick, probes without the     *)
(* file check; stop waits for an empty kick channel.                       *)
MutTickProbesOnly ==
    /\ loop = "select"
    /\ loop' = "snapshot"
    /\ UNCHANGED <<fileVars, alive, regVars, stat, stat2, result, ctlVars, repVars, subVars>>
MutKickProbesOnly ==
    /\ loop = "select" /\ kick
    /\ kick' = FALSE
    /\ loop' = "snapshot"
    /\ UNCHANGED <<fileVars, alive, regVars, stat, stat2, result, stop, closer, repVars, subVars>>
MutStopAfterKicks ==
    /\ loop = "select" /\ stop /\ ~kick
    /\ loop' = "exited"
    /\ UNCHANGED <<fileVars, alive, regVars, stat, stat2, result, ctlVars, repVars, subVars>>

(* loop's select: ticker, kick and stop.                                   *)
Tick ==
    /\ loop = "select"
    /\ loop' = "stat"
    /\ UNCHANGED <<fileVars, alive, regVars, stat, stat2, result, ctlVars, repVars, subVars>>

Kicked ==
    /\ loop = "select" /\ kick
    /\ kick' = FALSE
    /\ loop' = "stat"
    /\ UNCHANGED <<fileVars, alive, regVars, stat, stat2, result, stop, closer, repVars, subVars>>

Stopped ==
    /\ loop = "select" /\ stop
    /\ loop' = "exited"
    /\ UNCHANGED <<fileVars, alive, regVars, stat, stat2, result, ctlVars, repVars, subVars>>

(* ProbeNow: the lobby's R key or SIGHUP.                                  *)
ProbeNow ==
    /\ ~kick
    /\ kick' = TRUE
    /\ UNCHANGED <<fileVars, alive, regVars, loopVars, stop, closer, repVars, subVars>>

----------------------------------------------------------------------------
(* A bridge's dial fails: the game is down, or it is up and its handshake  *)
(* stalls, which a probe does not notice.  The Report comes later, when    *)
(* the game may be back, gone from the list, or freshly probed.            *)
DialFails(r, g) ==
    /\ repPc[r] = "idle"
    /\ g \in games
    /\ repPc' = [repPc EXCEPT ![r] = "report"]
    /\ repGame' = [repGame EXCEPT ![r] = g]
    /\ UNCHANGED <<fileVars, alive, regVars, loopVars, ctlVars, subVars>>

(* Report, up to r.mu.Unlock.                                              *)
Report(r) ==
    LET g == repGame[r] IN
    /\ repPc[r] = "report"
    /\ fails' = IF g \in games THEN [fails EXCEPT ![g] = FailThreshold] ELSE fails
    /\ online' = IF g \in games THEN [online EXCEPT ![g] = FALSE] ELSE online
    /\ repPc' = [repPc EXCEPT ![r] = IF online' # online THEN "notify" ELSE "idle"]
    /\ repGame' = [repGame EXCEPT ![r] = NoGame]
    /\ UNCHANGED <<fileVars, alive, games, version, seen, loopVars, ctlVars, subVars>>

ReportNotify(r) ==
    /\ repPc[r] = "notify"
    /\ Notify
    /\ repPc' = [repPc EXCEPT ![r] = "idle"]
    /\ UNCHANGED <<fileVars, alive, regVars, loopVars, ctlVars, repGame, subs, subPc, view>>

----------------------------------------------------------------------------
(* A lobby: Subscribe, pull, then wait for pokes.                          *)
Subscribe(s) ==
    /\ subPc[s] = "out"
    /\ subs' = subs \cup {s}
    /\ buf' = [buf EXCEPT ![s] = FALSE]
    /\ subPc' = [subPc EXCEPT ![s] = "fresh"]
    /\ UNCHANGED <<fileVars, alive, regVars, loopVars, ctlVars, repVars, view>>

Pull(s) ==
    /\ subPc[s] \in {"fresh", "woken"}
    /\ view' = [view EXCEPT ![s] = Shown]
    /\ subPc' = [subPc EXCEPT ![s] = "waiting"]
    /\ UNCHANGED <<fileVars, alive, regVars, loopVars, ctlVars, repVars, subs, buf>>

Wake(s) ==
    /\ subPc[s] = "waiting" /\ buf[s]
    /\ buf' = [buf EXCEPT ![s] = FALSE]
    /\ subPc' = [subPc EXCEPT ![s] = "woken"]
    /\ UNCHANGED <<fileVars, alive, regVars, loopVars, ctlVars, repVars, subs, view>>

Unsubscribe(s) ==
    /\ subPc[s] # "out"
    /\ subs' = subs \ {s}
    /\ buf' = [buf EXCEPT ![s] = FALSE]
    /\ subPc' = [subPc EXCEPT ![s] = "out"]
    /\ view' = [view EXCEPT ![s] = NoView]
    /\ UNCHANGED <<fileVars, alive, regVars, loopVars, ctlVars, repVars>>

(* Close: close(stop); wait for a started loop; then close every channel.  *)
Close ==
    /\ closer = "none"
    /\ closer' = "stopping"
    /\ stop' = TRUE
    /\ UNCHANGED <<fileVars, alive, regVars, loopVars, kick, repVars, subVars>>

CloseSubs ==
    /\ closer = "stopping"
    /\ loop \in {"off", "exited"}
    /\ closer' = "closed"
    /\ subs' = {}
    /\ UNCHANGED <<fileVars, alive, regVars, loopVars, kick, stop, repVars, buf, subPc, view>>

LoopStep ==
    \/ Stat \/ LoadStat \/ ReadAndSwap \/ LoopNotify \/ ProbeSnapshot
    \/ ApplyProbes \/ \E g \in Games : Probe(g)

Next ==
    \/ (\E c \in SUBSET Games : WriteFile(c)) \/ RemoveFile
    \/ \E g \in Games, f \in Findings : GameBecomes(g, f)
    \/ Start \/ LoopStep \/ StatFails \/ ReadFails \/ Tick \/ Kicked \/ Stopped \/ ProbeNow
    \/ \E r \in Reporters :
            (\E g \in Games : DialFails(r, g)) \/ Report(r) \/ ReportNotify(r)
    \/ \E s \in Subs : Subscribe(s) \/ Pull(s) \/ Wake(s) \/ Unsubscribe(s)
    \/ Close \/ CloseSubs

(* The loop goroutine runs, its ticker ticks, dials end by their timeouts. *)
(* select is random among ready cases, so a case that is ready at every    *)
(* visit is taken in the end: strong fairness for kick and stop.  Nothing  *)
(* is assumed of the file system: stats and reads may fail at will.        *)
Fairness ==
    /\ WF_vars(Start) /\ WF_vars(LoopStep) /\ WF_vars(Tick)
    /\ SF_vars(Kicked) /\ SF_vars(Stopped)
    /\ WF_vars(CloseSubs)
    /\ \A r \in Reporters : WF_vars(Report(r)) /\ WF_vars(ReportNotify(r))
    /\ \A s \in Subs : WF_vars(Pull(s)) /\ WF_vars(Wake(s))

Spec == Init /\ [][Next]_vars
FairSpec == Spec /\ Fairness

----------------------------------------------------------------------------
(* Flap damping: a game shown online has failed fewer than FailThreshold   *)
(* times in a row, whatever mix of probes, Reports and reloads got it      *)
(* there, and only a listed game has any health at all.                    *)
Damped ==
    \A g \in Games :
        /\ online[g] => g \in games /\ fails[g] < FailThreshold
        /\ g \notin games => fails[g] = 0 /\ version[g] = NoVersion

(* Someone has changed the registry and not yet run notify().              *)
NotifyPending ==
    \/ loop \in {"notifyReload", "notifyProbe"}
    \/ \E r \in Reporters : repPc[r] = "notify"

Statuses(v) == [g \in DOMAIN v |-> v[g].online]

(* No lost wakeup: a lobby whose menu no longer shows the current games    *)
(* and their online status has a poke in its channel, or the change's      *)
(* notify() is still to come.                                              *)
StatusChangesPoked ==
    \A s \in subs : subPc[s] = "waiting" /\ Statuses(view[s]) # Statuses(Shown)
                        => buf[s] \/ NotifyPending

(* "A file that fails to load keeps the previous good registry active":    *)
(* the list is never empty, and a listed game goes offline only by         *)
(* FailThreshold failures in a row or a Report, never by a reload.         *)
ReloadKeepsHealth ==
    [][/\ games' # {}
       /\ \A g \in games \cap games' :
            online[g] /\ ~online'[g] => fails'[g] = FailThreshold]_vars

(* "if a write races the read, the recorded mtime predates it and the next *)
(* cycle re-checks": once the operator is done, a valid file is what the   *)
(* registry serves, for good, unless reading this very save failed or      *)
(* stats of it fail over and over.                                         *)
Converges ==
    []<>~stop /\ <>[][~StatFails]_vars => <>[](exists /\ content # {} /\ ~unread => games = content)

(* Whatever stale probe results and late Reports it raced with, a game     *)
(* that stays down is offline for good in the end.  One that stays up is   *)
(* shown online again and again although bridges go on reporting it, and   *)
(* for good once they stop.                                                *)
Tracks(g) ==
    []<>~stop =>
        /\ <>[](alive[g] = Down) => <>[]~online[g]
        /\ <>[](g \in games /\ alive[g] # Down) =>
            /\ []<>online[g]
            /\ <>[](\A r \in Reporters : repGame[r] # g) => <>[]online[g]

(* The same of every game: no action tells two games apart, so any one of  *)
(* them stands for all.                                                    *)
TracksGames == Tracks(CHOOSE g \in Games : TRUE)

(* A request by ProbeNow is never lost: its token is taken only to start a *)
(* cycle with the file check, and is taken, even when it was sent in the   *)
(* middle of a cycle and the ticker is ready as well.                      *)
KickStartsCycle ==
    /\ [][kick /\ ~kick' => loop' = "stat"]_vars
    /\ []<>(~kick \/ loop \in {"off", "exited"})

(* Close returns: the loop leaves although its ticker stays ready.         *)
CloseReturns == []<>(closer # "stopping")
=============================================================================

---------------------------- MODULE ShellSession ----------------------------
(***************************************************************************)
(* One shell: handle and runLobby of internal/server/handler.go, the input *)
(* and resize pumps of pump.go, and bridge.Run, as the goroutines they     *)
(* are.  The handler alternates lobby and game on one terminal; every mode *)
(* gets a fresh pipe and a fresh resize channel, and the pumps are         *)
(* switched to them without being stopped.                                 *)
(*                                                                         *)
(* Only the newest pipe and resize channel can matter: an earlier one is   *)
(* closed or garbage.  A goroutine that still holds one holds "old".       *)
(***************************************************************************)
EXTENDS Integers

CONSTANTS
    MaxTyped,       \* bound: chunks the player types
    MaxResizes,     \* bound: window changes
    GameAnswers,    \* the game answers channel requests after the handshake
    ClientHalfCloses \* the client may end its input, or close the session's
                     \* channel, while its transport stays up

ASSUME ShellAssumption ==
    /\ MaxTyped \in Nat /\ MaxResizes \in Nat
    /\ GameAnswers \in BOOLEAN /\ ClientHalfCloses \in BOOLEAN

VARIABLES
    client,             \* "open"; "eof": input ended; "closed": channel closed;
                        \* "gone": transport dead, the session context is done
    typed, taken,       \* chunks typed, chunks the pump has read
    resized, got,       \* window changes sent, and received by the winch pump
    h, result,          \* the handler's place, and the lobby's Result
    pipe, dst,          \* the newest pipe; inputPump.dst
    pump, pumpDst,      \* inputPump.loop, and its local dst
    wbuf, wclosed, wdst,    \* the newest resize channel; winchPump.dst
    winch, winchDst, latest, \* winchPump.loop, its local dst, p.latest (0: !has)
    wseen,              \* the size the newest channel's consumer last took
    prog, watcher, stopW,   \* the Bubble Tea program, runLobby's goroutine, stop
    up, stdinEOF, gameGot,  \* the game: its session, its stdin, its last chunk
    copier, forwarder       \* bridge.Run's stdin and resize goroutines

clientVars == <<client, typed, resized>>
pumpVars == <<taken, pump, pumpDst>>
winchVars == <<got, winch, winchDst, latest>>
chanVars == <<wbuf, wclosed, wdst, wseen>>
lobbyVars == <<prog, watcher, stopW, result>>
gameVars == <<up, stdinEOF, gameGot, copier, forwarder>>
vars == <<clientVars, h, pipe, dst, pumpVars, winchVars, chanVars, lobbyVars, gameVars>>

Places == {"setLobby", "attachLobby", "lobby", "detachLobby", "stopWatcher",
           "joinWatcher", "revokeLobby", "closeLobby", "admit", "setGame",
           "attachGame", "dialing", "opening", "waiting", "detachGame",
           "revokeGame", "closeGame", "check", "exit"}
Holding == {"none", "cur", "old"}

TypeOK ==
    /\ client \in {"open", "eof", "closed", "gone"}
    /\ typed \in 0..MaxTyped /\ taken \in 0..typed
    /\ resized \in 0..MaxResizes /\ got \in 0..resized
    /\ h \in Places
    /\ result \in {"none", "play", "leave"}
    /\ pipe \in {"none", "open", "eof", "closed"}
    /\ dst \in {"none", "cur"} /\ wdst \in {"none", "cur"}
    /\ pump \in {"read", "route", "write", "eof", "closing", "ending", "done"}
    /\ pumpDst \in Holding /\ winchDst \in Holding
    /\ wbuf \in 0..MaxResizes /\ latest \in 0..MaxResizes /\ wseen \in 0..MaxResizes
    /\ wclosed \in BOOLEAN /\ stopW \in BOOLEAN /\ stdinEOF \in BOOLEAN
    /\ winch \in {"recv", "try", "drain", "closing", "done"}
    /\ prog \in {"off", "running", "ended"}
    /\ watcher \in {"off", "watching", "sending", "quitting", "done"}
    /\ up \in {"none", "live", "ended"}
    /\ gameGot \in 0..MaxTyped
    /\ copier \in {"off", "copy", "old"} /\ forwarder \in {"off", "on", "old"}

Init ==
    /\ client = "open" /\ typed = 0 /\ resized = 0
    /\ h = "setLobby" /\ pipe = "none" /\ dst = "none"
    /\ taken = 0 /\ pump = "read" /\ pumpDst = "none"
    /\ got = 0 /\ winch = "recv" /\ winchDst = "none" /\ latest = 0
    /\ wbuf = 0 /\ wclosed = FALSE /\ wdst = "none" /\ wseen = 0
    /\ prog = "off" /\ watcher = "off" /\ stopW = FALSE /\ result = "none"
    /\ up = "none" /\ stdinEOF = FALSE /\ gameGot = 0
    /\ copier = "off" /\ forwarder = "off"

ctxDone == client = "gone"                    \* s.Context().Done()
channelClosed == client \in {"closed", "gone"}
pumpDone == pump = "done"                     \* pump.Done()

----------------------------------------------------------------------------
(* The player.                                                             *)
Type ==
    /\ client = "open" /\ typed < MaxTyped
    /\ typed' = typed + 1
    /\ UNCHANGED <<client, resized, h, pipe, dst, pumpVars, winchVars, chanVars, lobbyVars, gameVars>>

Resize ==
    /\ ~channelClosed /\ resized < MaxResizes
    /\ resized' = resized + 1
    /\ UNCHANGED <<client, typed, h, pipe, dst, pumpVars, winchVars, chanVars, lobbyVars, gameVars>>

ClientLeaves ==
    /\ \/ ClientHalfCloses /\ client = "open" /\ client' = "eof"
       \/ ClientHalfCloses /\ ~channelClosed /\ client' = "closed"
       \/ client # "gone" /\ client' = "gone"
    /\ UNCHANGED <<typed, resized, h, pipe, dst, pumpVars, winchVars, chanVars, lobbyVars, gameVars>>

----------------------------------------------------------------------------
(* inputPump.loop: read, take the destination, write; on the stream's end  *)
(* close the destination and then done.                                    *)
PumpRead ==
    /\ pump = "read" /\ taken < typed
    /\ taken' = taken + 1
    /\ pump' = "route"
    /\ UNCHANGED <<clientVars, h, pipe, dst, pumpDst, winchVars, chanVars, lobbyVars, gameVars>>

PumpRoute ==
    /\ pump = "route"
    /\ pumpDst' = dst
    /\ pump' = IF dst = "none" THEN "read" ELSE "write"
    /\ UNCHANGED <<clientVars, h, pipe, dst, taken, winchVars, chanVars, lobbyVars, gameVars>>

(* The write's destination was revoked: the chunk is dropped.              *)
PumpDrop ==
    /\ pump = "write"
    /\ pumpDst = "old" \/ pipe = "closed"
    /\ pump' = "read" /\ pumpDst' = "none"
    /\ UNCHANGED <<clientVars, h, pipe, dst, taken, winchVars, chanVars, lobbyVars, gameVars>>

(* A reader of the newest pipe takes the chunk and the write returns.      *)
Handover ==
    /\ pump = "write" /\ pumpDst = "cur" /\ pipe = "open"
    /\ pump' = "read" /\ pumpDst' = "none"
    /\ UNCHANGED taken

PumpEOF ==
    /\ pump = "read" /\ taken = typed /\ client # "open"
    /\ pump' = "eof"
    /\ UNCHANGED <<clientVars, h, pipe, dst, taken, pumpDst, winchVars, chanVars, lobbyVars, gameVars>>

(* closeDest reads dst under the lock and closes it outside; done is       *)
(* closed after it.                                                        *)
PumpCloseDest ==
    \/ /\ pump = "eof"
       /\ pump' = "closing" /\ pumpDst' = dst
       /\ UNCHANGED <<clientVars, h, pipe, dst, taken, winchVars, chanVars, lobbyVars, gameVars>>
    \/ /\ pump = "closing"
       /\ pipe' = IF pumpDst = "cur" /\ pipe = "open" THEN "eof" ELSE pipe
       /\ pump' = "ending" /\ pumpDst' = "none"
       /\ UNCHANGED <<clientVars, h, dst, taken, winchVars, chanVars, lobbyVars, gameVars>>
    \/ /\ pump = "ending"
       /\ pump' = "done"
       /\ UNCHANGED <<clientVars, h, pipe, dst, taken, pumpDst, winchVars, chanVars, lobbyVars, gameVars>>

----------------------------------------------------------------------------
(* winchPump.loop and deliver: latest wins, the send never blocks.         *)
WinchRecv ==
    /\ winch = "recv" /\ got < resized
    /\ got' = got + 1
    /\ latest' = got + 1
    /\ winchDst' = wdst
    /\ winch' = IF wdst = "none" THEN "recv" ELSE "try"
    /\ UNCHANGED <<clientVars, h, pipe, dst, pumpVars, chanVars, lobbyVars, gameVars>>

WinchTry ==
    /\ winch = "try"
    /\ \/ /\ winchDst = "cur" /\ wbuf # 0
          /\ winch' = "drain"
          /\ UNCHANGED <<wbuf, winchDst>>
       \/ /\ winchDst = "old" \/ wbuf = 0
          /\ wbuf' = IF winchDst = "cur" THEN latest ELSE wbuf
          /\ winch' = "recv" /\ winchDst' = "none"
    /\ UNCHANGED <<clientVars, h, pipe, dst, pumpVars, got, latest, wclosed, wdst, wseen, lobbyVars, gameVars>>

WinchDrain ==
    /\ winch = "drain"
    /\ wbuf' = IF winchDst = "cur" THEN 0 ELSE wbuf
    /\ winch' = "try"
    /\ UNCHANGED <<clientVars, h, pipe, dst, pumpVars, got, winchDst, latest, wclosed, wdst, wseen, lobbyVars, gameVars>>

(* The source channel closed: dst is taken under the lock, closed outside, *)
(* and only then is done closed.                                           *)
WinchEnd ==
    \/ /\ winch = "recv" /\ got = resized /\ channelClosed
       /\ winch' = "closing" /\ winchDst' = wdst /\ wdst' = "none"
       /\ UNCHANGED <<clientVars, h, pipe, dst, pumpVars, got, latest, wbuf, wclosed, wseen, lobbyVars, gameVars>>
    \/ /\ winch = "closing"
       /\ wclosed' = (wclosed \/ winchDst = "cur")
       /\ winch' = "done" /\ winchDst' = "none"
       /\ UNCHANGED <<clientVars, h, pipe, dst, pumpVars, got, latest, wbuf, wdst, wseen, lobbyVars, gameVars>>

Aged(held) == IF held = "cur" THEN "old" ELSE held

(* Mutant of Attach: the fresh channel is not primed.                      *)
MutAttachUnprimed ==
    /\ wclosed' = (winch = "done")
    /\ wbuf' = 0
    /\ wdst' = IF winch = "done" THEN wdst ELSE "cur"
    /\ wseen' = 0
    /\ winchDst' = Aged(winchDst)
    /\ forwarder' = IF forwarder = "on" THEN "old" ELSE forwarder
    /\ UNCHANGED <<got, winch, latest>>

(* winchPump.Attach: a fresh channel, primed, or closed after the end.     *)
Attach ==
    /\ wclosed' = (winch = "done")
    /\ wbuf' = IF winch = "done" THEN 0 ELSE latest
    /\ wdst' = IF winch = "done" THEN wdst ELSE "cur"
    /\ wseen' = 0
    /\ winchDst' = Aged(winchDst)
    /\ forwarder' = IF forwarder = "on" THEN "old" ELSE forwarder
    /\ UNCHANGED <<got, winch, latest>>

Detach == wdst' = "none" /\ UNCHANGED <<wbuf, wclosed, wseen>>

(* io.Pipe and inputPump.SetDest for a new mode.                           *)
NewPipe ==
    /\ pipe' = "open" /\ dst' = "cur"
    /\ pumpDst' = Aged(pumpDst)
    /\ copier' = IF copier = "copy" THEN "old" ELSE copier
    /\ UNCHANGED <<taken, pump>>

Goto(p, q) == h = p /\ h' = q

----------------------------------------------------------------------------
(* runLobby.                                                               *)
SetLobby ==
    /\ Goto("setLobby", "attachLobby")
    /\ NewPipe
    /\ UNCHANGED <<clientVars, winchVars, chanVars, lobbyVars, up, stdinEOF, gameGot, forwarder>>

AttachLobby ==
    /\ Goto("attachLobby", "lobby")
    /\ Attach
    /\ prog' = "running" /\ watcher' = "watching" /\ stopW' = FALSE /\ result' = "none"
    /\ UNCHANGED <<clientVars, pipe, dst, pumpVars, up, stdinEOF, gameGot, copier>>

(* p.Run returns; wp.Detach, close(stop), <-watcherDone.                   *)
LobbyReturns ==
    \/ /\ Goto("lobby", "detachLobby") /\ prog = "ended"
       /\ UNCHANGED <<clientVars, pipe, dst, pumpVars, winchVars, chanVars, lobbyVars, gameVars>>
    \/ /\ Goto("detachLobby", "stopWatcher")
       /\ Detach
       /\ UNCHANGED <<clientVars, pipe, dst, pumpVars, winchVars, lobbyVars, gameVars>>
    \/ /\ Goto("stopWatcher", "joinWatcher")
       /\ stopW' = TRUE
       /\ UNCHANGED <<clientVars, pipe, dst, pumpVars, winchVars, chanVars, prog, watcher, result, gameVars>>
    \/ /\ Goto("joinWatcher", "revokeLobby") /\ watcher = "done"
       /\ UNCHANGED <<clientVars, pipe, dst, pumpVars, winchVars, chanVars, lobbyVars, gameVars>>

(* The deferred SetDest(nil), then both ends of the pipe are closed.       *)
RevokeDest(p, q) ==
    /\ Goto(p, q)
    /\ dst' = "none"
    /\ UNCHANGED <<clientVars, pipe, pumpVars, winchVars, chanVars, lobbyVars, gameVars>>

(* Mutant of ClosePipe: the pipe is only dropped.                          *)
MutDropPipe(p, q) ==
    /\ Goto(p, q)
    /\ UNCHANGED <<clientVars, pipe, dst, pumpVars, winchVars, chanVars, lobbyVars, gameVars>>

ClosePipe(p, q) ==
    /\ Goto(p, q)
    /\ pipe' = "closed"
    /\ UNCHANGED <<clientVars, dst, pumpVars, winchVars, chanVars, lobbyVars, gameVars>>

(* The program takes a chunk: a key that moves the cursor, starts a game   *)
(* or quits.                                                               *)
ProgKey ==
    /\ prog = "running" /\ Handover
    /\ \/ UNCHANGED <<prog, result>>
       \/ prog' = "ended" /\ result' \in {"play", "leave"}
    /\ UNCHANGED <<clientVars, h, pipe, dst, winchVars, chanVars, watcher, stopW, gameVars>>

(* The idle timeout, or a program error.                                   *)
ProgIdle ==
    /\ prog = "running"
    /\ prog' = "ended" /\ result' = "leave"
    /\ UNCHANGED <<clientVars, h, pipe, dst, pumpVars, winchVars, chanVars, watcher, stopW, gameVars>>

(* Mutant of ProgSwallow: that Read is on the session itself.              *)
MutSwallowInGame ==
    /\ prog # "running" /\ Handover
    /\ UNCHANGED <<clientVars, h, pipe, dst, winchVars, chanVars, lobbyVars, gameVars>>

(* A quit program leaves one blocked Read on its own pipe behind.          *)
ProgSwallow ==
    /\ prog = "ended" /\ h \notin {"setLobby", "attachLobby"}
    /\ Handover
    /\ UNCHANGED <<clientVars, h, pipe, dst, winchVars, chanVars, lobbyVars, gameVars>>

(* runLobby's watcher goroutine: its select.                               *)
WatcherStops ==
    /\ watcher = "watching" /\ stopW
    /\ watcher' = "done"
    /\ UNCHANGED <<clientVars, h, pipe, dst, pumpVars, winchVars, chanVars, prog, stopW, result, gameVars>>

WatcherQuits ==
    /\ watcher = "watching"
    /\ ctxDone \/ pumpDone \/ (wclosed /\ wbuf = 0)
    /\ watcher' = "quitting"
    /\ UNCHANGED <<clientVars, h, pipe, dst, pumpVars, winchVars, chanVars, prog, stopW, result, gameVars>>

WatcherResizes ==
    /\ watcher = "watching" /\ wbuf # 0
    /\ watcher' = "sending"
    /\ wseen' = wbuf /\ wbuf' = 0
    /\ UNCHANGED <<clientVars, h, pipe, dst, pumpVars, winchVars, wclosed, wdst, prog, stopW, result, gameVars>>

(* p.Send and p.Quit block until the program takes the message or is over. *)
WatcherSent ==
    /\ watcher \in {"sending", "quitting"}
    /\ watcher' = IF watcher = "sending" THEN "watching" ELSE "done"
    /\ IF watcher = "quitting" /\ prog = "running"
       THEN prog' = "ended" /\ result' = "none"
       ELSE UNCHANGED <<prog, result>>
    /\ UNCHANGED <<clientVars, h, pipe, dst, pumpVars, winchVars, chanVars, stopW, gameVars>>

----------------------------------------------------------------------------
(* handle, after runLobby: anything but play ends the session.             *)
Dispatch ==
    /\ h = "admit" /\ result # "play" /\ h' = "exit"
    /\ UNCHANGED <<clientVars, pipe, dst, pumpVars, winchVars, chanVars, lobbyVars, gameVars>>

(* registry.Playable with the current list: back to the menu, or bridge.   *)
Admit ==
    /\ h = "admit" /\ result = "play"
    /\ h' \in {"setLobby", "setGame"}
    /\ UNCHANGED <<clientVars, pipe, dst, pumpVars, winchVars, chanVars, lobbyVars, gameVars>>

SetGame ==
    /\ Goto("setGame", "attachGame")
    /\ NewPipe
    /\ prog' = "off" /\ stdinEOF' = FALSE /\ gameGot' = 0
    /\ UNCHANGED <<clientVars, winchVars, chanVars, watcher, stopW, result, up, forwarder>>

AttachGame ==
    /\ Goto("attachGame", "dialing")
    /\ Attach
    /\ UNCHANGED <<clientVars, pipe, dst, pumpVars, lobbyVars, up, stdinEOF, gameGot, copier>>

(* dialWithTimeout: connected, or failed within its deadline.              *)
Dialed ==
    /\ h = "dialing"
    /\ h' \in {"opening", "detachGame"}
    /\ UNCHANGED <<clientVars, pipe, dst, pumpVars, winchVars, chanVars, lobbyVars, gameVars>>

(* NewSession, Setenv, RequestPty and Shell: no deadline, no watcher yet.  *)
(* A copier or forwarder of an earlier visit that is still "old" here has  *)
(* only its own exit left, and is forgotten.                               *)
Opened ==
    /\ h = "opening"
    /\ \/ /\ h' = "waiting"
          /\ up' = "live" /\ copier' = "copy" /\ forwarder' = "on"
       \/ /\ h' = "detachGame"
          /\ UNCHANGED <<up, copier, forwarder>>
    /\ UNCHANGED <<clientVars, pipe, dst, pumpVars, winchVars, chanVars, lobbyVars, stdinEOF, gameGot>>

(* The stdin goroutine: io.Copy, then stdin.Close.                         *)
CopyChunk ==
    /\ copier = "copy" /\ up = "live" /\ Handover
    /\ gameGot' = taken
    /\ UNCHANGED <<clientVars, h, pipe, dst, winchVars, chanVars, lobbyVars, up, stdinEOF, copier, forwarder>>

(* The game has ended: the next chunk's write to stdin fails and the copy  *)
(* is over.                                                                *)
CopyFails ==
    /\ copier = "copy" /\ up # "live" /\ Handover
    /\ copier' = "off"
    /\ UNCHANGED <<clientVars, h, pipe, dst, winchVars, chanVars, lobbyVars, up, stdinEOF, gameGot, forwarder>>

(* Mutants of CopyEnds: blocks on a revoked pipe; keeps stdin open.        *)
MutCopyIgnoresRevoke ==
    /\ copier = "copy" /\ pipe = "eof"
    /\ stdinEOF' = TRUE
    /\ copier' = "off"
    /\ UNCHANGED <<clientVars, h, pipe, dst, pumpVars, winchVars, chanVars, lobbyVars, up, gameGot, forwarder>>
MutCopyKeepsStdin ==
    /\ copier = "old" \/ (copier = "copy" /\ pipe \in {"eof", "closed"})
    /\ copier' = "off"
    /\ UNCHANGED <<clientVars, h, pipe, dst, pumpVars, winchVars, chanVars, lobbyVars, up, stdinEOF, gameGot, forwarder>>

CopyEnds ==
    /\ copier = "old" \/ (copier = "copy" /\ pipe \in {"eof", "closed"})
    /\ stdinEOF' = (stdinEOF \/ copier = "copy")
    /\ copier' = "off"
    /\ UNCHANGED <<clientVars, h, pipe, dst, pumpVars, winchVars, chanVars, lobbyVars, up, gameGot, forwarder>>

(* The resize goroutine.                                                   *)
Forward ==
    /\ forwarder = "on" /\ wbuf # 0
    /\ wseen' = wbuf /\ wbuf' = 0
    /\ UNCHANGED <<clientVars, h, pipe, dst, pumpVars, winchVars, wclosed, wdst, lobbyVars, gameVars>>

ForwardEnds ==
    /\ \/ forwarder = "old"
       \/ forwarder = "on" /\ (h # "waiting" \/ (wclosed /\ wbuf = 0))
    /\ forwarder' = "off"
    /\ UNCHANGED <<clientVars, h, pipe, dst, pumpVars, winchVars, chanVars, lobbyVars, up, stdinEOF, gameGot, copier>>

(* The upstream session ends: the game exits by itself or dies ...         *)
GameEnds ==
    /\ up = "live" /\ up' = "ended"
    /\ UNCHANGED <<clientVars, h, pipe, dst, pumpVars, winchVars, chanVars, lobbyVars, stdinEOF, gameGot, copier, forwarder>>

(* ... or flushes and exits on stdin EOF ...                               *)
GameEndsOnEOF == stdinEOF /\ GameEnds

(* Mutant of CtxCloses: the third goroutine is missing.                    *)
MutNoCtxWatcher == FALSE /\ GameEnds

(* ... or bridge.Run's third goroutine closes the client because the       *)
(* player's connection died.                                               *)
CtxCloses == ctxDone /\ GameEnds

(* up.Wait returns; the deferred calls close stop, the session and client. *)
BridgeReturns ==
    /\ Goto("waiting", "detachGame") /\ up = "ended"
    /\ up' = "none"
    /\ UNCHANGED <<clientVars, pipe, dst, pumpVars, winchVars, chanVars, lobbyVars, stdinEOF, gameGot, copier, forwarder>>

DetachGame ==
    /\ Goto("detachGame", "revokeGame")
    /\ Detach
    /\ UNCHANGED <<clientVars, pipe, dst, pumpVars, winchVars, lobbyVars, gameVars>>

(* The select at the end of handle's loop.                                 *)
Check ==
    /\ h = "check"
    /\ h' = IF ctxDone \/ pumpDone THEN "exit" ELSE "setLobby"
    /\ UNCHANGED <<clientVars, pipe, dst, pumpVars, winchVars, chanVars, lobbyVars, gameVars>>

(* handle has returned: the library closes the channel.                    *)
Hangup ==
    /\ h = "exit" /\ ~channelClosed
    /\ client' = "closed"
    /\ UNCHANGED <<typed, resized, h, pipe, dst, pumpVars, winchVars, chanVars, lobbyVars, gameVars>>

Quiescent ==
    /\ h = "exit" /\ pump = "done" /\ winch = "done"
    /\ watcher \in {"off", "done"} /\ copier = "off" /\ forwarder = "off"

Finished == Quiescent /\ UNCHANGED vars

HandlerStep ==
    \/ SetLobby \/ AttachLobby \/ LobbyReturns
    \/ RevokeDest("revokeLobby", "closeLobby") \/ ClosePipe("closeLobby", "admit")
    \/ Dispatch \/ Admit \/ SetGame \/ AttachGame \/ Dialed
    \/ BridgeReturns \/ DetachGame
    \/ RevokeDest("revokeGame", "closeGame") \/ ClosePipe("closeGame", "check")
    \/ Check \/ Hangup

PumpStep == PumpRead \/ PumpRoute \/ PumpDrop \/ PumpEOF \/ PumpCloseDest
WinchStep == WinchRecv \/ WinchTry \/ WinchDrain \/ WinchEnd
WatcherStep == WatcherQuits \/ WatcherResizes \/ WatcherSent

Next ==
    \/ Type \/ Resize \/ ClientLeaves
    \/ PumpStep \/ WinchStep
    \/ HandlerStep \/ Opened
    \/ ProgKey \/ ProgIdle \/ ProgSwallow
    \/ WatcherStep \/ WatcherStops
    \/ CopyChunk \/ CopyFails \/ CopyEnds \/ Forward \/ ForwardEnds
    \/ GameEnds \/ GameEndsOnEOF \/ CtxCloses
    \/ Finished

(* Every goroutine of the process runs; a running program reads its input; *)
(* a dial ends by its deadline; a game exits on stdin EOF (bridge.go:154   *)
(* relies on it).  Only a game that answers makes Opened fair.  The watcher's  *)
(* select is random, so a stop that stays ready is taken in the end.       *)
Fairness ==
    /\ WF_vars(HandlerStep)
    /\ WF_vars(PumpStep) /\ WF_vars(WinchStep)
    /\ WF_vars(ProgKey) /\ WF_vars(WatcherStep) /\ SF_vars(WatcherStops)
    /\ WF_vars(CopyChunk) /\ WF_vars(CopyEnds)
    /\ WF_vars(Forward) /\ WF_vars(ForwardEnds)
    /\ WF_vars(GameEndsOnEOF) /\ WF_vars(CtxCloses)
    /\ GameAnswers => WF_vars(Opened)

Spec == Init /\ [][Next]_vars
FairSpec == Spec /\ Fairness

----------------------------------------------------------------------------
(* "a resize during a mode switch is never lost": whenever the winch pump  *)
(* is at rest, the attached consumer has the latest size or it waits in    *)
(* the consumer's channel, although deliver drops stale sizes while the    *)
(* consumer takes them.                                                    *)
LatestSizeDelivered ==
    wdst = "cur" /\ winch = "recv" /\ latest # 0 => latest \in {wbuf, wseen}

(* Within one visit the game receives the chunks the player typed without  *)
(* a gap and in order: no other reader swallows one.                       *)
NoKeySwallowed ==
    [][gameGot # 0 /\ gameGot' \notin {0, gameGot} => gameGot' = gameGot + 1]_vars

(* The pump never wedges: a chunk being written is taken by the active     *)
(* side or dropped when that side is switched off.                         *)
PumpNeverWedged == (pump = "write") ~> (pump # "write")

(* "whichever side closes first tears down the other", player first: once  *)
(* the player's connection is dead, the handler returns and gives seat and *)
(* slot back.                                                              *)
DeadPlayerLeaves == ctxDone ~> (h = "exit")

(* closeDest "propagates session EOF to the active consumer": when the     *)
(* player's input ends, the lobby or the game shuts down and the session   *)
(* with it.                                                                *)
EndOfInputLeaves == pumpDone ~> (h = "exit")

(* When the player's input ends in a game, its stdin is closed, the game   *)
(* exits, and the session ends, at once or from the menu it went back to   *)
(* because the game was quicker than the pump's last step.                 *)
EndOfInputEndsGame == (h = "waiting" /\ pipe = "eof") ~> (h = "exit")

(* No goroutine outlives its session: after handle returns, both pumps,    *)
(* the watcher and the bridge's helpers end.                               *)
NoGoroutineLeaks == (h = "exit") ~> Quiescent
=============================================================================

------------------------ MODULE ShellSessionProofs -------------------------
(***************************************************************************)
(* One terminal, two pumps and a handler that switches them: no resize is  *)
(* lost and no key of a game is taken by another reader, for any number of *)
(* keys, resizes and visits.                                               *)
(*                                                                         *)
(* Sizes.  LatestSizeDelivered speaks of a winch pump at rest.  It is      *)
(* inductive once it also covers a deliver that goes on with the channel   *)
(* of an earlier mode (Settled), and says that what waits in the channel   *)
(* is never older than what the consumer took.                             *)
(*                                                                         *)
(* Keys.  While the game of this visit is alive, every chunk the pump has  *)
(* read is the game's or on its way to it (Gapless).  That needs who owns  *)
(* the pipe in which part of handle (Visit, Fresh, Live).                  *)
(***************************************************************************)
EXTENDS ShellSession, TLAPS

(* The attached consumer has the latest size, or it is next in its         *)
(* channel.                                                                *)
Settled ==
    /\ winch \in {"try", "drain"} => winchDst \in {"cur", "old"}
    /\ wdst = "cur" /\ latest # 0
       /\ (winch = "recv" \/ (winch \in {"try", "drain"} /\ winchDst = "old"))
          => wbuf = latest \/ (wbuf = 0 /\ wseen = latest)

(* From SetDest(pw) to SetDest(nil) of a bridge.                           *)
InGame == {"attachGame", "dialing", "opening", "waiting", "detachGame", "revokeGame"}

(* The pump writes to the bridge's pipe, which nobody has closed, and no   *)
(* menu program is there to read.                                          *)
Visit == h \in InGame => dst = "cur" /\ pipe \in {"open", "eof"} /\ prog = "off"

(* Before the game's shell is open, it has received nothing.               *)
Fresh == h \in {"attachGame", "dialing", "opening"} => gameGot = 0

Live == up # "none" => h = "waiting"

(* The chunk after the last one received is the one in the pump's hands.   *)
Gapless ==
    up = "live" /\ copier = "copy" /\ gameGot # 0 =>
        /\ taken = gameGot + (IF pump \in {"route", "write"} THEN 1 ELSE 0)
        /\ pump = "write" => pumpDst = "cur"

(* The parts of TypeOK.                                                    *)
FlagsOK == wclosed \in BOOLEAN /\ stopW \in BOOLEAN /\ stdinEOF \in BOOLEAN

CountsOK ==
    /\ typed \in 0..MaxTyped /\ taken \in 0..typed /\ gameGot \in 0..MaxTyped
    /\ resized \in 0..MaxResizes /\ got \in 0..resized
    /\ wbuf \in 0..MaxResizes /\ latest \in 0..MaxResizes /\ wseen \in 0..MaxResizes

StatesOK ==
    /\ client \in {"open", "eof", "closed", "gone"}
    /\ h \in Places /\ result \in {"none", "play", "leave"}
    /\ pipe \in {"none", "open", "eof", "closed"}
    /\ dst \in {"none", "cur"} /\ wdst \in {"none", "cur"}
    /\ pump \in {"read", "route", "write", "eof", "closing", "ending", "done"}
    /\ pumpDst \in Holding /\ winchDst \in Holding
    /\ winch \in {"recv", "try", "drain", "closing", "done"}
    /\ prog \in {"off", "running", "ended"}
    /\ watcher \in {"off", "watching", "sending", "quitting", "done"}
    /\ up \in {"none", "live", "ended"}
    /\ copier \in {"off", "copy", "old"} /\ forwarder \in {"off", "on", "old"}

(* Whose step a step of Next is.                                           *)
PlayerMoves ==
    Type \/ Resize \/ ClientLeaves \/ Hangup
RunLobbyMoves ==
    SetLobby \/ AttachLobby \/ LobbyReturns
    \/ RevokeDest("revokeLobby", "closeLobby") \/ ClosePipe("closeLobby", "admit")
BridgeMoves ==
    Dispatch \/ Admit \/ SetGame \/ AttachGame \/ Dialed \/ Opened \/ BridgeReturns \/ DetachGame
    \/ RevokeDest("revokeGame", "closeGame") \/ ClosePipe("closeGame", "check") \/ Check
MenuMoves ==
    ProgKey \/ ProgIdle \/ ProgSwallow \/ WatcherStep \/ WatcherStops
HelperMoves ==
    CopyChunk \/ CopyFails \/ CopyEnds \/ Forward \/ ForwardEnds
    \/ GameEnds \/ GameEndsOnEOF \/ CtxCloses

IInv == TypeOK /\ Settled /\ Visit /\ Fresh /\ Live /\ Gapless

----------------------------------------------------------------------------
LEMMA TypeParts == TypeOK <=> FlagsOK /\ CountsOK /\ StatesOK
  BY DEF TypeOK, FlagsOK, CountsOK, StatesOK

LEMMA TypePartsNext == TypeOK' <=> FlagsOK' /\ CountsOK' /\ StatesOK'
  BY DEF TypeOK, FlagsOK, CountsOK, StatesOK

(* Every step is somebody's, or the stuttering of a session that is over.  *)
LEMMA Moves ==
  ASSUME [Next]_vars
  PROVE  \/ PlayerMoves \/ PumpStep \/ WinchStep \/ RunLobbyMoves
         \/ BridgeMoves \/ MenuMoves \/ HelperMoves \/ UNCHANGED vars
  BY DEF Next, HandlerStep, Finished, PlayerMoves, RunLobbyMoves, BridgeMoves, MenuMoves,
         HelperMoves

LEMMA InitIInv == Init => IInv
  <1> SUFFICES ASSUME Init PROVE IInv
    OBVIOUS
  <1>1. FlagsOK
    BY DEF Init, FlagsOK
  <1>2. CountsOK
    BY ShellAssumption DEF Init, CountsOK
  <1>3. StatesOK
    BY DEF Init, StatesOK, Places, Holding
  <1>4. Settled /\ Visit /\ Fresh /\ Live /\ Gapless
    BY DEF Init, Settled, Visit, Fresh, Live, Gapless, InGame
  <1> QED BY <1>1, <1>2, <1>3, <1>4, TypeParts DEF IInv

(* Types.                                                                  *)
LEMMA TypeStep == ASSUME TypeOK, [Next]_vars PROVE TypeOK'
  <1> USE ShellAssumption DEF clientVars, pumpVars, winchVars, chanVars, lobbyVars, gameVars
  <1>1. CASE PlayerMoves
    <2> USE <1>1 DEF PlayerMoves, Type, Resize, ClientLeaves, Hangup
    <2>1. FlagsOK'
      BY TypeParts DEF FlagsOK
    <2>2. CountsOK'
      BY TypeParts DEF CountsOK
    <2>3. StatesOK'
      BY TypeParts DEF StatesOK, Places, Holding
    <2> QED BY <2>1, <2>2, <2>3, TypePartsNext
  <1>2. CASE PumpStep
    <2> USE <1>2 DEF PumpStep, PumpRead, PumpRoute, PumpDrop, PumpEOF, PumpCloseDest
    <2>1. FlagsOK'
      BY TypeParts DEF FlagsOK
    <2>2. CountsOK'
      BY TypeParts DEF CountsOK
    <2>3. StatesOK'
      BY TypeParts DEF StatesOK, Places, Holding
    <2> QED BY <2>1, <2>2, <2>3, TypePartsNext
  <1>3. CASE WinchStep
    <2> USE <1>3 DEF WinchStep, WinchRecv, WinchTry, WinchDrain, WinchEnd
    <2>1. FlagsOK'
      BY TypeParts DEF FlagsOK
    <2>2. CountsOK'
      BY TypeParts DEF CountsOK
    <2>3. StatesOK'
      BY TypeParts DEF StatesOK, Places, Holding
    <2> QED BY <2>1, <2>2, <2>3, TypePartsNext
  <1>4. CASE RunLobbyMoves
    <2> USE <1>4
       DEF RunLobbyMoves, SetLobby, AttachLobby, LobbyReturns, RevokeDest, ClosePipe, Goto,
           NewPipe, Attach, Detach, Aged
    <2>1. FlagsOK'
      BY TypeParts DEF FlagsOK
    <2>2. CountsOK'
      BY TypeParts DEF CountsOK
    <2>3. StatesOK'
      BY TypeParts DEF StatesOK, Places, Holding
    <2> QED BY <2>1, <2>2, <2>3, TypePartsNext
  <1>5. CASE BridgeMoves
    <2> USE <1>5
       DEF BridgeMoves, Dispatch, Admit, SetGame, AttachGame, Dialed, Opened, BridgeReturns,
           DetachGame, RevokeDest, ClosePipe, Check, Goto, NewPipe, Attach, Detach, Aged
    <2>1. FlagsOK'
      BY TypeParts DEF FlagsOK
    <2>2. CountsOK'
      BY TypeParts DEF CountsOK
    <2>3. StatesOK'
      BY TypeParts DEF StatesOK, Places, Holding
    <2> QED BY <2>1, <2>2, <2>3, TypePartsNext
  <1>6. CASE MenuMoves
    <2> USE <1>6 DEF MenuMoves, ProgKey, ProgIdle, ProgSwallow, Handover, WatcherStep, WatcherQuits,
           WatcherResizes, WatcherSent, WatcherStops
    <2>1. FlagsOK'
      BY TypeParts DEF FlagsOK
    <2>2. CountsOK'
      BY TypeParts DEF CountsOK
    <2>3. StatesOK'
      BY TypeParts DEF StatesOK, Places, Holding
    <2> QED BY <2>1, <2>2, <2>3, TypePartsNext
  <1>7. CASE HelperMoves
    <2> USE <1>7 DEF HelperMoves, CopyChunk, CopyFails, CopyEnds, Handover, Forward, ForwardEnds,
           GameEnds, GameEndsOnEOF, CtxCloses
    <2>1. FlagsOK'
      BY TypeParts DEF FlagsOK
    <2>2. CountsOK'
      BY TypeParts DEF CountsOK
    <2>3. StatesOK'
      BY TypeParts DEF StatesOK, Places, Holding
    <2> QED BY <2>1, <2>2, <2>3, TypePartsNext
  <1>8. CASE UNCHANGED vars
    BY <1>8 DEF TypeOK, vars
  <1> QED BY Moves, <1>1, <1>2, <1>3, <1>4, <1>5, <1>6, <1>7, <1>8

(* What the pump delivers, drops and primes, and what consumers take.      *)
LEMMA SizesStep == ASSUME TypeOK, Settled, [Next]_vars PROVE Settled'
  <1> USE ShellAssumption DEF clientVars, pumpVars, winchVars, chanVars, lobbyVars, gameVars
  <1>1. CASE PlayerMoves
    BY <1>1 DEF Settled, TypeOK, PlayerMoves, Type, Resize, ClientLeaves, Hangup
  <1>2. CASE PumpStep
    BY <1>2 DEF Settled, TypeOK, PumpStep, PumpRead, PumpRoute, PumpDrop, PumpEOF, PumpCloseDest
  <1>3. CASE WinchStep
    BY <1>3 DEF Settled, TypeOK, WinchStep, WinchRecv, WinchTry, WinchDrain, WinchEnd
  <1>4. CASE RunLobbyMoves
    BY <1>4 DEF Settled, TypeOK, RunLobbyMoves, SetLobby, AttachLobby, LobbyReturns, RevokeDest,
           ClosePipe, Goto, NewPipe, Attach, Detach, Aged
  <1>5. CASE BridgeMoves
    BY <1>5 DEF Settled, TypeOK, BridgeMoves, Dispatch, Admit, SetGame, AttachGame, Dialed, Opened,
           BridgeReturns, DetachGame, RevokeDest, ClosePipe, Check, Goto, NewPipe, Attach,
           Detach, Aged
  <1>6. CASE MenuMoves
    BY <1>6 DEF Settled, TypeOK, MenuMoves, ProgKey, ProgIdle, ProgSwallow, Handover, WatcherStep,
           WatcherQuits, WatcherResizes, WatcherSent, WatcherStops
  <1>7. CASE HelperMoves
    BY <1>7 DEF Settled, TypeOK, HelperMoves, CopyChunk, CopyFails, CopyEnds, Handover, Forward,
           ForwardEnds, GameEnds, GameEndsOnEOF, CtxCloses
  <1>8. CASE UNCHANGED vars
    BY <1>8 DEF Settled, TypeOK, vars
  <1> QED BY Moves, <1>1, <1>2, <1>3, <1>4, <1>5, <1>6, <1>7, <1>8

(* Who reads the pump's chunks.                                            *)
LEMMA KeysStep ==
    ASSUME TypeOK, Visit, Fresh, Live, Gapless, [Next]_vars
    PROVE  Visit' /\ Fresh' /\ Live' /\ Gapless'
  <1> USE ShellAssumption DEF clientVars, pumpVars, winchVars, chanVars, lobbyVars, gameVars
  <1>1. CASE PlayerMoves
    BY <1>1
       DEF Visit, Fresh, Live, Gapless, InGame, TypeOK, PlayerMoves, Type, Resize, ClientLeaves,
           Hangup
  <1>2. CASE PumpStep
    BY <1>2
       DEF Visit, Fresh, Live, Gapless, InGame, TypeOK, PumpStep, PumpRead, PumpRoute, PumpDrop,
           PumpEOF, PumpCloseDest
  <1>3. CASE WinchStep
    BY <1>3 DEF Visit, Fresh, Live, Gapless, InGame, TypeOK, WinchStep, WinchRecv, WinchTry,
           WinchDrain, WinchEnd
  <1>4. CASE RunLobbyMoves
    BY <1>4 DEF Visit, Fresh, Live, Gapless, InGame, TypeOK, RunLobbyMoves, SetLobby, AttachLobby,
           LobbyReturns, RevokeDest, ClosePipe, Goto, NewPipe, Attach, Detach, Aged
  <1>5. CASE BridgeMoves
    BY <1>5 DEF Visit, Fresh, Live, Gapless, InGame, TypeOK, BridgeMoves, Dispatch, Admit, SetGame,
           AttachGame, Dialed, Opened, BridgeReturns, DetachGame, RevokeDest, ClosePipe, Check,
           Goto, NewPipe, Attach, Detach, Aged
  <1>6. CASE MenuMoves
    BY <1>6 DEF Visit, Fresh, Live, Gapless, InGame, TypeOK, MenuMoves, ProgKey, ProgIdle,
           ProgSwallow, Handover, WatcherStep, WatcherQuits, WatcherResizes, WatcherSent,
           WatcherStops
  <1>7. CASE HelperMoves
    BY <1>7 DEF Visit, Fresh, Live, Gapless, InGame, TypeOK, HelperMoves, CopyChunk, CopyFails,
           CopyEnds, Handover, Forward, ForwardEnds, GameEnds, GameEndsOnEOF, CtxCloses
  <1>8. CASE UNCHANGED vars
    BY <1>8 DEF Visit, Fresh, Live, Gapless, InGame, TypeOK, vars
  <1> QED BY Moves, <1>1, <1>2, <1>3, <1>4, <1>5, <1>6, <1>7, <1>8

----------------------------------------------------------------------------
(* The invariant, and with it the types, in every state of a session.      *)
THEOREM Invariance == Spec => []IInv
  <1>1. IInv /\ [Next]_vars => IInv'
    BY TypeStep, SizesStep, KeysStep DEF IInv
  <1> QED BY InitIInv, <1>1, PTL DEF Spec

(* No resize is lost to the side that is attached when the winch pump is   *)
(* at rest, whatever deliver dropped and whichever mode it was dropped in. *)
THEOREM SizesCorrect == Spec => []LatestSizeDelivered
  <1>1. IInv => LatestSizeDelivered
    BY DEF IInv, Settled, LatestSizeDelivered
  <1> QED BY Invariance, <1>1, PTL

(* A game gets the chunks of its visit without a gap and in order.         *)
THEOREM KeysCorrect == Spec => NoKeySwallowed
  <1> DEFINE Step == gameGot # 0 /\ gameGot' \notin {0, gameGot} => gameGot' = gameGot + 1
  <1>1. ASSUME IInv, CopyChunk PROVE Step
    BY <1>1 DEF IInv, Gapless, CopyChunk, Handover
  <1>2. ASSUME [Next]_vars, ~CopyChunk PROVE gameGot' \in {0, gameGot}
    <2>1. CASE PlayerMoves
      BY <1>2, <2>1 DEF PlayerMoves, Type, Resize, ClientLeaves, Hangup, gameVars
    <2>2. CASE PumpStep
      BY <1>2, <2>2 DEF PumpStep, PumpRead, PumpRoute, PumpDrop, PumpEOF, PumpCloseDest, gameVars
    <2>3. CASE WinchStep
      BY <1>2, <2>3 DEF WinchStep, WinchRecv, WinchTry, WinchDrain, WinchEnd, gameVars
    <2>4. CASE RunLobbyMoves
      BY <1>2, <2>4
         DEF RunLobbyMoves, SetLobby, AttachLobby, LobbyReturns, RevokeDest, ClosePipe, Goto,
             NewPipe, Attach, Detach, Aged, gameVars
    <2>5. CASE BridgeMoves
      BY <1>2, <2>5
         DEF BridgeMoves, Dispatch, Admit, SetGame, AttachGame, Dialed, Opened, BridgeReturns,
             DetachGame, RevokeDest, ClosePipe, Check, Goto, NewPipe, Attach, Detach, Aged,
             gameVars
    <2>6. CASE MenuMoves
      BY <1>2, <2>6
         DEF MenuMoves, ProgKey, ProgIdle, ProgSwallow, Handover, WatcherStep, WatcherQuits,
             WatcherResizes, WatcherSent, WatcherStops, gameVars
    <2>7. CASE HelperMoves
      BY <1>2, <2>7 DEF HelperMoves, CopyFails, CopyEnds, Handover, Forward, ForwardEnds, GameEnds,
             GameEndsOnEOF, CtxCloses, gameVars
    <2>8. CASE UNCHANGED vars
      BY <2>8 DEF vars, gameVars
    <2> QED BY <1>2, Moves, <2>1, <2>2, <2>3, <2>4, <2>5, <2>6, <2>7, <2>8
  <1>3. IInv /\ [Next]_vars => [Step]_vars
    BY <1>1, <1>2
  <1> QED BY Invariance, <1>3, PTL DEF Spec, NoKeySwallowed

----------------------------------------------------------------------------
(* Between modes.  What each part of handle and runLobby still owns.       *)
InLobby == {"attachLobby", "lobby", "detachLobby", "stopWatcher", "joinWatcher", "revokeLobby"}

Owned ==
    /\ dst = "cur" => h \in InLobby \cup InGame
    /\ wdst = "cur" => h \in {"lobby", "detachLobby", "dialing", "opening", "waiting", "detachGame"}
    /\ h \in {"setLobby", "admit", "setGame", "check", "exit"} => pipe \in {"none", "closed"}
    /\ prog = "running" => h = "lobby"
    /\ watcher \in {"watching", "sending", "quitting"} =>
            h \in {"lobby", "detachLobby", "stopWatcher", "joinWatcher"}

(* The deferred calls of runLobby and of the bridge's mode leave nothing   *)
(* behind: when handle starts the next mode, or returns, neither pump has  *)
(* a destination, the last pipe is closed, so that a write to it is        *)
(* dropped and a read of it ends, and neither the menu's program, nor its  *)
(* watcher, nor a game's session is running.                               *)
NothingAttached ==
    h \in {"setLobby", "setGame", "exit"} =>
        /\ dst = "none" /\ wdst = "none" /\ pipe \in {"none", "closed"}
        /\ prog # "running" /\ watcher \in {"off", "done"} /\ up = "none"

LEMMA OwnedStep == ASSUME TypeOK, Owned, [Next]_vars PROVE Owned'
  <1> USE DEF TypeOK, Owned, InLobby, InGame, clientVars, pumpVars, winchVars, chanVars,
              lobbyVars, gameVars
  <1>1. CASE PlayerMoves
    BY <1>1 DEF PlayerMoves, Type, Resize, ClientLeaves, Hangup
  <1>2. CASE PumpStep
    BY <1>2 DEF PumpStep, PumpRead, PumpRoute, PumpDrop, PumpEOF, PumpCloseDest
  <1>3. CASE WinchStep
    BY <1>3 DEF WinchStep, WinchRecv, WinchTry, WinchDrain, WinchEnd
  <1>4. CASE RunLobbyMoves
    BY <1>4 DEF RunLobbyMoves, SetLobby, AttachLobby, LobbyReturns, RevokeDest, ClosePipe, Goto,
           NewPipe, Attach, Detach
  <1>5. CASE BridgeMoves
    BY <1>5 DEF BridgeMoves, Dispatch, Admit, SetGame, AttachGame, Dialed, Opened, BridgeReturns,
           DetachGame, RevokeDest, ClosePipe, Check, Goto, NewPipe, Attach, Detach
  <1>6. CASE MenuMoves
    BY <1>6 DEF MenuMoves, ProgKey, ProgIdle, ProgSwallow, Handover, WatcherStep, WatcherQuits,
           WatcherResizes, WatcherSent, WatcherStops
  <1>7. CASE HelperMoves
    BY <1>7 DEF HelperMoves, CopyChunk, CopyFails, CopyEnds, Handover, Forward, ForwardEnds,
           GameEnds, GameEndsOnEOF, CtxCloses
  <1>8. CASE UNCHANGED vars
    BY <1>8 DEF vars
  <1> QED BY Moves, <1>1, <1>2, <1>3, <1>4, <1>5, <1>6, <1>7, <1>8

(* Nothing of one mode is left when the next one starts or handle returns: *)
(* the safety core of PumpNeverWedged and NoGoroutineLeaks.                *)
THEOREM ModesApart == Spec => []NothingAttached
  <1>1. Init => Owned
    BY DEF Init, Owned, InLobby, InGame
  <1>2. IInv /\ Owned /\ [Next]_vars => Owned'
    BY OwnedStep DEF IInv
  <1>3. IInv /\ Owned => NothingAttached
    BY DEF IInv, TypeOK, Live, Owned, InLobby, InGame, NothingAttached
  <1> QED BY Invariance, <1>1, <1>2, <1>3, PTL DEF Spec
=============================================================================

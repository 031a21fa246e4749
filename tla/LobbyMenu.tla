----------------------------- MODULE LobbyMenu -----------------------------
(***************************************************************************)
(* internal/lobby: one visit to the menu, from New to the end of its       *)
(* Bubble Tea program, and which rows view.go draws.                       *)
(*                                                                         *)
(* Update handles one message at a time on copies of the game list and the *)
(* notice that only a poke or a tick refreshes.  Beside it run the         *)
(* goroutines of its commands (a wait per armed poke channel, the tick,    *)
(* the QuitMsg on its way), and the registry and the banner, which change  *)
(* at any moment, also between the two registry reads of one Update, and   *)
(* poke only after they released the lock they changed under.              *)
(*                                                                         *)
(* Left out: texts, flashes, colours and the blinking cursor.  A click is  *)
(* abstracted to the box it hits; whether it is the second of a double     *)
(* click is arbitrary.  A terminal too small for the frame draws no row to *)
(* click and takes every key.                                              *)
(***************************************************************************)
EXTENDS Integers, Sequences

CONSTANTS
    Lists,          \* what Games() may return: sequences of games
    NoID,           \* the empty game id
    Stored,         \* the acknowledgements the store has of a keyed player
    IdleTicks,      \* bound: ticks without input until the idle timeout
    MaxChanges      \* bound: changes of the registry and the banner

(* A game of a list.  loadFile rejects an empty list and duplicate ids.    *)
Games == UNION {{l[i] : i \in 1..Len(l)} : l \in Lists}
IDs == {g.id : g \in Games}

ASSUME MenuAssumption ==
    /\ \A l \in Lists : Len(l) \in Nat \ {0}
    /\ \A l \in Lists : \A i, j \in 1..Len(l) : l[i].id = l[j].id => i = j
    /\ \A g \in Games : g.online \in BOOLEAN /\ g.guests \in BOOLEAN /\ g.alpha \in BOOLEAN
    /\ NoID \notin IDs /\ Stored \subseteq IDs
    /\ IdleTicks \in Nat \ {0}
    /\ MaxChanges \in Nat

Channels == {"registry", "banner"}
None == [kind |-> "none", id |-> NoID]
Nothing == [id |-> NoID, alpha |-> FALSE, agreed |-> FALSE]

VARIABLES
    reg, on, changes,       \* the registry's list, the banner's flag
    owed,                   \* changes made whose notify is still to come
    guest, acks,            \* m.guest; the acknowledgements m.prefs keeps
    games, notice, cursor,  \* the model's copies, and the selected index from 0
    overlay, alphaGame, dontShow,
    idle, ticking,          \* ticks since the last input; a tick is armed
    launching,              \* Update is inside launchGame, for this id
    result, quit, over,     \* m.result, a QuitMsg is on its way, Run has returned
    token, waits, msgs,     \* channel buffers, waiting pokeCmds, pokeMsgs on the way
    aim                     \* ghost: the game activated, until it is launched or not

extVars == <<reg, on, changes, owed>>
menuVars == <<games, notice, cursor>>
dialogVars == <<overlay, alphaGame, dontShow, acks>>
launchVars == <<launching, aim>>
endVars == <<result, quit, over>>
clockVars == <<idle, ticking>>
pokeVars == <<token, waits, msgs>>
vars == <<extVars, guest, menuVars, dialogVars, launchVars, endVars, clockVars, pokeVars>>

TypeOK ==
    /\ reg \in Lists /\ on \in BOOLEAN /\ changes \in 0..MaxChanges
    /\ owed \in [Channels -> Nat]
    /\ guest \in BOOLEAN /\ acks \subseteq IDs
    /\ games \in Lists /\ notice \in BOOLEAN
    /\ cursor \in 0..Len(games) - 1
    /\ overlay \in {"none", "about", "alpha"}
    /\ alphaGame \in IDs \cup {NoID} /\ dontShow \in BOOLEAN
    /\ idle \in 0..IdleTicks /\ ticking \in BOOLEAN
    /\ launching \in IDs \cup {NoID}
    /\ result \in [kind : {"none", "play", "quit", "idle"}, id : IDs \cup {NoID}]
    /\ quit \in BOOLEAN /\ over \in BOOLEAN
    /\ token \in [Channels -> BOOLEAN] /\ waits \in [Channels -> Nat] /\ msgs \in Nat
    /\ aim \in [id : IDs \cup {NoID}, alpha : BOOLEAN, agreed : BOOLEAN]

(* New and Model.Init, after runLobby subscribed both channels.  A guest's *)
(* preferences start empty, a keyed player's come from the store.          *)
Init ==
    /\ reg \in Lists /\ on \in BOOLEAN /\ changes = 0 /\ owed = [c \in Channels |-> 0]
    /\ guest \in BOOLEAN
    /\ acks = IF guest THEN {} ELSE Stored
    /\ games = reg /\ notice = on /\ cursor = 0
    /\ overlay = "none" /\ alphaGame = NoID /\ dontShow = FALSE
    /\ idle = 0 /\ ticking = TRUE
    /\ launching = NoID
    /\ result = None /\ quit = FALSE /\ over = FALSE
    /\ token = [c \in Channels |-> FALSE]
    /\ waits = [c \in Channels |-> 1]
    /\ msgs = 0
    /\ aim = Nothing

----------------------------------------------------------------------------
(* view.go: the rows of the game list.                                     *)
gamesTopRow == 1
maxVisible == 7
bannerReserveRows == 4
identityRow == 16

gamesOrigin == IF notice THEN gamesTopRow + bannerReserveRows ELSE gamesTopRow

Clamp(n, low, high) == IF n < low THEN low ELSE IF n > high THEN high ELSE n

maxVisibleGames ==
    IF notice THEN Clamp((identityRow - gamesOrigin) \div 2, 1, maxVisible) ELSE maxVisible

(* Mutant of scrollOffset: the off-by-one that stops a row too early.      *)
MutScrollLate(limit) ==
    IF Len(games) <= limit THEN 0 ELSE Clamp(cursor - limit, 0, Len(games) - limit)

scrollOffset(limit) ==
    IF Len(games) <= limit THEN 0 ELSE Clamp(cursor - limit + 1, 0, Len(games) - limit)

(* fillMenu: the indices whose two lines end above the identity row, each  *)
(* with a hitbox.                                                          *)
Drawn ==
    LET first == scrollOffset(maxVisibleGames)
    IN  {i \in 0..Len(games) - 1 :
            /\ i \in first..first + maxVisibleGames - 1
            /\ gamesOrigin + 2 * (i - first) + 1 < identityRow - 1}

----------------------------------------------------------------------------
(* registry.Playable on what Games() returns now.                          *)
Playable(id) ==
    {g \in {reg[i] : i \in 1..Len(reg)} : g.id = id /\ g.online /\ (guest => g.guests)}

(* refreshGames' clamp of the cursor to a list of n games.                 *)
KeepCursor(n) == Clamp(cursor, 0, n - 1)

(* refreshGames and refreshBanner.                                         *)
Refresh ==
    /\ games' = reg
    /\ cursor' = KeepCursor(Len(reg))
    /\ notice' = on

(* A reload or a probe changes the registry, a reload or an expiry the     *)
(* banner, under its lock.                                                 *)
Change(c) ==
    /\ changes < MaxChanges /\ ~over
    /\ changes' = changes + 1
    /\ \/ c = "registry" /\ reg' \in Lists \ {reg} /\ UNCHANGED on
       \/ c = "banner" /\ on' = ~on /\ UNCHANGED reg
    /\ owed' = [owed EXCEPT ![c] = @ + 1]
    /\ UNCHANGED <<guest, menuVars, dialogVars, launchVars, endVars, clockVars, pokeVars>>

(* Its notify, in a critical section of its own: a token, if there is none. *)
Notify(c) ==
    /\ owed[c] > 0
    /\ owed' = [owed EXCEPT ![c] = @ - 1]
    /\ token' = [token EXCEPT ![c] = TRUE]
    /\ UNCHANGED <<reg, on, changes, guest, menuVars, dialogVars, launchVars, endVars, clockVars, waits, msgs>>

(* A waiting pokeCmd receives; its pokeMsg goes to the program, which has  *)
(* no ear for it any more once Run has returned.                           *)
WaitReturns(c) ==
    /\ waits[c] > 0 /\ token[c]
    /\ token' = [token EXCEPT ![c] = FALSE]
    /\ waits' = [waits EXCEPT ![c] = @ - 1]
    /\ msgs' = IF over THEN msgs ELSE msgs + 1
    /\ UNCHANGED <<extVars, guest, menuVars, dialogVars, launchVars, endVars, clockVars>>

Ready == ~over /\ launching = NoID

(* Mutant of Rearmed: wait again only where the poke probably came from.   *)
MutRearmRegistry == [waits EXCEPT !["registry"] = @ + 1]

(* pokeMsg re-arms both channels, whichever was consumed.                  *)
Rearmed == [c \in Channels |-> waits[c] + 1]

Poked ==
    /\ Ready /\ msgs > 0
    /\ msgs' = msgs - 1
    /\ Refresh
    /\ waits' = Rearmed
    /\ UNCHANGED <<extVars, guest, dialogVars, launchVars, endVars, clockVars, token>>

(* Mutant of Tick: not armed again while a dialog is open.                 *)
MutTickOnce ==
    /\ Ready /\ ticking
    /\ Refresh
    /\ idle' = idle + 1
    /\ ticking' = (idle' < IdleTicks /\ overlay = "none")
    /\ IF idle' = IdleTicks
         THEN result' = [None EXCEPT !.kind = "idle"] /\ quit' = TRUE
         ELSE UNCHANGED <<result, quit>>
    /\ UNCHANGED <<extVars, guest, dialogVars, launchVars, over, pokeVars>>

(* tickMsg: refresh, and leave when the player has been idle too long; the *)
(* tick is armed again only if not.                                        *)
Tick ==
    /\ Ready /\ ticking
    /\ Refresh
    /\ idle' = idle + 1
    /\ ticking' = (idle' < IdleTicks)
    /\ IF idle' = IdleTicks
         THEN result' = [None EXCEPT !.kind = "idle"] /\ quit' = TRUE
         ELSE UNCHANGED <<result, quit>>
    /\ UNCHANGED <<extVars, guest, dialogVars, launchVars, over, pokeVars>>

----------------------------------------------------------------------------
(* Input: handleKey, handleClick, handleWheel.  All of it resets the idle  *)
(* clock.                                                                  *)
Input == Ready /\ idle' = 0 /\ UNCHANGED <<extVars, guest, ticking, pokeVars, over>>

(* A key or click that means nothing here; r, which only kicks the prober. *)
Ignored ==
    /\ Input
    /\ UNCHANGED <<games, notice, cursor, dialogVars, launchVars, result, quit>>

(* ctrl+c anywhere, q outside the dialogs.                                 *)
Quit ==
    /\ Input
    /\ result' = [None EXCEPT !.kind = "quit"] /\ quit' = TRUE
    /\ UNCHANGED <<games, notice, cursor, dialogVars, launchVars>>

(* About opens on ?, and goes on any key or left click.                    *)
About ==
    /\ Input
    /\ \/ overlay = "none" /\ overlay' = "about"
       \/ overlay = "about" /\ overlay' = "none"
    /\ UNCHANGED <<games, notice, cursor, alphaGame, dontShow, acks, launchVars, result, quit>>

(* moveCursor, by key or wheel.                                            *)
Move(delta) ==
    /\ Input /\ overlay = "none"
    /\ cursor' = Clamp(cursor + delta, 0, Len(games) - 1)
    /\ UNCHANGED <<games, notice, dialogVars, launchVars, result, quit>>

(* A click on a drawn row that is not the selected one, and no double.     *)
Select(i) ==
    /\ Input /\ overlay = "none"
    /\ i \in Drawn \ {cursor}
    /\ cursor' = i
    /\ UNCHANGED <<games, notice, dialogVars, launchVars, result, quit>>

(* needsAlphaWarning: a failing store reads as "not acknowledged"; a       *)
(* guest's map does not fail.                                              *)
Warns(g) == g.alpha /\ (g.id \notin acks \/ ~guest)
Trusted(g) == g.alpha => g.id \in acks

(* activate on index i: enter or space on the selected row, or a click on  *)
(* it or the second of a double click.  The row comes from the copy, its   *)
(* status from the registry.                                               *)
Activate(i) ==
    /\ Input /\ overlay = "none"
    /\ i = cursor \/ i \in Drawn
    /\ cursor' = i
    /\ LET id == games[i + 1].id
       IN  \/ /\ Playable(id) = {}
              /\ UNCHANGED <<dialogVars, launchVars>>
           \/ \E g \in Playable(id) :
                /\ aim' = [id |-> id, alpha |-> g.alpha, agreed |-> FALSE]
                /\ \/ /\ Warns(g)
                      /\ overlay' = "alpha" /\ alphaGame' = id /\ dontShow' = FALSE
                      /\ UNCHANGED <<acks, launching>>
                   \/ /\ Trusted(g)
                      /\ launching' = id
                      /\ UNCHANGED dialogVars
    /\ UNCHANGED <<games, notice, result, quit>>

Toggle ==
    /\ Input /\ overlay = "alpha"
    /\ dontShow' = ~dontShow
    /\ UNCHANGED <<games, notice, cursor, overlay, alphaGame, acks, launchVars, result, quit>>

(* The dialog goes; its game and its box are not read until they are set   *)
(* for the next one.                                                       *)
CloseAlpha == overlay' = "none" /\ alphaGame' = NoID /\ dontShow' = FALSE

Back ==
    /\ Input /\ overlay = "alpha"
    /\ CloseAlpha
    /\ aim' = Nothing
    /\ UNCHANGED <<games, notice, cursor, acks, launching, result, quit>>

(* Mutant of Confirmed: the row under the cursor, which may be another one *)
(* since the list was refreshed behind the dialog.                         *)
MutConfirmedRow == games[cursor + 1].id

(* The game the dialog is about.                                           *)
Confirmed == alphaGame

(* confirmAlpha, by enter or a click on CONTINUE: the dialog closes either *)
(* way; the acknowledgement may fail to be stored, which is ignored.       *)
ConfirmAlpha ==
    /\ Input /\ overlay = "alpha"
    /\ CloseAlpha
    /\ IF Playable(Confirmed) = {}
         THEN aim' = Nothing /\ UNCHANGED <<acks, launching>>
         ELSE /\ launching' = Confirmed
              /\ aim' = [aim EXCEPT !.agreed = (alphaGame = aim.id)]
              /\ \/ dontShow /\ acks' = acks \cup {Confirmed}
                 \/ (~dontShow \/ ~guest) /\ UNCHANGED acks
    /\ UNCHANGED <<games, notice, cursor, result, quit>>

(* launchGame: the registry is asked once more.                            *)
LaunchGame ==
    /\ ~over /\ launching # NoID
    /\ launching' = NoID /\ aim' = Nothing
    /\ IF Playable(launching) = {}
         THEN UNCHANGED <<result, quit>>
         ELSE result' = [kind |-> "play", id |-> launching] /\ quit' = TRUE
    /\ UNCHANGED <<extVars, guest, menuVars, dialogVars, over, clockVars, pokeVars>>

(* runLobby's watcher calls p.Quit: the connection is gone.                *)
Gone ==
    /\ ~over /\ ~quit
    /\ quit' = TRUE
    /\ UNCHANGED <<extVars, guest, menuVars, dialogVars, launchVars, result, over, clockVars, pokeVars>>

(* The QuitMsg arrives: Run returns and pokeMsgs on their way are dropped. *)
(* Of the final model only the Result is read; the rest is set back.  The  *)
(* channels are unsubscribed: a notify still to come does not reach them.  *)
Returns ==
    /\ Ready /\ quit
    /\ over' = TRUE
    /\ msgs' = 0 /\ owed' = [c \in Channels |-> 0]
    /\ games' = reg /\ notice' = on /\ cursor' = 0
    /\ CloseAlpha /\ aim' = Nothing
    /\ idle' = 0 /\ ticking' = FALSE
    /\ UNCHANGED <<reg, on, changes, guest, acks, launching, result, quit, token, waits>>

(* Mutant of Unsubscribed: the channel is forgotten but not closed.        *)
MutForgetChannel(c) == over /\ waits[c] > 0 /\ token[c]

(* runLobby's deferred Unsubscribe closed the channel: a wait on it that   *)
(* finds it empty returns nil.                                             *)
Unsubscribed(c) == over /\ waits[c] > 0 /\ ~token[c]

WaitEnds(c) ==
    /\ Unsubscribed(c)
    /\ waits' = [waits EXCEPT ![c] = @ - 1]
    /\ UNCHANGED <<extVars, guest, menuVars, dialogVars, launchVars, endVars, clockVars, token, msgs>>

(* After the visit nothing more has to happen.                             *)
Finished == over /\ UNCHANGED vars

Inputs ==
    \/ Ignored \/ Quit \/ About \/ Toggle \/ Back \/ ConfirmAlpha
    \/ \E d \in {-1, 1} : Move(d)
    \/ \E i \in 0..Len(games) - 1 : Select(i) \/ Activate(i)

Next ==
    \/ \E c \in Channels : Change(c) \/ Notify(c) \/ WaitReturns(c) \/ WaitEnds(c)
    \/ Poked \/ Tick
    \/ Inputs
    \/ LaunchGame \/ Gone \/ Returns
    \/ Finished

(* The program's goroutines run and the second's timer fires; the QuitMsg  *)
(* has its turn among the messages.                                        *)
Fairness ==
    /\ WF_vars(Tick) /\ WF_vars(LaunchGame) /\ SF_vars(Returns)
    /\ \A c \in Channels : WF_vars(WaitReturns(c) \/ WaitEnds(c))

Spec == Init /\ [][Next]_vars
FairSpec == Spec /\ Fairness

----------------------------------------------------------------------------
(* A game is launched only if it is the one on the row the player          *)
(* activated, however the list moved behind the dialog since; and one that *)
(* was alpha then was agreed to in its own dialog or acknowledged before   *)
(* (lobby.go:335-371).                                                     *)
LaunchConsented ==
    [][result' # result /\ result'.kind = "play" =>
        /\ result'.id = aim.id
        /\ aim.alpha => aim.agreed \/ aim.id \in acks]_vars

(* "scrollOffset keeps the cursor visible": through moves, refreshes to a  *)
(* shorter list and a notice that takes four rows, the selected game is in *)
(* the list and its two lines are drawn above the identity row.            *)
CursorDrawn == cursor \in Drawn

(* A menu that shows an old list or notice has the refresh on its way: a   *)
(* pokeMsg, or a channel somebody waits on that holds a token or will, the *)
(* notify of the change being still to come (lobby.go:164-187).           *)
StaleMenuPoked ==
    LET coming(c) == msgs > 0 \/ (waits[c] > 0 /\ (token[c] \/ owed[c] > 0))
    IN  ~over => /\ games # reg => coming("registry")
                 /\ notice # on => coming("banner")

(* ARCADE_LOBBY_IDLE_TIMEOUT: a menu nobody touches ends, whatever is     *)
(* open.                                                                   *)
IdleLeaves == []<><<Inputs>>_vars \/ <>over

(* "returns nil when the channel closes (unsubscribed) so it never spins": *)
(* every wait a visit ever armed, more than two after some pokes, ends.    *)
WaitsEnd == [](over => <>(waits = [c \in Channels |-> 0]))
=============================================================================

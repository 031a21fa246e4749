-------------------------- MODULE LobbyMenuProofs --------------------------
(***************************************************************************)
(* The menu draws its cursor, launches only what the player agreed to and  *)
(* learns of every change, for any game lists, however long.               *)
(*                                                                         *)
(* The invariant ties the dialog and the launch in progress to the game    *)
(* that was activated (Consent), counts the waits and the messages of one  *)
(* channel together (Armed), and keeps an armed tick below the timeout.    *)
(***************************************************************************)
EXTENDS LobbyMenu, TLAPS

(* The alpha dialog is about the activated game, and a launch in progress  *)
(* is of a game that was agreed to or needs no agreement.                  *)
Consent ==
    /\ overlay = "alpha" => aim.id = alphaGame /\ launching = NoID
    /\ launching # NoID => /\ aim.id = launching
                           /\ aim.alpha => aim.agreed \/ aim.id \in acks

(* While the program runs, each channel is waited on or a pokeMsg that     *)
(* will wait on it again is on its way.                                    *)
Armed == ~over => \A c \in Channels : waits[c] > 0 \/ msgs > 0

TickInTime == ticking => idle < IdleTicks

(* The parts of TypeOK, one for each kind of value.                        *)
ListsOK == reg \in Lists /\ games \in Lists /\ cursor \in 0..Len(games) - 1
FlagsOK ==
    /\ on \in BOOLEAN /\ guest \in BOOLEAN /\ notice \in BOOLEAN /\ dontShow \in BOOLEAN
    /\ ticking \in BOOLEAN /\ quit \in BOOLEAN /\ over \in BOOLEAN
    /\ token \in [Channels -> BOOLEAN]
CountsOK ==
    /\ changes \in 0..MaxChanges /\ idle \in 0..IdleTicks
    /\ owed \in [Channels -> Nat] /\ waits \in [Channels -> Nat] /\ msgs \in Nat
DialogOK ==
    /\ acks \subseteq IDs /\ overlay \in {"none", "about", "alpha"}
    /\ alphaGame \in IDs \cup {NoID} /\ launching \in IDs \cup {NoID}
ResultOK == result \in [kind : {"none", "play", "quit", "idle"}, id : IDs \cup {NoID}]
AimOK == aim \in [id : IDs \cup {NoID}, alpha : BOOLEAN, agreed : BOOLEAN]

IInv == TypeOK /\ Consent /\ TickInTime /\ Armed /\ StaleMenuPoked

----------------------------------------------------------------------------
LEMMA TypeParts == TypeOK <=> ListsOK /\ FlagsOK /\ CountsOK /\ DialogOK /\ ResultOK /\ AimOK
  BY DEF TypeOK, ListsOK, FlagsOK, CountsOK, DialogOK, ResultOK, AimOK

LEMMA TypePartsNext ==
  TypeOK' <=> ListsOK' /\ FlagsOK' /\ CountsOK' /\ DialogOK' /\ ResultOK' /\ AimOK'
  BY DEF TypeOK, ListsOK, FlagsOK, CountsOK, DialogOK, ResultOK, AimOK

(* Every game of a list is one of Games.                                   *)
LEMMA ListGames ==
  ASSUME NEW l \in Lists, NEW i \in 1..Len(l)
  PROVE  /\ l[i] \in Games /\ l[i].id \in IDs
         /\ l[i].online \in BOOLEAN /\ l[i].guests \in BOOLEAN /\ l[i].alpha \in BOOLEAN
  <1>1. l[i] \in Games
    BY DEF Games
  <1>2. l[i].id \in IDs
    BY <1>1 DEF IDs
  <1> QED BY <1>1, <1>2, MenuAssumption

(* A game of the registry's list that may be launched.                     *)
LEMMA PlayableGames ==
  ASSUME TypeOK, NEW id, NEW g \in Playable(id)
  PROVE  g.id = id /\ id \in IDs /\ id # NoID /\ g.alpha \in BOOLEAN
  <1>1. PICK i \in 1..Len(reg) : g = reg[i] /\ g.id = id
    BY DEF Playable
  <1>2. reg[i].id \in IDs /\ reg[i].alpha \in BOOLEAN
    BY ListGames DEF TypeOK
  <1> QED BY <1>1, <1>2, MenuAssumption

(* The cursor of a non-empty list is inside it after every clamp.          *)
LEMMA CursorInList ==
  ASSUME TypeOK, NEW l \in Lists
  PROVE  /\ Clamp(cursor, 0, Len(l) - 1) \in 0..Len(l) - 1
         /\ \A d \in {-1, 1} : Clamp(cursor + d, 0, Len(games) - 1) \in 0..Len(games) - 1
         /\ 0 \in 0..Len(l) - 1
  <1>1. Len(l) \in Nat \ {0} /\ Len(games) \in Nat \ {0} /\ cursor \in Int
    BY MenuAssumption DEF TypeOK
  <1>2. Clamp(cursor, 0, Len(l) - 1) \in 0..Len(l) - 1
    BY <1>1 DEF Clamp
  <1>3. \A d \in {-1, 1} : Clamp(cursor + d, 0, Len(games) - 1) \in 0..Len(games) - 1
    BY <1>1 DEF Clamp
  <1> QED BY <1>1, <1>2, <1>3

(* scrollOffset and the drawing loop keep the cursor visible.              *)
LEMMA CursorVisible == ASSUME TypeOK PROVE CursorDrawn
  <1>1. Len(games) \in Nat \ {0} /\ cursor \in 0..Len(games) - 1
    BY MenuAssumption DEF TypeOK
  <1>2. CASE notice
    <2>1. maxVisibleGames = 5 /\ gamesOrigin = 5
      BY <1>2 DEF maxVisibleGames, gamesOrigin, gamesTopRow, bannerReserveRows, identityRow, maxVisible, Clamp
    <2>2. /\ cursor \in scrollOffset(5)..scrollOffset(5) + 4
          /\ scrollOffset(5) \in Nat
      BY <1>1 DEF scrollOffset, Clamp
    <2> QED BY <1>1, <2>1, <2>2 DEF CursorDrawn, Drawn, identityRow
  <1>3. CASE ~notice
    <2>1. maxVisibleGames = 7 /\ gamesOrigin = 1
      BY <1>3 DEF maxVisibleGames, gamesOrigin, gamesTopRow, maxVisible
    <2>2. /\ cursor \in scrollOffset(7)..scrollOffset(7) + 6
          /\ scrollOffset(7) \in Nat
      BY <1>1 DEF scrollOffset, Clamp
    <2> QED BY <1>1, <2>1, <2>2 DEF CursorDrawn, Drawn, identityRow
  <1> QED BY <1>2, <1>3

----------------------------------------------------------------------------
LEMMA InitIInv == Init => IInv
  <1> SUFFICES ASSUME Init PROVE IInv
    OBVIOUS
  <1>1. TypeOK
    <2>1. acks \subseteq IDs /\ reg \in Lists /\ games \in Lists /\ cursor \in 0..Len(games) - 1
      BY MenuAssumption DEF Init
    <2>2. /\ on \in BOOLEAN /\ guest \in BOOLEAN /\ notice \in BOOLEAN /\ dontShow \in BOOLEAN
          /\ ticking \in BOOLEAN /\ quit \in BOOLEAN /\ over \in BOOLEAN
          /\ token \in [Channels -> BOOLEAN]
      BY DEF Init
    <2>3. /\ changes \in 0..MaxChanges /\ idle \in 0..IdleTicks
          /\ owed \in [Channels -> Nat] /\ waits \in [Channels -> Nat] /\ msgs \in Nat
      BY MenuAssumption DEF Init
    <2>4. /\ result \in [kind : {"none", "play", "quit", "idle"}, id : IDs \cup {NoID}]
          /\ aim \in [id : IDs \cup {NoID}, alpha : BOOLEAN, agreed : BOOLEAN]
      BY DEF Init, None, Nothing
    <2> QED BY <2>1, <2>2, <2>3, <2>4 DEF Init, TypeOK
  <1>2. Consent /\ TickInTime /\ Armed /\ StaleMenuPoked
    BY MenuAssumption DEF Init, Consent, TickInTime, Armed, StaleMenuPoked
  <1> QED BY <1>1, <1>2 DEF IInv

(* The registry or the banner changes under the menu.                      *)
LEMMA ChangeIInv == ASSUME IInv, NEW c \in Channels, Change(c) PROVE IInv'
  <1> USE DEF extVars, menuVars, dialogVars, launchVars, endVars, clockVars, pokeVars
  <1>1. TypeOK'
    <2>1. ListsOK'
      BY TypeParts DEF ListsOK, IInv, Change
    <2>2. FlagsOK'
      BY TypeParts DEF FlagsOK, IInv, Change
    <2>3. CountsOK'
      BY TypeParts, MenuAssumption DEF CountsOK, IInv, Change
    <2>4. DialogOK'
      BY TypeParts DEF DialogOK, IInv, Change
    <2>5. ResultOK'
      BY TypeParts DEF ResultOK, IInv, Change
    <2>6. AimOK'
      BY TypeParts DEF AimOK, IInv, Change
    <2> QED BY TypePartsNext, <2>1, <2>2, <2>3, <2>4, <2>5, <2>6
  <1>2. Consent' /\ TickInTime' /\ Armed'
    BY DEF IInv, Consent, TickInTime, Armed, Change
  <1>3. StaleMenuPoked'
    BY DEF IInv, TypeOK, StaleMenuPoked, Armed, Change, Channels
  <1> QED BY <1>1, <1>2, <1>3 DEF IInv

(* The notify of an earlier change.                                        *)
LEMMA NotifyIInv == ASSUME IInv, NEW c \in Channels, Notify(c) PROVE IInv'
  <1> USE DEF extVars, menuVars, dialogVars, launchVars, endVars, clockVars, pokeVars
  <1>1. TypeOK'
    <2>1. ListsOK'
      BY TypeParts DEF ListsOK, IInv, Notify
    <2>2. FlagsOK'
      BY TypeParts DEF FlagsOK, IInv, Notify
    <2>3. CountsOK'
      BY TypeParts DEF CountsOK, IInv, Notify
    <2>4. DialogOK'
      BY TypeParts DEF DialogOK, IInv, Notify
    <2>5. ResultOK'
      BY TypeParts DEF ResultOK, IInv, Notify
    <2>6. AimOK'
      BY TypeParts DEF AimOK, IInv, Notify
    <2> QED BY TypePartsNext, <2>1, <2>2, <2>3, <2>4, <2>5, <2>6
  <1>2. Consent' /\ TickInTime' /\ Armed'
    BY DEF IInv, Consent, TickInTime, Armed, Notify
  <1>3. StaleMenuPoked'
    BY DEF IInv, TypeOK, StaleMenuPoked, Armed, Notify, Channels
  <1> QED BY <1>1, <1>2, <1>3 DEF IInv

(* The commands that wait on a channel.                                    *)
LEMMA WaitIInv == ASSUME IInv, NEW c \in Channels, WaitReturns(c) \/ WaitEnds(c) PROVE IInv'
  <1> USE DEF extVars, menuVars, dialogVars, launchVars, endVars, clockVars, pokeVars
  <1>1. TypeOK'
    <2>1. ListsOK'
      BY TypeParts DEF ListsOK, IInv, WaitReturns, WaitEnds
    <2>2. FlagsOK'
      BY TypeParts DEF FlagsOK, IInv, WaitReturns, WaitEnds
    <2>3. CountsOK'
      BY TypeParts DEF CountsOK, IInv, WaitReturns, WaitEnds, Unsubscribed
    <2>4. DialogOK'
      BY TypeParts DEF DialogOK, IInv, WaitReturns, WaitEnds
    <2>5. ResultOK'
      BY TypeParts DEF ResultOK, IInv, WaitReturns, WaitEnds
    <2>6. AimOK'
      BY TypeParts DEF AimOK, IInv, WaitReturns, WaitEnds
    <2> QED BY TypePartsNext, <2>1, <2>2, <2>3, <2>4, <2>5, <2>6
  <1>2. Consent' /\ TickInTime'
    BY DEF IInv, Consent, TickInTime, WaitReturns, WaitEnds
  <1>3. Armed' /\ StaleMenuPoked'
    BY DEF IInv, TypeOK, StaleMenuPoked, Armed, WaitReturns, WaitEnds, Unsubscribed, Channels
  <1> QED BY <1>1, <1>2, <1>3 DEF IInv

(* pokeMsg: the copies are fresh and both channels are waited on.          *)
LEMMA PokedIInv == ASSUME IInv, Poked PROVE IInv'
  <1> USE DEF extVars, menuVars, dialogVars, launchVars, endVars, clockVars, pokeVars
  <1>1. cursor' \in 0..Len(reg) - 1
    BY CursorInList DEF IInv, TypeOK, Poked, Refresh, KeepCursor
  <1>2. TypeOK'
    BY <1>1 DEF IInv, TypeOK, Poked, Refresh, Rearmed
  <1>3. Consent' /\ TickInTime'
    BY DEF IInv, Consent, TickInTime, Poked
  <1>4. Armed' /\ StaleMenuPoked'
    BY DEF IInv, TypeOK, StaleMenuPoked, Armed, Poked, Refresh, Rearmed
  <1> QED BY <1>2, <1>3, <1>4 DEF IInv

(* tickMsg.                                                                *)
LEMMA TickIInv == ASSUME IInv, Tick PROVE IInv'
  <1> USE DEF extVars, menuVars, dialogVars, launchVars, endVars, clockVars, pokeVars
  <1>1. cursor' \in 0..Len(reg) - 1
    BY CursorInList DEF IInv, TypeOK, Tick, Refresh, KeepCursor
  <1>2. CountsOK' /\ TickInTime'
    <2>1. idle \in Nat /\ idle < IdleTicks /\ IdleTicks \in Nat /\ idle' = idle + 1
      BY MenuAssumption DEF IInv, TypeOK, TickInTime, Tick
    <2>2. idle' \in 0..IdleTicks
      BY <2>1
    <2>3. TickInTime'
      BY DEF TickInTime, Tick
    <2> QED BY <2>2, <2>3, TypeParts DEF IInv, CountsOK, Tick
  <1>3. ListsOK' /\ DialogOK' /\ AimOK'
    BY <1>1, TypeParts DEF IInv, ListsOK, DialogOK, AimOK, Tick, Refresh
  <1>4. FlagsOK' /\ ResultOK'
    <2>1. ticking' \in BOOLEAN
      BY DEF Tick
    <2>2. CASE idle' = IdleTicks
      BY <2>1, <2>2, TypeParts DEF IInv, FlagsOK, ResultOK, Tick, Refresh, None
    <2>3. CASE idle' # IdleTicks
      BY <2>1, <2>3, TypeParts DEF IInv, FlagsOK, ResultOK, Tick, Refresh
    <2> QED BY <2>2, <2>3
  <1>5. Consent' /\ Armed' /\ StaleMenuPoked'
    BY DEF IInv, Consent, Armed, StaleMenuPoked, Tick, Refresh
  <1> QED BY <1>2, <1>3, <1>4, <1>5, TypePartsNext DEF IInv

(* What an input leaves alone: the clock aside, all that pokes refresh.    *)
LEMMA InputKeeps ==
  ASSUME IInv, Input, UNCHANGED <<games, notice>>
  PROVE  TickInTime' /\ Armed' /\ StaleMenuPoked'
  BY MenuAssumption DEF IInv, TypeOK, Input, TickInTime, Armed, StaleMenuPoked, extVars, pokeVars

(* Inputs outside the launch path.                                         *)
LEMMA PlainInputIInv ==
  ASSUME IInv,
         \/ Ignored \/ Quit \/ About \/ Toggle \/ Back
         \/ \E d \in {-1, 1} : Move(d)
         \/ \E i \in 0..Len(games) - 1 : Select(i)
  PROVE  IInv'
  <1> USE DEF extVars, dialogVars, launchVars, pokeVars
  <1>1. TickInTime' /\ Armed' /\ StaleMenuPoked'
    BY InputKeeps DEF Ignored, Quit, About, Toggle, Back, Move, Select
  <1>5. TypeOK'
    <2>1. ListsOK'
      BY TypeParts, CursorInList DEF ListsOK, IInv, Input, Ignored, Quit, About, Toggle, Back, Move, Select
    <2>2. FlagsOK'
      BY TypeParts DEF FlagsOK, IInv, Input, Ignored, Quit, About, Toggle, Back, Move, Select, CloseAlpha
    <2>3. CountsOK'
      BY TypeParts, MenuAssumption DEF CountsOK, IInv, Input, Ignored, Quit, About, Toggle, Back, Move, Select
    <2>4. DialogOK'
      BY TypeParts DEF DialogOK, IInv, Input, Ignored, Quit, About, Toggle, Back, Move, Select, CloseAlpha
    <2>5. ResultOK'
      BY TypeParts DEF ResultOK, IInv, Input, Ignored, Quit, About, Toggle, Back, Move, Select, None
    <2>6. AimOK'
      <3>1. aim' = aim \/ aim' = Nothing
        BY DEF Ignored, Quit, About, Toggle, Back, Move, Select
      <3>2. Nothing \in [id : IDs \cup {NoID}, alpha : BOOLEAN, agreed : BOOLEAN]
        BY DEF Nothing
      <3>3. AimOK
        BY TypeParts DEF IInv
      <3> QED BY <3>1, <3>2, <3>3 DEF AimOK
    <2> QED BY TypePartsNext, <2>1, <2>2, <2>3, <2>4, <2>5, <2>6
  <1>6. Consent'
    BY DEF IInv, Consent, Input, Ready, Ignored, Quit, About, Toggle, Back, Move, Select, CloseAlpha
  <1> QED BY <1>1, <1>5, <1>6 DEF IInv

(* activate: the dialog or the launch is of the row's game.                *)
LEMMA ActivateIInv == ASSUME IInv, NEW i \in 0..Len(games) - 1, Activate(i) PROVE IInv'
  <1> USE DEF extVars, dialogVars, launchVars, pokeVars
  <1>1. TickInTime' /\ Armed' /\ StaleMenuPoked'
    BY InputKeeps DEF Activate
  <1>2. CASE Playable(games[i + 1].id) = {} /\ UNCHANGED <<dialogVars, launchVars>>
    <2>1. TypeOK'
      BY <1>2, MenuAssumption DEF IInv, TypeOK, Activate, Input
    <2>2. Consent'
      BY <1>2 DEF IInv, Consent, Activate
    <2> QED BY <1>1, <2>1, <2>2 DEF IInv
  <1>3. ASSUME NEW g \in Playable(games[i + 1].id),
               aim' = [id |-> games[i + 1].id, alpha |-> g.alpha, agreed |-> FALSE],
               \/ /\ Warns(g)
                  /\ overlay' = "alpha" /\ alphaGame' = games[i + 1].id /\ dontShow' = FALSE
                  /\ UNCHANGED <<acks, launching>>
               \/ /\ Trusted(g)
                  /\ launching' = games[i + 1].id
                  /\ UNCHANGED dialogVars
        PROVE  IInv'
    <2>1. g.id = games[i + 1].id /\ g.id \in IDs /\ g.id # NoID /\ g.alpha \in BOOLEAN
      BY PlayableGames DEF IInv
    <2>2. aim' \in [id : IDs \cup {NoID}, alpha : BOOLEAN, agreed : BOOLEAN]
      BY <1>3, <2>1
    <2>3. TypeOK'
      <3>1. ListsOK'
        BY TypeParts, <1>3, <2>1 DEF ListsOK, IInv, Activate, Input
      <3>2. FlagsOK'
        BY TypeParts, <1>3, <2>1 DEF FlagsOK, IInv, Activate, Input
      <3>3. CountsOK'
        BY TypeParts, <1>3, <2>1, MenuAssumption DEF CountsOK, IInv, Activate, Input
      <3>4. DialogOK'
        BY TypeParts, <1>3, <2>1 DEF DialogOK, IInv, Activate, Input
      <3>5. ResultOK'
        BY TypeParts, <1>3, <2>1 DEF ResultOK, IInv, Activate, Input
      <3>6. AimOK'
        BY TypeParts, <1>3, <2>1, <2>2 DEF AimOK, IInv, Activate, Input
      <3> QED BY TypePartsNext, <3>1, <3>2, <3>3, <3>4, <3>5, <3>6
    <2>4. Consent'
      BY <1>3, <2>1 DEF IInv, Consent, Activate, Input, Ready, Trusted
    <2> QED BY <1>1, <2>3, <2>4 DEF IInv
  <1> QED BY <1>2, <1>3 DEF Activate

(* confirmAlpha: the launch is of the game the dialog was about.           *)
LEMMA ConfirmIInv == ASSUME IInv, ConfirmAlpha PROVE IInv'
  <1> USE DEF extVars, dialogVars, launchVars, pokeVars
  <1>1. TickInTime' /\ Armed' /\ StaleMenuPoked'
    BY InputKeeps DEF ConfirmAlpha
  <1>2. CASE Playable(alphaGame) = {}
    <2>1. aim' = Nothing /\ UNCHANGED <<acks, launching>>
      BY <1>2 DEF ConfirmAlpha, Confirmed
    <2>2. aim' \in [id : IDs \cup {NoID}, alpha : BOOLEAN, agreed : BOOLEAN]
      BY <2>1 DEF Nothing
    <2>3. TypeOK'
      <3>1. ListsOK'
        BY TypeParts, <2>1 DEF ListsOK, IInv, ConfirmAlpha, CloseAlpha, Input
      <3>2. FlagsOK'
        BY TypeParts, <2>1 DEF FlagsOK, IInv, ConfirmAlpha, CloseAlpha, Input
      <3>3. CountsOK'
        BY TypeParts, <2>1, MenuAssumption DEF CountsOK, IInv, ConfirmAlpha, CloseAlpha, Input
      <3>4. DialogOK'
        BY TypeParts, <2>1 DEF DialogOK, IInv, ConfirmAlpha, CloseAlpha, Input
      <3>5. ResultOK'
        BY TypeParts, <2>1 DEF ResultOK, IInv, ConfirmAlpha, CloseAlpha, Input
      <3>6. AimOK'
        BY TypeParts, <2>1, <2>2 DEF AimOK, IInv, ConfirmAlpha, CloseAlpha, Input
      <3> QED BY TypePartsNext, <3>1, <3>2, <3>3, <3>4, <3>5, <3>6
    <2>4. Consent'
      BY <2>1 DEF IInv, Consent, ConfirmAlpha, CloseAlpha, Input, Ready
    <2> QED BY <1>1, <2>3, <2>4 DEF IInv
  <1>3. CASE Playable(alphaGame) # {}
    <2>1. /\ launching' = alphaGame
          /\ aim' = [aim EXCEPT !.agreed = (alphaGame = aim.id)]
          /\ acks' = acks \cup {alphaGame} \/ acks' = acks
      BY <1>3 DEF ConfirmAlpha, Confirmed
    <2>2. alphaGame \in IDs /\ alphaGame # NoID
      BY <1>3, PlayableGames DEF IInv
    <2>3. aim' \in [id : IDs \cup {NoID}, alpha : BOOLEAN, agreed : BOOLEAN]
      BY <2>1 DEF IInv, TypeOK
    <2>4. TypeOK'
      <3>1. ListsOK'
        BY TypeParts, <2>1, <2>2 DEF ListsOK, IInv, ConfirmAlpha, CloseAlpha, Input
      <3>2. FlagsOK'
        BY TypeParts, <2>1, <2>2 DEF FlagsOK, IInv, ConfirmAlpha, CloseAlpha, Input
      <3>3. CountsOK'
        BY TypeParts, <2>1, <2>2, MenuAssumption DEF CountsOK, IInv, ConfirmAlpha, CloseAlpha, Input
      <3>4. DialogOK'
        BY TypeParts, <2>1, <2>2 DEF DialogOK, IInv, ConfirmAlpha, CloseAlpha, Input
      <3>5. ResultOK'
        BY TypeParts, <2>1, <2>2 DEF ResultOK, IInv, ConfirmAlpha, CloseAlpha, Input
      <3>6. AimOK'
        BY TypeParts, <2>1, <2>2, <2>3 DEF AimOK, IInv, ConfirmAlpha, CloseAlpha, Input
      <3> QED BY TypePartsNext, <3>1, <3>2, <3>3, <3>4, <3>5, <3>6
    <2>5. aim.id = alphaGame
      BY DEF IInv, Consent, ConfirmAlpha
    <2>6. aim'.id = alphaGame /\ aim'.agreed
      BY <2>1, <2>5 DEF IInv, TypeOK
    <2>7. Consent'
      BY <2>1, <2>6 DEF Consent, ConfirmAlpha, CloseAlpha
    <2> QED BY <1>1, <2>4, <2>7 DEF IInv
  <1> QED BY <1>2, <1>3

(* launchGame and the end of the program.                                  *)
LEMMA EndIInv == ASSUME IInv, LaunchGame \/ Gone \/ Returns PROVE IInv'
  <1> USE DEF extVars, menuVars, dialogVars, launchVars, endVars, clockVars, pokeVars
  <1>1. CASE LaunchGame
    <2>2. TypeOK'
      <3>1. ListsOK'
        BY TypeParts, <1>1 DEF ListsOK, IInv, LaunchGame
      <3>2. FlagsOK'
        BY TypeParts, <1>1 DEF FlagsOK, IInv, LaunchGame
      <3>3. CountsOK'
        BY TypeParts, <1>1 DEF CountsOK, IInv, LaunchGame
      <3>4. DialogOK'
        BY TypeParts, <1>1 DEF DialogOK, IInv, LaunchGame
      <3>5. ResultOK'
        BY TypeParts, <1>1 DEF ResultOK, DialogOK, IInv, LaunchGame
      <3>6. AimOK'
        BY TypeParts, <1>1 DEF AimOK, IInv, LaunchGame, Nothing
      <3> QED BY TypePartsNext, <3>1, <3>2, <3>3, <3>4, <3>5, <3>6
    <2>3. Consent'
      BY <1>1 DEF IInv, Consent, LaunchGame
    <2>4. TickInTime' /\ Armed' /\ StaleMenuPoked'
      BY <1>1 DEF IInv, TickInTime, Armed, StaleMenuPoked, LaunchGame
    <2> QED BY <2>2, <2>3, <2>4 DEF IInv
  <1>2. CASE Gone
    BY <1>2 DEF IInv, TypeOK, Consent, TickInTime, Armed, StaleMenuPoked, Gone
  <1>3. CASE Returns
    <2>1. aim' \in [id : IDs \cup {NoID}, alpha : BOOLEAN, agreed : BOOLEAN]
      BY <1>3 DEF Returns, Nothing
    <2>2. 0 \in 0..Len(reg) - 1
      BY CursorInList DEF IInv, TypeOK
    <2>3. TypeOK'
      <3>1. ListsOK'
        BY TypeParts, <1>3, <2>2 DEF ListsOK, IInv, Returns, CloseAlpha
      <3>2. FlagsOK'
        BY TypeParts, <1>3 DEF FlagsOK, IInv, Returns, CloseAlpha
      <3>3. CountsOK'
        BY TypeParts, <1>3, MenuAssumption DEF CountsOK, IInv, Returns, CloseAlpha
      <3>4. DialogOK'
        BY TypeParts, <1>3 DEF DialogOK, IInv, Returns, CloseAlpha
      <3>5. ResultOK'
        BY TypeParts, <1>3 DEF ResultOK, IInv, Returns, CloseAlpha
      <3>6. AimOK'
        BY TypeParts, <1>3, <2>1 DEF AimOK, IInv, Returns, CloseAlpha
      <3> QED BY TypePartsNext, <3>1, <3>2, <3>3, <3>4, <3>5, <3>6
    <2>4. Consent' /\ TickInTime' /\ Armed' /\ StaleMenuPoked'
      BY <1>3 DEF IInv, Consent, TickInTime, Armed, StaleMenuPoked, Returns, CloseAlpha, Ready
    <2> QED BY <2>3, <2>4 DEF IInv
  <1> QED BY <1>1, <1>2, <1>3

(* The invariant, and with it the types, in every state of a visit.        *)
THEOREM Invariance == Spec => []IInv
  <1>1. IInv /\ UNCHANGED vars => IInv'
    BY DEF IInv, TypeOK, Consent, TickInTime, Armed, StaleMenuPoked, vars, extVars, menuVars,
           dialogVars, launchVars, endVars, clockVars, pokeVars
  <1>2. IInv /\ [Next]_vars => IInv'
    BY <1>1, ChangeIInv, NotifyIInv, WaitIInv, PokedIInv, TickIInv, PlainInputIInv, ActivateIInv, ConfirmIInv, EndIInv
       DEF Next, Inputs, Finished
  <1> QED BY InitIInv, <1>2, PTL DEF Spec

(* The selected game is in the list and on the screen, whatever the lists' *)
(* lengths and whenever the notice comes and goes.                         *)
THEOREM DrawnCorrect == Spec => []CursorDrawn
  <1>1. IInv => CursorDrawn
    BY CursorVisible DEF IInv
  <1> QED BY Invariance, <1>1, PTL

(* An out-of-date menu always has its refresh on the way.                  *)
THEOREM PokedCorrect == Spec => []StaleMenuPoked
  <1>1. IInv => StaleMenuPoked
    BY DEF IInv
  <1> QED BY Invariance, <1>1, PTL

(* The game launched is the one activated, agreed to if it was alpha.      *)
THEOREM ConsentCorrect == Spec => LaunchConsented
  <1> DEFINE Step == result' # result /\ result'.kind = "play" =>
                       /\ result'.id = aim.id
                       /\ aim.alpha => aim.agreed \/ aim.id \in acks
  <1>1. ASSUME IInv, LaunchGame PROVE Step
    BY <1>1 DEF IInv, Consent, LaunchGame
  <1>2. ASSUME Quit \/ Tick PROVE Step
    BY <1>2 DEF Quit, Tick, None
  <1>3. ASSUME NEW c \in Channels, Change(c) \/ Notify(c) \/ WaitReturns(c) \/ WaitEnds(c) PROVE Step
    BY <1>3 DEF Change, Notify, WaitReturns, WaitEnds, endVars
  <1>4. ASSUME \/ Poked \/ Ignored \/ About \/ Toggle \/ Back \/ ConfirmAlpha \/ Gone \/ Returns \/ Finished
               \/ \E d \in {-1, 1} : Move(d)
               \/ \E i \in 0..Len(games) - 1 : Select(i) \/ Activate(i)
        PROVE  result' = result
    BY <1>4 DEF Poked, Ignored, About, Toggle, Back, ConfirmAlpha, Gone, Returns, Finished,
                Move, Select, Activate, endVars, vars
  <1>5. IInv /\ [Next]_vars => [Step]_vars
    BY <1>1, <1>2, <1>3, <1>4 DEF Next, Inputs
  <1> QED BY Invariance, <1>5, PTL DEF Spec, LaunchConsented
=============================================================================

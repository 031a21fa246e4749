---------------------------- MODULE MCLobbyMenu ----------------------------
(* Instances of LobbyMenu for TLC: two alpha games, one for everybody and  *)
(* one for keyed players, in a short list, in a longer one than the menu   *)
(* can show, the other way round, and offline.                             *)
EXTENDS LobbyMenu

Game(id, online, guests, alpha) == [id |-> id, online |-> online, guests |-> guests, alpha |-> alpha]
Filler(n) == Game(n, FALSE, TRUE, FALSE)

MCLists ==
    { <<Game(1, TRUE, TRUE, TRUE), Game(2, TRUE, FALSE, TRUE)>>,
      <<Game(2, TRUE, TRUE, TRUE)>>,
      <<Game(1, FALSE, TRUE, TRUE), Filler(4), Filler(5), Filler(6), Filler(7), Filler(8),
        Filler(9), Game(3, TRUE, TRUE, FALSE)>> }
=============================================================================

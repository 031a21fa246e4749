------------------------------ MODULE Sessions ------------------------------
(***************************************************************************)
(* Shell channels on the arcade floor: the middleware chain of server.go   *)
(* (scopeSession, resolveIdentity, SessionLimits, RequirePTY, handle) and  *)
(* the seats of internal/presence/tracker.go.                              *)
(*                                                                         *)
(* One member of Shells is one channel goroutine running the chain.  The   *)
(* limits' mutex and the tracker's mutex are different, so a slot and a    *)
(* seat change in separate steps; deferred calls unwind in reverse: Leave  *)
(* first, release second.                                                  *)
(***************************************************************************)
EXTENDS Integers, FiniteSets

CONSTANTS
    Shells,         \* shell channels; one is reused once its handler returned
    Keys, NoKey,    \* public keys, and "no key offered"
    IPs,            \* client addresses
    Games, Menu,    \* game IDs, and the empty ID: the seat is in the menu
    MaxConnections, MaxSessionsPerKey, MaxGuestSessions, MaxGuestSessionsPerIP,
    AllowGuests

ASSUME LimitsAssumption ==
    /\ MaxConnections \in Nat \ {0}
    /\ MaxSessionsPerKey \in Nat \ {0}
    /\ MaxGuestSessions \in Nat \ {0}
    /\ MaxGuestSessionsPerIP \in Nat \ {0}
    /\ AllowGuests \in BOOLEAN
    /\ AllowGuests => MaxGuestSessions < MaxConnections

ASSUME ShellsAssumption ==
    /\ IsFiniteSet(Shells)
    /\ NoKey \notin Keys
    /\ IPs # {}
    /\ Menu \notin Games

VARIABLES
    global, guests, perKey, perIP,  \* SessionLimits
    seats, game,                    \* Tracker.seats, Seat.game
    pc,                             \* where the channel's goroutine is
    kind, fingerprint,              \* the Identity in the shell's own context
    ip,                             \* clientIP(s.RemoteAddr())
    choice,                         \* handle's local game, from its check on
    listing,                        \* the registry's current entry for a game
    overtaken                       \* history: the choice of these guests
                                    \* became key-only after handle's check

limitVars == <<global, guests, perKey, perIP>>
seatVars == <<seats, game>>
identityVars == <<kind, fingerprint, ip>>
choiceVars == <<choice, overtaken>>
vars == <<limitVars, seatVars, pc, identityVars, choiceVars, listing>>

Stages == {"idle", "resolved", "admitted", "seated", "releasing"}

(* What a reload of games.toml or a probe can make of a game: online for   *)
(* everyone, or online for keyed players only (allow_guests = false).      *)
Entries == {"absent", "offline", "online", "keyed"}

TypeOK ==
    /\ global \in Nat /\ guests \in Nat
    /\ perKey \in [Keys -> Nat]
    /\ perIP \in [IPs -> Nat]
    /\ seats \subseteq Shells
    /\ game \in [Shells -> Games \cup {Menu}]
    /\ pc \in [Shells -> Stages]
    /\ kind \in [Shells -> {"keyed", "guest"}]
    /\ fingerprint \in [Shells -> Keys \cup {NoKey}]
    /\ ip \in [Shells -> IPs]
    /\ choice \in [Shells -> Games \cup {Menu}]
    /\ listing \in [Games -> Entries]
    /\ overtaken \subseteq Shells

AnyIP == CHOOSE a \in IPs : TRUE

Init ==
    /\ global = 0 /\ guests = 0
    /\ perKey = [k \in Keys |-> 0]
    /\ perIP = [a \in IPs |-> 0]
    /\ seats = {}
    /\ game = [s \in Shells |-> Menu]
    /\ pc = [s \in Shells |-> "idle"]
    /\ kind = [s \in Shells |-> "guest"]
    /\ fingerprint = [s \in Shells |-> NoKey]
    /\ ip = [s \in Shells |-> AnyIP]
    /\ choice = [s \in Shells |-> Menu]
    /\ listing = [g \in Games |-> "offline"]
    /\ overtaken = {}

----------------------------------------------------------------------------
(* The identities resolveIdentity accepts: a keyed extension with the key  *)
(* that authenticated, or a guest extension on a transport that offered no *)
(* key while guests are allowed.  Every other transport is sent away.      *)
Resolvable(authKind, key) ==
    \/ authKind = "keyed" /\ key # NoKey
    \/ authKind = "guest" /\ key = NoKey /\ AllowGuests

(* The shell's context, and the Identity in it, dies with its handler.     *)
Forget(s) ==
    /\ kind' = [kind EXCEPT ![s] = "guest"]
    /\ fingerprint' = [fingerprint EXCEPT ![s] = NoKey]
    /\ ip' = [ip EXCEPT ![s] = AnyIP]

(* scopeSession and resolveIdentity on a new channel of a transport that   *)
(* authenticated as authKind and last offered key.                         *)
Open(s, authKind, key, addr) ==
    /\ pc[s] = "idle"
    /\ Resolvable(authKind, key)
    /\ kind' = [kind EXCEPT ![s] = authKind]
    /\ fingerprint' = [fingerprint EXCEPT ![s] = key]
    /\ ip' = [ip EXCEPT ![s] = addr]
    /\ pc' = [pc EXCEPT ![s] = "resolved"]
    /\ UNCHANGED <<limitVars, seatVars, choiceVars, listing>>

(* Mutants of MayAcquire: no per-address cap; no guest caps at all.        *)
MutAcquireAnyAddress(s) ==
    /\ global < MaxConnections
    /\ IF kind[s] = "guest" THEN guests < MaxGuestSessions
                            ELSE perKey[fingerprint[s]] < MaxSessionsPerKey
MutAcquireAnyGuest(s) ==
    /\ global < MaxConnections
    /\ kind[s] = "keyed" => perKey[fingerprint[s]] < MaxSessionsPerKey

(* The caps acquire compares with, under the limits' mutex.                *)
MayAcquire(s) ==
    /\ global < MaxConnections
    /\ IF kind[s] = "guest"
       THEN guests < MaxGuestSessions /\ perIP[ip[s]] < MaxGuestSessionsPerIP
       ELSE perKey[fingerprint[s]] < MaxSessionsPerKey

(* acquire: one more slot of this kind.                                    *)
Acquire(s) ==
    /\ pc[s] = "resolved"
    /\ MayAcquire(s)
    /\ global' = global + 1
    /\ \/ /\ kind[s] = "guest"
          /\ guests' = guests + 1
          /\ perIP' = [perIP EXCEPT ![ip[s]] = @ + 1]
          /\ UNCHANGED perKey
       \/ /\ kind[s] = "keyed"
          /\ perKey' = [perKey EXCEPT ![fingerprint[s]] = @ + 1]
          /\ UNCHANGED <<guests, perIP>>
    /\ pc' = [pc EXCEPT ![s] = "admitted"]
    /\ UNCHANGED <<seatVars, identityVars, choiceVars, listing>>

(* Middleware's early return: nothing acquired, nothing to release.        *)
TurnAway(s) ==
    /\ pc[s] = "resolved"
    /\ ~MayAcquire(s)
    /\ pc' = [pc EXCEPT ![s] = "idle"]
    /\ Forget(s)
    /\ UNCHANGED <<limitVars, seatVars, choiceVars, listing>>

(* Mutant of RejectNoPTY: returns without running the deferred release.    *)
MutRejectKeepsSlot(s) ==
    /\ pc[s] = "admitted"
    /\ pc' = [pc EXCEPT ![s] = "idle"]
    /\ Forget(s)
    /\ UNCHANGED <<limitVars, seatVars, choiceVars, listing>>

(* RequirePTY's early return unwinds through the deferred release.         *)
RejectNoPTY(s) ==
    /\ pc[s] = "admitted"
    /\ pc' = [pc EXCEPT ![s] = "releasing"]
    /\ UNCHANGED <<limitVars, seatVars, identityVars, choiceVars, listing>>

(* handle: Tracker.Join; a seat starts in the menu.                        *)
Join(s) ==
    /\ pc[s] = "admitted"
    /\ seats' = seats \cup {s}
    /\ game' = [game EXCEPT ![s] = Menu]
    /\ pc' = [pc EXCEPT ![s] = "seated"]
    /\ UNCHANGED <<limitVars, identityVars, choiceVars, listing>>

(* Mutant of Playable: forgets the guest's key.                            *)
MutPlayableAnyone(s, g) == listing[g] \in {"online", "keyed"}

(* registry.Playable: a key-only game is refused to a guest, and a game    *)
(* that is gone or offline to everyone.                                    *)
Playable(s, g) ==
    \/ listing[g] = "online"
    \/ listing[g] = "keyed" /\ kind[s] = "keyed"

(* handle asks Playable again, with the registry's list of this moment,    *)
(* and keeps the game it returns.                                          *)
Check(s, g) ==
    /\ pc[s] = "seated"
    /\ choice[s] = Menu
    /\ Playable(s, g)
    /\ choice' = [choice EXCEPT ![s] = g]
    /\ UNCHANGED <<limitVars, seatVars, pc, identityVars, listing, overtaken>>

(* Seat.Enter, under the tracker's mutex: the list may have changed since. *)
Enter(s) ==
    /\ pc[s] = "seated"
    /\ choice[s] # Menu /\ game[s] = Menu
    /\ game' = [game EXCEPT ![s] = choice[s]]
    /\ UNCHANGED <<limitVars, seats, pc, identityVars, choiceVars, listing>>

(* bridge.Run returned: Seat.Lobby, and back to the menu.                  *)
Lobby(s) ==
    /\ pc[s] = "seated"
    /\ game[s] # Menu
    /\ game' = [game EXCEPT ![s] = Menu]
    /\ choice' = [choice EXCEPT ![s] = Menu]
    /\ overtaken' = overtaken \ {s}
    /\ UNCHANGED <<limitVars, seats, pc, identityVars, listing>>

(* Mutant of Leave: the deferred Seat.Leave is missing.                    *)
MutLeaveKeepsSeat(s) ==
    /\ pc[s] = "seated"
    /\ choice[s] = Menu
    /\ pc' = [pc EXCEPT ![s] = "releasing"]
    /\ UNCHANGED <<limitVars, seatVars, identityVars, choiceVars, listing>>

(* handle returns, always from the menu side: deferred Seat.Leave.         *)
Leave(s) ==
    /\ pc[s] = "seated"
    /\ choice[s] = Menu
    /\ seats' = seats \ {s}
    /\ pc' = [pc EXCEPT ![s] = "releasing"]
    /\ UNCHANGED <<limitVars, game, identityVars, choiceVars, listing>>

(* release: its guards skip the whole body when the entry is already 0.    *)
ReleaseGuest(s) ==
    /\ kind[s] = "guest"
    /\ IF perIP[ip[s]] = 0
       THEN UNCHANGED limitVars
       ELSE /\ guests' = guests - 1
            /\ perIP' = [perIP EXCEPT ![ip[s]] = @ - 1]
            /\ global' = global - 1
            /\ UNCHANGED perKey

(* release for a keyed identity.                                           *)
ReleaseKeyed(s) ==
    /\ kind[s] = "keyed"
    /\ IF perKey[fingerprint[s]] = 0
       THEN UNCHANGED limitVars
       ELSE /\ perKey' = [perKey EXCEPT ![fingerprint[s]] = @ - 1]
            /\ global' = global - 1
            /\ UNCHANGED <<guests, perIP>>

(* The deferred release ends the chain.                                    *)
Release(s) ==
    /\ pc[s] = "releasing"
    /\ ReleaseGuest(s) \/ ReleaseKeyed(s)
    /\ pc' = [pc EXCEPT ![s] = "idle"]
    /\ Forget(s)
    /\ UNCHANGED <<seatVars, choiceVars, listing>>

(* The registry reloads its file or probes a game (see Registry): its      *)
(* entry changes under the sessions' feet, between handle's check and the  *)
(* seat and in the middle of a game too.                                   *)
ListingChanges(g, entry) ==
    /\ listing[g] # entry
    /\ listing' = [listing EXCEPT ![g] = entry]
    /\ overtaken' = IF entry = "keyed"
                    THEN overtaken \cup {s \in Shells : kind[s] = "guest" /\ choice[s] = g}
                    ELSE overtaken
    /\ UNCHANGED <<limitVars, seatVars, pc, identityVars, choice>>

Step(s) ==
    \/ \E k \in {"keyed", "guest"}, key \in Keys \cup {NoKey}, addr \in IPs :
            Open(s, k, key, addr)
    \/ Acquire(s) \/ TurnAway(s) \/ RejectNoPTY(s)
    \/ Join(s) \/ Leave(s) \/ Release(s)
    \/ (\E g \in Games : Check(s, g)) \/ Enter(s) \/ Lobby(s)

Next ==
    \/ \E s \in Shells : Step(s)
    \/ \E g \in Games, entry \in Entries : ListingChanges(g, entry)

Spec == Init /\ [][Next]_vars

----------------------------------------------------------------------------
Holders == {s \in Shells : pc[s] \in {"admitted", "seated", "releasing"}}
GuestHolders == {s \in Holders : kind[s] = "guest"}
KeyHolders(k) == {s \in Holders : kind[s] = "keyed" /\ fingerprint[s] = k}
AddrHolders(a) == {s \in GuestHolders : ip[s] = a}

(* Every counter of SessionLimits equals the number of shells that hold a  *)
(* slot of that kind: over any sequence of admissions, refusals and        *)
(* unwinding handlers no slot leaks and none is given back twice.          *)
LedgerExact ==
    /\ global = Cardinality(Holders)
    /\ guests = Cardinality(GuestHolders)
    /\ \A k \in Keys : perKey[k] = Cardinality(KeyHolders(k))
    /\ \A a \in IPs : perIP[a] = Cardinality(AddrHolders(a))

(* The four caps hold of the shells inside the arcade, by whatever         *)
(* interleaving they were admitted.                                        *)
CapsHold ==
    /\ Cardinality(Holders) <= MaxConnections
    /\ Cardinality(GuestHolders) <= MaxGuestSessions
    /\ \A k \in Keys : Cardinality(KeyHolders(k)) <= MaxSessionsPerKey
    /\ \A a \in IPs : Cardinality(AddrHolders(a)) <= MaxGuestSessionsPerIP

(* "reserves part of the global budget for keyed players": a keyed shell   *)
(* below its own per-key cap is turned away only when keyed players        *)
(* themselves fill the share that guests can never take.                   *)
KeyedBudgetReserved ==
    \A s \in Shells :
        (/\ pc[s] = "resolved" /\ kind[s] = "keyed"
         /\ perKey[fingerprint[s]] < MaxSessionsPerKey
         /\ Cardinality(Holders \ GuestHolders) < MaxConnections - MaxGuestSessions)
            => MayAcquire(s)

(* "a rejected connection is never a player": the seats are those of the   *)
(* shells inside handle, each of which holds a slot of the caps for as     *)
(* long as its seat exists.  And a guest plays a game that requires a key  *)
(* only if the registry changed its mind after handle had checked: nobody  *)
(* is seated on a menu's older list, and a guest who comes back from such  *)
(* a game is checked afresh.                                               *)
SeatsHoldSlots ==
    /\ seats = {s \in Holders : pc[s] = "seated"}
    /\ \A s \in seats :
            (/\ kind[s] = "guest" /\ game[s] # Menu
             /\ listing[game[s]] = "keyed") => s \in overtaken
=============================================================================

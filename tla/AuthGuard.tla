----------------------------- MODULE AuthGuard -----------------------------
(***************************************************************************)
(* The pre-authentication guard of internal/server/authguard.go, with the  *)
(* authentication callbacks of auth.go and server.go that drive it.        *)
(*                                                                         *)
(* One SSH transport is one member of Conns.  Three kinds of goroutine     *)
(* touch the guard: the transport's own goroutine (auth), the SSH library  *)
(* moving the socket deadline (SetDeadline), and the shutdown path         *)
(* (closePending, which snapshots under the lock and closes outside it).   *)
(* authenticated() and Close() are two steps each, as in the code: they    *)
(* release one lock, or touch the socket, before they take guard.mu.       *)
(***************************************************************************)
EXTENDS Integers, FiniteSets

CONSTANTS
    Conns,                  \* transports; one is reused once it is released
    IPs,                    \* client addresses
    ClientIP,               \* the address each transport comes from
    MaxConnections, MaxPendingAuth,
    MaxGuestSessions, MaxGuestSessionsPerIP,
    AllowGuests

(* config.Load refuses any other setting.                                  *)
ASSUME ConfigAssumption ==
    /\ MaxConnections \in Nat \ {0}
    /\ MaxPendingAuth \in Nat \ {0}
    /\ MaxGuestSessions \in Nat \ {0}
    /\ MaxGuestSessionsPerIP \in Nat \ {0}
    /\ AllowGuests \in BOOLEAN
    /\ AllowGuests => MaxGuestSessions < MaxConnections

ASSUME ClientsAssumption ==
    /\ IsFiniteSet(Conns)
    /\ ClientIP \in [Conns -> IPs]

VARIABLES
    closed, pending, connections, guestConnections, guestIPs,  \* authGuard
    ready, deadline,        \* guardedConn, under deadlineMu
    link,                   \* the socket and its once: open, closing, released
    auth,                   \* where the transport's goroutine is
    authKind,               \* Permissions().Extensions["arcade-auth-kind"]
    toClose                 \* closePending's local slice, still to be closed

guardVars == <<closed, pending, connections, guestConnections, guestIPs>>
vars == <<guardVars, ready, deadline, link, auth, authKind, toClose>>

(* Deadlines are ordered; ZeroTime is "no deadline" (time.Time{}).         *)
ZeroTime == 0
AuthDeadline == 1
Late == 2

AuthStates == {"idle", "handshake", "accepted", "cleared", "serving"}

TypeOK ==
    /\ closed \in BOOLEAN
    /\ pending \subseteq Conns
    /\ connections \subseteq Conns
    /\ guestConnections \subseteq Conns
    /\ guestIPs \in [IPs -> Nat]
    /\ ready \in [Conns -> BOOLEAN]
    /\ deadline \in [Conns -> ZeroTime..Late]
    /\ link \in [Conns -> {"open", "closing", "released"}]
    /\ auth \in [Conns -> AuthStates]
    /\ authKind \in [Conns -> {"none", "keyed", "guest"}]
    /\ toClose \subseteq Conns

Init ==
    /\ closed = FALSE
    /\ pending = {}
    /\ connections = {}
    /\ guestConnections = {}
    /\ guestIPs = [ip \in IPs |-> 0]
    /\ ready = [c \in Conns |-> FALSE]
    /\ deadline = [c \in Conns |-> ZeroTime]
    /\ link = [c \in Conns |-> "released"]
    /\ auth = [c \in Conns |-> "idle"]
    /\ authKind = [c \in Conns |-> "none"]
    /\ toClose = {}

----------------------------------------------------------------------------
(* newAuthGuard is given MaxConnections + MaxPendingAuth slots.            *)
MaxTransports == MaxConnections + MaxPendingAuth

(* Mutants of CanWrap: an off-by-one in the pending cap, no closed check.  *)
MutCanWrapOneMore ==
    /\ ~closed
    /\ Cardinality(pending) <= MaxPendingAuth
    /\ Cardinality(connections) < MaxTransports
MutCanWrapClosed ==
    /\ Cardinality(pending) < MaxPendingAuth
    /\ Cardinality(connections) < MaxTransports

(* The three early returns of wrap.                                        *)
CanWrap ==
    /\ ~closed
    /\ Cardinality(pending) < MaxPendingAuth
    /\ Cardinality(connections) < MaxTransports

(* wrap: a refused connection leaves no trace, so only acceptance is a step. *)
Wrap(c) ==
    /\ auth[c] = "idle" /\ link[c] = "released" /\ c \notin toClose
    /\ CanWrap
    /\ pending' = pending \cup {c}
    /\ connections' = connections \cup {c}
    /\ ready' = [ready EXCEPT ![c] = FALSE]
    /\ deadline' = [deadline EXCEPT ![c] = AuthDeadline]
    /\ link' = [link EXCEPT ![c] = "open"]
    /\ auth' = [auth EXCEPT ![c] = "handshake"]
    /\ authKind' = [authKind EXCEPT ![c] = "none"]
    /\ UNCHANGED <<closed, guestConnections, guestIPs, toClose>>

(* Mutants of ClampedDeadline: the zero time slips through; no clamp.      *)
MutClampLateOnly(c, t) == IF ~ready[c] /\ t > AuthDeadline THEN AuthDeadline ELSE t
MutNoClamp(c, t) == t

(* What guardedConn.SetDeadline turns a requested time into.               *)
ClampedDeadline(c, t) ==
    IF ~ready[c] /\ (t = ZeroTime \/ t > AuthDeadline) THEN AuthDeadline ELSE t

(* The SSH library moves the deadline on every read and write.             *)
SetDeadline(c, t) ==
    /\ link[c] = "open"
    /\ deadline' = [deadline EXCEPT ![c] = ClampedDeadline(c, t)]
    /\ UNCHANGED <<guardVars, ready, link, auth, authKind, toClose>>

(* publicKeyAuth for an unsigned key query: the extension is already set,  *)
(* but the transport is not authenticated.                                 *)
QueryKey(c) ==
    /\ auth[c] = "handshake"
    /\ authKind' = [authKind EXCEPT ![c] = "keyed"]
    /\ UNCHANGED <<guardVars, ready, deadline, link, auth, toClose>>

(* publicKeyAuth for a key whose signature the library verified.           *)
AuthKey(c) ==
    /\ auth[c] = "handshake"
    /\ authKind' = [authKind EXCEPT ![c] = "keyed"]
    /\ auth' = [auth EXCEPT ![c] = "accepted"]
    /\ UNCHANGED <<guardVars, ready, deadline, link, toClose>>

(* Mutants of MayAdmitGuest: no check that the transport still exists, no  *)
(* guest caps.                                                             *)
MutAdmitReleased(c) ==
    /\ ~closed
    /\ \/ c \in guestConnections
       \/ /\ Cardinality(guestConnections) < MaxGuestSessions
          /\ guestIPs[ClientIP[c]] < MaxGuestSessionsPerIP
MutAdmitUncapped(c) == ~closed /\ c \in connections

(* The conditions under which admitGuest returns true.                     *)
MayAdmitGuest(c) ==
    /\ ~closed
    /\ c \in connections
    /\ \/ c \in guestConnections
       \/ /\ Cardinality(guestConnections) < MaxGuestSessions
          /\ guestIPs[ClientIP[c]] < MaxGuestSessionsPerIP

(* Mutant of GuestExtension: the extension of an earlier key query sticks. *)
MutKeepExtension(c) == IF authKind[c] = "none" THEN "guest" ELSE authKind[c]

(* guestAuth overwrites whatever extension a key query left.               *)
GuestExtension(c) == "guest"

(* guestAuth, with the answer "guest" and admitGuest under guard.mu.       *)
AuthGuest(c) ==
    /\ AllowGuests
    /\ auth[c] = "handshake"
    /\ MayAdmitGuest(c)
    /\ guestConnections' = guestConnections \cup {c}
    /\ guestIPs' = IF c \in guestConnections THEN guestIPs
                   ELSE [guestIPs EXCEPT ![ClientIP[c]] = @ + 1]
    /\ authKind' = [authKind EXCEPT ![c] = GuestExtension(c)]
    /\ auth' = [auth EXCEPT ![c] = "accepted"]
    /\ UNCHANGED <<closed, pending, connections, ready, deadline, link, toClose>>

(* AuthLogCallback with a nil error: authenticated, up to deadlineMu.Unlock. *)
MarkReady(c) ==
    /\ auth[c] = "accepted"
    /\ ready' = [ready EXCEPT ![c] = TRUE]
    /\ deadline' = [deadline EXCEPT ![c] = ZeroTime]
    /\ auth' = [auth EXCEPT ![c] = "cleared"]
    /\ UNCHANGED <<guardVars, link, authKind, toClose>>

(* The rest of authenticated: the transport stops counting as pending.     *)
LeavePending(c) ==
    /\ auth[c] = "cleared"
    /\ pending' = pending \ {c}
    /\ auth' = [auth EXCEPT ![c] = "serving"]
    /\ UNCHANGED <<closed, connections, guestConnections, guestIPs,
                   ready, deadline, link, authKind, toClose>>

(* Close, first half: the socket is closed by its own goroutine (the       *)
(* client left, the handshake failed or the session ended).                *)
HangUp(c) ==
    /\ link[c] = "open"
    /\ link' = [link EXCEPT ![c] = "closing"]
    /\ UNCHANGED <<guardVars, ready, deadline, auth, authKind, toClose>>

(* The socket deadline passes while the handshake still waits for input.   *)
Expire(c) ==
    /\ link[c] = "open"
    /\ auth[c] = "handshake"
    /\ deadline[c] # ZeroTime
    /\ link' = [link EXCEPT ![c] = "closing"]
    /\ UNCHANGED <<guardVars, ready, deadline, auth, authKind, toClose>>

(* The per-address counts once c gave up its guest slot, if it had one.    *)
GuestIPsWithout(c) ==
    IF c \in guestConnections THEN [guestIPs EXCEPT ![ClientIP[c]] = @ - 1]
                              ELSE guestIPs

(* Close, second half: the once.Do body under guard.mu.  guestIPs keeps 0  *)
(* where the code deletes the entry.                                       *)
Release(c) ==
    /\ link[c] = "closing"
    /\ link' = [link EXCEPT ![c] = "released"]
    /\ pending' = pending \ {c}
    /\ connections' = connections \ {c}
    /\ guestConnections' = guestConnections \ {c}
    /\ guestIPs' = GuestIPsWithout(c)
    /\ UNCHANGED <<closed, ready, deadline, auth, authKind, toClose>>

(* The transport's goroutine notices the closed socket and returns; until  *)
(* then it may still run the callbacks on bytes it has already read.  Its  *)
(* guardedConn is garbage afterwards.                                      *)
Return(c) ==
    /\ link[c] = "released"
    /\ auth[c] # "idle"
    /\ auth' = [auth EXCEPT ![c] = "idle"]
    /\ ready' = [ready EXCEPT ![c] = FALSE]
    /\ deadline' = [deadline EXCEPT ![c] = ZeroTime]
    /\ authKind' = [authKind EXCEPT ![c] = "none"]
    /\ UNCHANGED <<guardVars, link, toClose>>

(* closePending, up to guard.mu.Unlock.                                    *)
ClosePending ==
    /\ ~closed
    /\ closed' = TRUE
    /\ toClose' = pending
    /\ UNCHANGED <<pending, connections, guestConnections, guestIPs,
                   ready, deadline, link, auth, authKind>>

(* closePending's loop, outside the lock: Close on a member of the         *)
(* snapshot, which may have authenticated or closed since.  The loop goes  *)
(* on when Close has returned, that is when the once body has run.         *)
CloseNext(c) ==
    /\ c \in toClose /\ link[c] = "open"
    /\ link' = [link EXCEPT ![c] = "closing"]
    /\ UNCHANGED <<guardVars, ready, deadline, auth, authKind, toClose>>

CloseDone(c) ==
    /\ c \in toClose /\ link[c] = "released"
    /\ toClose' = toClose \ {c}
    /\ UNCHANGED <<guardVars, ready, deadline, link, auth, authKind>>

Deadlines == {ZeroTime, Late}

(* What goes on with a transport once it is accepted.                      *)
ConnStep(c) ==
    \/ QueryKey(c) \/ AuthKey(c) \/ AuthGuest(c)
    \/ MarkReady(c) \/ LeavePending(c)
    \/ HangUp(c) \/ Expire(c) \/ Release(c) \/ Return(c)
    \/ CloseNext(c) \/ CloseDone(c)
    \/ \E t \in Deadlines : SetDeadline(c, t)

Next == ClosePending \/ \E c \in Conns : Wrap(c) \/ ConnStep(c)

(* A set deadline eventually passes, and a goroutine that holds no lock    *)
(* eventually runs its next statement.  Nothing is assumed of the client.  *)
Fairness ==
    \A c \in Conns :
        /\ WF_vars(Expire(c))
        /\ WF_vars(MarkReady(c))
        /\ WF_vars(LeavePending(c))
        /\ WF_vars(Release(c))
        /\ WF_vars(Return(c))
        /\ WF_vars(CloseNext(c))
        /\ WF_vars(CloseDone(c))

Spec == Init /\ [][Next]_vars
FairSpec == Spec /\ Fairness

----------------------------------------------------------------------------
GuestsFrom(ip) == {c \in guestConnections : ClientIP[c] = ip}
KeyedServed == {c \in connections : ready[c] /\ authKind[c] = "keyed"}

(* The limits of authGuard hold of the transports themselves, not only of  *)
(* the counters wrap and admitGuest compare with.                          *)
CapsHold ==
    /\ Cardinality(pending) <= MaxPendingAuth
    /\ Cardinality(connections) <= MaxTransports
    /\ Cardinality(guestConnections) <= MaxGuestSessions
    /\ \A ip \in IPs : Cardinality(GuestsFrom(ip)) <= MaxGuestSessionsPerIP

(* guestIPs counts exactly the admitted guest transports of each address,  *)
(* and only live transports hold a slot: admitGuest racing Close leaks     *)
(* nothing.                                                                *)
GuestLedgerExact ==
    /\ pending \cup guestConnections \subseteq connections
    /\ \A ip \in IPs : guestIPs[ip] = Cardinality(GuestsFrom(ip))

(* "authenticating without opening a shell must not consume all connection *)
(* slots reserved for keyed clients": while a handshake slot is free and   *)
(* keyed transports are fewer than the keyed share, wrap never refuses for *)
(* lack of connection slots.                                               *)
KeyedShareReserved ==
    (/\ Cardinality(pending) < MaxPendingAuth
     /\ Cardinality(KeyedServed) < MaxConnections - MaxGuestSessions)
        => Cardinality(connections) < MaxTransports

(* Until it authenticates an accepted transport is always under a deadline *)
(* no later than its own auth deadline, whatever the library asks for; and *)
(* once it is authenticated the auth deadline no longer hangs over it.     *)
DeadlineClamped ==
    \A c \in connections :
        IF ready[c] THEN deadline[c] # AuthDeadline
                    ELSE deadline[c] = AuthDeadline

(* The extension resolveIdentity reads tells how the transport really      *)
(* authenticated: it says guest exactly for the transports that hold a     *)
(* guest slot, even after a key query on the same transport.               *)
KindMatchesSlot ==
    \A c \in connections :
        auth[c] \in {"accepted", "cleared", "serving"} =>
            (authKind[c] = "guest" <=> c \in guestConnections)

(* Once closePending has run, no transport, guest slot or pending          *)
(* handshake is ever added again.                                          *)
ClosedOnlyShrinks ==
    [][closed => /\ connections' \subseteq connections
                 /\ pending' \subseteq pending
                 /\ guestConnections' \subseteq guestConnections]_vars

(* No handshake is pending for ever, however silent its client: AuthTimeout *)
(* ends it even though the library keeps clearing the deadline.            *)
HandshakesEnd == \A c \in Conns : []<>(c \notin pending)

(* Shutdown empties the pending set, although closePending snapshots it    *)
(* and closes the members outside the lock.                                *)
ShutdownDrains == []<>closed => <>[](pending = {} /\ toClose = {})
=============================================================================

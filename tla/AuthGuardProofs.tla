-------------------------- MODULE AuthGuardProofs --------------------------
(***************************************************************************)
(* TLAPS proofs about AuthGuard, for every set of transports and every     *)
(* configuration that config.Load accepts.                                 *)
(*                                                                         *)
(* The invariants the runs check are not inductive by themselves: the      *)
(* ledger of guest slots is exact only because a transport is registered   *)
(* exactly while its socket is not released, and a guest slot is held only *)
(* after the authentication step that took it.  IInv adds these facts.     *)
(***************************************************************************)
EXTENDS AuthGuard, FiniteSetTheorems, TLAPS

Authenticated == {"accepted", "cleared", "serving"}

(* How a transport's socket, goroutine and registrations belong together.  *)
Registered ==
    /\ pending \subseteq connections
    /\ guestConnections \subseteq connections
    /\ \A c \in Conns :
        /\ c \in connections <=> link[c] # "released"
        /\ auth[c] = "idle" => link[c] = "released"
        /\ ready[c] <=> auth[c] \in {"cleared", "serving"}
        /\ c \in connections /\ c \notin pending => ready[c]
        /\ c \in guestConnections => auth[c] \in Authenticated
        /\ auth[c] \in Authenticated => authKind[c] # "none"

Ledger == \A ip \in IPs : guestIPs[ip] = Cardinality(GuestsFrom(ip))

Caps ==
    /\ Cardinality(pending) <= MaxPendingAuth
    /\ Cardinality(connections) <= MaxTransports
    /\ Cardinality(guestConnections) <= MaxGuestSessions
    /\ \A ip \in IPs : guestIPs[ip] <= MaxGuestSessionsPerIP

IInv ==
    /\ TypeOK
    /\ Registered
    /\ DeadlineClamped
    /\ KindMatchesSlot
    /\ Ledger
    /\ Caps

(* Every set of transports the guard keeps is finite.                      *)
LEMMA ConnsFinite ==
    ASSUME NEW S \in SUBSET Conns
    PROVE  IsFiniteSet(S) /\ Cardinality(S) \in Nat
BY ClientsAssumption, FS_Subset, FS_CardinalityType

(* Registering or forgetting one transport changes a count by at most one. *)
LEMMA CountAdd ==
    ASSUME NEW S \in SUBSET Conns, NEW c \in Conns
    PROVE  Cardinality(S \cup {c}) = IF c \in S THEN Cardinality(S)
                                               ELSE Cardinality(S) + 1
BY ConnsFinite, FS_AddElement

LEMMA CountRemove ==
    ASSUME NEW S \in SUBSET Conns, NEW c
    PROVE  Cardinality(S \ {c}) = IF c \in S THEN Cardinality(S) - 1
                                            ELSE Cardinality(S)
BY ConnsFinite, FS_RemoveElement

(* A set with a member has a positive count.                               *)
LEMMA CountPositive ==
    ASSUME NEW S \in SUBSET Conns, NEW c \in S
    PROVE  Cardinality(S) > 0
<1>1. IsFiniteSet(S) /\ Cardinality(S) \in Nat BY ConnsFinite
<1>2. Cardinality(S) # 0 BY <1>1, FS_EmptySet
<1> QED BY <1>1, <1>2

LEMMA DeadlineTypes ==
    ZeroTime \in ZeroTime..Late /\ AuthDeadline \in ZeroTime..Late /\ Late \in ZeroTime..Late
BY DEF ZeroTime, AuthDeadline, Late

LEMMA InitIInv == Init => IInv
<1> SUFFICES ASSUME Init PROVE IInv
  OBVIOUS
<1> USE DEF Init
<1>1. TypeOK BY DeadlineTypes DEF TypeOK, AuthStates
<1>2. Registered BY DEF Registered, Authenticated
<1>3. DeadlineClamped BY DEF DeadlineClamped
<1>4. KindMatchesSlot BY DEF KindMatchesSlot
<1>5. Ledger
  <2>1. \A ip \in IPs : GuestsFrom(ip) = {} BY DEF GuestsFrom
  <2> QED BY <2>1, FS_EmptySet DEF Ledger
<1>6. Caps BY FS_EmptySet, ConfigAssumption DEF Caps, MaxTransports
<1> QED BY <1>1, <1>2, <1>3, <1>4, <1>5, <1>6 DEF IInv

(* The per-address counts before a step bound what Release may subtract.   *)
LEMMA GuestCounted ==
    ASSUME IInv, NEW c \in guestConnections
    PROVE  guestIPs[ClientIP[c]] > 0
<1>1. c \in GuestsFrom(ClientIP[c]) /\ GuestsFrom(ClientIP[c]) \in SUBSET Conns
  BY DEF IInv, TypeOK, GuestsFrom
<1>2. ClientIP[c] \in IPs BY ClientsAssumption DEF IInv, TypeOK
<1> QED BY <1>1, <1>2, CountPositive DEF IInv, Ledger

LEMMA StepType == IInv /\ [Next]_vars => TypeOK'
<1> SUFFICES ASSUME IInv, [Next]_vars PROVE TypeOK'
  OBVIOUS
<1> USE ClientsAssumption, DeadlineTypes DEF IInv, TypeOK, guardVars, AuthStates
<1>1. CASE ClosePending BY <1>1 DEF ClosePending
<1>2. CASE \E c \in Conns : Wrap(c) BY <1>2 DEF Wrap
<1>3. CASE \E c \in Conns : QueryKey(c) \/ AuthKey(c) BY <1>3 DEF QueryKey, AuthKey
<1>4. CASE \E c \in Conns : AuthGuest(c) BY <1>4 DEF AuthGuest, GuestExtension
<1>5. CASE \E c \in Conns : MarkReady(c)
  <2> PICK c \in Conns : MarkReady(c) BY <1>5
  <2>1. deadline' \in [Conns -> ZeroTime..Late] BY DEF MarkReady
  <2> QED BY <2>1 DEF MarkReady
<1>5a. CASE \E c \in Conns : LeavePending(c) BY <1>5a DEF LeavePending
<1>6. CASE \E c \in Conns : HangUp(c) \/ Expire(c) BY <1>6 DEF HangUp, Expire
<1>7. CASE \E c \in Conns : Release(c)
  <2> PICK c \in Conns : Release(c) BY <1>7
  <2>1. CASE c \in guestConnections
    <3>1. guestIPs[ClientIP[c]] > 0 BY <2>1, GuestCounted
    <3> QED BY <2>1, <3>1 DEF Release, GuestIPsWithout
  <2>2. CASE c \notin guestConnections BY <2>2 DEF Release, GuestIPsWithout
  <2> QED BY <2>1, <2>2
<1>8. CASE \E c \in Conns : Return(c)
  <2> PICK c \in Conns : Return(c) BY <1>8
  <2>1. deadline' \in [Conns -> ZeroTime..Late] BY DEF Return
  <2> QED BY <2>1 DEF Return
<1>8a. CASE \E c \in Conns : CloseNext(c) \/ CloseDone(c) BY <1>8a DEF CloseNext, CloseDone
<1>9. CASE \E c \in Conns, t \in Deadlines : SetDeadline(c, t)
  BY <1>9 DEF SetDeadline, ClampedDeadline, Deadlines
<1>10. CASE UNCHANGED vars BY <1>10 DEF vars
<1> QED
  BY <1>1, <1>2, <1>3, <1>4, <1>5, <1>5a, <1>6, <1>7, <1>8, <1>8a, <1>9, <1>10 DEF Next, ConnStep

LEMMA StepRegistered == IInv /\ [Next]_vars => Registered'
<1> SUFFICES ASSUME IInv, [Next]_vars PROVE Registered'
  OBVIOUS
<1> USE DEF IInv, TypeOK, Registered, Authenticated, guardVars, AuthStates
<1>1. CASE ClosePending BY <1>1 DEF ClosePending
<1>2. CASE \E c \in Conns : Wrap(c) BY <1>2 DEF Wrap
<1>3. CASE \E c \in Conns : QueryKey(c) BY <1>3 DEF QueryKey
<1>4. CASE \E c \in Conns : AuthKey(c) BY <1>4 DEF AuthKey
<1>5. CASE \E c \in Conns : AuthGuest(c) BY <1>5 DEF AuthGuest, GuestExtension, MayAdmitGuest
<1>6. CASE \E c \in Conns : MarkReady(c) BY <1>6 DEF MarkReady
<1>7. CASE \E c \in Conns : LeavePending(c) BY <1>7 DEF LeavePending
<1>8. CASE \E c \in Conns : HangUp(c) \/ Expire(c) BY <1>8 DEF HangUp, Expire
<1>9. CASE \E c \in Conns : Release(c) BY <1>9 DEF Release
<1>10. CASE \E c \in Conns : Return(c) BY <1>10 DEF Return
<1>11. CASE \E c \in Conns : CloseNext(c) \/ CloseDone(c) BY <1>11 DEF CloseNext, CloseDone
<1>12. CASE \E c \in Conns, t \in Deadlines : SetDeadline(c, t) BY <1>12 DEF SetDeadline
<1>13. CASE UNCHANGED vars BY <1>13 DEF vars
<1> QED
  BY <1>1, <1>2, <1>3, <1>4, <1>5, <1>6, <1>7, <1>8, <1>9, <1>10, <1>11, <1>12, <1>13 DEF Next, ConnStep

LEMMA StepDeadline == IInv /\ [Next]_vars => DeadlineClamped'
<1> SUFFICES ASSUME IInv, [Next]_vars PROVE DeadlineClamped'
  OBVIOUS
<1> USE DEF IInv, TypeOK, Registered, DeadlineClamped, guardVars, AuthStates,
            ZeroTime, AuthDeadline, Late
<1>1. CASE ClosePending BY <1>1 DEF ClosePending
<1>2. CASE \E c \in Conns : Wrap(c) BY <1>2 DEF Wrap
<1>3. CASE \E c \in Conns : QueryKey(c) \/ AuthKey(c) BY <1>3 DEF QueryKey, AuthKey
<1>4. CASE \E c \in Conns : AuthGuest(c) BY <1>4 DEF AuthGuest
<1>5. CASE \E c \in Conns : MarkReady(c) BY <1>5 DEF MarkReady
<1>6. CASE \E c \in Conns : LeavePending(c) BY <1>6 DEF LeavePending
<1>7. CASE \E c \in Conns : HangUp(c) \/ Expire(c) BY <1>7 DEF HangUp, Expire
<1>8. CASE \E c \in Conns : Release(c) BY <1>8 DEF Release
<1>9. CASE \E c \in Conns : Return(c) BY <1>9 DEF Return
<1>10. CASE \E c \in Conns : CloseNext(c) \/ CloseDone(c) BY <1>10 DEF CloseNext, CloseDone
<1>11. CASE \E c \in Conns, t \in Deadlines : SetDeadline(c, t)
  BY <1>11 DEF SetDeadline, ClampedDeadline, Deadlines
<1>12. CASE UNCHANGED vars BY <1>12 DEF vars
<1> QED
  BY <1>1, <1>2, <1>3, <1>4, <1>5, <1>6, <1>7, <1>8, <1>9, <1>10, <1>11, <1>12 DEF Next, ConnStep

LEMMA StepKind == IInv /\ [Next]_vars => KindMatchesSlot'
<1> SUFFICES ASSUME IInv, [Next]_vars PROVE KindMatchesSlot'
  OBVIOUS
<1> USE DEF IInv, TypeOK, Registered, KindMatchesSlot, Authenticated, guardVars, AuthStates
<1>1. CASE ClosePending BY <1>1 DEF ClosePending
<1>2. CASE \E c \in Conns : Wrap(c) BY <1>2 DEF Wrap
<1>3. CASE \E c \in Conns : QueryKey(c) BY <1>3 DEF QueryKey
<1>4. CASE \E c \in Conns : AuthKey(c) BY <1>4 DEF AuthKey
<1>5. CASE \E c \in Conns : AuthGuest(c) BY <1>5 DEF AuthGuest, GuestExtension
<1>6. CASE \E c \in Conns : MarkReady(c) BY <1>6 DEF MarkReady
<1>7. CASE \E c \in Conns : LeavePending(c) BY <1>7 DEF LeavePending
<1>8. CASE \E c \in Conns : HangUp(c) \/ Expire(c) BY <1>8 DEF HangUp, Expire
<1>9. CASE \E c \in Conns : Release(c) BY <1>9 DEF Release
<1>10. CASE \E c \in Conns : Return(c) BY <1>10 DEF Return
<1>11. CASE \E c \in Conns : CloseNext(c) \/ CloseDone(c) BY <1>11 DEF CloseNext, CloseDone
<1>12. CASE \E c \in Conns, t \in Deadlines : SetDeadline(c, t) BY <1>12 DEF SetDeadline
<1>13. CASE UNCHANGED vars BY <1>13 DEF vars
<1> QED
  BY <1>1, <1>2, <1>3, <1>4, <1>5, <1>6, <1>7, <1>8, <1>9, <1>10, <1>11, <1>12, <1>13 DEF Next, ConnStep

(* Only AuthGuest and Release touch the guest slots.                       *)
LEMMA GuestsChange ==
    ASSUME [Next]_vars
    PROVE  \/ \E c \in Conns : AuthGuest(c)
           \/ \E c \in Conns : Release(c)
           \/ UNCHANGED <<guestConnections, guestIPs>>
BY DEF Next, ConnStep, vars, guardVars, ClosePending, Wrap, QueryKey, AuthKey, MarkReady, LeavePending,
       HangUp, Expire, Return, CloseNext, CloseDone, SetDeadline

LEMMA StepLedger == IInv /\ [Next]_vars => Ledger'
<1> SUFFICES ASSUME IInv, [Next]_vars, NEW ip \in IPs
             PROVE  guestIPs'[ip] = Cardinality(GuestsFrom(ip)')
  BY DEF Ledger
<1>a. GuestsFrom(ip) \in SUBSET Conns /\ guestIPs[ip] = Cardinality(GuestsFrom(ip))
  BY DEF IInv, TypeOK, Ledger, GuestsFrom
<1>b. guestIPs \in [IPs -> Nat] BY DEF IInv, TypeOK
<1>1. CASE \E c \in Conns : AuthGuest(c)
  <2> PICK c \in Conns : AuthGuest(c) BY <1>1
  <2>1. c \notin guestConnections BY DEF AuthGuest, IInv, Registered, Authenticated
  <2>2. guestIPs' = [guestIPs EXCEPT ![ClientIP[c]] = @ + 1]
    BY <2>1 DEF AuthGuest
  <2>3. CASE ClientIP[c] = ip
    <3>1. GuestsFrom(ip)' = GuestsFrom(ip) \cup {c} /\ c \notin GuestsFrom(ip)
      BY <2>1, <2>3 DEF AuthGuest, GuestsFrom
    <3> QED BY <3>1, <2>2, <2>3, <1>a, <1>b, CountAdd
  <2>4. CASE ClientIP[c] # ip
    <3>1. GuestsFrom(ip)' = GuestsFrom(ip) BY <2>4 DEF AuthGuest, GuestsFrom
    <3> QED BY <3>1, <2>2, <2>4, <1>a, <1>b
  <2> QED BY <2>3, <2>4
<1>2. CASE \E c \in Conns : Release(c)
  <2> PICK c \in Conns : Release(c) BY <1>2
  <2>1. GuestsFrom(ip)' = GuestsFrom(ip) \ {c} BY DEF Release, GuestsFrom
  <2>2. c \in GuestsFrom(ip) <=> c \in guestConnections /\ ClientIP[c] = ip
    BY DEF GuestsFrom
  <2>3. guestIPs' = GuestIPsWithout(c) BY DEF Release
  <2>4. Cardinality(GuestsFrom(ip) \ {c}) = IF c \in GuestsFrom(ip) THEN guestIPs[ip] - 1
                                                                    ELSE guestIPs[ip]
    BY <1>a, CountRemove
  <2> QED BY <2>1, <2>2, <2>3, <2>4, <1>b DEF GuestIPsWithout
<1>3. CASE UNCHANGED <<guestConnections, guestIPs>> BY <1>3, <1>a DEF GuestsFrom
<1> QED BY <1>1, <1>2, <1>3, GuestsChange

(* Apart from Wrap, no step adds a transport or a pending handshake.       *)
LEMMA TransportsChange ==
    ASSUME [Next]_vars
    PROVE  \/ \E c \in Conns : Wrap(c)
           \/ connections' \subseteq connections /\ pending' \subseteq pending
BY DEF Next, ConnStep, vars, guardVars, ClosePending, QueryKey, AuthKey, AuthGuest, MarkReady,
       LeavePending, HangUp, Expire, Release, Return, CloseNext, CloseDone, SetDeadline

LEMMA StepCaps == IInv /\ [Next]_vars => Caps'
<1> SUFFICES ASSUME IInv, [Next]_vars PROVE Caps'
  OBVIOUS
<1> USE ConfigAssumption, ClientsAssumption DEF IInv, TypeOK, Caps
<1>0. MaxTransports \in Nat BY DEF MaxTransports
<1>1. Cardinality(pending') <= MaxPendingAuth /\ Cardinality(connections') <= MaxTransports
  <2>1. CASE \E c \in Conns : Wrap(c)
    <3> PICK c \in Conns : Wrap(c) BY <2>1
    <3>1. pending' = pending \cup {c} /\ connections' = connections \cup {c} BY DEF Wrap
    <3>2. CanWrap BY DEF Wrap
    <3>3. Cardinality(pending) \in Nat /\ Cardinality(connections) \in Nat BY ConnsFinite
    <3>4. Cardinality(pending') <= Cardinality(pending) + 1
          /\ Cardinality(pending') \in Nat
      <4>1. pending \in SUBSET Conns OBVIOUS
      <4> QED BY <4>1, <3>1, <3>3, CountAdd
    <3>5. Cardinality(connections') <= Cardinality(connections) + 1
          /\ Cardinality(connections') \in Nat
      <4>1. connections \in SUBSET Conns OBVIOUS
      <4> QED BY <4>1, <3>1, <3>3, CountAdd
    <3>6. Cardinality(pending') <= MaxPendingAuth BY <3>2, <3>3, <3>4 DEF CanWrap
    <3>7. Cardinality(connections') <= MaxTransports BY <1>0, <3>2, <3>3, <3>5 DEF CanWrap
    <3> QED BY <3>6, <3>7
  <2>2. CASE connections' \subseteq connections /\ pending' \subseteq pending
    <3>1. Cardinality(pending') <= Cardinality(pending)
          /\ Cardinality(connections') <= Cardinality(connections)
      BY <2>2, ConnsFinite, FS_Subset
    <3>2. /\ Cardinality(pending) \in Nat /\ Cardinality(connections) \in Nat
          /\ Cardinality(pending') \in Nat /\ Cardinality(connections') \in Nat
      BY <2>2, ConnsFinite
    <3> QED BY <1>0, <3>1, <3>2
  <2> QED BY <2>1, <2>2, TransportsChange
<1>2. Cardinality(guestConnections') <= MaxGuestSessions
      /\ \A ip \in IPs : guestIPs'[ip] <= MaxGuestSessionsPerIP
  <2>1. CASE \E c \in Conns : AuthGuest(c)
    <3> PICK c \in Conns : AuthGuest(c) BY <2>1
    <3>1. c \notin guestConnections BY DEF AuthGuest, Registered, Authenticated
    <3>2. guestConnections' = guestConnections \cup {c} BY DEF AuthGuest
    <3>3. guestIPs' = [guestIPs EXCEPT ![ClientIP[c]] = @ + 1] BY <3>1 DEF AuthGuest
    <3>4. Cardinality(guestConnections) < MaxGuestSessions
          /\ guestIPs[ClientIP[c]] < MaxGuestSessionsPerIP
      BY <3>1 DEF AuthGuest, MayAdmitGuest
    <3>5. Cardinality(guestConnections) \in Nat BY ConnsFinite
    <3>6. Cardinality(guestConnections') <= MaxGuestSessions
      BY <3>1, <3>2, <3>4, <3>5, CountAdd
    <3>7. \A ip \in IPs : guestIPs'[ip] <= MaxGuestSessionsPerIP BY <3>3, <3>4
    <3> QED BY <3>6, <3>7
  <2>2. CASE \E c \in Conns : Release(c)
    <3> PICK c \in Conns : Release(c) BY <2>2
    <3>1. Cardinality(guestConnections') <= Cardinality(guestConnections)
          /\ Cardinality(guestConnections') \in Nat /\ Cardinality(guestConnections) \in Nat
      BY ConnsFinite, FS_Subset DEF Release
    <3>2. Cardinality(guestConnections') <= MaxGuestSessions BY <3>1
    <3>3. \A ip \in IPs : guestIPs[ip] \in Nat /\ guestIPs[ip] <= MaxGuestSessionsPerIP
      OBVIOUS
    <3>4. \A ip \in IPs : guestIPs'[ip] = guestIPs[ip] \/ guestIPs'[ip] = guestIPs[ip] - 1
      BY DEF Release, GuestIPsWithout
    <3>5. \A ip \in IPs : guestIPs'[ip] <= MaxGuestSessionsPerIP BY <3>3, <3>4
    <3> QED BY <3>2, <3>5
  <2>3. CASE UNCHANGED <<guestConnections, guestIPs>> BY <2>3
  <2> QED BY <2>1, <2>2, <2>3, GuestsChange
<1> QED BY <1>1, <1>2

(* The strengthened invariant holds in every reachable state.              *)
THEOREM Invariance == Spec => []IInv
<1>1. IInv /\ [Next]_vars => IInv'
  BY StepType, StepRegistered, StepDeadline, StepKind, StepLedger, StepCaps DEF IInv
<1> QED BY InitIInv, <1>1, PTL DEF Spec

(* wrap, authenticated, admitGuest and Close keep the guard's maps typed;  *)
(* in particular no per-address guest count ever goes below zero.          *)
THEOREM TypeCorrect == Spec => []TypeOK
<1>1. IInv => TypeOK BY DEF IInv
<1> QED BY Invariance, <1>1, PTL

(* guardedConn's clamp: until it authenticates a transport is under its    *)
(* auth deadline whatever the library sets, and no longer afterwards.      *)
THEOREM ClampCorrect == Spec => []DeadlineClamped
<1>1. IInv => DeadlineClamped BY DEF IInv
<1> QED BY Invariance, <1>1, PTL

(* The extension that resolveIdentity reads says guest exactly for the     *)
(* transports that hold a guest slot, for any number of transports.        *)
THEOREM KindCorrect == Spec => []KindMatchesSlot
<1>1. IInv => KindMatchesSlot BY DEF IInv
<1> QED BY Invariance, <1>1, PTL

(* guestIPs counts exactly the live guest transports of each address.      *)
THEOREM LedgerCorrect == Spec => []GuestLedgerExact
<1>1. IInv => GuestLedgerExact BY DEF IInv, Registered, Ledger, GuestLedgerExact
<1> QED BY Invariance, <1>1, PTL

(* The four caps of the guard, for every configuration.                    *)
THEOREM CapsCorrect == Spec => []CapsHold
<1>1. IInv => CapsHold BY DEF IInv, Caps, Ledger, CapsHold
<1> QED BY Invariance, <1>1, PTL

LEMMA UnionBound ==
    ASSUME NEW S \in SUBSET Conns, NEW T \in SUBSET Conns
    PROVE  Cardinality(S \cup T) <= Cardinality(S) + Cardinality(T)
<1>1. /\ IsFiniteSet(S) /\ IsFiniteSet(T)
      /\ Cardinality(S) \in Nat /\ Cardinality(T) \in Nat
  BY ConnsFinite
<1>2. S \cap T \in SUBSET Conns OBVIOUS
<1>3. Cardinality(S \cap T) \in Nat BY <1>2, ConnsFinite
<1>4. Cardinality(S \cup T) = Cardinality(S) + Cardinality(T) - Cardinality(S \cap T)
  BY <1>1, FS_Union
<1> QED BY <1>1, <1>3, <1>4

(* Guests and handshakes can never use up the keyed share of connections:  *)
(* a transport is pending, a counted guest or a served keyed client, and   *)
(* the first two are capped.                                               *)
THEOREM KeyedShareCorrect == Spec => []KeyedShareReserved
<1>1. IInv => KeyedShareReserved
  <2> SUFFICES ASSUME IInv,
                      Cardinality(pending) < MaxPendingAuth,
                      Cardinality(KeyedServed) < MaxConnections - MaxGuestSessions
               PROVE  Cardinality(connections) < MaxTransports
    BY DEF KeyedShareReserved
  <2> DEFINE Cover == (pending \cup guestConnections) \cup KeyedServed
  <2>1. connections \subseteq Cover
    BY DEF IInv, TypeOK, Registered, KindMatchesSlot, Authenticated, KeyedServed
  <2>2. /\ pending \in SUBSET Conns /\ guestConnections \in SUBSET Conns
        /\ KeyedServed \in SUBSET Conns /\ connections \in SUBSET Conns
    BY DEF IInv, TypeOK, KeyedServed
  <2>3. IsFiniteSet(pending) /\ IsFiniteSet(guestConnections) /\ IsFiniteSet(KeyedServed)
        /\ IsFiniteSet(pending \cup guestConnections) /\ IsFiniteSet(Cover)
    BY <2>2, ConnsFinite
  <2>4. /\ Cardinality(pending) \in Nat /\ Cardinality(guestConnections) \in Nat
        /\ Cardinality(KeyedServed) \in Nat /\ Cardinality(connections) \in Nat
        /\ Cardinality(Cover) \in Nat /\ Cardinality(pending \cup guestConnections) \in Nat
    BY <2>2, ConnsFinite
  <2>5. Cardinality(connections) <= Cardinality(Cover) BY <2>1, <2>3, FS_Subset
  <2>6. Cardinality(pending \cup guestConnections)
            <= Cardinality(pending) + Cardinality(guestConnections)
    BY <2>2, UnionBound
  <2>7. Cardinality(Cover) <= Cardinality(pending \cup guestConnections) + Cardinality(KeyedServed)
    BY <2>2, UnionBound
  <2>8. Cardinality(guestConnections) <= MaxGuestSessions BY DEF IInv, Caps
  <2> QED BY <2>4, <2>5, <2>6, <2>7, <2>8, ConfigAssumption DEF MaxTransports
<1> QED BY Invariance, <1>1, PTL

(* After closePending nothing is ever admitted again.                      *)
THEOREM ClosedCorrect == Spec => ClosedOnlyShrinks
<1>1. [Next]_vars => [closed => /\ connections' \subseteq connections
                               /\ pending' \subseteq pending
                               /\ guestConnections' \subseteq guestConnections]_vars
  <2> SUFFICES ASSUME [Next]_vars, closed
               PROVE  /\ connections' \subseteq connections
                      /\ pending' \subseteq pending
                      /\ guestConnections' \subseteq guestConnections
    OBVIOUS
  <2>1. connections' \subseteq connections /\ pending' \subseteq pending
    BY TransportsChange DEF Wrap, CanWrap
  <2>2. guestConnections' \subseteq guestConnections
    BY GuestsChange DEF AuthGuest, MayAdmitGuest, Release
  <2> QED BY <2>1, <2>2
<1> QED BY <1>1, PTL DEF Spec, ClosedOnlyShrinks
=============================================================================

--------------------------- MODULE SessionsProofs ---------------------------
(***************************************************************************)
(* The session caps of Sessions hold for any number of shells, keys and    *)
(* addresses and every configuration config.Load accepts, and so do the    *)
(* promises of the document that Publisher makes of the seats.             *)
(*                                                                         *)
(* acquire compares the counters, while the promises are about shells, so  *)
(* the ledger is the heart of the inductive invariant: every counter is    *)
(* the number of shells that hold such a slot.  It needs the types, and    *)
(* Identified: a keyed shell that has passed resolveIdentity has a key, so *)
(* acquire and release count the same entry.                               *)
(*                                                                         *)
(* The publisher's part is built on it: IInv bounds what Tracker.Counts    *)
(* can say, CountsOK carries that to the moment the games are listed, and  *)
(* Turns says which goroutine may be inside publish.                       *)
(***************************************************************************)
EXTENDS Publisher, FiniteSetTheorems, TLAPS

Identified ==
    \A s \in Shells : pc[s] # "idle" /\ kind[s] = "keyed" => fingerprint[s] \in Keys

(* The caps as acquire sees them.                                          *)
Caps ==
    /\ global <= MaxConnections
    /\ guests <= MaxGuestSessions
    /\ \A k \in Keys : perKey[k] <= MaxSessionsPerKey
    /\ \A a \in IPs : perIP[a] <= MaxGuestSessionsPerIP

(* The seats are the shells inside handle.  Only there is a game chosen,   *)
(* a seat is in the menu or in the chosen game, and a guest's choice is    *)
(* key-only only if it was overtaken.                                      *)
Seated ==
    /\ seats = {s \in Shells : pc[s] = "seated"}
    /\ \A s \in Shells :
        /\ game[s] \in {Menu, choice[s]}
        /\ choice[s] # Menu => pc[s] = "seated"
        /\ (/\ kind[s] = "guest" /\ choice[s] # Menu
            /\ listing[choice[s]] = "keyed") => s \in overtaken

IInv == TypeOK /\ Identified /\ LedgerExact /\ Caps /\ Seated

----------------------------------------------------------------------------
(* Counting sets of shells.                                                *)
LEMMA ShellsFinite ==
    ASSUME NEW S \in SUBSET Shells
    PROVE  IsFiniteSet(S) /\ Cardinality(S) \in Nat
BY ShellsAssumption, FS_Subset, FS_CardinalityType

LEMMA CountAdd ==
    ASSUME NEW S \in SUBSET Shells, NEW s \in Shells, s \notin S
    PROVE  Cardinality(S \cup {s}) = Cardinality(S) + 1
BY ShellsFinite, FS_AddElement

LEMMA CountRemove ==
    ASSUME NEW S \in SUBSET Shells, NEW s, s \in S
    PROVE  Cardinality(S \ {s}) = Cardinality(S) - 1
BY ShellsFinite, FS_RemoveElement

(* A counted set with a member has a positive count.                       *)
LEMMA CountPositive ==
    ASSUME NEW S \in SUBSET Shells, NEW s, s \in S
    PROVE  Cardinality(S) # 0
BY ShellsFinite, FS_EmptySet

LEMMA HolderSets ==
    /\ Holders \in SUBSET Shells /\ GuestHolders \in SUBSET Shells
    /\ \A k : KeyHolders(k) \in SUBSET Shells
    /\ \A a : AddrHolders(a) \in SUBSET Shells
BY DEF Holders, GuestHolders, KeyHolders, AddrHolders

----------------------------------------------------------------------------
LEMMA InitIInv == Init => IInv
<1> SUFFICES ASSUME Init PROVE IInv OBVIOUS
<1> USE LimitsAssumption, ShellsAssumption
<1>1. TypeOK
  <2>1. AnyIP \in IPs BY DEF AnyIP
  <2> QED BY <2>1 DEF Init, TypeOK, Stages, Entries
<1>2. Holders = {} /\ GuestHolders = {} /\ (\A k : KeyHolders(k) = {})
      /\ (\A a : AddrHolders(a) = {})
  BY DEF Init, Holders, GuestHolders, KeyHolders, AddrHolders
<1>3. LedgerExact BY <1>2, FS_EmptySet DEF Init, LedgerExact
<1>4. Caps BY DEF Init, Caps
<1> QED BY <1>1, <1>3, <1>4 DEF Init, IInv, Identified, Seated

LEMMA StepType == IInv /\ [Next]_vars => TypeOK'
<1> SUFFICES ASSUME IInv, [Next]_vars PROVE TypeOK' OBVIOUS
<1> USE ShellsAssumption DEF IInv, TypeOK, Stages, Entries
<1>0. AnyIP \in IPs BY DEF AnyIP
<1>1. ASSUME NEW s \in Shells, NEW k \in {"keyed", "guest"}, NEW key \in Keys \cup {NoKey},
             NEW addr \in IPs, Open(s, k, key, addr)
      PROVE  TypeOK'
  BY <1>1 DEF Open, choiceVars, limitVars, seatVars
<1>2. ASSUME NEW s \in Shells, Acquire(s) PROVE TypeOK'
  BY <1>2 DEF Acquire, choiceVars, Identified, seatVars, identityVars
<1>3. ASSUME NEW s \in Shells, TurnAway(s) PROVE TypeOK'
  BY <1>0, <1>3 DEF TurnAway, choiceVars, Forget, limitVars, seatVars
<1>4. ASSUME NEW s \in Shells, RejectNoPTY(s) PROVE TypeOK'
  BY <1>4 DEF RejectNoPTY, choiceVars, limitVars, seatVars, identityVars
<1>5. ASSUME NEW s \in Shells, Join(s) PROVE TypeOK'
  BY <1>5 DEF Join, choiceVars, limitVars, identityVars
<1>6. ASSUME NEW s \in Shells, NEW g \in Games, Check(s, g) PROVE TypeOK'
  BY <1>6 DEF Check, limitVars, identityVars, seatVars
<1>12. ASSUME NEW s \in Shells, Enter(s) PROVE TypeOK'
  BY <1>12 DEF Enter, limitVars, identityVars, choiceVars
<1>7. ASSUME NEW s \in Shells, Lobby(s) PROVE TypeOK'
  BY <1>7 DEF Lobby, limitVars, identityVars
<1>8. ASSUME NEW s \in Shells, Leave(s) PROVE TypeOK'
  BY <1>8 DEF Leave, choiceVars, limitVars, identityVars
<1>9. ASSUME NEW s \in Shells, Release(s) PROVE TypeOK'
  <2>1. pc[s] = "releasing" /\ s \in Holders BY <1>9 DEF Release, Holders
  <2>2. /\ global' \in Nat /\ guests' \in Nat
        /\ perKey' \in [Keys -> Nat] /\ perIP' \in [IPs -> Nat]
    <3>1. global # 0 BY <2>1, HolderSets, CountPositive DEF LedgerExact
    <3>2. CASE kind[s] = "guest"
      <4>1. guests # 0
        <5>1. s \in GuestHolders BY <2>1, <3>2 DEF GuestHolders
        <5> QED BY <5>1, HolderSets, CountPositive DEF LedgerExact
      <4> QED BY <1>9, <3>1, <3>2, <4>1 DEF Release, ReleaseGuest, ReleaseKeyed, limitVars
    <3>3. CASE kind[s] = "keyed"
      BY <1>9, <2>1, <3>1, <3>3 DEF Release, ReleaseGuest, ReleaseKeyed, limitVars, Identified
    <3> QED BY <3>2, <3>3
  <2> QED BY <1>0, <1>9, <2>2 DEF Release, Forget, seatVars, choiceVars
<1>10. ASSUME NEW g \in Games, NEW entry \in Entries,
              ListingChanges(g, entry)
       PROVE  TypeOK'
  BY <1>10 DEF ListingChanges, limitVars, seatVars, identityVars
<1>11. CASE UNCHANGED vars
  BY <1>11 DEF vars, choiceVars, limitVars, seatVars, identityVars
<1> QED BY <1>1, <1>2, <1>3, <1>4, <1>5, <1>6, <1>7, <1>8, <1>9, <1>10, <1>11, <1>12
     DEF Next, Step

LEMMA StepIdentified == IInv /\ [Next]_vars => Identified'
<1> SUFFICES ASSUME IInv, [Next]_vars PROVE Identified' OBVIOUS
<1> USE DEF IInv, TypeOK, Identified
<1>1. ASSUME NEW s \in Shells, Step(s) PROVE Identified'
  BY <1>1 DEF Step, Open, Resolvable, Acquire, TurnAway, RejectNoPTY, Join, Check, Enter, Lobby,
              Leave, Release, Forget, identityVars
<1>2. ASSUME NEW g, NEW entry, ListingChanges(g, entry) PROVE Identified'
  BY <1>2 DEF ListingChanges, identityVars
<1>3. CASE UNCHANGED vars BY <1>3 DEF vars, identityVars
<1> QED BY <1>1, <1>2, <1>3 DEF Next

(* Apart from Acquire and Release, no step changes who holds a slot.       *)
SameHolders ==
    /\ UNCHANGED limitVars
    /\ Holders' = Holders /\ GuestHolders' = GuestHolders
    /\ \A k \in Keys : KeyHolders(k)' = KeyHolders(k)
    /\ \A a \in IPs : AddrHolders(a)' = AddrHolders(a)

LEMMA HoldersChange ==
    ASSUME IInv, [Next]_vars
    PROVE  \/ \E s \in Shells : Acquire(s) \/ Release(s)
           \/ SameHolders
<1> USE DEF IInv, TypeOK
<1> DEFINE SameSlots ==
      /\ UNCHANGED limitVars
      /\ \A t \in Shells :
            /\ pc'[t] \in {"admitted", "seated", "releasing"}
                   <=> pc[t] \in {"admitted", "seated", "releasing"}
            /\ pc'[t] \in {"admitted", "seated", "releasing"}
                   => /\ kind'[t] = kind[t] /\ fingerprint'[t] = fingerprint[t]
                      /\ ip'[t] = ip[t]
<1>1. ASSUME NEW s \in Shells, Step(s) PROVE Acquire(s) \/ Release(s) \/ SameSlots
  BY <1>1 DEF Step, Open, TurnAway, RejectNoPTY, Join, Check, Enter, Lobby, Leave, Forget,
              identityVars
<1>2. ASSUME NEW g, NEW entry, ListingChanges(g, entry) PROVE SameSlots
  BY <1>2 DEF ListingChanges, identityVars
<1>3. ASSUME UNCHANGED vars PROVE SameSlots
  <2>1. UNCHANGED <<limitVars, pc, kind, fingerprint, ip>> BY <1>3 DEF vars, identityVars
  <2> QED BY <2>1
<1>4. SameSlots => SameHolders
  BY DEF SameHolders, Holders, GuestHolders, KeyHolders, AddrHolders
<1> QED BY <1>1, <1>2, <1>3, <1>4 DEF Next

LEMMA StepLedger == IInv /\ [Next]_vars => LedgerExact'
<1> SUFFICES ASSUME IInv, [Next]_vars PROVE LedgerExact' OBVIOUS
<1> USE DEF IInv, TypeOK
<1>0. LedgerExact OBVIOUS
<1>1. ASSUME NEW s \in Shells, Acquire(s) PROVE LedgerExact'
  <2>1. s \notin Holders /\ Holders' = Holders \cup {s}
    BY <1>1 DEF Acquire, Holders
  <2>2. UNCHANGED <<kind, fingerprint, ip>> BY <1>1 DEF Acquire, identityVars
  <2>3. global' = Cardinality(Holders')
    BY <1>0, <1>1, <2>1, HolderSets, CountAdd DEF Acquire, LedgerExact
  <2>4. CASE kind[s] = "guest"
    <3>1. GuestHolders' = GuestHolders \cup {s} /\ s \notin GuestHolders
      BY <2>1, <2>2, <2>4 DEF GuestHolders
    <3>2. guests' = guests + 1 /\ perKey' = perKey
          /\ perIP' = [perIP EXCEPT ![ip[s]] = @ + 1]
      BY <1>1, <2>4 DEF Acquire
    <3>3. guests' = Cardinality(GuestHolders')
      BY <1>0, <3>1, <3>2, HolderSets, CountAdd DEF LedgerExact
    <3>4. \A k \in Keys : KeyHolders(k)' = KeyHolders(k)
      BY <2>1, <2>2, <2>4 DEF KeyHolders
    <3>5. ASSUME NEW a \in IPs PROVE perIP'[a] = Cardinality(AddrHolders(a)')
      <4>1. CASE a = ip[s]
        <5>1. AddrHolders(a)' = AddrHolders(a) \cup {s} /\ s \notin AddrHolders(a)
          BY <3>1, <2>2, <4>1 DEF AddrHolders
        <5>2. Cardinality(AddrHolders(a)') = perIP[a] + 1
          BY <1>0, <5>1, HolderSets, CountAdd DEF LedgerExact
        <5> QED BY <3>2, <4>1, <5>2
      <4>2. CASE a # ip[s]
        <5>1. AddrHolders(a)' = AddrHolders(a) BY <3>1, <2>2, <4>2 DEF AddrHolders
        <5> QED BY <1>0, <3>2, <4>2, <5>1 DEF LedgerExact
      <4> QED BY <4>1, <4>2
    <3> QED BY <1>0, <2>3, <3>2, <3>3, <3>4, <3>5 DEF LedgerExact
  <2>5. CASE kind[s] = "keyed"
    <3>1. GuestHolders' = GuestHolders /\ \A a \in IPs : AddrHolders(a)' = AddrHolders(a)
      BY <2>1, <2>2, <2>5 DEF GuestHolders, AddrHolders
    <3>2. guests' = guests /\ perIP' = perIP
          /\ perKey' = [perKey EXCEPT ![fingerprint[s]] = @ + 1]
      BY <1>1, <2>5 DEF Acquire
    <3>3. ASSUME NEW k \in Keys PROVE perKey'[k] = Cardinality(KeyHolders(k)')
      <4>1. CASE k = fingerprint[s]
        <5>1. KeyHolders(k)' = KeyHolders(k) \cup {s} /\ s \notin KeyHolders(k)
          BY <2>1, <2>2, <2>5, <4>1 DEF KeyHolders
        <5>2. Cardinality(KeyHolders(k)') = perKey[k] + 1
          BY <1>0, <5>1, HolderSets, CountAdd DEF LedgerExact
        <5> QED BY <3>2, <4>1, <5>2
      <4>2. CASE k # fingerprint[s]
        <5>1. KeyHolders(k)' = KeyHolders(k) BY <2>1, <2>2, <4>2 DEF KeyHolders
        <5> QED BY <1>0, <3>2, <4>2, <5>1 DEF LedgerExact
      <4> QED BY <4>1, <4>2
    <3> QED BY <1>0, <2>3, <3>1, <3>2, <3>3 DEF LedgerExact
  <2> QED BY <2>4, <2>5
<1>2. ASSUME NEW s \in Shells, Release(s) PROVE LedgerExact'
  <2>1. s \in Holders /\ Holders' = Holders \ {s}
    BY <1>2 DEF Release, Holders
  <2>2. \A t \in Shells : t # s => /\ kind'[t] = kind[t] /\ ip'[t] = ip[t]
                                   /\ fingerprint'[t] = fingerprint[t]
    BY <1>2 DEF Release, Forget
  <2>3. Cardinality(Holders') = global - 1
    BY <1>0, <2>1, HolderSets, CountRemove DEF LedgerExact
  <2>4. CASE kind[s] = "guest"
    <3>1. GuestHolders' = GuestHolders \ {s} /\ s \in GuestHolders
      BY <2>1, <2>2, <2>4, HolderSets DEF GuestHolders
    <3>2. s \in AddrHolders(ip[s]) BY <3>1 DEF AddrHolders
    <3>3. perIP[ip[s]] # 0
      BY <1>0, <3>2, HolderSets, CountPositive DEF LedgerExact
    <3>4. /\ guests' = guests - 1 /\ global' = global - 1 /\ perKey' = perKey
          /\ perIP' = [perIP EXCEPT ![ip[s]] = @ - 1]
      BY <1>2, <2>4, <3>3 DEF Release, ReleaseGuest, ReleaseKeyed
    <3>5. guests' = Cardinality(GuestHolders')
      BY <1>0, <3>1, <3>4, HolderSets, CountRemove DEF LedgerExact
    <3>6. \A k \in Keys : KeyHolders(k)' = KeyHolders(k)
      BY <2>1, <2>2, <2>4, HolderSets DEF KeyHolders
    <3>7. ASSUME NEW a \in IPs PROVE perIP'[a] = Cardinality(AddrHolders(a)')
      <4>1. CASE a = ip[s]
        <5>1. AddrHolders(a)' = AddrHolders(a) \ {s} /\ s \in AddrHolders(a)
          BY <2>2, <3>1, <3>2, <4>1, HolderSets DEF AddrHolders
        <5>2. Cardinality(AddrHolders(a)') = perIP[a] - 1
          BY <1>0, <5>1, HolderSets, CountRemove DEF LedgerExact
        <5> QED BY <3>4, <4>1, <5>2
      <4>2. CASE a # ip[s]
        <5>1. AddrHolders(a)' = AddrHolders(a)
          BY <2>2, <3>1, <4>2, HolderSets DEF AddrHolders
        <5> QED BY <1>0, <3>4, <4>2, <5>1 DEF LedgerExact
      <4> QED BY <4>1, <4>2
    <3> QED BY <1>0, <2>3, <3>4, <3>5, <3>6, <3>7 DEF LedgerExact
  <2>5. CASE kind[s] = "keyed"
    <3>1. GuestHolders' = GuestHolders
      BY <2>1, <2>2, <2>5, HolderSets DEF GuestHolders
    <3>2. \A a \in IPs : AddrHolders(a)' = AddrHolders(a)
      BY <2>2, <2>5, <3>1, HolderSets DEF AddrHolders, GuestHolders
    <3>3. fingerprint[s] \in Keys /\ s \in KeyHolders(fingerprint[s])
      BY <1>2, <2>1, <2>5 DEF KeyHolders, Identified, Release
    <3>4. perKey[fingerprint[s]] # 0
      BY <1>0, <3>3, HolderSets, CountPositive DEF LedgerExact
    <3>5. /\ guests' = guests /\ global' = global - 1 /\ perIP' = perIP
          /\ perKey' = [perKey EXCEPT ![fingerprint[s]] = @ - 1]
      BY <1>2, <2>5, <3>4 DEF Release, ReleaseGuest, ReleaseKeyed
    <3>6. ASSUME NEW k \in Keys PROVE perKey'[k] = Cardinality(KeyHolders(k)')
      <4>1. CASE k = fingerprint[s]
        <5>1. KeyHolders(k)' = KeyHolders(k) \ {s} /\ s \in KeyHolders(k)
          BY <2>1, <2>2, <3>3, <4>1, HolderSets DEF KeyHolders
        <5>2. Cardinality(KeyHolders(k)') = perKey[k] - 1
          BY <1>0, <5>1, HolderSets, CountRemove DEF LedgerExact
        <5> QED BY <3>5, <4>1, <5>2
      <4>2. CASE k # fingerprint[s]
        <5>1. KeyHolders(k)' = KeyHolders(k)
          BY <2>1, <2>2, <4>2, HolderSets DEF KeyHolders
        <5> QED BY <1>0, <3>5, <4>2, <5>1 DEF LedgerExact
      <4> QED BY <4>1, <4>2
    <3> QED BY <1>0, <2>3, <3>1, <3>2, <3>5, <3>6 DEF LedgerExact
  <2> QED BY <2>4, <2>5
<1>3. CASE SameHolders BY <1>0, <1>3 DEF SameHolders, LedgerExact, limitVars
<1> QED BY <1>1, <1>2, <1>3, HoldersChange

LEMMA StepCaps == IInv /\ [Next]_vars => Caps'
<1> SUFFICES ASSUME IInv, [Next]_vars PROVE Caps' OBVIOUS
<1> USE LimitsAssumption DEF IInv, TypeOK, Caps
<1>1. ASSUME NEW s \in Shells, Acquire(s) PROVE Caps'
  BY <1>1 DEF Acquire, MayAcquire
<1>2. ASSUME NEW s \in Shells, Release(s) PROVE Caps'
  BY <1>2 DEF Release, ReleaseGuest, ReleaseKeyed, limitVars
<1>3. CASE SameHolders BY <1>3 DEF SameHolders, limitVars
<1> QED BY <1>1, <1>2, <1>3, HoldersChange

LEMMA StepSeated == IInv /\ [Next]_vars => Seated'
<1> SUFFICES ASSUME IInv, [Next]_vars PROVE Seated' OBVIOUS
<1> USE ShellsAssumption DEF IInv, TypeOK, Seated
<1>1. ASSUME NEW s \in Shells, Step(s) PROVE Seated'
  <2>1. CASE \/ \E k \in {"keyed", "guest"}, key \in Keys \cup {NoKey}, addr \in IPs :
                    Open(s, k, key, addr)
             \/ Acquire(s) \/ TurnAway(s) \/ RejectNoPTY(s) \/ Release(s)
    BY <2>1 DEF Open, Acquire, TurnAway, RejectNoPTY, Release, Forget, identityVars, seatVars,
                choiceVars
  <2>2. CASE Join(s) \/ Leave(s)
    BY <2>2 DEF Join, Leave, identityVars, choiceVars
  <2>3. ASSUME NEW g \in Games, Check(s, g) PROVE Seated'
    BY <2>3 DEF Check, Playable, identityVars, seatVars
  <2>4. CASE Enter(s) BY <2>4 DEF Enter, identityVars, choiceVars
  <2>5. CASE Lobby(s) BY <2>5 DEF Lobby, identityVars
  <2> QED BY <1>1, <2>1, <2>2, <2>3, <2>4, <2>5 DEF Step
<1>2. ASSUME NEW g \in Games, NEW entry \in Entries, ListingChanges(g, entry) PROVE Seated'
  BY <1>2 DEF ListingChanges, identityVars, seatVars
<1>3. CASE UNCHANGED vars BY <1>3 DEF vars, identityVars, seatVars, choiceVars
<1> QED BY <1>1, <1>2, <1>3 DEF Next

----------------------------------------------------------------------------
(* The strengthened invariant holds in every reachable state.              *)
THEOREM Invariance == Spec => []IInv
<1>1. IInv /\ [Next]_vars => IInv'
  BY StepType, StepIdentified, StepLedger, StepCaps, StepSeated DEF IInv
<1> QED BY InitIInv, <1>1, PTL DEF Spec

(* The limits and the tracker keep their types: release never takes a      *)
(* counter below zero.                                                     *)
THEOREM TypeCorrect == Spec => []TypeOK
<1>1. IInv => TypeOK BY DEF IInv
<1> QED BY Invariance, <1>1, PTL

(* Every counter of SessionLimits is the number of shells that hold such a *)
(* slot: acquire and release never drift apart.                            *)
THEOREM LedgerCorrect == Spec => []LedgerExact
<1>1. IInv => LedgerExact BY DEF IInv
<1> QED BY Invariance, <1>1, PTL

(* The four caps hold of the shells inside the arcade.                     *)
THEOREM CapsCorrect == Spec => []CapsHold
<1>1. IInv => CapsHold BY DEF IInv, LedgerExact, Caps, CapsHold
<1> QED BY Invariance, <1>1, PTL

(* Guests can never take the keyed share of the global budget: the holders *)
(* are guests, which are capped, and keyed shells.                         *)
THEOREM KeyedBudgetCorrect == Spec => []KeyedBudgetReserved
<1>1. IInv => KeyedBudgetReserved
  <2> SUFFICES ASSUME IInv, NEW s \in Shells, kind[s] = "keyed",
                      perKey[fingerprint[s]] < MaxSessionsPerKey,
                      Cardinality(Holders \ GuestHolders) < MaxConnections - MaxGuestSessions
               PROVE  MayAcquire(s)
    BY DEF KeyedBudgetReserved
  <2> DEFINE KeyedShells == Holders \ GuestHolders
  <2>1. GuestHolders \cup KeyedShells = Holders /\ GuestHolders \cap KeyedShells = {}
        /\ KeyedShells \in SUBSET Shells
    BY HolderSets DEF GuestHolders
  <2>2. IsFiniteSet(GuestHolders) /\ IsFiniteSet(KeyedShells)
        /\ Cardinality(GuestHolders) \in Nat /\ Cardinality(KeyedShells) \in Nat
    BY <2>1, HolderSets, ShellsFinite
  <2>3. Cardinality(GuestHolders \cup KeyedShells) = Cardinality(GuestHolders)
            + Cardinality(KeyedShells) - Cardinality(GuestHolders \cap KeyedShells)
    BY <2>2, FS_Union
  <2>4. Cardinality(Holders) = Cardinality(GuestHolders) + Cardinality(KeyedShells)
    BY <2>1, <2>2, <2>3, FS_EmptySet
  <2>5. global = Cardinality(Holders) /\ Cardinality(GuestHolders) <= MaxGuestSessions
    BY DEF IInv, LedgerExact, Caps
  <2>6. global < MaxConnections BY <2>2, <2>4, <2>5, LimitsAssumption
  <2> QED BY <2>6 DEF MayAcquire
<1> QED BY Invariance, <1>1, PTL

(* The seats are those of shells that hold a slot, and a guest's seat is   *)
(* in a key-only game only if the registry changed after handle's check.   *)
THEOREM SeatsCorrect == Spec => []SeatsHoldSlots
<1>1. IInv => SeatsHoldSlots BY DEF IInv, TypeOK, Seated, SeatsHoldSlots, Holders
<1> QED BY Invariance, <1>1, PTL

----------------------------------------------------------------------------
(* The publisher.  Its document rests on what Build knew when it counted,  *)
(* so the counts a publisher carries from Tracker.Counts to Registry.Games *)
(* have an invariant of their own.                                         *)
CountsOK(c) ==
    /\ c.players \in Nat /\ c.sessions \in Nat /\ c.inLobby \in Nat
    /\ c.games \in [Games -> Nat]
    /\ c.players <= c.sessions /\ c.sessions <= MaxConnections
    /\ c.inLobby <= c.players
    /\ \A g \in Games : c.games[g] <= c.players
    /\ IsFiniteSet(PlacesIn(c.games))
    /\ c.inLobby + Cardinality(PlacesIn(c.games)) <= c.sessions
    /\ c.players <= c.inLobby + Cardinality(PlacesIn(c.games))

(* Who may be inside publish: startOnce admits Start or Close, and done    *)
(* separates the loop from the final document.                             *)
Turns ==
    /\ stage["start"] # "none" <=> startOnce = "running"
    /\ stage["loop"] # "none" => loop = "up"
    /\ stage["close"] # "none" <=> closer = "publishing"
    /\ loop = "up" => startOnce = "done"
    /\ done => startOnce = "done" /\ loop # "up"
    /\ closer \in {"waiting", "publishing", "closed"} => startOnce = "done"
    /\ closer \in {"publishing", "closed"} => done
    /\ startOnce = "done" => done \/ loop = "up"
    /\ closer # "none" => stop

(* Whoever Close waits for is there: Start inside its Once is publishing,  *)
(* and a done that is still open has a loop that has been told to stop.    *)
CloseHasWaker ==
    /\ closer = "stopping" /\ startOnce = "running" => stage["start"] # "none"
    /\ closer = "waiting" /\ ~done => loop = "up" /\ stop
    /\ closer = "publishing" => stage["close"] # "none"

(* What each publisher holds.                                              *)
Drafts ==
    \A t \in Publishers :
        /\ stage[t] = "listing" =>
                CountsOK(draft[t]) /\ (t = "close" => draft[t] = NoCounts)
        /\ stage[t] \in {"writing", "renaming"} =>
                Consistent(draft[t]) /\ draft[t].online = (t # "close")

PInv == PTypeOK /\ Turns /\ Drafts /\ DocumentConsistent /\ ClosedShowsOffline

(* The image of a finite set is finite and no larger.                      *)
LEMMA ImageCount ==
    ASSUME NEW S, IsFiniteSet(S), NEW f, f = [x \in S |-> f[x]]
    PROVE  /\ IsFiniteSet({f[x] : x \in S})
           /\ Cardinality({f[x] : x \in S}) \in Nat
           /\ Cardinality({f[x] : x \in S}) <= Cardinality(S)
<1> DEFINE T == {f[x] : x \in S}
<1>1. f \in Surjection(S, T) BY DEF Surjection
<1>2. IsFiniteSet(T) /\ Cardinality(T) <= Cardinality(S)
  <2> HIDE DEF T
  <2> QED BY <1>1, FS_Surjection
<1> QED BY <1>2, FS_CardinalityType

LEMMA PlaceMembers ==
    ASSUME NEW f, NEW x
    PROVE  x \in PlacesIn(f) <=> \E g \in DOMAIN f : \E i \in 1..f[g] : x = <<g, i>>
BY DEF PlacesIn

(* Fewer games have fewer places.                                          *)
LEMMA PlacesSubset ==
    ASSUME NEW f, NEW h, DOMAIN h \subseteq DOMAIN f, \A g \in DOMAIN h : h[g] = f[g],
           IsFiniteSet(PlacesIn(f))
    PROVE  /\ IsFiniteSet(PlacesIn(h)) /\ Cardinality(PlacesIn(f)) \in Nat
           /\ Cardinality(PlacesIn(h)) \in Nat
           /\ Cardinality(PlacesIn(h)) <= Cardinality(PlacesIn(f))
           /\ DOMAIN h = DOMAIN f => PlacesIn(h) = PlacesIn(f)
<1>1. PlacesIn(h) \in SUBSET PlacesIn(f) BY PlaceMembers
<1>2. DOMAIN h = DOMAIN f => PlacesIn(h) = PlacesIn(f) BY DEF PlacesIn
<1> QED BY <1>1, <1>2, FS_Subset, FS_CardinalityType

(* A family of finite sets P[g] has as many pairs <<g, p>> with p in P[g]  *)
(* as a document has places for their sizes.                               *)
Pairs(P) == UNION {{g} \X P[g] : g \in DOMAIN P}

LEMMA PlacesCount ==
    ASSUME NEW P, \A g \in DOMAIN P : IsFiniteSet(P[g]), IsFiniteSet(Pairs(P)),
           NEW f, f = [g \in DOMAIN P |-> Cardinality(P[g])]
    PROVE  /\ IsFiniteSet(PlacesIn(f))
           /\ Cardinality(PlacesIn(f)) = Cardinality(Pairs(P))
<1> DEFINE B(g) == CHOOSE b : b \in Bijection(1..f[g], P[g])
           Map == [x \in PlacesIn(f) |-> <<x[1], B(x[1])[x[2]]>>]
<1>1. ASSUME NEW g \in DOMAIN P PROVE B(g) \in Bijection(1..f[g], P[g])
  <2>1. ExistsBijection(1..f[g], P[g]) BY FS_CardinalityType
  <2> QED BY <2>1 DEF ExistsBijection
<1> HIDE DEF B
<1>2. ASSUME NEW g \in DOMAIN P, NEW i \in 1..f[g]
      PROVE  <<g, i>> \in PlacesIn(f) /\ Map[<<g, i>>] = <<g, B(g)[i]>>
             /\ B(g)[i] \in P[g]
  <2>1. <<g, i>> \in PlacesIn(f) BY PlaceMembers
  <2>2. B(g)[i] \in P[g] BY <1>1 DEF Bijection, Injection
  <2> QED BY <2>1, <2>2
<1>3. \A y : y \in Pairs(P) <=> \E g \in DOMAIN P : \E p \in P[g] : y = <<g, p>>
  BY DEF Pairs
<1>4. Map \in [PlacesIn(f) -> Pairs(P)]
  <2> SUFFICES ASSUME NEW x \in PlacesIn(f) PROVE Map[x] \in Pairs(P) OBVIOUS
  <2>1. PICK g, i : g \in DOMAIN P /\ i \in 1..f[g] /\ x = <<g, i>> BY PlaceMembers
  <2> HIDE DEF Map
  <2> QED BY <1>2, <1>3, <2>1
<1>5. ASSUME NEW x \in PlacesIn(f), NEW y \in PlacesIn(f), Map[x] = Map[y]
      PROVE  x = y
  <2>1. PICK g, i : g \in DOMAIN P /\ i \in 1..f[g] /\ x = <<g, i>> BY PlaceMembers
  <2>2. PICK h, j : h \in DOMAIN P /\ j \in 1..f[h] /\ y = <<h, j>> BY PlaceMembers
  <2> HIDE DEF Map
  <2>3. g = h /\ B(g)[i] = B(g)[j] BY <1>2, <1>5, <2>1, <2>2
  <2>4. i = j BY <1>1, <2>1, <2>2, <2>3 DEF Bijection, Injection, IsInjective
  <2> QED BY <2>1, <2>2, <2>3, <2>4
<1>6. ASSUME NEW y \in Pairs(P) PROVE \E x \in PlacesIn(f) : Map[x] = y
  <2>1. PICK g, p : g \in DOMAIN P /\ p \in P[g] /\ y = <<g, p>> BY <1>3
  <2>2. PICK i \in 1..f[g] : B(g)[i] = p BY <1>1, <2>1 DEF Bijection, Surjection
  <2> HIDE DEF Map
  <2> QED BY <1>2, <2>1, <2>2
<1>7. Map \in Bijection(PlacesIn(f), Pairs(P))
  <2> HIDE DEF Map
  <2>1. Map \in Injection(PlacesIn(f), Pairs(P)) BY <1>4, <1>5 DEF Injection, IsInjective
  <2>2. Map \in Surjection(PlacesIn(f), Pairs(P)) BY <1>4, <1>6 DEF Surjection
  <2> QED BY <2>1, <2>2 DEF Bijection
<1>8. ExistsBijection(PlacesIn(f), Pairs(P)) BY <1>7 DEF ExistsBijection
<1>9. IsFiniteSet(PlacesIn(f))
  <2>1. Map \in Injection(PlacesIn(f), Pairs(P)) BY <1>7 DEF Bijection
  <2> HIDE DEF Map
  <2> QED BY <2>1, FS_Injection
<1> QED BY <1>8, <1>9, FS_Bijection

(* Tracker.Counts, in every state the sessions can be in: the sessions of  *)
(* the menu and of the games are disjoint, and a key counts once in each   *)
(* place however many sessions it has there.                               *)
LEMMA CountsConsistent == IInv => CountsOK(Counts)
<1> SUFFICES ASSUME IInv PROVE CountsOK(Counts) OBVIOUS
<1> DEFINE Keyed(S) == {PresenceKey(s) : s \in S}
           KeyOf(S) == [s \in S |-> PresenceKey(s)]
           InMenu == SeatedAt(Menu)
           Playing == seats \ InMenu
           P == [g \in Games |-> Keyed(SeatedAt(g))]
           PairOf == [s \in Playing |-> <<game[s], PresenceKey(s)>>]
           Second == [y \in Pairs(P) |-> y[2]]
<1>1. seats \in SUBSET Shells BY DEF IInv, TypeOK
<1>2. ASSUME NEW S \in SUBSET seats
      PROVE  /\ IsFiniteSet(S) /\ Cardinality(S) \in Nat
             /\ IsFiniteSet(Keyed(S)) /\ Cardinality(Keyed(S)) \in Nat
             /\ Cardinality(Keyed(S)) <= Cardinality(S)
  <2>1. IsFiniteSet(S) /\ Cardinality(S) \in Nat BY <1>1, ShellsFinite
  <2>2. KeyOf(S) = [s \in S |-> KeyOf(S)[s]] OBVIOUS
  <2>3. Keyed(S) = {KeyOf(S)[s] : s \in S} OBVIOUS
  <2> HIDE DEF Keyed, KeyOf
  <2> QED BY <2>1, <2>2, <2>3, ImageCount
<1>3. InMenu \in SUBSET seats /\ Playing \in SUBSET seats
      /\ \A g \in Games : SeatedAt(g) \in SUBSET seats
  BY DEF SeatedAt
<1>4. Cardinality(seats) = Cardinality(InMenu) + Cardinality(Playing)
  <2>1. InMenu \cup Playing = seats /\ InMenu \cap Playing = {} BY <1>3
  <2>2. IsFiniteSet(InMenu) /\ IsFiniteSet(Playing)
        /\ Cardinality(InMenu) \in Nat /\ Cardinality(Playing) \in Nat
    <3> HIDE DEF InMenu, Playing, Keyed
    <3> QED BY <1>2, <1>3
  <2>3. Cardinality(InMenu \cup Playing) = Cardinality(InMenu) + Cardinality(Playing)
                                           - Cardinality(InMenu \cap Playing)
    <3> HIDE DEF InMenu, Playing
    <3> QED BY <2>2, FS_Union
  <2> HIDE DEF InMenu, Playing
  <2>4. Cardinality(InMenu \cap Playing) = 0 BY <2>1, FS_EmptySet
  <2>5. Cardinality(InMenu \cup Playing) = Cardinality(seats) BY <2>1
  <2> QED BY <2>2, <2>3, <2>4, <2>5
<1>5. Pairs(P) = {PairOf[s] : s \in Playing}
  <2>1. \A s \in Playing : game[s] \in Games /\ s \in SeatedAt(game[s])
    BY <1>1 DEF IInv, TypeOK, SeatedAt
  <2>2. \A g \in Games : \A s \in SeatedAt(g) : s \in Playing /\ game[s] = g
    BY ShellsAssumption DEF SeatedAt
  <2>3. ASSUME NEW y \in Pairs(P) PROVE y \in {PairOf[s] : s \in Playing}
    <3>1. PICK g \in Games : \E p \in Keyed(SeatedAt(g)) : y = <<g, p>> BY DEF Pairs
    <3>2. PICK s \in SeatedAt(g) : y = <<g, PresenceKey(s)>> BY <3>1
    <3> QED BY <2>2, <3>2
  <2>4. ASSUME NEW s \in Playing PROVE PairOf[s] \in Pairs(P)
    BY <2>1, <2>4 DEF Pairs
  <2> QED BY <2>3, <2>4
<1>6. /\ IsFiniteSet(Pairs(P)) /\ Cardinality(Pairs(P)) \in Nat
      /\ Cardinality(Pairs(P)) <= Cardinality(Playing)
  <2>1. PairOf = [s \in Playing |-> PairOf[s]] OBVIOUS
  <2>2. IsFiniteSet(Playing)
    <3> HIDE DEF Playing, Keyed
    <3> QED BY <1>2, <1>3
  <2> HIDE DEF PairOf, Playing, P
  <2> QED BY <1>5, <2>1, <2>2, ImageCount
<1>7. /\ IsFiniteSet(PlacesIn(Counts.games))
      /\ Cardinality(PlacesIn(Counts.games)) = Cardinality(Pairs(P))
  <2>1. Counts.games = [g \in DOMAIN P |-> Cardinality(P[g])]
    BY DEF Counts, PlayersAmong
  <2>2. \A g \in DOMAIN P : IsFiniteSet(P[g])
    <3>1. \A g \in Games : IsFiniteSet(Keyed(SeatedAt(g)))
      <4> HIDE DEF Keyed
      <4> QED BY <1>2, <1>3
    <3> QED BY <3>1
  <2> HIDE DEF P
  <2> QED BY <1>6, <2>1, <2>2, PlacesCount
<1>8. Cardinality(Keyed(seats)) <= Cardinality(Keyed(InMenu)) + Cardinality(Pairs(P))
  <2> DEFINE Players == {Second[y] : y \in Pairs(P)}
  <2>1. /\ IsFiniteSet(Players) /\ Cardinality(Players) \in Nat
        /\ Cardinality(Players) <= Cardinality(Pairs(P))
    <3>1. Second = [y \in Pairs(P) |-> Second[y]] OBVIOUS
    <3> HIDE DEF Second, P
    <3> QED BY <1>6, <3>1, ImageCount
  <2>2. Keyed(seats) \in SUBSET (Keyed(InMenu) \cup Players)
    <3> SUFFICES ASSUME NEW s \in seats, s \notin InMenu PROVE PresenceKey(s) \in Players
      OBVIOUS
    <3>1. PairOf[s] \in Pairs(P) BY <1>5
    <3>2. Second[PairOf[s]] = PresenceKey(s) BY <3>1
    <3> QED BY <3>1, <3>2
  <2>3. IsFiniteSet(Keyed(InMenu)) /\ Cardinality(Keyed(InMenu)) \in Nat
        /\ Cardinality(Keyed(seats)) \in Nat
    <3> HIDE DEF Keyed, InMenu
    <3> QED BY <1>2, <1>3
  <2> DEFINE A == Keyed(InMenu)
             K == Keyed(seats)
             R == Cardinality(Pairs(P))
  <2>4. R \in Nat BY <1>6
  <2> SUFFICES Cardinality(K) <= Cardinality(A) + R OBVIOUS
  <2> HIDE DEF A, K, Players, R
  <2>5. /\ IsFiniteSet(A \cup Players)
        /\ Cardinality(A \cup Players)
                = Cardinality(A) + Cardinality(Players) - Cardinality(A \cap Players)
    BY <2>1, <2>3, FS_Union DEF A
  <2>6. Cardinality(A \cap Players) \in Nat
    <3>1. A \cap Players \in SUBSET Players OBVIOUS
    <3> QED BY <2>1, <3>1, FS_Subset, FS_CardinalityType
  <2>7. Cardinality(K) <= Cardinality(A \cup Players)
    BY <2>2, <2>5, FS_Subset DEF A, K
  <2>8. Cardinality(Players) <= R /\ Cardinality(A) \in Nat /\ Cardinality(K) \in Nat
    BY <2>1, <2>3 DEF A, K, R
  <2> QED BY <2>1, <2>4, <2>5, <2>6, <2>7, <2>8
<1>9. ASSUME NEW S \in SUBSET seats
      PROVE  Cardinality(Keyed(S)) <= Cardinality(Keyed(seats))
  <2>1. Keyed(S) \in SUBSET Keyed(seats) OBVIOUS
  <2>2. IsFiniteSet(Keyed(seats))
    <3>1. seats \in SUBSET seats OBVIOUS
    <3> HIDE DEF Keyed
    <3> QED BY <1>2, <3>1
  <2> HIDE DEF Keyed
  <2> QED BY <2>1, <2>2, FS_Subset
<1>10. Cardinality(seats) <= MaxConnections
  <2>1. seats \in SUBSET Holders BY <1>1 DEF IInv, Seated, Holders
  <2>2. IsFiniteSet(Holders) /\ Cardinality(Holders) \in Nat BY HolderSets, ShellsFinite
  <2>3. Cardinality(Holders) <= MaxConnections BY DEF IInv, LedgerExact, Caps
  <2>4. Cardinality(seats) <= Cardinality(Holders) BY <2>1, <2>2, FS_Subset
  <2>5. Cardinality(seats) \in Nat BY <1>1, ShellsFinite
  <2> QED BY <2>2, <2>3, <2>4, <2>5, LimitsAssumption
<1>11. /\ Counts.players = Cardinality(Keyed(seats))
       /\ Counts.sessions = Cardinality(seats)
       /\ Counts.inLobby = Cardinality(Keyed(InMenu))
       /\ Counts.games = [g \in Games |-> Cardinality(Keyed(SeatedAt(g)))]
  BY DEF Counts, PlayersAmong
<1>12. seats \in SUBSET seats OBVIOUS
<1> HIDE DEF Keyed, InMenu, Playing, P
<1>13. /\ Counts.players \in Nat /\ Counts.sessions \in Nat /\ Counts.inLobby \in Nat
       /\ Counts.games \in [Games -> Nat]
       /\ Counts.players <= Counts.sessions /\ Counts.sessions <= MaxConnections
       /\ Counts.inLobby <= Counts.players
       /\ \A g \in Games : Counts.games[g] <= Counts.players
  <2>1. Counts.players \in Nat /\ Counts.sessions \in Nat /\ Counts.inLobby \in Nat
        /\ Counts.players <= Counts.sessions
    BY <1>2, <1>3, <1>11, <1>12
  <2>2. \A g \in Games : /\ Cardinality(Keyed(SeatedAt(g))) \in Nat
                         /\ Cardinality(Keyed(SeatedAt(g))) <= Cardinality(Keyed(seats))
    BY <1>2, <1>3, <1>9
  <2>3. Counts.inLobby <= Counts.players BY <1>3, <1>9, <1>11
  <2> QED BY <1>10, <1>11, <2>1, <2>2, <2>3
<1>14. Cardinality(Keyed(InMenu)) \in Nat /\ Cardinality(InMenu) \in Nat
       /\ Cardinality(Playing) \in Nat /\ Cardinality(Keyed(InMenu)) <= Cardinality(InMenu)
  BY <1>2, <1>3
<1>15. Counts.inLobby + Cardinality(PlacesIn(Counts.games)) <= Counts.sessions
  BY <1>4, <1>6, <1>7, <1>11, <1>14
<1>16. Counts.players <= Counts.inLobby + Cardinality(PlacesIn(Counts.games))
  BY <1>7, <1>8, <1>11
<1> QED BY <1>7, <1>13, <1>15, <1>16 DEF CountsOK

LEMMA NoCountsConsistent == CountsOK(NoCounts)
<1>1. PlacesIn(NoCounts.games) = {} BY PlaceMembers DEF NoCounts
<1>2. IsFiniteSet(PlacesIn(NoCounts.games)) /\ Cardinality(PlacesIn(NoCounts.games)) = 0
  BY <1>1, FS_EmptySet
<1> QED BY <1>2, LimitsAssumption DEF CountsOK, NoCounts

(* Build's second half: whatever games the registry lists by now, counts   *)
(* that were right when taken make a consistent document.                  *)
LEMMA SnapshotConsistent ==
    ASSUME NEW c, CountsOK(c), NEW online \in BOOLEAN, ~online => c = NoCounts
    PROVE  Consistent(Snapshot(online, c)) /\ Snapshot(online, c).online = online
<1> DEFINE doc == Snapshot(online, c)
           h == [g \in DOMAIN doc.games |-> doc.games[g].players]
<1>1. /\ doc.online = online /\ doc.players = c.players /\ doc.sessions = c.sessions
      /\ doc.inLobby = c.inLobby
      /\ DOMAIN doc.games \subseteq Games
      /\ \A g \in DOMAIN doc.games : /\ doc.games[g].players = c.games[g]
                                     /\ ~online => ~doc.games[g].online
  BY DEF Snapshot
<1>2. InGames(doc) = Cardinality(PlacesIn(h)) BY DEF InGames
<1>3. DOMAIN h = DOMAIN doc.games /\ DOMAIN c.games = Games
      /\ \A g \in DOMAIN h : h[g] = c.games[g]
  BY <1>1 DEF CountsOK
<1> HIDE DEF doc, h
<1>4. /\ Cardinality(PlacesIn(h)) \in Nat /\ Cardinality(PlacesIn(c.games)) \in Nat
      /\ Cardinality(PlacesIn(h)) <= Cardinality(PlacesIn(c.games))
      /\ DOMAIN h = Games => PlacesIn(h) = PlacesIn(c.games)
  BY <1>1, <1>3, PlacesSubset DEF CountsOK
<1>5. ~online => c.sessions = 0 BY DEF NoCounts
<1>6. doc.inLobby + InGames(doc) <= doc.sessions BY <1>1, <1>2, <1>4, LimitsAssumption DEF CountsOK
<1>7. DOMAIN doc.games = Games => doc.players <= doc.inLobby + InGames(doc)
  BY <1>1, <1>2, <1>3, <1>4 DEF CountsOK
<1>8. Consistent(doc) BY <1>1, <1>5, <1>6, <1>7 DEF Consistent, CountsOK
<1> QED BY <1>1, <1>8 DEF doc

----------------------------------------------------------------------------
(* Publishing only watches: no step of the publisher touches the limits,   *)
(* the seats or the games list, so the composition implements Sessions and *)
(* inherits every theorem about it.                                        *)
THEOREM PublisherImplementsSessions == PSpec => Spec
<1>1. PInit => Init BY DEF PInit
<1>2. [PNext]_pvars => [Next]_vars
  <2> USE DEF PNext, PublisherNext, pvars
  <2>1. ASSUME NEW t \in Publishers,
               Count(t) \/ List(t) \/ WriteTemp(t) \/ WriteFails(t) \/ Rename(t)
        PROVE  UNCHANGED vars
    BY <2>1 DEF Count, List, WriteTemp, WriteFails, Rename, AfterPublish
  <2>2. Start \/ Tick \/ StopLoop \/ Close \/ ClaimStart \/ PublishFinal => UNCHANGED vars
    BY DEF Start, Tick, StopLoop, Close, ClaimStart, PublishFinal
  <2> QED BY <2>1, <2>2
<1> QED BY <1>1, <1>2, PTL DEF PSpec, Spec

LEMMA InitPInv == PInit => PInv
<1> SUFFICES ASSUME PInit PROVE PInv OBVIOUS
<1>1. TypeOK BY InitIInv DEF PInit, IInv
<1>2. PTypeOK
  <2>1. Len(file) <= 1 BY DEF PInit
  <2>2. stop \in BOOLEAN /\ done \in BOOLEAN /\ failing \in BOOLEAN BY Zenon DEF PInit
  <2> QED BY <1>1, <2>1, <2>2 DEF PInit, PTypeOK, Publishers, Stages_
<1>3. Turns BY DEF PInit, Turns, Publishers
<1>4. Drafts BY DEF PInit, Drafts
<1>5. DocumentConsistent BY DEF PInit, DocumentConsistent
<1>6. ClosedShowsOffline BY DEF PInit, ClosedShowsOffline
<1> QED BY <1>2, <1>3, <1>4, <1>5, <1>6 DEF PInv

(* The steps of one publisher inside publish.                              *)
Publishing(t) == Count(t) \/ List(t) \/ WriteTemp(t) \/ WriteFails(t) \/ Rename(t)

LEMMA PMoves ==
    ASSUME [PNext]_pvars
    PROVE  \/ \E t \in Publishers : Publishing(t)
           \/ Start \/ Tick \/ StopLoop \/ Close \/ ClaimStart \/ PublishFinal
           \/ UNCHANGED pubVars
BY DEF PNext, PublisherNext, Publishing, pvars

LEMMA StepPType == PInv /\ TypeOK' /\ [PNext]_pvars => PTypeOK'
<1> SUFFICES ASSUME PInv, TypeOK', [PNext]_pvars PROVE PTypeOK' OBVIOUS
<1> USE DEF PInv, PTypeOK, Stages_
<1>1. ASSUME NEW t \in Publishers, Publishing(t) PROVE PTypeOK'
  <2>1. CASE Count(t) \/ List(t) \/ WriteTemp(t) BY <2>1 DEF Count, List, WriteTemp
  <2>2. CASE WriteFails(t) \/ Rename(t)
    <3>1. AfterPublish(t) BY <2>2 DEF WriteFails, Rename
    <3>2. Len(file') <= 1
      <4>1. file' = file \/ file' = <<draft[t]>> BY <2>2 DEF WriteFails, Rename
      <4>2. \A d : Len(<<d>>) = 1 OBVIOUS
      <4> QED BY <4>1, <4>2
    <3>3. failing' \in BOOLEAN BY <2>2, Zenon DEF WriteFails, Rename
    <3> QED BY <3>1, <3>2, <3>3 DEF AfterPublish
  <2> QED BY <1>1, <2>1, <2>2 DEF Publishing
<1>2. CASE Start \/ Tick \/ StopLoop \/ Close \/ ClaimStart \/ PublishFinal
  BY <1>2 DEF Start, Tick, StopLoop, Close, ClaimStart, PublishFinal, Publish, Publishers
<1>3. CASE UNCHANGED pubVars BY <1>3 DEF pubVars
<1> QED BY <1>1, <1>2, <1>3, PMoves

LEMMA StepTurns == PInv /\ [PNext]_pvars => Turns'
<1> SUFFICES ASSUME PInv, [PNext]_pvars PROVE Turns' OBVIOUS
<1> USE DEF PInv, PTypeOK, Turns, Publishers
<1>1. ASSUME NEW t \in Publishers, Count(t) \/ List(t) \/ WriteTemp(t) PROVE Turns'
  BY <1>1 DEF Count, List, WriteTemp
<1>2. ASSUME NEW t \in Publishers, WriteFails(t) \/ Rename(t) PROVE Turns'
  <2>1. stage[t] # "none" /\ AfterPublish(t) BY <1>2 DEF WriteFails, Rename
  <2>2. CASE t = "start" BY <2>1, <2>2 DEF AfterPublish
  <2>3. CASE t = "loop" BY <2>1, <2>3 DEF AfterPublish
  <2>4. CASE t = "close" BY <2>1, <2>4 DEF AfterPublish
  <2> QED BY <2>2, <2>3, <2>4
<1>3. CASE Start BY <1>3 DEF Start, Publish
<1>4. CASE Tick BY <1>4 DEF Tick, Publish
<1>5. CASE StopLoop BY <1>5 DEF StopLoop
<1>6. CASE Close BY <1>6 DEF Close
<1>7. CASE ClaimStart BY <1>7 DEF ClaimStart
<1>8. CASE PublishFinal BY <1>8 DEF PublishFinal, Publish
<1>9. CASE UNCHANGED pubVars BY <1>9 DEF pubVars
<1> QED BY <1>1, <1>2, <1>3, <1>4, <1>5, <1>6, <1>7, <1>8, <1>9, PMoves DEF Publishing

LEMMA StepDrafts == IInv /\ PInv /\ [PNext]_pvars => Drafts'
<1> SUFFICES ASSUME IInv, PInv, [PNext]_pvars, NEW u \in Publishers
             PROVE  /\ stage'[u] = "listing" =>
                        CountsOK(draft'[u]) /\ (u = "close" => draft'[u] = NoCounts)
                    /\ stage'[u] \in {"writing", "renaming"} =>
                        Consistent(draft'[u]) /\ draft'[u].online = (u # "close")
  BY DEF Drafts
<1> USE DEF PInv, PTypeOK
<1>0. /\ stage[u] = "listing" =>
            CountsOK(draft[u]) /\ (u = "close" => draft[u] = NoCounts)
      /\ stage[u] \in {"writing", "renaming"} =>
            Consistent(draft[u]) /\ draft[u].online = (u # "close")
  BY DEF Drafts
<1>1. ASSUME NEW t \in Publishers, Publishing(t), t # u
      PROVE  stage'[u] = stage[u] /\ draft'[u] = draft[u]
  BY <1>1 DEF Publishing, Count, List, WriteTemp, WriteFails, Rename, AfterPublish
<1>2. CASE Count(u)
  <2>1. stage'[u] = "listing" /\ draft'[u] = IF u = "close" THEN NoCounts ELSE Counts
    BY <1>2 DEF Count
  <2> QED BY <2>1, CountsConsistent, NoCountsConsistent
<1>3. CASE List(u)
  <2>1. stage'[u] = "writing" /\ draft'[u] = Snapshot(u # "close", draft[u])
        /\ stage[u] = "listing"
    BY <1>3 DEF List
  <2> QED BY <1>0, <2>1, SnapshotConsistent
<1>4. CASE WriteTemp(u)
  <2>1. stage[u] = "writing" /\ stage'[u] = "renaming" /\ draft'[u] = draft[u]
    BY <1>4 DEF WriteTemp
  <2> QED BY <1>0, <2>1
<1>5. CASE WriteFails(u) \/ Rename(u)
  <2>1. stage'[u] = "none" BY <1>5 DEF WriteFails, Rename, AfterPublish
  <2> QED BY <2>1
<1>6. CASE Start \/ Tick \/ StopLoop \/ Close \/ ClaimStart \/ PublishFinal
  <2>1. draft' = draft /\ (stage'[u] = stage[u] \/ stage'[u] = "counting")
    BY <1>6 DEF Start, Tick, StopLoop, Close, ClaimStart, PublishFinal, Publish, Publishers
  <2> QED BY <1>0, <2>1
<1>7. CASE UNCHANGED pubVars
  <2>1. draft' = draft /\ stage' = stage BY <1>7 DEF pubVars
  <2> QED BY <1>0, <2>1
<1>8. ASSUME NEW t \in Publishers, Publishing(t), t = u
      PROVE  Count(u) \/ List(u) \/ WriteTemp(u) \/ WriteFails(u) \/ Rename(u)
  BY <1>8 DEF Publishing
<1> QED BY <1>0, <1>1, <1>2, <1>3, <1>4, <1>5, <1>6, <1>7, <1>8, PMoves

(* Only Rename replaces the document, and by a finished draft.             *)
LEMMA FileMoves ==
    ASSUME PInv, [PNext]_pvars
    PROVE  \/ \E t \in Publishers : Rename(t)
           \/ UNCHANGED file
BY PMoves DEF Publishing, Count, List, WriteTemp, WriteFails, Start, Tick, StopLoop, Close,
              ClaimStart, PublishFinal, pubVars

LEMMA StepDocument == PInv /\ [PNext]_pvars => DocumentConsistent'
<1> SUFFICES ASSUME PInv, [PNext]_pvars PROVE DocumentConsistent' OBVIOUS
<1>1. ASSUME NEW t \in Publishers, Rename(t) PROVE DocumentConsistent'
  <2>1. Consistent(draft[t]) BY <1>1 DEF Rename, PInv, Drafts
  <2>2. file' = <<draft[t]>> BY <1>1 DEF Rename
  <2>3. DOMAIN file' = {1} /\ file'[1] = draft[t] BY <2>2
  <2> QED BY <2>1, <2>3 DEF DocumentConsistent
<1>2. CASE UNCHANGED file BY <1>2 DEF PInv, DocumentConsistent
<1> QED BY <1>1, <1>2, FileMoves

(* Turns lets one goroutine in at a time.                                  *)
LEMMA TurnsExclude == PInv => OnePublisher
BY DEF PInv, Turns, OnePublisher, Publishers

LEMMA StepClosed == PInv /\ [PNext]_pvars => ClosedShowsOffline'
<1> SUFFICES ASSUME PInv, [PNext]_pvars, closer' = "closed"
             PROVE  failing' \/ \E i \in DOMAIN file' : ~file'[i].online
  BY DEF ClosedShowsOffline
<1>1. CASE closer = "closed"
  <2>1. \A t \in Publishers : stage[t] = "none"
    BY <1>1 DEF PInv, PTypeOK, Turns, Publishers
  <2>2. UNCHANGED <<failing, file>>
    BY <1>1, <2>1, PMoves DEF Publishing, Count, List, WriteTemp, WriteFails, Rename, Start,
       Tick, StopLoop, Close, ClaimStart, PublishFinal, pubVars
  <2> QED BY <1>1, <2>2 DEF PInv, ClosedShowsOffline
<1>2. CASE closer # "closed"
  <2>1. WriteFails("close") \/ Rename("close")
    BY <1>2, PMoves DEF Publishing, Count, List, WriteTemp, WriteFails, Rename, AfterPublish,
       Start, Tick, StopLoop, Close, ClaimStart, PublishFinal, pubVars
  <2>2. CASE WriteFails("close") BY <2>2 DEF WriteFails
  <2>3. CASE Rename("close")
    <3>1. draft["close"].online = FALSE
      BY <2>3 DEF Rename, PInv, Drafts, Publishers
    <3>2. file' = <<draft["close"]>> BY <2>3 DEF Rename
    <3>3. DOMAIN file' = {1} /\ file'[1] = draft["close"] BY <3>2
    <3> QED BY <3>1, <3>3
  <2> QED BY <2>1, <2>2, <2>3
<1> QED BY <1>1, <1>2

(* The publisher's strengthened invariant holds in every reachable state   *)
(* of the composition.                                                     *)
THEOREM PublisherInvariance == PSpec => [](IInv /\ PInv)
<1>1. PSpec => []IInv BY PublisherImplementsSessions, Invariance, PTL
<1>2. IInv' => TypeOK' BY DEF IInv
<1>3. IInv /\ IInv' /\ PInv /\ [PNext]_pvars => PInv'
  BY <1>2, StepPType, StepTurns, StepDrafts, StepDocument, StepClosed DEF PInv
<1> QED BY <1>1, <1>3, InitPInv, PTL DEF PSpec

(* The published document never shows a count that Build's sessions and    *)
(* games could not have shown, for any number of shells, keys and games.   *)
THEOREM DocumentCorrect == PSpec => []DocumentConsistent
<1>1. IInv /\ PInv => DocumentConsistent BY DEF PInv
<1> QED BY PublisherInvariance, <1>1, PTL

(* The two Onces and the channels keep Start, the loop and Close apart:    *)
(* no two goroutines are ever inside publish.                              *)
THEOREM PublisherExclusion == PSpec => []OnePublisher
<1>1. IInv /\ PInv => OnePublisher BY TurnsExclude
<1> QED BY PublisherInvariance, <1>1, PTL

(* Once Close returned the document is the offline one for good, unless    *)
(* the last write failed.                                                  *)
THEOREM ClosedCorrect == PSpec => []ClosedShowsOffline
<1>1. IInv /\ PInv => ClosedShowsOffline BY DEF PInv
<1> QED BY PublisherInvariance, <1>1, PTL

(* Close never waits for nobody, whether Start came before it, during it,  *)
(* after it or never: the safety core of CloseReturns.                     *)
THEOREM CloseNeverOrphaned == PSpec => []CloseHasWaker
<1>1. IInv /\ PInv => CloseHasWaker BY DEF PInv, Turns, CloseHasWaker
<1> QED BY PublisherInvariance, <1>1, PTL

(* The publisher's state keeps its types.                                  *)
THEOREM PublisherTypeCorrect == PSpec => []PTypeOK
<1>1. IInv /\ PInv => PTypeOK BY DEF PInv
<1> QED BY PublisherInvariance, <1>1, PTL
=============================================================================

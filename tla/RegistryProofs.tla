--------------------------- MODULE RegistryProofs ---------------------------
(***************************************************************************)
(* Flap damping, the absence of lost wakeups and the safety of a reload,   *)
(* for any number of games, lobbies, bridges and file writes and for every *)
(* FailThreshold.                                                          *)
(*                                                                         *)
(* The invariant is the conjunction of the types, Damped, Listed (the list *)
(* is never empty) and StatusChangesPoked; each part is kept by every step *)
(* on the strength of the others.                                          *)
(***************************************************************************)
EXTENDS Registry, TLAPS

Listed == games # {}

IInv == TypeOK /\ Listed /\ Damped /\ StatusChangesPoked

(* The actions in the order of Next.                                       *)
LEMMA NextCases ==
    ASSUME [Next]_vars
    PROVE  \/ \E c \in SUBSET Games : WriteFile(c)
           \/ RemoveFile
           \/ \E g \in Games, f \in Findings : GameBecomes(g, f)
           \/ Start \/ Stat \/ LoadStat \/ ReadAndSwap \/ LoopNotify \/ ProbeSnapshot
           \/ ApplyProbes \/ StatFails \/ ReadFails
           \/ \E g \in Games : Probe(g)
           \/ Tick \/ Kicked \/ Stopped \/ ProbeNow
           \/ \E r \in Reporters, g \in Games : DialFails(r, g)
           \/ \E r \in Reporters : Report(r)
           \/ \E r \in Reporters : ReportNotify(r)
           \/ \E s \in Subs : Subscribe(s)
           \/ \E s \in Subs : Pull(s)
           \/ \E s \in Subs : Wake(s)
           \/ \E s \in Subs : Unsubscribe(s)
           \/ Close \/ CloseSubs
           \/ UNCHANGED vars
BY DEF Next, LoopStep

(* What a lobby can see is a view.                                         *)
LEMMA ShownIsView == TypeOK => Shown \in Views
<1> SUFFICES ASSUME TypeOK PROVE Shown \in Views OBVIOUS
<1>1. Shown \in [games -> [online : BOOLEAN, version : Versions \cup {NoVersion}]]
  BY DEF TypeOK, HealthOK, Shown
<1>2. games \in SUBSET Games BY DEF TypeOK, HealthOK
<1> QED BY <1>1, <1>2 DEF Views

LEMMA NoViewIsView == NoView \in Views
<1>1. NoView \in [{} -> [online : BOOLEAN, version : Versions \cup {NoVersion}]]
  BY DEF NoView
<1>2. {} \in SUBSET Games OBVIOUS
<1> QED BY <1>1, <1>2 DEF Views

LEMMA InitIInv == Init => IInv
<1> SUFFICES ASSUME Init PROVE IInv OBVIOUS
<1>1. TypeOK
  <2>1. FileOK BY DEF Init, FileOK, Findings
  <2>2. HealthOK BY RegistryAssumption DEF Init, HealthOK
  <2>3. LoopOK BY DEF Init, LoopOK, LoopStates
  <2>4. CallersOK BY NoViewIsView DEF Init, CallersOK
  <2> QED BY <2>1, <2>2, <2>3, <2>4 DEF TypeOK
<1>2. Listed /\ Damped BY RegistryAssumption DEF Init, Listed, Damped
<1>3. StatusChangesPoked BY DEF Init, StatusChangesPoked
<1> QED BY <1>1, <1>2, <1>3 DEF IInv

----------------------------------------------------------------------------
(* The four parts of the type invariant, one lemma each: a step is named   *)
(* only where it assigns a variable of the part.                           *)
LEMMA StepFile == TypeOK /\ [Next]_vars => FileOK'
<1> SUFFICES ASSUME TypeOK, [Next]_vars PROVE FileOK' OBVIOUS
<1> USE DEF TypeOK, FileOK
<1>1. ASSUME NEW c \in SUBSET Games, WriteFile(c) PROVE FileOK'
  <2>1. exists' \in BOOLEAN /\ unread' \in BOOLEAN BY <1>1, Zenon DEF WriteFile
  <2> QED BY <1>1, <2>1, RegistryAssumption DEF WriteFile
<1>2. CASE RemoveFile
  <2>1. exists' \in BOOLEAN /\ content' \in SUBSET Games /\ unread' \in BOOLEAN
    BY <1>2, Zenon DEF RemoveFile
  <2>2. mtime' \in Nat /\ writes' \in Nat BY <1>2 DEF RemoveFile
  <2>3. alive' \in [Games -> Findings] BY <1>2 DEF RemoveFile
  <2> QED BY <2>1, <2>2, <2>3
<1>3. ASSUME NEW g \in Games, NEW f \in Findings, GameBecomes(g, f) PROVE FileOK'
  BY <1>3 DEF GameBecomes, fileVars
<1>4. CASE UNCHANGED <<fileVars, alive>> BY <1>4 DEF fileVars
<1>5. CASE ReadFails BY <1>5 DEF ReadFails
<1> QED BY <1>1, <1>2, <1>3, <1>4, <1>5, NextCases
    DEF Start, Stat, StatFails, LoadStat, ReadAndSwap, LoopNotify, ProbeSnapshot, ApplyProbes, Probe,
        Tick, Kicked, Stopped, ProbeNow, DialFails, Report, ReportNotify, Subscribe, Pull,
        Wake, Unsubscribe, Close, CloseSubs, vars

LEMMA StepHealth == TypeOK /\ [Next]_vars => HealthOK'
<1> SUFFICES ASSUME TypeOK, [Next]_vars PROVE HealthOK' OBVIOUS
<1> USE RegistryAssumption DEF TypeOK, HealthOK
<1>1. CASE LoadStat BY <1>1 DEF LoadStat, Reject, LoopOK, regVars
<1>2. CASE ReadAndSwap
  <2>1. ASSUME Swap(content), seen' = stat2 PROVE HealthOK'
    <3>1. games' \in SUBSET Games /\ seen' \in Nat BY <2>1 DEF Swap, FileOK, LoopOK
    <3>2. online' \in [Games -> BOOLEAN] BY <2>1 DEF Swap
    <3>3. fails' \in [Games -> 0..FailThreshold] BY <2>1 DEF Swap
    <3>4. version' \in [Games -> Versions \cup {NoVersion}] BY <2>1 DEF Swap
    <3> QED BY <3>1, <3>2, <3>3, <3>4
  <2>2. CASE Reject BY <2>2 DEF Reject, LoopOK
  <2> QED BY <1>2, <2>1, <2>2 DEF ReadAndSwap
<1>3. CASE ApplyProbes
  <2>1. \A g \in Games : FailsAfter(g) \in 0..FailThreshold
    BY DEF FailsAfter, OneMore
  <2>2. \A g \in Games : OnlineAfter(g) \in BOOLEAN
    BY DEF OnlineAfter
  <2>3. \A g \in Games : VersionAfter(g) \in Versions \cup {NoVersion}
    BY DEF VersionAfter
  <2> QED BY <1>3, <2>1, <2>2, <2>3 DEF ApplyProbes
<1>4. ASSUME NEW r \in Reporters, Report(r) PROVE HealthOK'
  BY <1>4 DEF Report
<1>5. CASE UNCHANGED regVars BY <1>5 DEF regVars
<1>6. CASE ReadFails BY <1>6 DEF ReadFails, Reject, LoopOK
<1> QED BY <1>1, <1>2, <1>3, <1>4, <1>5, <1>6, NextCases
    DEF WriteFile, RemoveFile, GameBecomes, Start, Stat, StatFails, LoopNotify,
        ProbeSnapshot, Probe, Tick, Kicked, Stopped, ProbeNow, DialFails, ReportNotify,
        Subscribe, Pull, Wake, Unsubscribe, Close, CloseSubs, vars

LEMMA StepLoop == TypeOK /\ [Next]_vars => LoopOK'
<1> SUFFICES ASSUME TypeOK, [Next]_vars PROVE LoopOK' OBVIOUS
<1> USE DEF TypeOK, LoopOK, LoopStates
<1>1. CASE Start \/ Stat \/ StatFails \/ LoopNotify \/ ProbeSnapshot
  BY <1>1 DEF Start, Stat, StatFails, LoopNotify, ProbeSnapshot, ctlVars, FileOK
<1>2. CASE LoadStat \/ ReadAndSwap \/ ReadFails
  BY <1>2 DEF LoadStat, ReadAndSwap, ReadFails, Reject, Loaded, ctlVars, FileOK
<1>3. CASE ApplyProbes
  BY <1>3 DEF ApplyProbes, ctlVars
<1>4. ASSUME NEW g \in Games, Probe(g) PROVE LoopOK'
  BY <1>4 DEF Probe, ctlVars, FileOK
<1>5. CASE Tick \/ Kicked \/ Stopped
  BY <1>5 DEF Tick, Kicked, Stopped, ctlVars
<1>6. CASE ProbeNow \/ Close \/ CloseSubs
  BY <1>6 DEF ProbeNow, Close, CloseSubs, loopVars
<1>7. CASE UNCHANGED <<loopVars, ctlVars>> BY <1>7 DEF loopVars, ctlVars
<1> QED BY <1>1, <1>2, <1>3, <1>4, <1>5, <1>6, <1>7, NextCases
    DEF WriteFile, RemoveFile, GameBecomes, DialFails, Report, ReportNotify, Subscribe,
        Pull, Wake, Unsubscribe, vars

LEMMA StepCallers == TypeOK /\ [Next]_vars => CallersOK'
<1> SUFFICES ASSUME TypeOK, [Next]_vars PROVE CallersOK' OBVIOUS
<1> USE DEF TypeOK, CallersOK
<1>1. CASE LoopNotify BY <1>1 DEF LoopNotify, Notify, repVars
<1>2. ASSUME NEW r \in Reporters, NEW g \in Games, DialFails(r, g) PROVE CallersOK'
  BY <1>2 DEF DialFails, subVars
<1>3. ASSUME NEW r \in Reporters, Report(r) PROVE CallersOK'
  BY <1>3 DEF Report, subVars
<1>4. ASSUME NEW r \in Reporters, ReportNotify(r) PROVE CallersOK'
  BY <1>4 DEF ReportNotify, Notify
<1>5. ASSUME NEW s \in Subs, Subscribe(s) PROVE CallersOK'
  BY <1>5 DEF Subscribe, repVars
<1>6. ASSUME NEW s \in Subs, Pull(s) PROVE CallersOK'
  BY <1>6, ShownIsView DEF Pull, repVars
<1>7. ASSUME NEW s \in Subs, Wake(s) PROVE CallersOK'
  BY <1>7 DEF Wake, repVars
<1>8. ASSUME NEW s \in Subs, Unsubscribe(s) PROVE CallersOK'
  BY <1>8, NoViewIsView DEF Unsubscribe, repVars
<1>9. CASE CloseSubs BY <1>9 DEF CloseSubs, repVars
<1>10. CASE UNCHANGED <<repVars, subVars>> BY <1>10 DEF repVars, subVars
<1> QED BY <1>1, <1>2, <1>3, <1>4, <1>5, <1>6, <1>7, <1>8, <1>9, <1>10, NextCases
    DEF WriteFile, RemoveFile, GameBecomes, Start, Stat, StatFails, LoadStat, ReadAndSwap,
        ReadFails, ProbeSnapshot, ApplyProbes, Probe, Tick, Kicked, Stopped, ProbeNow, Close, vars

LEMMA StepType == TypeOK /\ [Next]_vars => TypeOK'
BY StepFile, StepHealth, StepLoop, StepCallers DEF TypeOK

----------------------------------------------------------------------------
(* Only a file with entries is ever swapped in.                            *)
LEMMA StepListed == Listed /\ [Next]_vars => Listed'
<1> SUFFICES ASSUME Listed, [Next]_vars PROVE Listed' OBVIOUS
<1> USE DEF Listed
<1>1. CASE LoadStat BY <1>1 DEF LoadStat, Reject, regVars
<1>2. CASE ReadAndSwap BY <1>2 DEF ReadAndSwap, Swap, Reject
<1>3. CASE UNCHANGED games BY <1>3
<1>4. CASE ReadFails BY <1>4 DEF ReadFails, Reject
<1> QED BY <1>1, <1>2, <1>3, <1>4, NextCases
    DEF WriteFile, RemoveFile, GameBecomes, Start, Stat, StatFails, LoopNotify, ProbeSnapshot, Probe,
        ApplyProbes, Tick, Kicked, Stopped, ProbeNow, DialFails, Report, ReportNotify,
        Subscribe, Pull, Wake, Unsubscribe, Close, CloseSubs, vars, regVars

(* The three writers of the health: a reload, the probes and a Report.     *)
LEMMA StepDamped == TypeOK /\ Damped /\ [Next]_vars => Damped'
<1> SUFFICES ASSUME TypeOK, Damped, [Next]_vars PROVE Damped' OBVIOUS
<1> USE RegistryAssumption DEF TypeOK, HealthOK, Damped
<1>1. CASE LoadStat BY <1>1 DEF LoadStat, Reject, regVars
<1>2. CASE ReadAndSwap
  <2>1. CASE Swap(content) BY <2>1 DEF Swap
  <2>2. CASE Reject BY <2>2 DEF Reject
  <2> QED BY <1>2, <2>1, <2>2 DEF ReadAndSwap
<1>3. CASE ApplyProbes
  <2> SUFFICES ASSUME NEW g \in Games
               PROVE  /\ OnlineAfter(g) => g \in games /\ FailsAfter(g) < FailThreshold
                      /\ g \notin games => FailsAfter(g) = 0 /\ VersionAfter(g) = NoVersion
    BY <1>3 DEF ApplyProbes
  <2> QED BY DEF OnlineAfter, FailsAfter, VersionAfter
<1>4. ASSUME NEW r \in Reporters, Report(r) PROVE Damped'
  BY <1>4 DEF Report
<1>5. CASE UNCHANGED regVars BY <1>5 DEF regVars
<1>6. CASE ReadFails BY <1>6 DEF ReadFails, Reject
<1> QED BY <1>1, <1>2, <1>3, <1>4, <1>5, <1>6, NextCases
    DEF WriteFile, RemoveFile, GameBecomes, Start, Stat, StatFails, LoopNotify, ProbeSnapshot, Probe,
        Tick, Kicked, Stopped, ProbeNow, DialFails, ReportNotify, Subscribe, Pull, Wake,
        Unsubscribe, Close, CloseSubs, vars

(* The statuses a lobby would see depend on games and online only.         *)
LEMMA ShownStatuses == Statuses(Shown) = [g \in games |-> online[g]]
BY DEF Statuses, Shown

LEMMA ShownStatusesAfter == Statuses(Shown)' = [g \in games' |-> online'[g]]
BY DEF Statuses, Shown

(* A step that leaves the lobbies, the statuses and pending notifications  *)
(* alone.                                                                  *)
LEMMA PokedStays ==
    ASSUME StatusChangesPoked, UNCHANGED <<subVars, games, online>>,
           NotifyPending => NotifyPending'
    PROVE  StatusChangesPoked'
<1>1. Statuses(Shown)' = Statuses(Shown)
  BY ShownStatuses, ShownStatusesAfter
<1>2. \A s \in subs : Statuses(view[s])' = Statuses(view[s])
  BY DEF Statuses, subVars
<1> QED BY <1>1, <1>2 DEF StatusChangesPoked, subVars

(* A notify puts a token into every channel.                               *)
LEMMA NotifyPokes ==
    ASSUME CallersOK, Notify, UNCHANGED subs
    PROVE  StatusChangesPoked'
BY DEF CallersOK, Notify, StatusChangesPoked

(* A change whose notify is still to come.                                 *)
LEMMA PendingSuffices == NotifyPending' => StatusChangesPoked'
BY DEF StatusChangesPoked

(* A step of lobby s after which it is gone, awake or up to date.          *)
LEMMA OthersPoked ==
    ASSUME CallersOK, StatusChangesPoked, NEW s \in Subs,
           UNCHANGED <<games, online, NotifyPending>>,
           \A t \in subs' \ {s} : /\ t \in subs
                                 /\ subPc'[t] = subPc[t] /\ buf'[t] = buf[t]
                                 /\ view'[t] = view[t],
           s \in subs' /\ subPc'[s] = "waiting"
               => Statuses(view[s])' = Statuses(Shown)
    PROVE  StatusChangesPoked'
<1>1. Statuses(Shown)' = Statuses(Shown)
  BY ShownStatuses, ShownStatusesAfter
<1>2. \A t \in subs' \ {s} : Statuses(view[t])' = Statuses(view[t])
  BY DEF Statuses
<1> QED BY <1>1, <1>2 DEF StatusChangesPoked

LEMMA StepPoked == TypeOK /\ StatusChangesPoked /\ [Next]_vars => StatusChangesPoked'
<1> SUFFICES ASSUME TypeOK, StatusChangesPoked, [Next]_vars PROVE StatusChangesPoked'
  OBVIOUS
<1> USE DEF TypeOK
<1>1. CASE LoadStat
  <2>1. NotifyPending => NotifyPending' BY <1>1 DEF LoadStat, NotifyPending, repVars
  <2> QED BY <1>1, <2>1, PokedStays DEF LoadStat, Reject, regVars
<1>2. CASE ReadAndSwap
  <2>1. CASE Loaded("notifyReload")
    BY <2>1, PendingSuffices DEF Loaded, NotifyPending
  <2>2. CASE Reject
    <3>1. NotifyPending => NotifyPending' BY <1>2 DEF ReadAndSwap, NotifyPending, repVars
    <3> QED BY <1>2, <2>2, <3>1, PokedStays DEF ReadAndSwap, Reject
  <2> QED BY <1>2, <2>1, <2>2 DEF ReadAndSwap
<1>3. CASE LoopNotify BY <1>3, NotifyPokes DEF LoopNotify
<1>4. CASE ApplyProbes
  <2>1. CASE online' # online
    BY <1>4, <2>1, PendingSuffices DEF ApplyProbes, NotifyPending
  <2>2. CASE online' = online
    <3>1. NotifyPending => NotifyPending' BY <1>4 DEF ApplyProbes, NotifyPending, repVars
    <3> QED BY <1>4, <2>2, <3>1, PokedStays DEF ApplyProbes
  <2> QED BY <2>1, <2>2
<1>5. ASSUME NEW r \in Reporters, Report(r) PROVE StatusChangesPoked'
  <2> USE DEF CallersOK
  <2>1. CASE online' # online
    BY <1>5, <2>1, PendingSuffices DEF Report, NotifyPending
  <2>2. CASE online' = online
    <3>1. NotifyPending => NotifyPending' BY <1>5 DEF Report, NotifyPending, loopVars
    <3> QED BY <1>5, <2>2, <3>1, PokedStays DEF Report
  <2> QED BY <2>1, <2>2
<1>6. ASSUME NEW r \in Reporters, ReportNotify(r) PROVE StatusChangesPoked'
  BY <1>6, NotifyPokes DEF ReportNotify
<1>7. ASSUME NEW r \in Reporters, NEW g \in Games, DialFails(r, g) PROVE StatusChangesPoked'
  <2>1. NotifyPending => NotifyPending'
    BY <1>7 DEF DialFails, NotifyPending, loopVars, CallersOK
  <2> QED BY <1>7, <2>1, PokedStays DEF DialFails, regVars
<1>8. ASSUME NEW s \in Subs, Subscribe(s) PROVE StatusChangesPoked'
  BY <1>8, OthersPoked DEF Subscribe, CallersOK, regVars, loopVars, repVars, NotifyPending
<1>9. ASSUME NEW s \in Subs, Pull(s) PROVE StatusChangesPoked'
  <2>1. view'[s] = Shown BY <1>9 DEF Pull, CallersOK
  <2>2. Statuses(view[s])' = Statuses(Shown) BY <2>1 DEF Statuses
  <2> QED BY <1>9, <2>2, OthersPoked
      DEF Pull, CallersOK, regVars, loopVars, repVars, NotifyPending
<1>10. ASSUME NEW s \in Subs, Wake(s) PROVE StatusChangesPoked'
  BY <1>10, OthersPoked DEF Wake, CallersOK, regVars, loopVars, repVars, NotifyPending
<1>11. ASSUME NEW s \in Subs, Unsubscribe(s) PROVE StatusChangesPoked'
  BY <1>11, OthersPoked DEF Unsubscribe, CallersOK, regVars, loopVars, repVars, NotifyPending
<1>12. CASE CloseSubs BY <1>12 DEF CloseSubs, StatusChangesPoked
<1>15. CASE ReadFails
  <2>1. NotifyPending => NotifyPending' BY <1>15 DEF ReadFails, NotifyPending, repVars
  <2> QED BY <1>15, <2>1, PokedStays DEF ReadFails, Reject
<1>13. CASE Start \/ Stat \/ StatFails \/ ProbeSnapshot \/ Tick \/ Kicked \/ Stopped
  <2>1. NotifyPending => NotifyPending'
    BY <1>13 DEF Start, Stat, StatFails, ProbeSnapshot, Tick, Kicked, Stopped, NotifyPending, repVars
  <2> QED BY <1>13, <2>1, PokedStays
      DEF Start, Stat, StatFails, ProbeSnapshot, Tick, Kicked, Stopped, regVars
<1>14. CASE UNCHANGED <<subVars, regVars, repVars, loop>>
  <2>1. NotifyPending => NotifyPending' BY <1>14 DEF NotifyPending, repVars
  <2> QED BY <1>14, <2>1, PokedStays DEF regVars
<1> QED BY <1>1, <1>2, <1>3, <1>4, <1>5, <1>6, <1>7, <1>8, <1>9, <1>10, <1>11, <1>12, <1>13,
       <1>14, <1>15, NextCases
    DEF WriteFile, RemoveFile, GameBecomes, Probe, ProbeNow, Close, vars, loopVars

----------------------------------------------------------------------------
(* The invariant is inductive and holds in every reachable state.          *)
THEOREM Invariance == Spec => []IInv
<1>1. IInv /\ [Next]_vars => IInv'
  BY StepType, StepListed, StepDamped, StepPoked DEF IInv
<1> QED BY <1>1, InitIInv, PTL DEF Spec

(* The registry's state keeps its types.                                   *)
THEOREM TypeCorrect == Spec => []TypeOK
BY Invariance, PTL DEF IInv

(* Flap damping: a game shown online is listed and has failed fewer than   *)
(* FailThreshold times in a row.                                           *)
THEOREM DampedCorrect == Spec => []Damped
BY Invariance, PTL DEF IInv

(* No lost wakeup: a waiting lobby with an outdated menu has a poke coming. *)
THEOREM PokedCorrect == Spec => []StatusChangesPoked
BY Invariance, PTL DEF IInv

(* A reload never empties the list nor takes a game offline by itself.     *)
THEOREM ReloadCorrect == Spec => ReloadKeepsHealth
<1> DEFINE Kept == /\ games' # {}
                   /\ \A g \in games \cap games' :
                        online[g] /\ ~online'[g] => fails'[g] = FailThreshold
<1>1. IInv /\ [Next]_vars => [Kept]_vars
  <2> SUFFICES ASSUME IInv, [Next]_vars, vars' # vars PROVE Kept OBVIOUS
  <2> USE RegistryAssumption DEF IInv, TypeOK, HealthOK
  <2>1. games' # {} BY StepListed DEF Listed
  <2>2. ASSUME NEW g \in games, g \in games', online[g], ~online'[g]
        PROVE  fails'[g] = FailThreshold
    <3>1. CASE LoadStat BY <2>2, <3>1 DEF LoadStat, Reject, regVars
    <3>2. CASE ReadAndSwap BY <2>2, <3>2 DEF ReadAndSwap, Swap, Reject
    <3>3. CASE ApplyProbes
      BY <2>2, <3>3 DEF ApplyProbes, OnlineAfter, FailsAfter, OneMore
    <3>4. ASSUME NEW r \in Reporters, Report(r) PROVE fails'[g] = FailThreshold
      BY <2>2, <3>4 DEF Report
    <3>5. CASE UNCHANGED regVars BY <2>2, <3>5 DEF regVars
    <3>6. CASE ReadFails BY <2>2, <3>6 DEF ReadFails, Reject
    <3> QED BY <3>1, <3>2, <3>3, <3>4, <3>5, <3>6, NextCases
        DEF WriteFile, RemoveFile, GameBecomes, Start, Stat, StatFails, LoopNotify, ProbeSnapshot,
            Probe, Tick, Kicked, Stopped, ProbeNow, DialFails, ReportNotify, Subscribe,
            Pull, Wake, Unsubscribe, Close, CloseSubs, vars
  <2> QED BY <2>1, <2>2
<1> QED BY <1>1, Invariance, PTL DEF Spec, ReloadKeepsHealth

----------------------------------------------------------------------------
(* The mtime the loop remembers, and the two it has just read, are never   *)
(* ahead of the file.                                                      *)
Behind == seen <= mtime /\ stat <= mtime /\ stat2 <= mtime

(* "if a write races the read, the recorded mtime predates it and the next *)
(* cycle re-checks": when the loop would take the file for unchanged and   *)
(* the file is a good one, the registry serves that very file, or reading  *)
(* it failed after its mtime had been taken; provided no two writes share  *)
(* an mtime.                                                               *)
UnchangedMeansServed ==
    ~SameTick /\ exists /\ content # {} /\ seen = mtime => games = content \/ unread

(* What the steps do to the file and to the registry's idea of it.         *)
LEMMA FileSteps ==
    ASSUME [Next]_vars
    PROVE  \/ \E c \in SUBSET Games : WriteFile(c)
           \/ RemoveFile \/ Stat \/ LoadStat \/ ReadAndSwap \/ ReadFails
           \/ UNCHANGED <<exists, content, mtime, unread, games, seen, stat, stat2>>
BY NextCases
   DEF GameBecomes, Start, StatFails, LoopNotify, ProbeSnapshot, Probe, ApplyProbes, Tick, Kicked,
       Stopped, ProbeNow, DialFails, Report, ReportNotify, Subscribe, Pull, Wake,
       Unsubscribe, Close, CloseSubs, vars, fileVars, regVars, loopVars

LEMMA StepServed ==
    ASSUME TypeOK, Behind, UnchangedMeansServed, [Next]_vars
    PROVE  Behind' /\ UnchangedMeansServed'
<1> USE RegistryAssumption DEF TypeOK, FileOK, HealthOK, LoopOK, Behind, UnchangedMeansServed
<1>1. ASSUME NEW c \in SUBSET Games, WriteFile(c) PROVE Behind' /\ UnchangedMeansServed'
  BY <1>1 DEF WriteFile, regVars, loopVars
<1>2. CASE RemoveFile BY <1>2 DEF RemoveFile, regVars, loopVars
<1>3. CASE Stat BY <1>3 DEF Stat, fileVars, regVars
<1>4. CASE LoadStat BY <1>4 DEF LoadStat, Reject, Loaded, fileVars, regVars
<1>5. CASE ReadAndSwap BY <1>5 DEF ReadAndSwap, Swap, Reject, Loaded, fileVars
<1>6. CASE ReadFails
  <2>1. stat = mtime => unread' BY <1>6, Zenon DEF ReadFails
  <2>2. /\ seen' = stat /\ stat' = 0 /\ stat2' = 0
        /\ UNCHANGED <<exists, content, mtime, games>>
    BY <1>6 DEF ReadFails, Reject, Loaded
  <2> QED BY <2>1, <2>2
<1>7. CASE UNCHANGED <<exists, content, mtime, unread, games, seen, stat, stat2>> BY <1>7
<1> QED BY <1>1, <1>2, <1>3, <1>4, <1>5, <1>6, <1>7, FileSteps

(* No save is overlooked: although reloadIfChanged stats, loadFile stats   *)
(* again and then reads, a good file whose mtime the loop remembers is the *)
(* one whose games are served, unless an I/O error hid this save.          *)
THEOREM NoSaveOverlooked == Spec => []UnchangedMeansServed
<1>1. Init => Behind /\ UnchangedMeansServed BY DEF Init, Behind, UnchangedMeansServed
<1>2. TypeOK /\ (Behind /\ UnchangedMeansServed) /\ [Next]_vars
        => (Behind /\ UnchangedMeansServed)'
  BY StepServed
<1> QED BY <1>1, <1>2, TypeCorrect, PTL DEF Spec
=============================================================================

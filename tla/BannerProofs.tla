---------------------------- MODULE BannerProofs ----------------------------
(***************************************************************************)
(* Banner implements the safety part of HotFile, and pokes every menu that *)
(* shows an old notice, for any number of saves, notices and menus.        *)
(*                                                                         *)
(* The invariant says that the notice is that of the save it was loaded    *)
(* from, and that a removal the loop has seen but not yet acted upon is    *)
(* not older than that save.                                               *)
(***************************************************************************)
EXTENDS Banner, TLAPS

(* What is served is what one good save loads as.                          *)
Served ==
    /\ from = 0 => notice = Disabled
    /\ from > 0 => saves[from] # Bad /\ notice = Loads(saves[from])

(* The removal found by the first stat.                                    *)
SeenGone == loop = "gone" => stat >= 1 /\ stat >= from /\ saves[stat] = Missing

IInv == TypeOK /\ Served /\ SeenGone /\ NoticePoked

(* Everything of the file and the loop is as it was.                       *)
LEMMA FileSame ==
  ASSUME IInv, UNCHANGED <<saves, notice, from, loop, stat>>
  PROVE  Served' /\ SeenGone'
  BY DEF IInv, Served, SeenGone

(* Another save takes none of the earlier ones back.                       *)
LEMMA SavesKept ==
  ASSUME saves \in Seq(Files), NEW f \in Files
  PROVE  /\ Append(saves, f) \in Seq(Files)
         /\ Len(Append(saves, f)) = Len(saves) + 1
         /\ \A i \in 1..Len(saves) : Append(saves, f)[i] = saves[i]
  OBVIOUS

(* New serves the file if it loads, and nothing otherwise.                 *)
LEMMA InitIInv == Init => IInv
  <1> SUFFICES ASSUME Init PROVE IInv
    OBVIOUS
  <1> USE BannerAssumption
  <1>1. PICK f \in Files : saves = <<f>>
    BY DEF Init
  <1>2. saves \in Seq(Files) /\ Len(saves) = 1 /\ saves[1] = f
    BY <1>1
  <1>3. TypeOK
    <2>1. notice \in Values /\ mtime \in 0..1 /\ from \in 0..1 /\ view \in [Subs -> Values]
      BY DEF Init, Values
    <2>2. buf \in [Subs -> BOOLEAN] /\ menu \in [Subs -> {"out", "fresh", "waiting", "woken"}]
      BY DEF Init
    <2>3. kick \in BOOLEAN /\ stop \in BOOLEAN /\ unread \in BOOLEAN
      BY DEF Init
    <2>4. /\ loop = "off" /\ closer = "none" /\ stat = 0 /\ stat2 = 0
          /\ subs \subseteq Subs
      BY DEF Init
    <2> QED BY <1>2, <2>1, <2>2, <2>3, <2>4 DEF TypeOK, Now
  <1>4. Served /\ SeenGone
    BY <1>2 DEF Init, Served, SeenGone, Loads, Files, Values, Now, File
  <1>5. NoticePoked
    BY DEF Init, NoticePoked
  <1> QED BY <1>3, <1>4, <1>5 DEF IInv

(* The operator's step.                                                    *)
LEMMA SaveIInv == ASSUME IInv, NEW f \in Files, Save(f) PROVE IInv'
  <1> USE BannerAssumption DEF fileVars, srcVars, loopVars, ctlVars, subVars
  <1>1. /\ saves' \in Seq(Files) /\ Len(saves') = Len(saves) + 1 /\ Len(saves) \in Nat
        /\ \A i \in 1..Len(saves) : saves'[i] = saves[i]
    BY SavesKept DEF IInv, TypeOK, Save
  <1>2. TypeOK'
    <2>1. unread' \in BOOLEAN BY Zenon DEF Save
    <2> QED BY <1>1, <2>1 DEF IInv, TypeOK, Save, Now
  <1>3. Served' /\ SeenGone'
    BY <1>1 DEF IInv, TypeOK, Save, Served, SeenGone, Now
  <1>4. NoticePoked'
    BY DEF IInv, NoticePoked, Save
  <1> QED BY <1>2, <1>3, <1>4 DEF IInv

(* The steps of reloadIfChanged and notify.                                *)
LEMMA LoadingIInv == ASSUME IInv, Loading \/ StatFails \/ ReadFails PROVE IInv'
  <1> USE BannerAssumption DEF fileVars, srcVars, loopVars, ctlVars, subVars
  <1>0. saves \in Seq(Files) /\ Len(saves) \in Nat /\ Len(saves) >= 1 /\ saves[Len(saves)] \in Files
    BY DEF IInv, TypeOK, Now
  <1>1. CASE Stat
    BY <1>0, <1>1 DEF IInv, TypeOK, Stat, Return, Served, SeenGone, NoticePoked, Now, File
  <1>2. CASE StatFails
    BY <1>0, <1>2 DEF IInv, TypeOK, StatFails, Return, Served, SeenGone, NoticePoked, Now
  <1>3. CASE Clear
    BY <1>0, <1>3 DEF IInv, TypeOK, Clear, Return, Served, SeenGone, NoticePoked, Now, Values, Loads
  <1>4. CASE LoadStat
    BY <1>0, <1>4 DEF IInv, TypeOK, LoadStat, Reject, Return, Served, SeenGone, NoticePoked, Now, File
  <1>5. CASE ReadAndSwap
    BY <1>0, <1>5 DEF IInv, TypeOK, ReadAndSwap, Reject, Return, Served, SeenGone, NoticePoked, Now, File, Values, Loads, Files
  <1>6. CASE Notify
    BY <1>0, <1>6 DEF IInv, TypeOK, Notify, Served, SeenGone, NoticePoked, Now
  <1>7. CASE ReadFails
    <2>1. /\ unread' \in BOOLEAN /\ mtime' \in 0..Now /\ loop' = "select"
          /\ stat' = 0 /\ stat2' = 0
          /\ UNCHANGED <<saves, notice, from, ctlVars, subVars>>
      BY <1>7 DEF IInv, TypeOK, ReadFails, Reject, Return
    <2>2. NoticePoked'
      BY <1>7, <2>1 DEF IInv, ReadFails, NoticePoked
    <2> QED BY <1>0, <2>1, <2>2 DEF IInv, TypeOK, Served, SeenGone, Now
  <1> QED BY <1>1, <1>2, <1>3, <1>4, <1>5, <1>6, <1>7 DEF Loading

(* Start, the select, the kick and Close.                                  *)
LEMMA ControlIInv ==
  ASSUME IInv, Start \/ Tick \/ Kicked \/ Stopped \/ ReloadNow \/ Close \/ CloseSubs
  PROVE  IInv'
  <1> USE BannerAssumption DEF fileVars, srcVars, loopVars, ctlVars, subVars
  <1>1. TypeOK'
    BY DEF IInv, TypeOK, Start, Tick, Kicked, Stopped, ReloadNow, Close, CloseSubs, Now
  <1>2. Served' /\ SeenGone'
    BY DEF IInv, Served, SeenGone, Start, Tick, Kicked, Stopped, ReloadNow, Close, CloseSubs
  <1>3. NoticePoked'
    BY DEF IInv, NoticePoked, Start, Tick, Kicked, Stopped, ReloadNow, Close, CloseSubs
  <1> QED BY <1>1, <1>2, <1>3 DEF IInv

(* A menu's steps.                                                         *)
LEMMA MenuIInv ==
  ASSUME IInv, NEW s \in Subs, Subscribe(s) \/ Copy(s) \/ Wake(s) \/ Unsubscribe(s)
  PROVE  IInv'
  <1> USE BannerAssumption DEF fileVars, srcVars, loopVars, ctlVars, subVars
  <1>1. TypeOK'
    BY DEF IInv, TypeOK, Subscribe, Copy, Wake, Unsubscribe, Now, Values
  <1>2. Served' /\ SeenGone'
    BY FileSame DEF Subscribe, Copy, Wake, Unsubscribe
  <1>3. NoticePoked'
    BY DEF IInv, TypeOK, NoticePoked, Subscribe, Copy, Wake, Unsubscribe
  <1> QED BY <1>1, <1>2, <1>3 DEF IInv

(* The invariant holds in every reachable state of the banner's goroutines *)
(* and the operator.                                                       *)
THEOREM Invariance == Spec => []IInv
  <1>1. IInv /\ UNCHANGED vars => IInv'
    BY DEF IInv, TypeOK, Served, SeenGone, NoticePoked, Now, vars, fileVars, srcVars, loopVars, ctlVars, subVars
  <1>2. IInv /\ [Next]_vars => IInv'
    BY <1>1, SaveIInv, LoadingIInv, ControlIInv, MenuIInv DEF Next
  <1> QED BY InitIInv, <1>2, PTL DEF Spec

(* No reload that changes the notice is lost to a menu (notify after the   *)
(* lock, coalesced pokes).                                                 *)
THEOREM PokedCorrect == Spec => []NoticePoked
  <1>1. IInv => NoticePoked
    BY DEF IInv
  <1> QED BY Invariance, <1>1, PTL

(* The notice is that of one good save and never goes back to an older     *)
(* one, although reloadIfChanged and loadFile look at the file at three    *)
(* different moments: the safety part of HotFile, under the mapping of     *)
(* Banner.                                                                 *)
THEOREM RefinesHotFile == Spec => HF!Safety
  <1> USE BannerAssumption DEF fileVars, srcVars, loopVars, ctlVars, subVars
  <1>1. Init => HF!Init
    <2> SUFFICES ASSUME Init PROVE HF!Init
      OBVIOUS
    <2>1. PICK f \in Files : saves = <<f>>
      BY DEF Init
    <2>2. Len(saves) = 1 /\ saves[1] = f
      BY <2>1
    <2> QED BY <2>1, <2>2 DEF Init, HF!Init, HF!Good, Loads, Files, Values, Now, File
  <1>2. ASSUME IInv, Next PROVE [HF!Next]_(HF!vars)
    <2>0. saves \in Seq(Files) /\ Len(saves) \in Nat /\ Len(saves) >= 1 /\ from \in 0..Len(saves)
      BY <1>2 DEF IInv, TypeOK, Now
    <2>1. ASSUME NEW f \in Files, Save(f) PROVE HF!Next
      BY <2>1 DEF Save, HF!Next, HF!Save
    <2>2. CASE Clear
      <3>1. HF!Serve(stat) /\ stat \in 1..Len(saves)
        BY <1>2, <2>0, <2>2 DEF IInv, TypeOK, Now, SeenGone, Clear, HF!Serve, HF!Good, Loads
      <3> QED BY <3>1 DEF HF!Next
    <2>3. CASE ReadAndSwap
      <3>1. CASE File \in Values
        <4>1. HF!Serve(Now) /\ Now \in 1..Len(saves)
          BY <2>0, <2>3, <3>1 DEF ReadAndSwap, HF!Serve, HF!Good, Loads, Values, Now, File
        <4> QED BY <4>1 DEF HF!Next
      <3>2. CASE File \notin Values
        BY <2>3, <3>2 DEF ReadAndSwap, Reject, HF!vars
      <3> QED BY <3>1, <3>2
    <2>4. CASE Stat \/ LoadStat \/ Notify \/ StatFails
      BY <2>4 DEF Stat, LoadStat, Notify, StatFails, Reject, HF!vars
    <2>8. CASE ReadFails
      <3>1. UNCHANGED <<saves, from, notice, closer>> BY <2>8 DEF ReadFails, Reject
      <3>2. unread' = unread \/ unread' = TRUE BY <1>2, <2>8 DEF ReadFails, IInv, TypeOK
      <3> QED BY <3>1, <3>2 DEF HF!Next, HF!Miss, HF!vars
    <2>5. CASE Close
      BY <2>5 DEF Close, HF!Next, HF!Shut
    <2>6. CASE Start \/ Tick \/ Kicked \/ Stopped \/ ReloadNow \/ CloseSubs
      BY <2>6 DEF Start, Tick, Kicked, Stopped, ReloadNow, CloseSubs, HF!vars
    <2>7. ASSUME NEW s \in Subs, Subscribe(s) \/ Copy(s) \/ Wake(s) \/ Unsubscribe(s)
          PROVE  UNCHANGED HF!vars
      BY <2>7 DEF Subscribe, Copy, Wake, Unsubscribe, HF!vars
    <2> QED BY <1>2, <2>1, <2>2, <2>3, <2>4, <2>5, <2>6, <2>7, <2>8 DEF Next, Loading
  <1>3. UNCHANGED vars => UNCHANGED HF!vars
    BY DEF vars, HF!vars
  <1>4. IInv /\ [Next]_vars => [HF!Next]_(HF!vars)
    BY <1>2, <1>3
  <1> QED BY <1>1, <1>4, Invariance, PTL DEF Spec, HF!Safety
=============================================================================

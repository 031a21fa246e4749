-------------------------- MODULE LifecycleProofs --------------------------
(***************************************************************************)
(* TLAPS proofs about Lifecycle.  The process runs the guard as AuthGuard  *)
(* describes it, so every theorem about the guard holds in it; and the     *)
(* order of the shutdown follows from where main is.                       *)
(***************************************************************************)
EXTENDS Lifecycle, AuthGuardProofs

(* A step of the process is a step of the guard or leaves it alone.        *)
LEMMA GuardStep == [LNext]_lvars => [Next]_vars
<1> SUFFICES ASSUME [LNext]_lvars PROVE [Next]_vars
  OBVIOUS
<1>1. CASE Shutdown BY <1>1 DEF Shutdown, Next
<1>2. CASE \E c \in Conns : Transport(c) BY <1>2 DEF Transport, Next
<1>3. CASE UNCHANGED lvars BY <1>3 DEF lvars
<1>4. CASE LNext /\ ~Shutdown /\ ~(\E c \in Conns : Transport(c))
  BY <1>4 DEF LNext, MainStep, Boot, BootFails, Exit1, Signal, ServeFails, ServeSends,
              TakeSignal, CloseStats, StopListening, Drained, DrainTimeout, Deferred, Exited, lvars
<1> QED BY <1>1, <1>2, <1>3, <1>4

(* main, the signal and the transports drive the guard only through its    *)
(* own operations: the composition implements AuthGuard, and what is       *)
(* proved of the guard holds in the running process.                       *)
THEOREM RunsTheGuard == LSpec => Spec
<1>1. LInit => Init BY DEF LInit
<1> QED BY <1>1, GuardStep, PTL DEF LSpec, Spec

Needed == {"registry", "banner", "store"}

(* What main has opened by the time it reaches a stage of the boot.        *)
BootInv ==
    /\ stage \in Booting => connections = {} /\ ~closed /\ serve = "off"
    /\ stage = "banner" => {"registry"} \subseteq up
    /\ stage = "store" => {"registry", "banner"} \subseteq up
    /\ stage \in {"server", "stats"} \cup Running => Needed \subseteq up

(* The guard is closed from Server.Shutdown on, and what is still open     *)
(* then follows from how far main has come.                                *)
StopInv ==
    /\ closed => stage \in {"pending", "draining", "exited"} \cup Closing
    /\ closed => "stats" \notin up
    /\ stage = "shutdown" => "stats" \notin up
    /\ stage \in {"pending", "draining"} \cup Closing => closed
    /\ stage \in {"draining"} \cup Closing => toClose = {}
    /\ stage \in Closing => connections = {}
    /\ stage = "exited" /\ connections # {} => Needed \subseteq up

(* Every transport is still pending or already served, and after           *)
(* closePending the pending ones are those it has yet to close.            *)
PendingInv ==
    /\ \A c \in connections : c \in pending \/ auth[c] = "serving"
    /\ closed => pending \subseteq toClose

LInv == LTypeOK /\ BootInv /\ StopInv /\ PendingInv

LEMMA LInitInv == LInit => LInv
<1> SUFFICES ASSUME LInit PROVE LInv
  OBVIOUS
<1> USE DEF LInit, Init
<1>1. LTypeOK
  <2>1. stage \in Booting BY DEF Booting
  <2>2. up \subseteq Parts /\ serve \in {"off", "listening", "sending", "ended"} OBVIOUS
  <2>3. done \in BOOLEAN OBVIOUS
  <2>4. code \in 0..1 OBVIOUS
  <2> QED BY <2>1, <2>2, <2>3, <2>4 DEF LTypeOK
<1>2. BootInv BY DEF BootInv, Running
<1>3. StopInv BY DEF StopInv, Closing
<1>4. PendingInv BY DEF PendingInv
<1> QED BY <1>1, <1>2, <1>3, <1>4 DEF LInv

LEMMA StepPending == IInv /\ LInv /\ [LNext]_lvars => PendingInv'
<1> SUFFICES ASSUME IInv, LInv, [Next]_vars PROVE PendingInv'
  BY GuardStep
<1> USE DEF LInv, PendingInv, IInv, TypeOK, Registered, guardVars, AuthStates
<1>1. CASE ClosePending BY <1>1 DEF ClosePending
<1>2. CASE \E c \in Conns : Wrap(c) BY <1>2 DEF Wrap, CanWrap
<1>3. CASE \E c \in Conns : QueryKey(c) \/ AuthKey(c) BY <1>3 DEF QueryKey, AuthKey
<1>4. CASE \E c \in Conns : AuthGuest(c) BY <1>4 DEF AuthGuest
<1>5. CASE \E c \in Conns : MarkReady(c) BY <1>5 DEF MarkReady
<1>6. CASE \E c \in Conns : LeavePending(c) BY <1>6 DEF LeavePending
<1>7. CASE \E c \in Conns : HangUp(c) \/ Expire(c) BY <1>7 DEF HangUp, Expire
<1>8. CASE \E c \in Conns : Release(c) BY <1>8 DEF Release
<1>9. CASE \E c \in Conns : Return(c) BY <1>9 DEF Return
<1>10. CASE \E c \in Conns : CloseNext(c) \/ CloseDone(c) BY <1>10 DEF CloseNext, CloseDone
<1>11. CASE \E c \in Conns, t \in Deadlines : SetDeadline(c, t) BY <1>11 DEF SetDeadline
<1>12. CASE UNCHANGED vars BY <1>12 DEF vars
<1> QED
  BY <1>1, <1>2, <1>3, <1>4, <1>5, <1>6, <1>7, <1>8, <1>9, <1>10, <1>11, <1>12
  DEF Next, ConnStep

(* A transport's step leaves closed alone, and only Wrap adds one.         *)
LEMMA TransportStep ==
    ASSUME NEW c \in Conns, Transport(c)
    PROVE  /\ closed' = closed
           /\ toClose' \subseteq toClose
           /\ connections' \subseteq connections \/ (serve = "listening" /\ ~closed)
<1>1. CASE Wrap(c) BY <1>1 DEF Transport, Wrap, CanWrap, ConnStep, QueryKey, AuthKey, AuthGuest,
    MarkReady, LeavePending, HangUp, Expire, Release, Return, CloseNext, CloseDone,
    SetDeadline, guardVars
<1>2. CASE ConnStep(c)
  BY <1>2 DEF ConnStep, QueryKey, AuthKey, AuthGuest, MarkReady, LeavePending, HangUp, Expire,
              Release, Return, CloseNext, CloseDone, SetDeadline, guardVars
<1> QED BY <1>1, <1>2 DEF Transport

(* When Idle lets Drained through, no transport is left in the guard.      *)
LEMMA NobodyLeft ==
    ASSUME IInv, LInv, Drained
    PROVE  connections = {}
BY DEF IInv, TypeOK, LInv, PendingInv, StopInv, Drained, Idle, Closing

LEMMA StepStages == IInv /\ LInv /\ [LNext]_lvars => LTypeOK' /\ BootInv' /\ StopInv'
<1> SUFFICES ASSUME IInv, LInv, [LNext]_lvars PROVE LTypeOK' /\ BootInv' /\ StopInv'
  OBVIOUS
<1> USE DEF LInv, LTypeOK, BootInv, StopInv, Booting, Running, Closing, Parts, Needed
<1>1. CASE Boot BY <1>1, StatsAssumption DEF Boot, Opened, After, vars, guardVars
<1>2. CASE BootFails BY <1>2 DEF BootFails, Exit1, Opened, vars, guardVars
<1>3. CASE Signal \/ ServeFails \/ ServeSends
  <2> USE <1>3 DEF Signal, ServeFails, ServeSends, vars, guardVars
  <2>1. done' \in BOOLEAN OBVIOUS
  <2>2. LTypeOK' BY <2>1
  <2>3. BootInv' OBVIOUS
  <2>4. StopInv' OBVIOUS
  <2> QED BY <2>2, <2>3, <2>4
<1>3a. CASE TakeSignal BY <1>3a DEF TakeSignal, vars, guardVars
<1>4. CASE CloseStats BY <1>4 DEF CloseStats, vars, guardVars
<1>5. CASE Shutdown BY <1>5 DEF Shutdown, ClosePending
<1>6. CASE StopListening BY <1>6 DEF StopListening, vars, guardVars
<1>7. CASE Drained BY <1>7, NobodyLeft DEF Drained, vars, guardVars
<1>8. CASE DrainTimeout BY <1>8 DEF DrainTimeout, Exit1, vars, guardVars
<1>9. CASE Deferred BY <1>9 DEF Deferred, vars, guardVars
<1>10. CASE \E c \in Conns : Transport(c)
  <2> PICK c \in Conns : Transport(c) BY <1>10
  <2>1. UNCHANGED lifeVars /\ stage # "exited" BY DEF Transport
  <2>2. /\ closed' = closed
        /\ toClose' \subseteq toClose
        /\ connections' \subseteq connections \/ (serve = "listening" /\ ~closed)
    BY TransportStep
  <2>3. LTypeOK' BY <2>1 DEF lifeVars
  <2>4. BootInv' BY <2>1, <2>2 DEF lifeVars
  <2>5. StopInv' BY <2>1, <2>2 DEF lifeVars
  <2> QED BY <2>3, <2>4, <2>5
<1>11. CASE Exited \/ UNCHANGED lvars
  <2> USE <1>11 DEF Exited, lvars, lifeVars, vars, guardVars
  <2>1. done' \in BOOLEAN OBVIOUS
  <2>2. LTypeOK' BY <2>1
  <2>3. BootInv' OBVIOUS
  <2>4. StopInv' OBVIOUS
  <2> QED BY <2>2, <2>3, <2>4
<1> QED
  BY <1>1, <1>2, <1>3, <1>3a, <1>4, <1>5, <1>6, <1>7, <1>8, <1>9, <1>10, <1>11
  DEF LNext, MainStep

(* Where main is, what is open and what the guard holds, in every state    *)
(* the process can reach.                                                  *)
THEOREM LInvariance == LSpec => []LInv
<1>1. LSpec => []IInv BY RunsTheGuard, Invariance, PTL
<1>2. IInv /\ LInv /\ [LNext]_lvars => LInv' BY StepPending, StepStages DEF LInv
<1> QED BY <1>1, <1>2, LInitInv, PTL DEF LSpec

(* The publisher is closed before the guard is, and the store, the banner  *)
(* and the registry outlive every transport, also when the drain times     *)
(* out: for any number of transports and any limits.                       *)
THEOREM OrderCorrect == LSpec => []ShutdownInOrder
<1>1. LInv => ShutdownInOrder
  BY DEF LInv, LTypeOK, BootInv, StopInv, ShutdownInOrder, Needed, Booting, Running, Closing
<1> QED BY <1>1, LInvariance, PTL
=============================================================================

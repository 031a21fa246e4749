----------------------------- MODULE Lifecycle -----------------------------
(***************************************************************************)
(* The life of the process: main of cmd/ssh-arcadelobby, Server.Shutdown   *)
(* and RunShutdownHooks, composed with the transports of AuthGuard.        *)
(*                                                                         *)
(* Two goroutines of main matter: main itself (stage) and the one that     *)
(* runs ListenAndServe (serve).  They meet in the one-place channel done,  *)
(* which the signal handler fills too.  Sessions are not kicked: Shutdown  *)
(* waits for the transports and gives up after 30 seconds, when os.Exit    *)
(* skips the deferred Close calls.                                         *)
(***************************************************************************)
EXTENDS AuthGuard

CONSTANT StatsPath      \* ARCADE_STATS_PATH is set

ASSUME StatsAssumption == StatsPath \in BOOLEAN

VARIABLES
    stage,      \* where main is
    up,         \* which of registry, banner, store and stats are open
    serve,      \* the goroutine of ListenAndServe
    done,       \* the channel done holds a signal
    code        \* the exit code

lifeVars == <<stage, up, serve, done, code>>
lvars == <<vars, lifeVars>>

Booting == {"config", "registry", "banner", "store", "server", "stats"}
Running == {"serving", "closeStats", "shutdown", "pending", "draining"}
Closing == {"closeStore", "closeBanner", "closeRegistry"}
Parts == {"registry", "banner", "store", "stats"}

LTypeOK ==
    /\ stage \in Booting \cup Running \cup Closing \cup {"exited"}
    /\ up \subseteq Parts
    /\ serve \in {"off", "listening", "sending", "ended"}
    /\ done \in BOOLEAN
    /\ code \in 0..1

LInit ==
    /\ Init
    /\ stage = "config" /\ up = {} /\ serve = "off" /\ done = FALSE /\ code = 0

----------------------------------------------------------------------------
(* The publisher is there only when ARCADE_STATS_PATH is set.              *)
Opened == IF StatsPath THEN Parts ELSE Parts \ {"stats"}

After == [config |-> "registry", registry |-> "banner", banner |-> "store",
          store |-> "server", server |-> "stats", stats |-> "serving"]

(* main opens its parts one by one, and then listens.                      *)
Boot ==
    /\ stage \in Booting
    /\ stage' = After[stage]
    /\ up' = up \cup ({stage} \cap Opened)
    /\ serve' = IF stage = "stats" THEN "listening" ELSE serve
    /\ UNCHANGED <<vars, done, code>>

(* os.Exit(1): no deferred call runs.  banner.New never fails.             *)
Exit1 == stage' = "exited" /\ code' = 1 /\ UNCHANGED <<vars, up, serve, done>>

BootFails ==
    /\ stage \in (Booting \ Parts) \cup (Opened \ {"banner"})
    /\ Exit1

(* SIGINT or SIGTERM: signal.Notify drops it when done is full.  main      *)
(* reads done once, so what comes later changes nothing.                   *)
Signal ==
    /\ stage = "serving"
    /\ ~done
    /\ done' = TRUE
    /\ UNCHANGED <<vars, stage, up, serve, code>>

(* The listener fails, at once or later; its goroutine sends a signal of   *)
(* its own, and blocks while done is full.  Once main has taken a signal   *)
(* there is room.                                                          *)
ServeFails ==
    /\ stage \in Running
    /\ serve = "listening"
    /\ serve' = IF stage = "serving" THEN "sending" ELSE "ended"
    /\ UNCHANGED <<vars, stage, up, done, code>>

ServeSends ==
    /\ stage = "serving"
    /\ serve = "sending" /\ ~done
    /\ serve' = "ended" /\ done' = TRUE
    /\ UNCHANGED <<vars, stage, up, code>>

TakeSignal ==
    /\ stage = "serving" /\ done
    /\ done' = FALSE
    /\ stage' = "closeStats"
    /\ serve' = IF serve = "sending" THEN "ended" ELSE serve
    /\ UNCHANGED <<vars, up, code>>

(* Mutant of CloseStats: the publisher runs on through the shutdown.       *)
MutKeepStats ==
    /\ stage = "closeStats"
    /\ stage' = "shutdown"
    /\ UNCHANGED <<vars, up, serve, done, code>>

(* stats.Close, which publishes the offline document.                      *)
CloseStats ==
    /\ stage = "closeStats"
    /\ up' = up \ {"stats"}
    /\ stage' = "shutdown"
    /\ UNCHANGED <<vars, serve, done, code>>

(* RunShutdownHooks, for which nothing registers a hook; then              *)
(* Server.Shutdown, whose library part stops listening after closePending. *)
Shutdown ==
    /\ stage = "shutdown"
    /\ ClosePending
    /\ stage' = "pending"
    /\ UNCHANGED <<up, serve, done, code>>

StopListening ==
    /\ stage = "pending"
    /\ toClose = {}
    /\ serve' = IF serve = "listening" THEN "ended" ELSE serve
    /\ stage' = "draining"
    /\ UNCHANGED <<vars, up, done, code>>

(* Mutant of Idle: only the transports still in the guard's pending set    *)
(* are waited for.                                                         *)
MutIdlePending == pending = {}

(* What the library's Shutdown waits for: the transports that it serves.   *)
Idle == \A c \in Conns : auth[c] # "serving"

Drained ==
    /\ stage = "draining"
    /\ Idle
    /\ stage' = "closeStore"
    /\ UNCHANGED <<vars, up, serve, done, code>>

(* Mutant of DrainTimeout: the context has no deadline.                    *)
MutNoTimeout == FALSE /\ UNCHANGED lvars

(* The 30 seconds of shutdownCtx are over.                                 *)
DrainTimeout ==
    /\ stage = "draining"
    /\ Exit1

(* main returns: the deferred calls in reverse order, then exit code 0.    *)
Deferred ==
    /\ \/ stage = "closeStore" /\ stage' = "closeBanner" /\ up' = up \ {"store"}
       \/ stage = "closeBanner" /\ stage' = "closeRegistry" /\ up' = up \ {"banner"}
       \/ stage = "closeRegistry" /\ stage' = "exited" /\ up' = up \ {"registry"}
    /\ UNCHANGED <<vars, serve, done, code>>

(* The transports, until the process is gone; new ones while it listens.   *)
Transport(c) ==
    /\ stage # "exited"
    /\ \/ serve = "listening" /\ Wrap(c)
       \/ ConnStep(c)
    /\ UNCHANGED lifeVars

Exited == stage = "exited" /\ UNCHANGED lvars

MainStep ==
    \/ TakeSignal \/ CloseStats \/ Shutdown \/ StopListening
    \/ Drained \/ Deferred

LNext ==
    \/ Boot \/ BootFails \/ Signal \/ ServeFails \/ ServeSends
    \/ MainStep \/ DrainTimeout
    \/ \E c \in Conns : Transport(c)
    \/ Exited

(* The goroutines run and time passes.  Nothing is assumed of the clients: *)
(* the ones that stay are what DrainTimeout is for.                        *)
Alive(A) == stage # "exited" /\ A /\ UNCHANGED lifeVars

LFairness ==
    /\ WF_lvars(Boot) /\ WF_lvars(ServeSends) /\ WF_lvars(MainStep) /\ WF_lvars(DrainTimeout)
    /\ \A c \in Conns :
        /\ WF_lvars(Alive(Expire(c)))
        /\ WF_lvars(Alive(MarkReady(c) \/ LeavePending(c) \/ Return(c)))
        /\ WF_lvars(Alive(Release(c) \/ CloseNext(c) \/ CloseDone(c)))

LSpec == LInit /\ [][LNext]_lvars
LFairSpec == LSpec /\ LFairness

----------------------------------------------------------------------------
(* "First, so the API reports the arcade offline for the whole shutdown":  *)
(* the publisher is closed before the first transport is refused or cut    *)
(* off, and the store, the banner and the registry that sessions use are   *)
(* open as long as the guard has a transport at all.                       *)
ShutdownInOrder ==
    /\ closed => "stats" \notin up
    /\ connections # {} => {"registry", "banner", "store"} \subseteq up

(* A signal came or the listener failed.                                   *)
AskedToStop == done \/ serve = "sending" \/ stage \in (Running \cup Closing) \ {"serving"}

(* A signal or a failed listener ends the process, whoever stays           *)
(* connected and however the two race for the place in done: it is not     *)
(* asked to stop, and still there, for ever.                               *)
ShutdownEnds == []<>~AskedToStop
=============================================================================

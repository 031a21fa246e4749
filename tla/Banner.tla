------------------------------- MODULE Banner -------------------------------
(***************************************************************************)
(* internal/banner: the operator notice, hot-reloaded from banner.toml,    *)
(* with its coalesced pokes to the menus that show it.                     *)
(*                                                                         *)
(* Goroutines: the reload loop; the menus that subscribe, wait for a poke  *)
(* and copy Notice(); the caller of Close.  Outside, the operator saves,   *)
(* breaks, disables or removes the file between any two system calls of    *)
(* the loop.  Unlike the games registry a missing file is an answer (no    *)
(* notice), a bad one at boot is not fatal, and a reload that changes      *)
(* nothing pokes nobody.                                                   *)
(*                                                                         *)
(* Every save gets an mtime of its own, its number; 0 is time.Time{}.      *)
(***************************************************************************)
EXTENDS Integers, Sequences

CONSTANTS
    Notices,        \* the enabled notices a file can hold
    Disabled,       \* Notice{}: what a file with enabled = false loads as
    Bad,            \* empty, malformed or invalid: loadFile returns an error
    Missing,
    Subs,           \* menus
    MaxSaves        \* bound: how often the operator touches the file

ASSUME BannerAssumption ==
    /\ Disabled \notin Notices
    /\ {Bad, Missing} \cap (Notices \cup {Disabled}) = {}
    /\ Bad # Missing
    /\ MaxSaves \in Nat

VARIABLES
    saves,              \* every state of the file so far (external)
    unread,             \* history: an I/O error hid the last save, and its
                        \* mtime is remembered
    notice, mtime,      \* Source, under s.mu
    from,               \* ghost: the save the notice was loaded from
    loop, stat, stat2,  \* the loop goroutine; the mtimes of its two stats
    kick, stop,         \* s.kick holds a token; s.stop is closed
    closer,             \* the caller of Close
    subs, buf, menu, view   \* s.subs, channel buffers, menus and what they show

srcVars == <<notice, mtime, from>>
loopVars == <<loop, stat, stat2>>
ctlVars == <<kick, stop, closer>>
subVars == <<subs, buf, menu, view>>
fileVars == <<saves, unread>>
vars == <<fileVars, srcVars, loopVars, ctlVars, subVars>>

Files == Notices \cup {Disabled, Bad, Missing}
Values == Notices \cup {Disabled}
Now == Len(saves)
File == saves[Now]

(* loadFile and validate: what a readable file loads as.                   *)
Loads(f) == IF f = Missing THEN Disabled ELSE f

TypeOK ==
    /\ saves \in Seq(Files) /\ Now >= 1 /\ unread \in BOOLEAN
    /\ notice \in Values
    /\ mtime \in 0..Now /\ from \in 0..Now
    /\ loop \in {"off", "stat", "gone", "load", "read", "notify", "select", "exited"}
    /\ stat \in 0..Now /\ stat2 \in 0..Now
    /\ kick \in BOOLEAN /\ stop \in BOOLEAN
    /\ closer \in {"none", "stopping", "closed"}
    /\ subs \subseteq Subs
    /\ buf \in [Subs -> BOOLEAN]
    /\ menu \in [Subs -> {"out", "fresh", "waiting", "woken"}]
    /\ view \in [Subs -> Values]

(* New: whatever the file is, the process starts; a file that is missing,  *)
(* bad or cannot be read yields a disabled notice and the zero mtime.      *)
Init ==
    /\ \E f \in Files : saves = <<f>>
    /\ unread = FALSE
    /\ \/ File \in Values /\ notice = File /\ mtime = 1 /\ from = 1
       \/ File = Missing /\ notice = Disabled /\ mtime = 0 /\ from = 1
       \/ File # Missing /\ notice = Disabled /\ mtime = 0 /\ from = 0
    /\ loop = "off" /\ stat = 0 /\ stat2 = 0
    /\ kick = FALSE /\ stop = FALSE /\ closer = "none"
    /\ subs = {} /\ buf = [s \in Subs |-> FALSE]
    /\ menu = [s \in Subs |-> "out"] /\ view = [s \in Subs |-> Disabled]

----------------------------------------------------------------------------
(* The operator saves or removes the file.                                 *)
Save(f) ==
    /\ Now < 1 + MaxSaves
    /\ f = Missing => File # Missing
    /\ saves' = Append(saves, f)
    /\ unread' = FALSE
    /\ UNCHANGED <<srcVars, loopVars, ctlVars, subVars>>

(* Start; main calls it before anything else.                              *)
Start ==
    /\ loop = "off" /\ closer = "none"
    /\ loop' = "stat"
    /\ UNCHANGED <<fileVars, srcVars, stat, stat2, ctlVars, subVars>>

(* reloadIfChanged returns; its locals are gone.                           *)
Return(next) == loop' = next /\ stat' = 0 /\ stat2' = 0

(* reloadIfChanged: the first stat.                                        *)
Stat ==
    /\ loop = "stat"
    /\ \/ File = Missing /\ loop' = "gone" /\ stat' = Now /\ UNCHANGED stat2
       \/ File # Missing /\ Now # mtime /\ loop' = "load" /\ stat' = Now /\ UNCHANGED stat2
       \/ File # Missing /\ Now = mtime /\ Return("select")
    /\ UNCHANGED <<fileVars, srcVars, ctlVars, subVars>>

(* The stat fails for another reason than a missing file: keep the notice. *)
StatFails ==
    /\ loop = "stat"
    /\ Return("select")
    /\ UNCHANGED <<fileVars, srcVars, ctlVars, subVars>>

(* Mutant of Clear: the removal is announced to nobody.                    *)
MutClearQuietly ==
    /\ loop = "gone"
    /\ notice' = Disabled /\ mtime' = 0 /\ from' = stat
    /\ Return("select")
    /\ UNCHANGED <<fileVars, ctlVars, subVars>>

(* The file is gone: disable the notice, unless there is nothing to change. *)
Clear ==
    /\ loop = "gone"
    /\ notice' = Disabled /\ mtime' = 0 /\ from' = stat
    /\ Return(IF notice = Disabled /\ mtime = 0 THEN "select" ELSE "notify")
    /\ UNCHANGED <<fileVars, ctlVars, subVars>>

(* Mutant of Reject: the notice goes with the file that replaced it.       *)
MutRejectClears ==
    /\ mtime' = stat
    /\ notice' = Disabled
    /\ Return("notify")
    /\ UNCHANGED from

(* loadFile's error path: the first stat's mtime is remembered and the     *)
(* previous notice kept.                                                   *)
Reject ==
    /\ mtime' = stat
    /\ Return("select")
    /\ UNCHANGED <<notice, from>>

(* loadFile's own stat.                                                    *)
LoadStat ==
    /\ loop = "load"
    /\ \/ File # Missing /\ stat2' = Now /\ loop' = "read" /\ UNCHANGED <<srcVars, stat>>
       \/ File = Missing /\ Reject
    /\ UNCHANGED <<fileVars, ctlVars, subVars>>

(* loadFile's read and validation, then the outcome under s.mu.            *)
ReadAndSwap ==
    /\ loop = "read"
    /\ \/ /\ File \in Values
          /\ notice' = File /\ mtime' = stat2 /\ from' = Now
          /\ Return(IF notice' = notice THEN "select" ELSE "notify")
       \/ File \notin Values /\ Reject
    /\ UNCHANGED <<fileVars, ctlVars, subVars>>

(* loadFile's stat or read fails on a file that is there, good or bad.  Its *)
(* mtime is remembered all the same: if no save came since the first stat, *)
(* the file is not looked at again before the next one.                    *)
ReadFails ==
    /\ loop \in {"load", "read"} /\ File # Missing
    /\ Reject
    /\ unread' = (unread \/ stat = Now)
    /\ UNCHANGED <<saves, ctlVars, subVars>>

(* notify: a token into every channel that has none.                       *)
Notify ==
    /\ loop = "notify"
    /\ buf' = [s \in Subs |-> buf[s] \/ s \in subs]
    /\ loop' = "select"
    /\ UNCHANGED <<fileVars, srcVars, stat, stat2, ctlVars, subs, menu, view>>

(* loop's select: ticker, kick and stop.                                   *)
Tick ==
    /\ loop = "select"
    /\ loop' = "stat"
    /\ UNCHANGED <<fileVars, srcVars, stat, stat2, ctlVars, subVars>>

Kicked ==
    /\ loop = "select" /\ kick
    /\ kick' = FALSE
    /\ loop' = "stat"
    /\ UNCHANGED <<fileVars, srcVars, stat, stat2, stop, closer, subVars>>

Stopped ==
    /\ loop = "select" /\ stop
    /\ loop' = "exited"
    /\ UNCHANGED <<fileVars, srcVars, stat, stat2, ctlVars, subVars>>

ReloadNow ==
    /\ ~kick
    /\ kick' = TRUE
    /\ UNCHANGED <<fileVars, srcVars, loopVars, stop, closer, subVars>>

----------------------------------------------------------------------------
(* A menu: Subscribe, copy the notice (refreshBanner), wait for pokes.     *)
Subscribe(s) ==
    /\ menu[s] = "out" /\ closer = "none"
    /\ subs' = subs \cup {s}
    /\ buf' = [buf EXCEPT ![s] = FALSE]
    /\ menu' = [menu EXCEPT ![s] = "fresh"]
    /\ UNCHANGED <<fileVars, srcVars, loopVars, ctlVars, view>>

Copy(s) ==
    /\ menu[s] \in {"fresh", "woken"}
    /\ view' = [view EXCEPT ![s] = notice]
    /\ menu' = [menu EXCEPT ![s] = "waiting"]
    /\ UNCHANGED <<fileVars, srcVars, loopVars, ctlVars, subs, buf>>

Wake(s) ==
    /\ menu[s] = "waiting" /\ buf[s]
    /\ buf' = [buf EXCEPT ![s] = FALSE]
    /\ menu' = [menu EXCEPT ![s] = "woken"]
    /\ UNCHANGED <<fileVars, srcVars, loopVars, ctlVars, subs, view>>

Unsubscribe(s) ==
    /\ menu[s] # "out"
    /\ subs' = subs \ {s}
    /\ buf' = [buf EXCEPT ![s] = FALSE]
    /\ menu' = [menu EXCEPT ![s] = "out"]
    /\ view' = [view EXCEPT ![s] = Disabled]
    /\ UNCHANGED <<fileVars, srcVars, loopVars, ctlVars>>

(* Close: stop a loop that was started and wait for it; close the channels. *)
Close ==
    /\ closer = "none"
    /\ closer' = "stopping"
    /\ stop' = (loop # "off")
    /\ UNCHANGED <<fileVars, srcVars, loopVars, kick, subVars>>

CloseSubs ==
    /\ closer = "stopping"
    /\ loop \in {"off", "exited"}
    /\ closer' = "closed"
    /\ subs' = {}
    /\ UNCHANGED <<fileVars, srcVars, loopVars, kick, stop, buf, menu, view>>

Loading == Stat \/ Clear \/ LoadStat \/ ReadAndSwap \/ Notify

Next ==
    \/ \E f \in Files : Save(f)
    \/ Start \/ Loading \/ StatFails \/ ReadFails \/ Tick \/ Kicked \/ Stopped \/ ReloadNow
    \/ \E s \in Subs : Subscribe(s) \/ Copy(s) \/ Wake(s) \/ Unsubscribe(s)
    \/ Close \/ CloseSubs

(* The loop runs and its ticker ticks; a stat that is tried again and      *)
(* again succeeds in the end.  Reads may fail always.                      *)
Fairness == WF_vars(Start) /\ WF_vars(Loading) /\ SF_vars(Stat) /\ WF_vars(Tick)

Spec == Init /\ [][Next]_vars
FairSpec == Spec /\ Fairness

----------------------------------------------------------------------------
HF == INSTANCE HotFile WITH
        Rejected <- {Bad}, Default <- Disabled, at <- from, served <- notice,
        open <- (closer = "none")

(* "hot-reloaded on mtime change; a bad reload keeps the previous good     *)
(* notice": although two stats and a read look at three moments of a file  *)
(* that changes under them, the notice is always that of one good save,    *)
(* never goes back to an older one, and is the last save's in the end,     *)
(* unless reading that very save failed.                                   *)
ImplementsHotFile == HF!Spec

(* A reload that changes the notice reaches every menu: one that shows an  *)
(* old notice has a poke waiting, or the notify() is still to come.        *)
NoticePoked ==
    \A s \in subs : menu[s] = "waiting" /\ view[s] # notice => buf[s] \/ loop = "notify"
=============================================================================

------------------------------ MODULE HotFile ------------------------------
(***************************************************************************)
(* What a hot-reloaded file promises its readers: the value served comes   *)
(* from one save of the file, never from a rejected one and never from an  *)
(* older one than before; and a file that stays as it is, is good and can  *)
(* be read is served in the end.  A file that does not load at boot yields *)
(* Default.                                                                *)
(***************************************************************************)
EXTENDS Integers, Sequences

CONSTANTS
    Files,          \* the states a save can leave the file in
    Rejected,       \* the ones that do not load
    Loads(_),       \* the value a good one loads as
    Default

VARIABLES
    saves,          \* every state of the file so far
    at,             \* which of them is served; 0 is none
    served,         \* the value served
    unread,         \* reading the last save failed: the next one is waited for
    open            \* the watcher has not been closed

vars == <<saves, at, served, unread, open>>

Good(n) == n \in 1..Len(saves) /\ saves[n] \notin Rejected

Init ==
    /\ \E f \in Files : saves = <<f>>
    /\ \/ at = 1 /\ Good(1) /\ served = Loads(saves[1])
       \/ at = 0 /\ served = Default
    /\ unread = FALSE /\ open = TRUE

Save(f) ==
    /\ saves' = Append(saves, f)
    /\ unread' = FALSE
    /\ UNCHANGED <<at, served, open>>

(* Serve a good save, the same or a newer one.                             *)
Serve(n) ==
    /\ n >= at /\ Good(n)
    /\ at' = n
    /\ served' = Loads(saves[n])
    /\ UNCHANGED <<saves, unread, open>>

(* An I/O error hides the last save.                                       *)
Miss == unread' = TRUE /\ UNCHANGED <<saves, at, served, open>>

Shut == open /\ open' = FALSE /\ UNCHANGED <<saves, at, served, unread>>

Next ==
    \/ \E f \in Files : Save(f)
    \/ \E n \in 1..Len(saves) : Serve(n)
    \/ Miss \/ Shut

CatchUp == open /\ ~unread /\ at # Len(saves) /\ Serve(Len(saves))

Safety == Init /\ [][Next]_vars
Spec == Safety /\ WF_vars(CatchUp)
=============================================================================

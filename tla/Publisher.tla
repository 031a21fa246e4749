----------------------------- MODULE Publisher ------------------------------
(***************************************************************************)
(* The live player count of internal/presence: Tracker.Counts over the     *)
(* seats of Sessions, and the Publisher that writes it to a file.          *)
(*                                                                         *)
(* Three goroutines may publish: the caller of Start (first document), the *)
(* loop Start launches (one document per tick) and the caller of Close     *)
(* (the final, offline document).  They are kept apart by two sync.Onces   *)
(* and the channels stop and done only; no mutex guards the file or        *)
(* Publisher.failing.  Build reads the tracker and the registry in two     *)
(* separate critical sections, so sessions move in between.                *)
(***************************************************************************)
EXTENDS Sessions, Sequences

VARIABLES
    startOnce,      \* "new", "running" (inside Do) or "done"
    stop, done,     \* whether the channel is closed
    loop,           \* the loop goroutine: "off", "up" or "exited"
    closer,         \* the caller of Close
    stage, draft,   \* each goroutine inside publish, and its Snapshot so far
    failing,        \* Publisher.failing
    file            \* the published document: <<>> or <<doc>>

pubVars == <<startOnce, stop, done, loop, closer, stage, draft, failing, file>>
pvars == <<vars, pubVars>>

Publishers == {"start", "loop", "close"}
Stages_ == {"none", "counting", "listing", "writing", "renaming"}

(* Players are told apart by PresenceKey: the fingerprint of a keyed       *)
(* player, a token of its own for every guest shell.                       *)
PresenceKey(s) == IF kind[s] = "guest" THEN <<"guest", s>>
                                       ELSE <<"key", fingerprint[s]>>
PlayersAmong(S) == Cardinality({PresenceKey(s) : s \in S})
SeatedAt(g) == {s \in seats : game[s] = g}

(* Tracker.Counts, under the tracker's mutex.                              *)
Counts == [players |-> PlayersAmong(seats),
           sessions |-> Cardinality(seats),
           inLobby |-> PlayersAmong(SeatedAt(Menu)),
           games |-> [g \in Games |-> PlayersAmong(SeatedAt(g))]]
NoCounts == [players |-> 0, sessions |-> 0, inLobby |-> 0,
             games |-> [g \in Games |-> 0]]

(* Mutant of Snapshot: the games' players are counted again.               *)
MutCountTwice(online, c) ==
    [online |-> online, players |-> c.players, sessions |-> c.sessions,
     inLobby |-> c.inLobby,
     games |-> [g \in {h \in Games : listing[h] # "absent"} |->
                 [players |-> Counts.games[g],
                  online |-> online /\ listing[g] \in {"online", "keyed"}]]]

(* The Snapshot Build makes of counts c taken earlier and today's list.    *)
Snapshot(online, c) ==
    [online |-> online, players |-> c.players, sessions |-> c.sessions,
     inLobby |-> c.inLobby,
     games |-> [g \in {h \in Games : listing[h] # "absent"} |->
                 [players |-> c.games[g],
                  online |-> online /\ listing[g] \in {"online", "keyed"}]]]

PTypeOK ==
    /\ TypeOK
    /\ startOnce \in {"new", "running", "done"}
    /\ stop \in BOOLEAN /\ done \in BOOLEAN /\ failing \in BOOLEAN
    /\ loop \in {"off", "up", "exited"}
    /\ closer \in {"none", "stopping", "waiting", "publishing", "closed"}
    /\ stage \in [Publishers -> Stages_]
    /\ DOMAIN draft = Publishers
    /\ Len(file) <= 1

PInit ==
    /\ Init
    /\ startOnce = "new"
    /\ stop = FALSE /\ done = FALSE /\ failing = FALSE
    /\ loop = "off"
    /\ closer = "none"
    /\ stage = [t \in Publishers |-> "none"]
    /\ draft = [t \in Publishers |-> NoCounts]
    /\ file = <<>>

----------------------------------------------------------------------------
Publish(t) == stage' = [stage EXCEPT ![t] = "counting"]

(* Start: the body of startOnce.Do up to its publish.                      *)
Start ==
    /\ startOnce = "new"
    /\ startOnce' = "running"
    /\ Publish("start")
    /\ UNCHANGED <<vars, stop, done, loop, closer, draft, failing, file>>

(* Build, first half: an offline document counts nobody.                   *)
Count(t) ==
    /\ stage[t] = "counting"
    /\ draft' = [draft EXCEPT ![t] = IF t = "close" THEN NoCounts ELSE Counts]
    /\ stage' = [stage EXCEPT ![t] = "listing"]
    /\ UNCHANGED <<vars, startOnce, stop, done, loop, closer, failing, file>>

(* Build, second half: Registry.Games, in menu order.                      *)
List(t) ==
    /\ stage[t] = "listing"
    /\ draft' = [draft EXCEPT ![t] = Snapshot(t # "close", @)]
    /\ stage' = [stage EXCEPT ![t] = "writing"]
    /\ UNCHANGED <<vars, startOnce, stop, done, loop, closer, failing, file>>

(* What each caller does when its publish returns.                         *)
AfterPublish(t) ==
    /\ stage' = [stage EXCEPT ![t] = "none"]
    /\ draft' = [draft EXCEPT ![t] = NoCounts]
    /\ startOnce' = IF t = "start" THEN "done" ELSE startOnce
    /\ loop' = IF t = "start" THEN "up" ELSE loop
    /\ closer' = IF t = "close" THEN "closed" ELSE closer
    /\ UNCHANGED <<vars, stop, done>>

(* write, up to closing the temporary file.                                *)
WriteTemp(t) ==
    /\ stage[t] = "writing"
    /\ stage' = [stage EXCEPT ![t] = "renaming"]
    /\ UNCHANGED <<vars, startOnce, stop, done, loop, closer, draft, failing, file>>

(* Any step of write may fail; the temporary file is removed.              *)
WriteFails(t) ==
    /\ stage[t] \in {"writing", "renaming"}
    /\ failing' = TRUE
    /\ AfterPublish(t)
    /\ UNCHANGED file

(* write's rename replaces the document.                                   *)
Rename(t) ==
    /\ stage[t] = "renaming"
    /\ file' = <<draft[t]>>
    /\ failing' = FALSE
    /\ AfterPublish(t)

(* loop: one ticker case.                                                  *)
Tick ==
    /\ loop = "up" /\ stage["loop"] = "none"
    /\ Publish("loop")
    /\ UNCHANGED <<vars, startOnce, stop, done, loop, closer, draft, failing, file>>

(* loop: the stop case and the deferred close(done).                       *)
StopLoop ==
    /\ loop = "up" /\ stage["loop"] = "none"
    /\ stop
    /\ loop' = "exited"
    /\ done' = TRUE
    /\ UNCHANGED <<vars, startOnce, stop, closer, stage, draft, failing, file>>

(* Close: close(stop).                                                     *)
Close ==
    /\ closer = "none"
    /\ closer' = "stopping"
    /\ stop' = TRUE
    /\ UNCHANGED <<vars, startOnce, done, loop, stage, draft, failing, file>>

(* Mutants of ClaimStart: the Once stays usable; done is left open.        *)
MutClaimKeepsOnce ==
    /\ closer = "stopping"
    /\ startOnce # "running"
    /\ done' = (done \/ startOnce = "new")
    /\ closer' = "waiting"
    /\ UNCHANGED <<vars, startOnce, stop, loop, stage, draft, failing, file>>
MutClaimLeavesDone ==
    /\ closer = "stopping"
    /\ startOnce # "running"
    /\ startOnce' = "done"
    /\ closer' = "waiting"
    /\ UNCHANGED <<vars, stop, done, loop, stage, draft, failing, file>>

(* Close: startOnce.Do blocks while Start is inside; when Start never ran  *)
(* it closes done itself and uses the Once up.                             *)
ClaimStart ==
    /\ closer = "stopping"
    /\ startOnce # "running"
    /\ startOnce' = "done"
    /\ done' = (done \/ startOnce = "new")
    /\ closer' = "waiting"
    /\ UNCHANGED <<vars, stop, loop, stage, draft, failing, file>>

(* Mutant of PublishFinal: does not wait for the loop.                     *)
MutFinalTooSoon ==
    /\ closer = "waiting"
    /\ closer' = "publishing"
    /\ Publish("close")
    /\ UNCHANGED <<vars, startOnce, stop, done, loop, draft, failing, file>>

(* Close: <-done, then the final publish(false).                           *)
PublishFinal ==
    /\ closer = "waiting"
    /\ done
    /\ closer' = "publishing"
    /\ Publish("close")
    /\ UNCHANGED <<vars, startOnce, stop, done, loop, draft, failing, file>>

PublisherNext ==
    \/ Start \/ Tick \/ StopLoop \/ Close \/ ClaimStart \/ PublishFinal
    \/ \E t \in Publishers :
            Count(t) \/ List(t) \/ WriteTemp(t) \/ WriteFails(t) \/ Rename(t)

PNext == PublisherNext \/ (Next /\ UNCHANGED pubVars)

(* The goroutines of the publisher keep running; a write may fail every    *)
(* time.  Go's select picks at random among ready cases, so a loop that    *)
(* keeps selecting while stop is closed takes that case in the end: strong *)
(* fairness.                                                               *)
PFairness ==
    /\ \A t \in Publishers :
            WF_pvars(Count(t)) /\ WF_pvars(List(t))
            /\ WF_pvars(WriteTemp(t) \/ WriteFails(t) \/ Rename(t))
    /\ SF_pvars(StopLoop)
    /\ WF_pvars(ClaimStart) /\ WF_pvars(PublishFinal)

PSpec == PInit /\ [][PNext]_pvars
PFairSpec == PSpec /\ PFairness

----------------------------------------------------------------------------
(* Total of the players a document shows in its games: one place for each  *)
(* player of each game.                                                    *)
PlacesIn(players) == UNION {{g} \X (1..players[g]) : g \in DOMAIN players}
InGames(doc) == Cardinality(PlacesIn([g \in DOMAIN doc.games |-> doc.games[g].players]))

(* What every document says, although Build reads seats and games at       *)
(* different moments: nobody is shown more often than they have sessions,  *)
(* no place shows more players than the arcade, and when no game dropped   *)
(* off the list in between every player is somewhere.  An offline document *)
(* shows an empty floor.                                                   *)
Consistent(doc) ==
    /\ doc.players <= doc.sessions
    /\ doc.sessions <= MaxConnections
    /\ doc.inLobby + InGames(doc) <= doc.sessions
    /\ doc.inLobby <= doc.players
    /\ \A g \in DOMAIN doc.games : doc.games[g].players <= doc.players
    /\ DOMAIN doc.games = Games => doc.players <= doc.inLobby + InGames(doc)
    /\ ~doc.online => /\ doc.sessions = 0
                      /\ \A g \in DOMAIN doc.games : ~doc.games[g].online

(* The published document is consistent: publish never writes a count that *)
(* the sessions and the games list of Build could not have shown.          *)
DocumentConsistent == \A i \in DOMAIN file : Consistent(file[i])

(* Publisher.failing is "only touched by the loop goroutine and Close      *)
(* after it exits": no two goroutines are ever inside publish.             *)
OnePublisher ==
    \A t, u \in Publishers : stage[t] # "none" /\ stage[u] # "none" => t = u

(* "readers see the arcade go down rather than a frozen count": once Close *)
(* returned, the document is the offline one for good, unless that last    *)
(* write itself failed.                                                    *)
ClosedShowsOffline ==
    closer = "closed" => failing \/ \E i \in DOMAIN file : ~file[i].online

(* Close always returns: with Start before, during, after it or never, and *)
(* with a disk that refuses every write.                                   *)
CloseReturns == []<>(closer \in {"none", "closed"})
=============================================================================

------------------------------ MODULE Accounts ------------------------------
(***************************************************************************)
(* internal/store and internal/server/prefs.go: accounts and alpha-warning *)
(* acknowledgements in SQLite, the migrations that run at every boot, and  *)
(* what crashes leave behind.                                              *)
(*                                                                         *)
(* There is one connection (SetMaxOpenConns(1)): a statement or a          *)
(* transaction has it alone, everyone else waits for it.  The database is  *)
(* in WAL mode with synchronous(NORMAL): a commit survives the death of    *)
(* the process, and the death of the machine only up to the last sync.     *)
(*                                                                         *)
(* The code has one migration.  The loop, the version check and the        *)
(* binaries that know more or fewer of them are modelled for any number.   *)
(* Timestamps are left out.                                                *)
(***************************************************************************)
EXTENDS Integers, FiniteSets

CONSTANTS
    Players,        \* sessions of keyed players
    Key,            \* the fingerprint of each; two sessions may share one
    Games,          \* ids of alpha games
    Latest,         \* migrations of the newest binary
    MaxFaults,      \* bound: crashes, failed boots and deployments
    Boot            \* the boot goroutine, as the holder of the connection

ASSUME AccountsAssumption ==
    /\ Boot \notin Players /\ Boot # "nobody" /\ "nobody" \notin Players
    /\ DOMAIN Key = Players
    /\ Latest \in Nat \ {0}
    /\ MaxFaults \in Nat

VARIABLES
    db,             \* the committed database
    synced,         \* the state a lost machine comes back with
    holder, tx,     \* who has the connection in a transaction; its view
    proc, v,        \* the process's place in Open, migrate's loop variable
    supported,      \* len(migrations) of the deployed binary
    at, game,       \* each session's place, and the game it acknowledges
    faults

dbVars == <<db, synced>>
txVars == <<holder, tx>>
procVars == <<proc, v, supported>>
playerVars == <<at, game>>
vars == <<dbVars, txVars, procVars, playerVars, faults>>

Keys == {Key[p] : p \in Players}
Nobody == "nobody"
Empty == [version |-> 0, applied |-> {}, accounts |-> {}, known |-> {}, acks |-> {}]

(* known: the accounts whose public_key column is not ''.                  *)
Databases ==
    [version : 0..Latest, applied : SUBSET (1..Latest), accounts : SUBSET Keys,
     known : SUBSET Keys, acks : SUBSET (Keys \X Games)]

TypeOK ==
    /\ db \in Databases /\ synced \in Databases /\ tx \in Databases
    /\ holder \in Players \cup {Boot, Nobody}
    /\ proc \in {"down", "migrate", "exec", "bump", "commit", "up"}
    /\ v \in 0..Latest /\ supported \in 1..Latest
    /\ at \in [Players -> {"out", "start", "menu", "ensure", "insert", "commit"}]
    /\ game \in [Players -> Games]
    /\ faults \in 0..MaxFaults

Init ==
    /\ db = Empty /\ synced = Empty
    /\ holder = Nobody /\ tx = Empty
    /\ proc = "down" /\ v = 0 /\ supported \in 1..Latest
    /\ at = [p \in Players |-> "out"]
    /\ game \in [Players -> Games]
    /\ faults = 0

----------------------------------------------------------------------------
(* Transactions.  A rolled-back one leaves no trace.                       *)
Begin(who) == holder = Nobody /\ holder' = who /\ tx' = db

Commit == db' = tx /\ holder' = Nobody /\ tx' = Empty /\ UNCHANGED synced

Rollback == holder' = Nobody /\ tx' = Empty /\ UNCHANGED dbVars

(* Mutant of Refuses: an off-by-one refuses the schema it has just made.   *)
MutRefuseCurrent(version) == version >= supported

(* migrate: "newer than supported".                                        *)
Refuses(version) == version > supported

(* Open up to migrate's first query: restarted by the container runtime,   *)
(* the process reads the version outside any transaction, and exits again  *)
(* when the database is newer than the binary.                             *)
Open ==
    /\ proc = "down"
    /\ IF Refuses(db.version) THEN UNCHANGED <<proc, v>> ELSE proc' = "migrate" /\ v' = db.version
    /\ UNCHANGED <<dbVars, txVars, supported, playerVars, faults>>

BeginMigration ==
    /\ proc = "migrate" /\ v < supported
    /\ Begin(Boot)
    /\ proc' = "exec"
    /\ UNCHANGED <<dbVars, v, supported, playerVars, faults>>

(* Mutant of Exec: the schema change outside the transaction.              *)
MutExecAlone ==
    /\ proc = "exec"
    /\ IF v + 1 \in tx.applied
         THEN proc' = "down" /\ Rollback
         ELSE /\ db' = [db EXCEPT !.applied = @ \cup {v + 1}]
              /\ tx' = [tx EXCEPT !.applied = @ \cup {v + 1}]
              /\ proc' = "bump"
              /\ UNCHANGED <<synced, holder>>
    /\ UNCHANGED <<v, supported, playerVars, faults>>

(* The migration's statements.  A CREATE TABLE of a table that is there    *)
(* fails, and with it the boot.                                            *)
Exec ==
    /\ proc = "exec"
    /\ IF v + 1 \in tx.applied
         THEN proc' = "down" /\ Rollback
         ELSE /\ tx' = [tx EXCEPT !.applied = @ \cup {v + 1}]
              /\ proc' = "bump"
              /\ UNCHANGED <<dbVars, holder>>
    /\ UNCHANGED <<v, supported, playerVars, faults>>

(* PRAGMA user_version, inside the same transaction.                       *)
Bump ==
    /\ proc = "bump"
    /\ tx' = [tx EXCEPT !.version = v + 1]
    /\ proc' = "commit"
    /\ UNCHANGED <<dbVars, holder, v, supported, playerVars, faults>>

CommitMigration ==
    /\ proc = "commit"
    /\ Commit
    /\ proc' = "migrate" /\ v' = v + 1
    /\ UNCHANGED <<supported, playerVars, faults>>

(* The loop is through: Open returns the store.                            *)
Opened ==
    /\ proc = "migrate" /\ v >= supported
    /\ proc' = "up"
    /\ UNCHANGED <<dbVars, txVars, v, supported, playerVars, faults>>

(* A statement of the boot fails: roll back, close, os.Exit(1).  Of a      *)
(* failed commit it is not known whether it took.                          *)
BootFails ==
    /\ proc \in {"migrate", "exec", "bump", "commit"} /\ faults < MaxFaults
    /\ faults' = faults + 1
    /\ proc' = "down"
    /\ Rollback \/ (proc = "commit" /\ Commit)
    /\ UNCHANGED <<v, supported, playerVars>>

----------------------------------------------------------------------------
(* A session: TouchAccount, then the menu, where it may acknowledge.       *)
Connect(p) ==
    /\ proc = "up" /\ at[p] = "out"
    /\ at' = [at EXCEPT ![p] = "start"]
    /\ UNCHANGED <<dbVars, txVars, procVars, game, faults>>

(* TouchAccount: one upsert; an account that is there keeps its key.       *)
TouchAccount(p) ==
    /\ at[p] = "start" /\ holder = Nobody
    /\ db' = [db EXCEPT !.accounts = @ \cup {Key[p]},
                        !.known = IF Key[p] \in db.accounts THEN @ ELSE @ \cup {Key[p]}]
    /\ at' = [at EXCEPT ![p] = "menu"]
    /\ UNCHANGED <<synced, txVars, procVars, game, faults>>

(* handle logs a failed TouchAccount and goes on.                          *)
TouchFails(p) ==
    /\ at[p] = "start"
    /\ at' = [at EXCEPT ![p] = "menu"]
    /\ UNCHANGED <<dbVars, txVars, procVars, game, faults>>

(* AckAlphaWarning: begin, ensure the account, insert, commit.             *)
BeginAck(p) ==
    /\ at[p] = "menu"
    /\ Begin(p)
    /\ at' = [at EXCEPT ![p] = "ensure"]
    /\ \E g \in Games : game' = [game EXCEPT ![p] = g]
    /\ UNCHANGED <<dbVars, procVars, faults>>

EnsureAccount(p) ==
    /\ at[p] = "ensure"
    /\ tx' = [tx EXCEPT !.accounts = @ \cup {Key[p]}]
    /\ at' = [at EXCEPT ![p] = "insert"]
    /\ UNCHANGED <<dbVars, holder, procVars, game, faults>>

(* The insert references the account.                                      *)
InsertAck(p) ==
    /\ at[p] = "insert"
    /\ tx' = [tx EXCEPT !.acks = @ \cup {<<Key[p], game[p]>>}]
    /\ at' = [at EXCEPT ![p] = "commit"]
    /\ UNCHANGED <<dbVars, holder, procVars, game, faults>>

CommitAck(p) ==
    /\ at[p] = "commit"
    /\ Commit
    /\ at' = [at EXCEPT ![p] = "menu"]
    /\ UNCHANGED <<procVars, game, faults>>

(* Mutant of AckFails: an early return without the deferred Rollback.      *)
MutAckKeepsConnection(p) ==
    /\ at[p] \in {"ensure", "insert"}
    /\ at' = [at EXCEPT ![p] = "menu"]
    /\ UNCHANGED <<dbVars, txVars, procVars, game, faults>>

(* A statement fails: the deferred Rollback gives the connection back, and *)
(* the menu goes on as if acknowledged.                                    *)
AckFails(p) ==
    /\ at[p] \in {"ensure", "insert", "commit"}
    /\ Rollback \/ (at[p] = "commit" /\ Commit)
    /\ at' = [at EXCEPT ![p] = "menu"]
    /\ UNCHANGED <<procVars, game, faults>>

Leave(p) ==
    /\ at[p] = "menu"
    /\ at' = [at EXCEPT ![p] = "out"]
    /\ UNCHANGED <<dbVars, txVars, procVars, game, faults>>

----------------------------------------------------------------------------
(* SQLite checkpoints, or the replica catches up.                          *)
Checkpoint ==
    /\ proc # "down" /\ synced # db
    /\ synced' = db
    /\ UNCHANGED <<db, txVars, procVars, playerVars, faults>>

(* The process dies, alone or with the machine, at any point.              *)
Crash ==
    /\ proc # "down" /\ faults < MaxFaults
    /\ faults' = faults + 1
    /\ proc' = "down"
    /\ holder' = Nobody /\ tx' = Empty
    /\ at' = [p \in Players |-> "out"]
    /\ db' \in {db, synced}
    /\ UNCHANGED <<synced, v, supported, game>>

(* Another binary is deployed, newer or older.                             *)
Deploy(n) ==
    /\ proc = "down" /\ n # supported /\ faults < MaxFaults
    /\ faults' = faults + 1
    /\ supported' = n
    /\ UNCHANGED <<dbVars, txVars, proc, v, playerVars>>

Booting == Open \/ BeginMigration \/ Exec \/ Bump \/ CommitMigration \/ Opened
Acking(p) == EnsureAccount(p) \/ InsertAck(p) \/ CommitAck(p) \/ AckFails(p)

Next ==
    \/ Booting \/ BootFails \/ Checkpoint \/ Crash
    \/ \E n \in 1..Latest : Deploy(n)
    \/ \E p \in Players : \/ Connect(p) \/ TouchAccount(p) \/ TouchFails(p)
                          \/ BeginAck(p) \/ Acking(p) \/ Leave(p)

(* The runtime restarts the process ("restart: unless-stopped"), and a     *)
(* statement that has the connection returns.                              *)
Fairness == WF_vars(Booting) /\ \A p \in Players : WF_vars(Acking(p))

Spec == Init /\ [][Next]_vars
FairSpec == Spec /\ Fairness

----------------------------------------------------------------------------
Rows(d) ==
    /\ d.version = 0 => d.accounts = {}
    /\ d.known \subseteq d.accounts
    /\ \A a \in d.acks : a[1] \in d.accounts

Whole(d) == d.applied = 1..d.version /\ Rows(d)

(* Whatever crash, failed statement or older binary came in between, the   *)
(* schema on disk is that of its version, rows exist only in tables that   *)
(* do, and an acknowledgement only of an account (migrations.go:33-49,     *)
(* store.go:116-136).  The same holds for what a lost machine restores.    *)
DatabaseWhole == Whole(db) /\ Whole(synced)

(* The router comes up again after any crash in the middle of a migration, *)
(* unless the database really is from a newer binary.                      *)
RouterComesUp == <>[](proc = "up" \/ (proc = "down" /\ db.version > supported))

(* The only connection is always given back: an acknowledgement that fails *)
(* half way never leaves the other sessions, which wait with no timeout,   *)
(* without a database.                                                     *)
ConnectionReturns == []<>(holder = Nobody)
=============================================================================

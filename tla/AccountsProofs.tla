--------------------------- MODULE AccountsProofs ---------------------------
(***************************************************************************)
(* Accounts: the database is whole after any sequence of migrations,       *)
(* acknowledgements, failures, crashes and deployments, for any number of  *)
(* migrations, sessions, keys and games.                                   *)
(*                                                                         *)
(* DatabaseWhole alone is not inductive: a commit replaces the database by *)
(* the view of the open transaction, so the invariant says what that view  *)
(* is at each statement, who owns it, and that migrate's loop variable is  *)
(* the version on disk although it was read outside the transaction.       *)
(***************************************************************************)
EXTENDS Accounts, TLAPS

Migrating == {"exec", "bump", "commit"}
Acknowledging == {"ensure", "insert", "commit"}

(* The boot goroutine and its transaction.                                 *)
BootView ==
    /\ proc \in Migrating \cup {"migrate"} => v = db.version
    /\ proc \in Migrating <=> holder = Boot
    /\ proc \in Migrating => v < supported
    /\ proc = "exec" => Whole(tx) /\ tx.version = v
    /\ proc = "bump" => tx.applied = 1..v + 1 /\ tx.version = v /\ Rows(tx)
    /\ proc = "commit" => Whole(tx) /\ tx.version = v + 1
    /\ proc = "up" => db.version >= 1

(* A session and its transaction.                                          *)
AckView(p) ==
    /\ at[p] # "out" => proc = "up"
    /\ at[p] \in Acknowledging <=> holder = p
    /\ holder = p => Whole(tx) /\ tx.version >= 1
    /\ holder = p /\ at[p] # "ensure" => Key[p] \in tx.accounts

IInv ==
    /\ TypeOK
    /\ DatabaseWhole
    /\ BootView
    /\ \A p \in Players : AckView(p)

(* The new database starts out whole.                                      *)
LEMMA EmptyWhole == Empty \in Databases /\ Whole(Empty)
  BY AccountsAssumption DEF Empty, Databases, Whole, Rows

(* Initially nothing is open and nothing exists.                           *)
LEMMA InitIInv == Init => IInv
  <1> SUFFICES ASSUME Init PROVE IInv
    OBVIOUS
  <1>1. TypeOK
    BY AccountsAssumption, EmptyWhole DEF Init, TypeOK, Nobody
  <1>2. DatabaseWhole
    BY EmptyWhole DEF Init, DatabaseWhole
  <1>3. BootView
    BY AccountsAssumption DEF Init, BootView, Migrating, Nobody
  <1>4. \A p \in Players : AckView(p)
    BY AccountsAssumption DEF Init, AckView, Acknowledging, Nobody
  <1> QED BY <1>1, <1>2, <1>3, <1>4 DEF IInv

(* A stuttering step changes nothing.                                      *)
LEMMA StutterIInv == IInv /\ UNCHANGED vars => IInv'
  BY DEF IInv, TypeOK, DatabaseWhole, BootView, AckView, Whole, Rows, vars, dbVars,
         txVars, procVars, playerVars

(* The steps of Open and migrate.                                          *)
LEMMA BootIInv == IInv /\ Booting => IInv'
  <1> SUFFICES ASSUME IInv, Booting PROVE IInv'
    OBVIOUS
  <1> USE AccountsAssumption DEF dbVars, txVars, playerVars, Nobody
  <1>1. CASE Open
    BY <1>1 DEF IInv, Open, Refuses, TypeOK, Databases, DatabaseWhole, BootView, AckView, Migrating, Acknowledging, Whole, Rows
  <1>2. CASE BeginMigration
    BY <1>2 DEF IInv, BeginMigration, Begin, TypeOK, Databases, DatabaseWhole, BootView, AckView, Migrating, Acknowledging, Whole, Rows
  <1>3. CASE Exec
    <2>1. v \in Nat /\ v + 1 \in 1..Latest /\ tx.applied = 1..v
      BY <1>3 DEF IInv, Exec, BootView, Migrating, TypeOK, Whole
    <2>2. v + 1 \notin tx.applied
      BY <2>1
    <2>3. /\ tx' = [tx EXCEPT !.applied = @ \cup {v + 1}]
          /\ proc = "exec" /\ proc' = "bump"
          /\ UNCHANGED <<db, synced, holder, v, supported, at, game, faults>>
      BY <1>3, <2>2 DEF Exec
    <2>4. tx' \in Databases
      BY <2>1, <2>3 DEF IInv, TypeOK, Databases
    <2>5. tx'.applied = 1..v + 1 /\ tx'.version = v /\ Rows(tx')
      BY <1>3, <2>1, <2>3 DEF IInv, TypeOK, Databases, BootView, Whole, Rows
    <2>6. TypeOK'
      BY <2>3, <2>4 DEF IInv, TypeOK
    <2>7. DatabaseWhole'
      BY <2>3 DEF IInv, DatabaseWhole, Whole, Rows
    <2>8. BootView'
      BY <2>3, <2>5 DEF IInv, BootView, Migrating
    <2>9. \A p \in Players : AckView(p)'
      BY <2>3 DEF IInv, AckView, Acknowledging, BootView, Migrating
    <2> QED BY <2>6, <2>7, <2>8, <2>9 DEF IInv
  <1>4. CASE Bump
    BY <1>4 DEF IInv, Bump, TypeOK, Databases, DatabaseWhole, BootView, AckView, Migrating, Acknowledging, Whole, Rows
  <1>5. CASE CommitMigration
    BY <1>5, EmptyWhole DEF IInv, CommitMigration, Commit, TypeOK, Databases, DatabaseWhole, BootView, AckView, Migrating, Acknowledging, Whole, Rows
  <1>6. CASE Opened
    BY <1>6 DEF IInv, Opened, TypeOK, Databases, DatabaseWhole, BootView, AckView, Migrating, Acknowledging, Whole, Rows
  <1> QED BY <1>1, <1>2, <1>3, <1>4, <1>5, <1>6 DEF Booting

(* A failing boot, SQLite's sync, crashes and deployments.                 *)
LEMMA FaultIInv ==
  ASSUME IInv, BootFails \/ Checkpoint \/ Crash \/ \E n \in 1..Latest : Deploy(n)
  PROVE  IInv'
  <1> USE AccountsAssumption DEF dbVars, txVars, playerVars, procVars, Nobody
  <1>1. CASE BootFails
    BY <1>1, EmptyWhole DEF IInv, BootFails, Rollback, Commit, TypeOK, DatabaseWhole, BootView, AckView, Migrating, Acknowledging, Whole, Rows
  <1>2. CASE Checkpoint
    BY <1>2 DEF IInv, Checkpoint, TypeOK, DatabaseWhole, BootView, AckView, Migrating, Acknowledging, Whole, Rows
  <1>3. CASE Crash
    BY <1>3, EmptyWhole DEF IInv, Crash, TypeOK, DatabaseWhole, BootView, AckView, Migrating, Acknowledging, Whole, Rows
  <1>4. ASSUME NEW n \in 1..Latest, Deploy(n) PROVE IInv'
    BY <1>4 DEF IInv, Deploy, TypeOK, DatabaseWhole, BootView, AckView, Migrating, Acknowledging, Whole, Rows
  <1> QED BY <1>1, <1>2, <1>3, <1>4

(* A session's steps: while it has the connection, nobody else writes.     *)
LEMMA PlayerIInv ==
  ASSUME IInv, NEW p \in Players,
         \/ Connect(p) \/ TouchAccount(p) \/ TouchFails(p)
         \/ BeginAck(p) \/ Acking(p) \/ Leave(p)
  PROVE  IInv'
  <1> USE AccountsAssumption DEF dbVars, txVars, playerVars, procVars, Nobody
  <1>1. CASE Connect(p) \/ TouchFails(p) \/ Leave(p)
    BY <1>1 DEF IInv, Connect, TouchFails, Leave, TypeOK, DatabaseWhole, BootView, AckView, Migrating, Acknowledging, Whole, Rows
  <1>2. CASE TouchAccount(p)
    <2> DEFINE known == IF Key[p] \in db.accounts THEN db.known ELSE db.known \cup {Key[p]}
    <2>1. /\ db' = [db EXCEPT !.accounts = @ \cup {Key[p]}, !.known = known]
          /\ at[p] = "start" /\ at' = [at EXCEPT ![p] = "menu"]
          /\ holder = "nobody"
          /\ UNCHANGED <<synced, holder, tx, proc, v, supported, game, faults>>
      BY <1>2 DEF TouchAccount
    <2>2. /\ db \in Databases /\ Key[p] \in Keys
          /\ Whole(db) /\ Whole(synced) /\ db.version >= 1 /\ proc = "up"
      BY <2>1 DEF IInv, TypeOK, Keys, AckView, BootView, DatabaseWhole
    <2>3. known \in SUBSET Keys /\ known \subseteq db.accounts \cup {Key[p]}
      BY <2>2 DEF Databases, Whole, Rows
    <2>4. db' \in Databases
      BY <2>1, <2>2, <2>3 DEF Databases
    <2>5. Whole(db') /\ db'.version >= 1
      BY <2>1, <2>2, <2>3 DEF Databases, Whole, Rows
    <2>6. TypeOK'
      BY <2>1, <2>4 DEF IInv, TypeOK
    <2>7. DatabaseWhole'
      BY <2>1, <2>2, <2>5 DEF DatabaseWhole
    <2>8. BootView'
      BY <2>1, <2>2, <2>5 DEF IInv, BootView, Migrating
    <2>9. \A q \in Players : AckView(q)'
      BY <2>1, <2>2 DEF IInv, TypeOK, AckView, Acknowledging
    <2> QED BY <2>6, <2>7, <2>8, <2>9 DEF IInv
  <1>3. CASE BeginAck(p)
    BY <1>3 DEF IInv, BeginAck, Begin, TypeOK, DatabaseWhole, BootView, AckView, Migrating, Acknowledging, Whole, Rows
  <1>4. CASE EnsureAccount(p)
    BY <1>4 DEF IInv, EnsureAccount, TypeOK, Databases, Keys, DatabaseWhole, BootView, AckView, Migrating, Acknowledging, Whole, Rows
  <1>5. CASE InsertAck(p)
    <2>1. /\ tx' = [tx EXCEPT !.acks = @ \cup {<<Key[p], game[p]>>}]
          /\ at[p] = "insert" /\ at' = [at EXCEPT ![p] = "commit"]
          /\ UNCHANGED <<db, synced, holder, proc, v, supported, game, faults>>
      BY <1>5 DEF InsertAck
    <2>2. /\ tx \in Databases /\ <<Key[p], game[p]>> \in Keys \X Games
          /\ holder = p /\ Key[p] \in tx.accounts /\ Whole(tx) /\ tx.version >= 1
      BY <2>1 DEF IInv, TypeOK, Keys, AckView, Acknowledging
    <2>3. tx' \in Databases
      BY <2>1, <2>2 DEF Databases
    <2>4. Whole(tx') /\ tx'.version >= 1 /\ tx'.accounts = tx.accounts
      BY <2>1, <2>2 DEF Databases, Whole, Rows
    <2>5. TypeOK'
      BY <2>1, <2>3 DEF IInv, TypeOK
    <2>6. DatabaseWhole'
      BY <2>1 DEF IInv, DatabaseWhole, Whole, Rows
    <2>7. BootView'
      BY <2>1, <2>2 DEF IInv, BootView, Migrating
    <2>8. \A q \in Players : AckView(q)'
      BY <2>1, <2>2, <2>4 DEF IInv, TypeOK, AckView, Acknowledging
    <2> QED BY <2>5, <2>6, <2>7, <2>8 DEF IInv
  <1>6. CASE CommitAck(p)
    BY <1>6, EmptyWhole DEF IInv, CommitAck, Commit, TypeOK, DatabaseWhole, BootView, AckView, Migrating, Acknowledging, Whole, Rows
  <1>7. CASE AckFails(p)
    BY <1>7, EmptyWhole DEF IInv, AckFails, Rollback, Commit, TypeOK, DatabaseWhole, BootView, AckView, Migrating, Acknowledging, Whole, Rows
  <1> QED BY <1>1, <1>2, <1>3, <1>4, <1>5, <1>6, <1>7 DEF Acking

(* The invariant holds in every reachable state: migrate's statements and  *)
(* AckAlphaWarning's see a whole database and commit a whole one.          *)
THEOREM Invariance == Spec => []IInv
  <1>1. IInv /\ [Next]_vars => IInv'
    BY StutterIInv, BootIInv, FaultIInv, PlayerIInv DEF Next
  <1> QED BY InitIInv, <1>1, PTL DEF Spec

(* Whatever crash or failure comes in between, the schema on disk is that  *)
(* of its version and every row belongs to an account.                     *)
THEOREM WholeCorrect == Spec => []DatabaseWhole
  <1>1. IInv => DatabaseWhole
    BY DEF IInv
  <1> QED BY Invariance, <1>1, PTL
=============================================================================

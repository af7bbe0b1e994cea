----------------------------- MODULE Migrations -----------------------------
(***************************************************************************)
(* apply_migrations: every stack start runs one (the db-migrate service),  *)
(* an operator may run another, and a deployment may change the directory  *)
(* meanwhile.  A call is one PostgreSQL transaction: it creates the ledger *)
(* table, lists and hashes the files, and for each file looks the name up, *)
(* executes the file and inserts the ledger row.                           *)
(*                                                                         *)
(* PostgreSQL is external: a transaction sees committed rows only, waits   *)
(* for another transaction that holds the same new table, object or key,   *)
(* and gets an error when that one commits first.  A file is the number of *)
(* its edition, and so is its hash.                                        *)
(***************************************************************************)
EXTENDS Naturals, Sequences

CONSTANTS
  Migrators,   \* concurrent calls
  Numbers,     \* migration numbers
  MaxEdits,    \* bound: changes to the directory
  MaxCalls     \* bound: calls started

VARIABLES
  files,    \* the directory: edition of each file, 0 for none
  edits,    \* changes made so far
  calls,    \* calls made so far
  table,    \* the ledger table is committed
  ledger,   \* committed rows: recorded edition of each name, 0 for none
  schema,   \* what the committed statements made: name -> editions executed
  history,  \* names in the order their rows were committed
  call      \* the running calls

vars == <<files, edits, calls, table, ledger, schema, history, call>>
database == <<table, ledger, schema, history>>

(* plan: the names a call has still to look at; hashes: of the files it     *)
(* listed; name, sql: the file it is applying and what it executed of it.   *)
Idle == [pc |-> "idle", plan |-> {}, hashes |-> [n \in Numbers |-> 0], name |-> 0, sql |-> 0,
         created |-> FALSE, done |-> << >>]

Init ==
  /\ files \in [Numbers -> {0, 1}]
  /\ edits = 0 /\ calls = 0
  /\ table = FALSE
  /\ ledger = [n \in Numbers |-> 0]
  /\ schema = [n \in Numbers |-> {}]
  /\ history = << >>
  /\ call = [m \in Migrators |-> Idle]

(* A deployment adds a file or changes one. *)
Edit(n) ==
  /\ edits < MaxEdits /\ edits' = edits + 1
  /\ files' = [files EXCEPT ![n] = @ + 1]
  /\ UNCHANGED <<calls, database, call>>

-----------------------------------------------------------------------------
At(m, pc) == call[m].pc = pc
To(m, pc) == call' = [call EXCEPT ![m].pc = pc]
DoneNames(m) == {call[m].done[i].name : i \in DOMAIN call[m].done}

(* Another transaction has done the same and is still open. *)
HeldBy(m, k) ==
  k \in DoneNames(m) \/ (At(m, "insert") /\ k = call[m].name)
HeldByOther(m, k) == \E o \in Migrators \ {m} : HeldBy(o, k)

(* Any error rolls the transaction back. *)
Abort(m) == call' = [call EXCEPT ![m] = Idle]

(* CREATE TABLE IF NOT EXISTS looks for a committed table ... *)
connect(m) ==
  /\ At(m, "idle") /\ calls < MaxCalls /\ calls' = calls + 1
  /\ To(m, IF table THEN "discover" ELSE "create")
  /\ UNCHANGED <<files, edits, database>>

(* ... and creates it, unless another call has done so meanwhile. *)
create_table(m) ==
  /\ At(m, "create")
  /\ \A o \in Migrators \ {m} : ~call[o].created
  /\ IF table THEN Abort(m)
     ELSE call' = [call EXCEPT ![m].created = TRUE, ![m].pc = "discover"]
  /\ UNCHANGED <<files, edits, calls, database>>

Present == {n \in Numbers : files[n] # 0}

(* The files are listed and hashed now. *)
discover_migrations(m) ==
  /\ At(m, "discover")
  /\ call' = [call EXCEPT ![m].pc = "next", ![m].plan = Present, ![m].hashes = files]
  /\ UNCHANGED <<files, edits, calls, database>>

(* Files are taken in the order of their names. *)
First(plan) == {n \in plan : \A k \in plan : n <= k}

(* SELECT sha256: a changed checksum is an error, a known one is skipped. *)
select_sha256(m) ==
  /\ At(m, "next")
  /\ \E n \in First(call[m].plan) :
       IF ledger[n] \notin {0, call[m].hashes[n]} THEN Abort(m)
       ELSE IF ledger[n] # 0 THEN call' = [call EXCEPT ![m].plan = @ \ {n}]
       ELSE call' = [call EXCEPT ![m].pc = "apply", ![m].plan = @ \ {n}, ![m].name = n]
  /\ UNCHANGED <<files, edits, calls, database>>

(* The file is read again and executed. *)
execute_file(m) ==
  /\ At(m, "apply")
  /\ ~HeldByOther(m, call[m].name)
  /\ call' = [call EXCEPT ![m].pc = "insert", ![m].sql = files[call[m].name]]
  /\ UNCHANGED <<files, edits, calls, database>>

Row(m) == [name |-> call[m].name, hash |-> call[m].hashes[call[m].name], sql |-> call[m].sql]

(* Mutant: a conflicting row is left as it is. *)
insert_row_DoNothing(m) ==
  /\ At(m, "insert")
  /\ call' = [call EXCEPT ![m].pc = "next", ![m].done = Append(@, Row(m))]
  /\ UNCHANGED <<files, edits, calls, database>>

(* INSERT: the primary key refuses a name committed meanwhile. *)
insert_row(m) ==
  /\ At(m, "insert")
  /\ IF ledger[call[m].name] # 0 THEN Abort(m)
     ELSE call' = [call EXCEPT ![m].pc = "next", ![m].done = Append(@, Row(m))]
  /\ UNCHANGED <<files, edits, calls, database>>

Recorded(m, n) == {i \in DOMAIN call[m].done : call[m].done[i].name = n}

commit(m) ==
  /\ At(m, "next") /\ call[m].plan = {}
  /\ table' = TRUE
  /\ ledger' = [n \in Numbers |->
       IF Recorded(m, n) = {} THEN ledger[n]
       ELSE call[m].done[CHOOSE i \in Recorded(m, n) : TRUE].hash]
  /\ schema' = [n \in Numbers |->
       schema[n] \cup {call[m].done[i].sql : i \in Recorded(m, n)}]
  /\ history' = history \o [i \in DOMAIN call[m].done |->
                              call[m].done[i].name]
  /\ Abort(m)
  /\ UNCHANGED <<files, edits, calls>>

(* The call is killed, the connection is lost, or a statement fails. *)
Break(m) ==
  /\ ~At(m, "idle")
  /\ Abort(m)
  /\ UNCHANGED <<files, edits, calls, database>>

apply_migrations(m) ==
  \/ connect(m) \/ create_table(m) \/ discover_migrations(m)
  \/ select_sha256(m) \/ execute_file(m) \/ insert_row(m) \/ commit(m)

Next ==
  \/ \E n \in Numbers : Edit(n)
  \/ \E m \in Migrators : apply_migrations(m) \/ Break(m)

Spec == Init /\ [][Next]_vars

-----------------------------------------------------------------------------
(* Every committed migration was executed exactly once, and nothing was     *)
(* executed without its ledger row, however calls overlap and break         *)
(* (apply_migrations commits once, at the end).                             *)
AppliedOnce ==
  /\ \A i, j \in DOMAIN history : history[i] = history[j] => i = j
  /\ \A n \in Numbers :
       /\ (schema[n] # {}) <=> (ledger[n] # 0)
       /\ (ledger[n] # 0) <=> (\E i \in DOMAIN history : history[i] = n)

(* Two calls never wait for each other (files are applied in name order).   *)
NoMutualWait ==
  \A a, b \in Migrators : a # b =>
    ~ /\ At(a, "apply") /\ HeldBy(b, call[a].name)
      /\ At(b, "apply") /\ HeldBy(a, call[b].name)

(* Migrations are committed in the order of their numbers, whatever calls   *)
(* overlap, as long as no file is added meanwhile with a number below one   *)
(* that is applied: the ledger has no high-water mark.                      *)
AppliedInOrder ==
  edits = 0 => \A i, j \in DOMAIN history : i < j => history[i] < history[j]

(* Overlapping, failing and killed calls leave the schema that one call    *)
(* after another would have left, and do not block each other              *)
(* (apply_migrations).                                                     *)
MigrationsAreSerial == AppliedOnce /\ AppliedInOrder /\ NoMutualWait
=============================================================================

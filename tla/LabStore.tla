----------------------------- MODULE LabStore ------------------------------
(***************************************************************************)
(* The store of the virtual lab (lab/store.py) under the requests of       *)
(* several API processes (lab/api.py): one lab and its revisions, one run  *)
(* of it and the run's commands.  A handler calls the store synchronously, *)
(* so a process serves one request at a time, over one pooled connection;  *)
(* the statements of different processes interleave.  A transaction whose  *)
(* first look at a row already locks it is one step, at its commit.        *)
(***************************************************************************)
EXTENDS Naturals, Sequences

CONSTANTS Processes,
          CommandIds, Payloads,   \* command_id, and the hash of the rest of a request
          MaxRevisions, MaxCommands, MaxTicks, MaxRequests   \* bounds

VARIABLES revisions,   \* lab_definitions and lab_revisions: [base, ok] of each
          run,         \* the row of lab_runs; revision 0 before it exists
          commands,    \* lab_commands by accepted_sequence
          request,     \* the request a process is serving
          isolation,   \* of the process's connection
          answers,     \* history: the replies given
          requests     \* number of requests made

vars == <<revisions, run, commands, request, isolation, answers, requests>>

idle == [op |-> "none"]
None == 0

Init ==
  /\ revisions = <<>>
  /\ run = [revision |-> 0, status |-> "CREATED", control |-> 0, tick |-> 0]
  /\ commands = <<>>
  /\ request = [p \in Processes |-> idle]
  /\ isolation = [p \in Processes |-> "READ_COMMITTED"]
  /\ answers = {}
  /\ requests = 0

Receive(p) == request[p] = idle /\ requests < MaxRequests /\ requests' = requests + 1
Answer(p, a) == answers' = answers \cup {a} /\ request' = [request EXCEPT ![p] = idle]

(* A row that has changed since a repeatable read transaction began cannot *)
(* be locked or updated by it: the statement fails.                        *)
Serialization(p, now) == isolation[p] = "REPEATABLE_READ" /\ request[p].seen /= now

-----------------------------------------------------------------------------
(* PUT /v2/labs/{id} with a definition drawn on revision base, run         *)
(* eligible or a draft; save_lab starts by looking for the row.            *)
update_lab(p) == \E base \in 1..Len(revisions) \cup {1}, ok \in BOOLEAN :
  /\ Receive(p) /\ Len(revisions) < MaxRevisions
  /\ request' = [request EXCEPT ![p] = [op |-> "save", base |-> base, ok |-> ok, seen |-> Len(revisions)]]
  /\ UNCHANGED <<revisions, run, commands, isolation, answers>>

RevisionConflict(r) == IF r.seen = 0 THEN r.base \notin {0, 1} ELSE r.base /= Len(revisions)

(* A missing row is not locked: the insert meets the row of another.       *)
SaveFails(p) ==
  IF request[p].seen = 0 THEN revisions /= <<>> ELSE Serialization(p, Len(revisions))

save_lab(p) == LET r == request[p] IN
  /\ r.op = "save"
  /\ \/ /\ SaveFails(p)
        /\ Answer(p, [op |-> "save", reply |-> "error"])
        /\ UNCHANGED revisions
     \/ /\ ~SaveFails(p) /\ RevisionConflict(r)
        /\ Answer(p, [op |-> "save", reply |-> "conflict"])
        /\ UNCHANGED revisions
     \/ /\ ~SaveFails(p) /\ ~RevisionConflict(r)
        /\ revisions' = Append(revisions, [base |-> r.base, ok |-> r.ok])
        /\ Answer(p, [op |-> "save", reply |-> "saved"])
  /\ UNCHANGED <<run, commands, isolation, requests>>

-----------------------------------------------------------------------------
Runnable(revision) == revisions[revision].ok

(* POST /v2/runs: the pinned revision is read, validated and inserted; a   *)
(* revision never changes, so one step.                                    *)
start_run(p) == \E revision \in DOMAIN revisions :
  /\ Receive(p) /\ run.revision = 0
  /\ IF Runnable(revision)
     THEN run' = [run EXCEPT !.revision = revision] /\ UNCHANGED answers
     ELSE answers' = answers \cup {[op |-> "run", reply |-> "not_runnable"]} /\ UNCHANGED run
  /\ UNCHANGED <<revisions, commands, request, isolation>>

(* The engine's checkpoint of the run. *)
checkpoint ==
  /\ run.revision /= 0 /\ run.tick < MaxTicks
  /\ run' = [run EXCEPT !.tick = @ + 1]
  /\ UNCHANGED <<revisions, commands, request, isolation, answers, requests>>

-----------------------------------------------------------------------------
Known(id) == {i \in DOMAIN commands : commands[i].id = id}

CommandAnswer(r, reply, control) ==
  [op |-> "command", id |-> r.id, hash |-> r.hash, reply |-> reply, control |-> control]

receipt(p, r) ==
  \E i \in Known(r.id) :
    IF commands[i].hash = r.hash
    THEN Answer(p, CommandAnswer(r, "receipt", commands[i].control))
    ELSE Answer(p, CommandAnswer(r, "identity_conflict", None))

(* POST /v2/runs/{id}/commands: a known command is answered at once, from  *)
(* the transaction's first statement; the hash covers the expected         *)
(* revision.                                                               *)
SubmitCommand(p) ==
  \E id \in CommandIds, payload \in Payloads, expected \in 0..run.control :
    LET r == [op |-> "command", id |-> id, hash |-> <<payload, expected>>, expected |-> expected,
              seen |-> [control |-> run.control, tick |-> run.tick]]
    IN  /\ Receive(p) /\ run.revision /= 0 /\ Len(commands) < MaxCommands
        /\ \/ Known(id) /= {} /\ receipt(p, r)
           \/ /\ Known(id) = {}
              /\ request' = [request EXCEPT ![p] = r]
              /\ UNCHANGED answers
        /\ UNCHANGED <<revisions, run, commands, isolation>>

SubmitFails(p, r) ==
  Serialization(p, [control |-> run.control, tick |-> run.tick])

(* Mutant: the control revision is the one seen before the row was locked. *)
CurrentRevision_unlocked(r) == r.seen.control

CurrentRevision(r) == run.control

(* The run is locked, its state and revision are checked and the command   *)
(* is inserted; its primary key is the command identifier.                 *)
submit_command(p) == LET r == request[p] IN
  /\ r.op = "command"
  /\ LET terminal  == run.status \in {"STOPPED", "COMPLETED", "FAILED"}
         conflict  == r.expected /= CurrentRevision(r)
         duplicate == Known(r.id) /= {}
         fails     == SubmitFails(p, r)
         control   == CurrentRevision(r) + 1
     IN  \/ /\ fails \/ (~terminal /\ ~conflict /\ duplicate)
            /\ Answer(p, CommandAnswer(r, "error", None))
            /\ UNCHANGED <<run, commands>>
         \/ /\ ~fails /\ (terminal \/ conflict)
            /\ Answer(p, CommandAnswer(r, "conflict", None))
            /\ UNCHANGED <<run, commands>>
         \/ /\ ~fails /\ ~terminal /\ ~conflict /\ ~duplicate
            /\ commands' = Append(commands, [id |-> r.id, hash |-> r.hash,
                                             expected |-> r.expected, control |-> control])
            /\ run' = [run EXCEPT !.control = control]
            /\ Answer(p, CommandAnswer(r, "receipt", control))
  /\ UNCHANGED <<revisions, isolation, requests>>

-----------------------------------------------------------------------------
(* The level stays with the connection when it returns to the pool. *)
SnapshotLevel(p) == "REPEATABLE_READ"

(* GET /v2/runs/{id}: the row of the run, then the pending commands. *)
GetSnapshot(p) ==
  /\ Receive(p) /\ run.revision /= 0
  /\ isolation' = [isolation EXCEPT ![p] = SnapshotLevel(p)]
  /\ request' = [request EXCEPT ![p] = [op |-> "snapshot", control |-> run.control,
                                        seen |-> Len(commands)]]
  /\ UNCHANGED <<revisions, run, commands, answers>>

get_snapshot(p) == LET r == request[p] IN
  /\ r.op = "snapshot"
  /\ LET pending == IF isolation[p] = "REPEATABLE_READ" THEN r.seen ELSE Len(commands)
     IN  Answer(p, [op |-> "snapshot", control |-> r.control,
                    pending |-> {commands[i].control : i \in 1..pending}])
  /\ UNCHANGED <<revisions, run, commands, isolation, requests>>

Next ==
  \/ checkpoint
  \/ \E p \in Processes :
       update_lab(p) \/ save_lab(p) \/ start_run(p)
         \/ SubmitCommand(p) \/ submit_command(p) \/ GetSnapshot(p) \/ get_snapshot(p)

Spec == Init /\ [][Next]_vars

-----------------------------------------------------------------------------
(* No edit is lost: the author of every revision after the first had the   *)
(* one before it in hand, whatever processes save at once.                 *)
NoLostEdit == \A n \in 2..Len(revisions) : revisions[n].base = n - 1

(* No command is blind: commands are accepted one after another, each      *)
(* issued against exactly the control revision it found.                   *)
NoBlindCommand ==
  /\ run.control = Len(commands)
  /\ \A n \in DOMAIN commands : commands[n].control = n /\ commands[n].expected = n - 1

(* A command has one outcome: everyone given a receipt for it holds the    *)
(* receipt of the command that is stored, and was asking for that command. *)
ReceiptsAgree ==
  \A a \in answers : a.op = "command" /\ a.reply = "receipt" =>
    \E i \in DOMAIN commands : /\ commands[i].id = a.id
                               /\ commands[i].hash = a.hash
                               /\ commands[i].control = a.control

(* A snapshot is of one moment: its control revision is that of the last   *)
(* command it lists.                                                       *)
SnapshotIsConsistent ==
  \A a \in answers : a.op = "snapshot" => a.pending = 1..a.control

(* Requests of several processes come out as if made one after another:    *)
(* edits, commands, receipts and snapshots (LabStore's transactions).      *)
RequestsAreSerial ==
  NoLostEdit /\ NoBlindCommand /\ ReceiptsAgree /\ SnapshotIsConsistent
=============================================================================

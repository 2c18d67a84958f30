------------------------------ MODULE Migrate -------------------------------
(***************************************************************************)
(* Open and migrate of internal/storage/sqlite.go.  A release knows the    *)
(* migrations 1 .. known, in the order of their names; the database keeps  *)
(* the effects of those applied and, in schema_version, their names.  A    *)
(* transaction works on a copy that its commit publishes.                  *)
(***************************************************************************)
EXTENDS Naturals, Sequences

CONSTANT MaxFaults   \* bound on the faults of a behaviour

VARIABLES
  known,    \* migrations embedded in the release
  db,       \* what is committed: effects and names
  tx,       \* what the open transaction sees
  mstep,    \* where migrate is
  cur,      \* the migration its loop is at
  ctxDone,
  faults

MSteps == {"off", "create", "check", "apply", "record", "commit", "done", "failed"}

Empty == [schema |-> <<>>, version |-> {}]

(* A statement succeeds while the context lives; it may fail of itself. *)
Statement(at, next) ==
  /\ mstep = at
  /\ ~ctxDone
  /\ mstep' = next
  /\ UNCHANGED <<known, ctxDone, faults>>

(* An error ends migrate, and rolls back what is open. *)
StatementFails ==
  /\ mstep \in {"create", "check", "apply", "record", "commit"}
  /\ \/ ctxDone /\ UNCHANGED faults
     \/ faults < MaxFaults /\ faults' = faults + 1
  /\ mstep' = "failed"
  /\ tx' = Empty
  /\ UNCHANGED <<known, db, cur, ctxDone>>

(* MkdirAll, Open, Ping and the table of versions. *)
Create ==
  /\ Statement("create", "check")
  /\ cur' = 1
  /\ UNCHANGED <<db, tx>>

Skip ==
  /\ cur <= known /\ cur \in db.version
  /\ Statement("check", "check")
  /\ cur' = cur + 1
  /\ UNCHANGED <<db, tx>>

BeginTx ==
  /\ cur <= known /\ cur \notin db.version
  /\ Statement("check", "apply")
  /\ tx' = db
  /\ UNCHANGED <<db, cur>>

(* Mutant: the migration runs outside the transaction. *)
ApplyOutside ==
  /\ Statement("apply", "record")
  /\ db' = [db EXCEPT !.schema = Append(@, cur)]
  /\ tx' = db'
  /\ UNCHANGED cur

Apply ==
  /\ Statement("apply", "record")
  /\ tx' = [tx EXCEPT !.schema = Append(@, cur)]
  /\ UNCHANGED <<db, cur>>

Record ==
  /\ Statement("record", "commit")
  /\ tx' = [tx EXCEPT !.version = @ \cup {cur}]
  /\ UNCHANGED <<db, cur>>

(* Mutant: an error of Commit is ignored. *)
CommitCarelessly ==
  /\ mstep = "commit"
  /\ mstep' = "check"
  /\ db' \in {tx, db}
  /\ tx' = Empty
  /\ cur' = cur + 1
  /\ UNCHANGED <<known, ctxDone, faults>>

Commit ==
  /\ Statement("commit", "check")
  /\ db' = tx
  /\ tx' = Empty
  /\ cur' = cur + 1

(* The loop is through; no statement, so ctx does not matter. *)
Finish ==
  /\ mstep = "check"
  /\ cur > known
  /\ mstep' = "done"
  /\ UNCHANGED <<known, db, tx, cur, ctxDone, faults>>

Next ==
  \/ Create \/ Skip \/ BeginTx \/ Apply \/ Record \/ Commit \/ Finish
  \/ StatementFails

=============================================================================

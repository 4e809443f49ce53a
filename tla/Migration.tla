----------------------------- MODULE Migration -----------------------------
(***************************************************************************)
(* How a process gets to serving (cmd/cloudmanager/main.go, database.go):  *)
(* every command but keygen and version opens the database and applies the *)
(* migrations its binary embeds, and any number of processes do so at the  *)
(* same time.  A process that meets an error ends (`fatal') and is started *)
(* again by systemd, docker compose or the operator.                       *)
(***************************************************************************)
EXTENDS Naturals

CONSTANTS
  Processes,
  Release,       \* number of migrations in each process's binary
  MaxDeaths      \* bound: statements that fail, processes that are killed

ASSUME MigrationAssumption ==
  /\ Release \in [Processes -> Nat \ {0}]
  /\ MaxDeaths \in Nat

VARIABLES
  phase,      \* where each process is
  at,         \* the migration its loop has come to
  schema,     \* migrations whose SQL is in effect
  applied,    \* the rows of schema_migrations
  deaths

migrationVars == <<phase, at, schema, applied, deaths>>

Phases == {"down", "table", "check", "apply", "commit", "serving"}

MigrationTypeOK ==
  /\ phase \in [Processes -> Phases]
  /\ at \in [Processes -> Nat \ {0}]
  /\ \A p \in Processes :
       /\ at[p] <= Release[p] + 1
       /\ phase[p] \in {"down", "table"} => at[p] = 1
  /\ schema \subseteq Nat /\ applied \subseteq Nat
  /\ deaths \in Nat

MigrationInit ==
  /\ phase = [p \in Processes |-> "down"]
  /\ at = [p \in Processes |-> 1]
  /\ schema = {} /\ applied = {}
  /\ deaths = 0

Goto(p, ph) == phase' = [phase EXCEPT ![p] = ph]

(* Mutant: the next attempt goes on where the last one ended.              *)
FatalKeepingPlace(p) == Goto(p, "down") /\ UNCHANGED at

(* fatal; the local variables are gone.                                    *)
Fatal(p) == Goto(p, "down") /\ at' = [at EXCEPT ![p] = 1]

Spend == deaths < MaxDeaths /\ deaths' = deaths + 1

(* main, up to database.Open.                                              *)
Boot(p) ==
  /\ phase[p] = "down"
  /\ Goto(p, "table")
  /\ UNCHANGED <<at, schema, applied, deaths>>

(* CREATE TABLE IF NOT EXISTS schema_migrations.                           *)
CreateTable(p) ==
  /\ phase[p] = "table"
  /\ Goto(p, "check")
  /\ UNCHANGED <<at, schema, applied, deaths>>

(* SELECT EXISTS for the next version, if one is left.                     *)
Check(p) ==
  /\ phase[p] = "check"
  /\ \/ at[p] > Release[p] /\ Goto(p, "serving") /\ UNCHANGED at
     \/ /\ at[p] <= Release[p] /\ at[p] \in applied
        /\ at' = [at EXCEPT ![p] = @ + 1] /\ UNCHANGED phase
     \/ /\ at[p] <= Release[p] /\ at[p] \notin applied
        /\ Goto(p, "apply") /\ UNCHANGED at
  /\ UNCHANGED <<schema, applied, deaths>>

(* Mutant: an error of the SQL is taken for a migration already there.     *)
RunSQLWithoutWaiting(p) ==
  /\ phase[p] = "apply"
  /\ IF at[p] \in schema \/ \E q \in Processes \ {p} : phase[q] = "commit" /\ at[q] = at[p]
     THEN Goto(p, "check") /\ at' = [at EXCEPT ![p] = @ + 1]
     ELSE Goto(p, "commit") /\ UNCHANGED at
  /\ UNCHANGED <<schema, applied, deaths>>

(* The migration's SQL, in a transaction.  It waits for another one that   *)
(* creates the same tables, and fails if they exist.                       *)
RunSQL(p) ==
  /\ phase[p] = "apply"
  /\ ~\E q \in Processes \ {p} : phase[q] = "commit" /\ at[q] = at[p]
  /\ IF at[p] \in schema THEN Fatal(p) ELSE Goto(p, "commit") /\ UNCHANGED at
  /\ UNCHANGED <<schema, applied, deaths>>

(* Mutant: the SQL is not in one transaction with its row.                 *)
CommitInTwo(p, lost) ==
  /\ schema' = schema \cup {at[p]}
  /\ applied' = IF lost THEN applied ELSE applied \cup {at[p]}

(* The version's row and COMMIT; when the connection is lost either the    *)
(* whole transaction counts or nothing of it.                              *)
CommitBoth(p, lost) ==
  \/ schema' = schema \cup {at[p]} /\ applied' = applied \cup {at[p]}
  \/ lost /\ UNCHANGED <<schema, applied>>

Commit(p) ==
  /\ phase[p] = "commit"
  /\ \/ CommitBoth(p, FALSE) /\ Goto(p, "check")
        /\ at' = [at EXCEPT ![p] = @ + 1] /\ UNCHANGED deaths
     \/ CommitBoth(p, TRUE) /\ Fatal(p) /\ Spend

(* A statement fails or the process is killed.                             *)
Die(p) ==
  /\ phase[p] \notin {"down", "commit"}
  /\ Fatal(p) /\ Spend
  /\ UNCHANGED <<schema, applied>>

Migrate(p) == Boot(p) \/ CreateTable(p) \/ Check(p) \/ RunSQL(p) \/ Commit(p)

MigrationNext == \E p \in Processes : Migrate(p) \/ Die(p)

(* A process that is down is started again and its statements end.         *)
MigrationFairness == \A p \in Processes : WF_migrationVars(Migrate(p))

MigrationSpec == MigrationInit /\ [][MigrationNext]_migrationVars /\ MigrationFairness

-----------------------------------------------------------------------------
(* Properties.                                                             *)

(* Every table a serving process expects is there, whatever other          *)
(* processes of older or newer releases migrate, fail or die next to it    *)
(* (database.Migrate before runServer and runWorker).                      *)
ServesOnSchema ==
  \A p \in Processes : phase[p] = "serving" => 1..Release[p] \subseteq schema

(* What is recorded is what is in effect, and it has no gap: a migration   *)
(* is never in effect without those before it (pgx.BeginFunc around the    *)
(* SQL and its row).                                                       *)
SchemaIsRecorded ==
  /\ schema = applied
  /\ \A v \in schema : 1..v \subseteq schema

(* A process that is started again after every failure comes to serve: a   *)
(* lost race or a death in the middle leaves nothing that fails the next   *)
(* attempt (main's fatal, Migrate).                                        *)
StaysUp == \A p \in Processes : (phase[p] = "down") ~> (phase[p] = "serving")
=============================================================================

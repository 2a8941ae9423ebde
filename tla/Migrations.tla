----------------------------- MODULE Migrations -----------------------------
(***************************************************************************)
(* Schema migrations (apply_migrations) run by several processes on one    *)
(* database: the server at start-up and ssize-admin migrate.               *)
(*                                                                         *)
(* user_version is read before any transaction is open; each script then   *)
(* runs in a transaction of its own that also sets user_version.  BEGIN is *)
(* deferred: SQLite's single write lock is taken by the first statement of *)
(* the script, which waits for it up to busy_timeout.  A script is what    *)
(* 001_init.sql is: CREATE TABLE without IF NOT EXISTS, so running it on a *)
(* schema that has it already fails.  A file is a pair of its kind and the *)
(* number from_chars reads at the start of its name, 0 when there is none. *)
(***************************************************************************)
EXTENDS Integers, Sequences, FiniteSets, SequencesExt

CONSTANTS
  Procs,         (* processes that migrate                                 *)
  Versions,      (* numbers of the NNN_*.sql files                         *)
  Stray,         (* numbers read from the names of the other *.sql files   *)
  None,          (* no process, no file                                    *)
  MaxFailures,   (* bound: statements that fail for another reason         *)
  MaxCrashes     (* bound: processes killed                                *)

ASSUME MigrationsAssumption ==
  /\ Versions \subseteq Nat \ {0} /\ IsFiniteSet(Versions) /\ Versions # {}
  /\ Stray \subseteq Int /\ None \notin Procs
  /\ MaxFailures \in Nat /\ MaxCrashes \in Nat

VARIABLES
  version, applied,  (* the committed user_version and the scripts run     *)
  tx,                (* the open write transaction: version and scripts    *)
  writer,            (* who holds SQLite's write lock                      *)
  pc, current, file, (* per process: where it is, its locals               *)
  failures, crashes

schema == <<version, applied>>
migrationVars == <<version, applied, tx, writer, pc, current, file, failures, crashes>>

-----------------------------------------------------------------------------
Files == ({"migration"} \X Versions) \cup ({"stray"} \X Stray)

Number(f) == f[2]

(* discover: the files whose name starts with a positive number, in order. *)
Discovered == {f \in Files : Number(f) > 0}

(* The files the loop may turn to next: the lowest number above current;   *)
(* of two files with one number std::sort and the directory put either     *)
(* first, and the loop then skips the other.                               *)
Pending(cur) ==
  LET above == {f \in Discovered : Number(f) > cur}
  IN  {f \in above : \A g \in above : Number(f) <= Number(g)}

Goto(p, label) == pc' = [pc EXCEPT ![p] = label]

(* DbConn::DbConn; sqlite3_open or one of its PRAGMAs may fail, or after   *)
(* it user_version or discover, with the same end.                         *)
Open(p) ==
  /\ pc[p] = "down"
  /\ \/ Goto(p, "version") /\ UNCHANGED failures
     \/ /\ failures < MaxFailures /\ failures' = failures + 1
        /\ Goto(p, "failed")
  /\ UNCHANGED <<schema, tx, writer, current, file, crashes>>

ReadVersion(p) ==
  /\ pc[p] = "version"
  /\ current' = [current EXCEPT ![p] = version]
  /\ Goto(p, "loop")
  /\ UNCHANGED <<schema, tx, writer, file, failures, crashes>>

Begin(p) ==
  /\ pc[p] = "loop"
  /\ \E f \in Pending(current[p]) : file' = [file EXCEPT ![p] = f]
  /\ Goto(p, "begun")
  /\ UNCHANGED <<schema, tx, writer, current, failures, crashes>>

Return(p) ==
  /\ pc[p] = "loop" /\ Pending(current[p]) = {}
  /\ Goto(p, "up")
  /\ UNCHANGED <<schema, tx, writer, current, file, failures, crashes>>

(* The script takes the write lock and runs on the latest committed state. *)
(* The bug: scripts that quietly succeed on a schema that has them.        *)
TakeLock(p) ==
  /\ pc[p] = "begun" /\ writer = None
  /\ writer' = p
  /\ UNCHANGED <<schema, current, file, failures, crashes>>

RunScriptIfNotExists(p) ==
  /\ TakeLock(p)
  /\ tx' = [version |-> version, applied |-> Append(applied, file[p])]
  /\ Goto(p, "set")

RunScript(p) ==
  /\ TakeLock(p)
  /\ IF file[p] \in ToSet(applied)
     THEN Goto(p, "rollback") /\ UNCHANGED tx
     ELSE /\ tx' = [version |-> version, applied |-> Append(applied, file[p])]
          /\ Goto(p, "set")

(* Another process kept the write lock for busy_timeout.                   *)
BusyTimeout(p) ==
  /\ pc[p] = "begun" /\ writer \notin {None, p}
  /\ Goto(p, "rollback")
  /\ UNCHANGED <<schema, tx, writer, current, file, failures, crashes>>

(* PRAGMA user_version, inside the transaction.  The bugs: forgotten,      *)
(* written outside the transaction.                                        *)
SetStep(p) ==
  /\ pc[p] = "set" /\ Goto(p, "commit")
  /\ UNCHANGED <<applied, writer, current, file, failures, crashes>>

SetNothing(p) == SetStep(p) /\ UNCHANGED <<version, tx>>

SetOutside(p) ==
  SetStep(p) /\ version' = Number(file[p]) /\ tx' = [tx EXCEPT !.version = version']

SetUserVersion(p) ==
  SetStep(p) /\ tx' = [tx EXCEPT !.version = Number(file[p])] /\ UNCHANGED version

Commit(p) ==
  /\ pc[p] = "commit"
  /\ version' = tx.version /\ applied' = tx.applied
  /\ writer' = None
  /\ current' = [current EXCEPT ![p] = Number(file[p])]
  /\ Goto(p, "loop")
  /\ UNCHANGED <<tx, file, failures, crashes>>

(* Any statement between BEGIN and COMMIT may fail: I/O error, disk full.  *)
StatementFails(p) ==
  /\ pc[p] \in {"begun", "set", "commit"} /\ failures < MaxFailures
  /\ failures' = failures + 1
  /\ Goto(p, "rollback")
  /\ UNCHANGED <<schema, tx, writer, current, file, crashes>>

(* catch (...): ROLLBACK, throw; main and ssize-admin exit with 1.         *)
Unlock(p) == writer' = IF writer = p THEN None ELSE writer

Rollback(p) ==
  /\ pc[p] = "rollback" /\ Goto(p, "failed") /\ Unlock(p)
  /\ UNCHANGED <<schema, tx, current, file, failures, crashes>>

(* A killed process loses its transaction: SQLite drops what is not        *)
(* committed.                                                              *)
Crash(p) ==
  /\ pc[p] \notin {"down", "failed"} /\ crashes < MaxCrashes
  /\ crashes' = crashes + 1
  /\ Goto(p, "down") /\ Unlock(p)
  /\ UNCHANGED <<schema, tx, current, file, failures>>

(* Restart=on-failure of the unit, or the operator calling again.          *)
Restart(p) ==
  /\ pc[p] = "failed"
  /\ Goto(p, "down")
  /\ UNCHANGED <<schema, tx, writer, current, file, failures, crashes>>

-----------------------------------------------------------------------------
MigrationsInit ==
  /\ version = 0 /\ applied = <<>>
  /\ tx = [version |-> 0, applied |-> <<>>] /\ writer = None
  /\ pc = [p \in Procs |-> "down"]
  /\ current = [p \in Procs |-> 0] /\ file = [p \in Procs |-> None]
  /\ failures = 0 /\ crashes = 0

Run(p) ==
  \/ Open(p) \/ ReadVersion(p) \/ Begin(p) \/ Return(p) \/ RunScript(p)
  \/ BusyTimeout(p) \/ SetUserVersion(p) \/ Commit(p) \/ Rollback(p) \/ Restart(p)

MigrationsNext == \E p \in Procs : Run(p) \/ StatementFails(p) \/ Crash(p)

MigrationsSpec ==
  /\ MigrationsInit /\ [][MigrationsNext]_migrationVars
  /\ \A p \in Procs : WF_migrationVars(Run(p))

-----------------------------------------------------------------------------
(* The variables have their types; the lock is held exactly by the process *)
(* inside the write part of its transaction.                               *)
MigrationsTypeOK ==
  /\ version \in {0} \cup {Number(f) : f \in Files}
  /\ applied \in Seq(Files)
  /\ tx.version \in {0} \cup {Number(f) : f \in Files} /\ tx.applied \in Seq(Files)
  /\ writer \in Procs \cup {None}
  /\ pc \in [Procs -> {"down", "version", "loop", "begun", "set", "commit",
                       "rollback", "up", "failed"}]
  /\ current \in [Procs -> {0} \cup {Number(f) : f \in Files}]
  /\ file \in [Procs -> Files \cup {None}]
  /\ \A p \in Procs : pc[p] \in {"set", "commit"} => writer = p
  /\ failures \in 0..MaxFailures /\ crashes \in 0..MaxCrashes

(* apply_migrations: at every moment, whoever crashed or raced, the scripts *)
(* in the database are exactly those up to user_version, each run once, in  *)
(* the order of their numbers.                                              *)
SchemaMatchesVersion ==
  /\ {Number(f) : f \in ToSet(applied)} = {v \in Versions : v <= version}
  /\ \A i, j \in 1..Len(applied) : i < j => Number(applied[i]) < Number(applied[j])

(* user_version is never set back, although a process decides what to run  *)
(* from a value it read before its transaction.                            *)
VersionOnlyAdvances == [][version' > version]_version

(* Restarts settle: once failures and crashes stop, every process gets     *)
(* through, also the loser of a race whose script failed.                  *)
AllGetThrough == \A p \in Procs : <>[](pc[p] = "up")
=============================================================================

------------------------------ MODULE Startup ------------------------------
(***************************************************************************)
(* The server's life together with the migrations: main's first step is    *)
(* apply_migrations, raced by ssize-admin migrate, which may go on while   *)
(* the server already answers requests.                                    *)
(*                                                                         *)
(* Lifecycle follows the life in which the server gets past apply_migra-   *)
(* tions or gives up there; a server killed or restarted before that is    *)
(* back at its first step with nothing but the database left of it, and    *)
(* one started after that life's end is in Migrations alone.               *)
(***************************************************************************)
EXTENDS Migrations, Lifecycle

CONSTANT Server    (* the process whose life is followed                   *)

ASSUME StartupAssumption == Server \in Procs

vars == <<migrationVars, lifeVars>>

(* A step of the migrations.                                               *)
Migrating(p) ==
  /\ p = Server => main \in {"migrate", "exited"}
  /\ UNCHANGED lifeVars

(* apply_migrations returns or throws.  The bug: what it throws is only    *)
(* logged.                                                                 *)
MigratedOrNot == main' = "refresh" /\ pc[Server] \in {"up", "failed"}

Migrated ==
  \/ main' = "refresh" /\ pc[Server] = "up"
  \/ outcome' = "exit1" /\ pc[Server] = "failed"

(* A step of the life.                                                     *)
Living == (At("migrate") => Migrated) /\ UNCHANGED migrationVars

Init == MigrationsInit /\ LifeInit

Next ==
  \/ \E p \in Procs : (Run(p) \/ StatementFails(p) \/ Crash(p)) /\ Migrating(p)
  \/ LifeNext /\ Living

Spec ==
  /\ Init /\ [][Next]_vars
  /\ \A p \in Procs : WF_vars(Run(p) /\ Migrating(p))
  /\ WF_vars(Main /\ Living) /\ WF_vars(Http /\ Living)
  /\ WF_vars(Db /\ Living) /\ WF_vars(Notify /\ Living)

-----------------------------------------------------------------------------
(* Both parts have their types.                                            *)
TypeOK == MigrationsTypeOK /\ LifeTypeOK

(* main.cpp:69 and 80: whoever raced, failed, crashed or came back, no      *)
(* process gets past apply_migrations and the DB thread does not run while *)
(* the schema lacks a migration, and no visitor is served from the empty   *)
(* catalogue.                                                              *)
ReadyBeforeTraffic ==
  /\ db # "none" \/ (\E p \in Procs : pc[p] = "up") =>
       \A v \in Versions : v <= version /\ \E f \in ToSet(applied) : Number(f) = v
  /\ (\E r \in Requests : conns[r] \in {"serving", "answered"}) =>
       snapshot /\ db # "none"
=============================================================================

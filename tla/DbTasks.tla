------------------------------- MODULE DbTasks -------------------------------
(***************************************************************************)
(* The periodic tasks of the DB thread beside the flush (DbWorker::run):   *)
(* the refresh of the catalogue (CatalogRefresh) and the maintenance of    *)
(* events and daily_item_stats (Retention).  They touch different tables   *)
(* and share no state, so a behaviour follows one while the other rests.   *)
(***************************************************************************)
EXTENDS CatalogRefresh, Retention

VARIABLE task   (* the one that is followed                                *)

vars == <<refreshVars, maintenanceVars, task>>

Init ==
  /\ RefreshInit /\ MaintenanceInit
  /\ task \in {"refresh", "maintenance"}

Refreshing == task = "refresh" /\ RefreshNext /\ UNCHANGED <<maintenanceVars, task>>
Maintaining == task = "maintenance" /\ MaintenanceNext /\ UNCHANGED <<refreshVars, task>>

(* The refresh timer fires for ever; a process that keeps stopping before  *)
(* its first refresh is not assumed away, it is simply not serving.        *)
Spec ==
  /\ Init /\ [][Refreshing \/ Maintaining]_vars
  /\ WF_vars(task = "refresh" /\ Refresh /\ UNCHANGED <<maintenanceVars, task>>)
=============================================================================

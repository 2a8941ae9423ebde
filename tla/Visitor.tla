------------------------------ MODULE Visitor ------------------------------
(***************************************************************************)
(* What one visitor's browser keeps of the site: its cookies (Identity),   *)
(* the tracker of its pages (ImpressionTracker) and its copies of static   *)
(* files (StaticFiles).  The server keeps none of it.  The three share no  *)
(* state, so that the order of steps of different ones cannot matter: a    *)
(* behaviour follows one of them while the others rest.                    *)
(***************************************************************************)
EXTENDS Identity, ImpressionTracker, StaticFiles

VARIABLE part    (* the one that moves                                     *)

visitorVars == <<cookieVars, trackerVars, fileVars, part>>

VisitorInit ==
  /\ CookieInit /\ TrackerInit /\ FileInit
  /\ part \in {"cookies", "tracker", "files", "rest"}

VisitorNext ==
  /\ UNCHANGED part
  /\ \/ part = "cookies" /\ CookieNext /\ UNCHANGED <<trackerVars, fileVars>>
     \/ part = "tracker" /\ TrackerNext /\ UNCHANGED <<cookieVars, fileVars>>
     \/ part = "files" /\ FileNext /\ UNCHANGED <<cookieVars, trackerVars>>

VisitorSpec ==
  /\ VisitorInit /\ [][VisitorNext]_visitorVars
  /\ WF_trackerVars(Interval) /\ WF_trackerVars(wire # <<>> /\ Receive(1))
=============================================================================

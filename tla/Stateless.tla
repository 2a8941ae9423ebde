------------------------------ MODULE Stateless ------------------------------
(***************************************************************************)
(* What a request goes through that the server keeps nothing of: the       *)
(* browser's side (Visitor) and the pure algorithms (RequestData).  Their  *)
(* parts share no state, so a behaviour follows one part of one of them.   *)
(***************************************************************************)
EXTENDS Visitor, RequestData

vars == <<visitorVars, dataVars>>

(* A part that is not followed rests in one of its initial states.         *)
Init ==
  /\ VisitorInit /\ DataInit
  /\ part = "rest" <=> fed # "rest"
  /\ part # "files" => disk.size = CHOOSE size \in FileSizes : TRUE
  /\ fed # "text" => alphabet = CHOOSE bytes \in Alphabets : TRUE

Next ==
  \/ VisitorNext /\ UNCHANGED dataVars
  \/ DataNext /\ UNCHANGED visitorVars

Spec ==
  /\ Init /\ [][Next]_vars
  /\ WF_trackerVars(Interval) /\ WF_trackerVars(wire # <<>> /\ Receive(1))
=============================================================================

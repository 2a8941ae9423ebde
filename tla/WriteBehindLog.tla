--------------------------- MODULE WriteBehindLog ---------------------------
(***************************************************************************)
(* What the metrics write path promises of events, without its threads,    *)
(* queues and transactions: entries are numbered as they are offered, sit  *)
(* in a buffer of bounded size or are refused, reach the log in the order  *)
(* they were offered and at most once, and disappear before that only      *)
(* through a counted fault.  Only the oldest log entries expire.           *)
(***************************************************************************)
EXTENDS Integers, Sequences

CONSTANTS Types,    (* kinds of entries                                    *)
          Cap       (* an entry may be refused once this many are buffered *)

VARIABLES log,      (* entries made durable, oldest first                  *)
          buffer,   (* entries accepted and not yet durable, oldest first  *)
          next,     (* number of the next entry offered                    *)
          faults    (* faults so far                                       *)

vars == <<log, buffer, next, faults>>

From(s, k) == SubSeq(s, k + 1, Len(s))

Init == log = <<>> /\ buffer = <<>> /\ next = 1 /\ faults = 0

Accept(type) ==
  /\ buffer' = Append(buffer, [id |-> next, type |-> type])
  /\ next' = next + 1
  /\ UNCHANGED <<log, faults>>

Refuse ==
  /\ Len(buffer) >= Cap
  /\ next' = next + 1
  /\ UNCHANGED <<log, buffer, faults>>

Commit(k) ==
  /\ log' = log \o SubSeq(buffer, 1, k)
  /\ buffer' = From(buffer, k)
  /\ UNCHANGED <<next, faults>>

(* A fault costs some of the oldest buffered entries, possibly none.       *)
Lose(k) ==
  /\ buffer' = From(buffer, k)
  /\ faults' = faults + 1
  /\ UNCHANGED <<log, next>>

Expire(k) ==
  /\ log' = From(log, k)
  /\ UNCHANGED <<buffer, next, faults>>

Next ==
  \/ \E type \in Types : Accept(type)
  \/ Refuse
  \/ \E k \in 1..Len(buffer) : Commit(k)
  \/ \E k \in 0..Len(buffer) : Lose(k)
  \/ \E k \in 1..Len(log) : Expire(k)

Spec == Init /\ [][Next]_vars
=============================================================================

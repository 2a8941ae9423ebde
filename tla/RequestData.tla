---------------------------- MODULE RequestData ----------------------------
(***************************************************************************)
(* The algorithms a request goes through, each run on every small input:   *)
(* the texts of requests and links (LinkText), the sorted and sliced       *)
(* catalogue (CatalogQuery) and the amount of a postback (PostbackAmount). *)
(* They are pure, so a behaviour feeds one of them.                        *)
(***************************************************************************)
EXTENDS LinkText, CatalogQuery, PostbackAmount

VARIABLE fed     (* the one that is given inputs                           *)

dataVars == <<textVars, catalogVars, amountVars, fed>>

DataInit ==
  /\ TextInit /\ CatalogInit /\ AmountInit
  /\ fed \in {"text", "rows", "amount", "rest"}

DataNext ==
  /\ UNCHANGED fed
  /\ \/ fed = "text" /\ TextNext /\ UNCHANGED <<catalogVars, amountVars>>
     \/ fed = "rows" /\ CatalogNext /\ UNCHANGED <<textVars, amountVars>>
     \/ fed = "amount" /\ QuoteAmount /\ UNCHANGED <<textVars, catalogVars>>

DataSpec == DataInit /\ [][DataNext]_dataVars
=============================================================================

--------------------------- MODULE CatalogRefresh ---------------------------
(***************************************************************************)
(* How the published catalogue gets from SQLite to the request handlers:   *)
(* ssize-admin's seed and the operator's edits write the tables, the DB    *)
(* thread reads them with one SELECT per table and no transaction around   *)
(* them (DbConn::load_published_items, list_partners) and swaps the result *)
(* into the CatalogHandle.  Each SELECT sees the last committed state, so  *)
(* a writer's commit may fall between any two of them.                     *)
(*                                                                         *)
(* A row is there or not; what its columns hold is left out, except for    *)
(* an item's status and partner.                                           *)
(***************************************************************************)
EXTENDS Integers, Sequences, FiniteSets

CONSTANTS
  Items,          (* item ids                                              *)
  Partners,       (* partner ids                                           *)
  Direct,         (* the partner seeded by 001_init.sql                    *)
  NoPartner,      (* items.partner_id NULL, which is read as 0             *)
  MaxEdits,       (* bound: committed edits of the tables                  *)
  MaxRefreshFailures (* bound: refreshes that throw                        *)

ASSUME CatalogAssumption ==
  /\ Direct \in Partners /\ NoPartner \notin Partners
  /\ MaxEdits \in Nat /\ MaxRefreshFailures \in Nat

VARIABLES
  status,         (* items.status, or "absent"                             *)
  partnerOf,      (* items.partner_id                                      *)
  children,       (* child table -> the items it has rows for              *)
  partners,       (* rows of table partners                                *)
  step,           (* how many SELECTs the running refresh has done         *)
  building,       (* its locals: the item and partner vectors              *)
  served,         (* what the CatalogHandle points to                      *)
  serving,        (* the server accepts requests                           *)
  edits, failed   (* how often the bounded actions have happened           *)

tables      == <<status, partnerOf, children, partners>>
refreshVars == <<tables, step, building, served, serving, edits, failed>>

ChildTables  == {"item_images", "item_tags", "item_sizes", "item_colors"}
ItemStatus   == {"absent", "draft", "published", "archived"}
MaybePartner == Partners \cup {NoPartner}
Snapshot     == [items : SUBSET Items, partnerOf : [Items -> MaybePartner],
                 children : [ChildTables -> SUBSET Items],
                 partners : SUBSET Partners]
Empty        == [items |-> {}, partnerOf |-> [i \in Items |-> Direct],
                 children |-> [t \in ChildTables |-> {}], partners |-> {}]

-----------------------------------------------------------------------------
(***************************************************************************)
(* Writers.  Each is one transaction of another process.                   *)
(***************************************************************************)
Edit == edits < MaxEdits /\ edits' = edits + 1
noEdit == <<step, building, served, serving, failed>>

(* cmd_seed: new published items of partner "direct", each with at least   *)
(* one row in every child table, in one transaction.                       *)
Seed(new) ==
  /\ Edit
  /\ new # {} /\ \A i \in new : status[i] = "absent"
  /\ status' = [i \in Items |-> IF i \in new THEN "published" ELSE status[i]]
  /\ partnerOf' = [i \in Items |-> IF i \in new THEN Direct ELSE partnerOf[i]]
  /\ children' = [t \in ChildTables |-> children[t] \cup new]
  /\ UNCHANGED <<partners, noEdit>>

(* DbConn::set_item_status, an UPDATE of one existing row.                 *)
SetItemStatus(i, st) ==
  /\ Edit
  /\ status[i] # "absent"
  /\ status' = [status EXCEPT ![i] = st]
  /\ UNCHANGED <<partnerOf, children, partners, noEdit>>

(* The operator signs up a partner: one row edit.                          *)
AddPartner(p) ==
  /\ Edit
  /\ p \notin partners
  /\ partners' = partners \cup {p}
  /\ UNCHANGED <<status, partnerOf, children, noEdit>>

(* The operator moves an item to a partner or takes it from all of them;   *)
(* the foreign key on partner_id is enforced (PRAGMA foreign_keys = ON).   *)
MoveItem(i, p) ==
  /\ Edit
  /\ status[i] # "absent" /\ p \in partners \cup {NoPartner}
  /\ partnerOf' = [partnerOf EXCEPT ![i] = p]
  /\ UNCHANGED <<status, children, partners, noEdit>>

Writers ==
  \/ \E new \in SUBSET Items : Seed(new)
  \/ \E i \in Items, st \in ItemStatus \ {"absent"} : SetItemStatus(i, st)
  \/ \E p \in Partners : AddPartner(p)
  \/ \E i \in Items, p \in MaybePartner : MoveItem(i, p)

-----------------------------------------------------------------------------
(***************************************************************************)
(* The refresh: by main in refresh_now before the server starts, then by   *)
(* the DB thread.  The bugs: child rows or partners read before the items. *)
(***************************************************************************)
LoadOrderChildrenFirst ==
  <<"item_images", "items", "item_tags", "item_sizes", "item_colors", "partners">>

LoadOrderPartnersFirst ==
  <<"partners", "items", "item_images", "item_tags", "item_sizes", "item_colors">>

LoadOrder ==
  <<"items", "item_images", "item_tags", "item_sizes", "item_colors", "partners">>

noRefresh == <<tables, edits>>

(* One SELECT.  attach skips child rows whose item was not loaded.         *)
Select ==
  /\ step < Len(LoadOrder)
  /\ LET t == LoadOrder[step + 1] IN
       building' =
         CASE t = "items" ->
                [building EXCEPT !.items = {i \in Items : status[i] = "published"},
                                 !.partnerOf = partnerOf]
           [] t = "partners" -> [building EXCEPT !.partners = partners]
           [] OTHER -> [building EXCEPT !.children[t] =
                                               children[t] \cap building.items]
  /\ step' = step + 1
  /\ UNCHANGED <<noRefresh, served, serving, failed>>

(* Catalog's constructor and CatalogHandle::set.  The first one opens the  *)
(* server for requests (main starts it after refresh_now).  The bug: no    *)
(* swap when the number of items has not changed.                          *)
PublishIfGrown ==
  /\ step = Len(LoadOrder)
  /\ served' = IF Cardinality(building.items) = Cardinality(served.items)
               THEN served ELSE building
  /\ building' = Empty
  /\ step' = 0
  /\ serving' = TRUE
  /\ UNCHANGED <<noRefresh, failed>>

Publish ==
  /\ step = Len(LoadOrder)
  /\ served' = building
  /\ building' = Empty
  /\ step' = 0
  /\ serving' = TRUE
  /\ UNCHANGED <<noRefresh, failed>>

(* A SELECT throws: the DB thread keeps the previous snapshot and tries    *)
(* again at the next interval; main gives up and is started again.         *)
RefreshFail ==
  /\ failed < MaxRefreshFailures
  /\ failed' = failed + 1
  /\ building' = Empty
  /\ step' = 0
  /\ UNCHANGED <<noRefresh, served, serving>>

(* The process stops, orderly or not, and comes back.                      *)
Restart ==
  /\ serving
  /\ serving' = FALSE
  /\ served' = Empty
  /\ building' = Empty
  /\ step' = 0
  /\ UNCHANGED <<noRefresh, failed>>

RefreshInit ==
  /\ status = [i \in Items |-> "absent"]
  /\ partnerOf = [i \in Items |-> Direct]
  /\ children = [t \in ChildTables |-> {}]
  /\ partners = {Direct}
  /\ step = 0 /\ building = Empty /\ served = Empty
  /\ serving = FALSE
  /\ edits = 0 /\ failed = 0

Refresh == Select \/ Publish
RefreshNext == Writers \/ Refresh \/ RefreshFail \/ Restart

RefreshSpec == RefreshInit /\ [][RefreshNext]_refreshVars

-----------------------------------------------------------------------------
(* Types; a table row for a child exists only for an item that exists.     *)
RefreshTypeOK ==
  /\ status \in [Items -> ItemStatus]
  /\ partnerOf \in [Items -> MaybePartner]
  /\ children \in [ChildTables -> SUBSET Items]
  /\ partners \subseteq Partners
  /\ step \in 0..Len(LoadOrder)
  /\ building \in Snapshot /\ served \in Snapshot
  /\ serving \in BOOLEAN
  /\ edits \in 0..MaxEdits /\ failed \in 0..MaxRefreshFailures
  /\ \A t \in ChildTables : \A i \in children[t] : status[i] # "absent"

(* catalog.hpp:20 "an in-flight request never sees a half-updated          *)
(* catalog": although the refresh is six separate reads, an item on show   *)
(* comes with its images, tags, sizes and colours, whatever is committed   *)
(* between the reads (load_published_items reads parents before children). *)
SnapshotComplete ==
  \A i \in served.items, t \in ChildTables : i \in served.children[t]

(* handle_redirect finds the partner of every item on show that was given  *)
(* one, so that no click loses its attribution to a refresh that overlaps  *)
(* an edit (list_partners runs after load_published_items).                *)
PartnerResolves ==
  \A i \in served.items : served.partnerOf[i] \in served.partners \cup {NoPartner}

(* A published item gets on show (or is taken back, or the process stops)  *)
(* even when some refreshes fail: the refresh timer stays honest.          *)
PublishedGetsShown ==
  \A i \in Items :
    (serving /\ status[i] = "published") ~>
      (i \in served.items \/ status[i] # "published" \/ ~serving)
=============================================================================

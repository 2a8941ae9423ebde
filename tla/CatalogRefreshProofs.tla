------------------------ MODULE CatalogRefreshProofs ------------------------
(***************************************************************************)
(* Proofs about CatalogRefresh for every set of items and partners: six    *)
(* SELECTs without a transaction still give complete snapshots.            *)
(***************************************************************************)
EXTENDS CatalogRefresh, TLAPS

(* The order of the SELECTs: items first, partners last.                   *)
LEMMA LoadOrderFacts ==
  /\ Len(LoadOrder) = 6
  /\ LoadOrder[1] = "items" /\ LoadOrder[2] = "item_images"
  /\ LoadOrder[3] = "item_tags" /\ LoadOrder[4] = "item_sizes"
  /\ LoadOrder[5] = "item_colors" /\ LoadOrder[6] = "partners"
BY DEF LoadOrder

(* The tables alone: every item has rows in every child table from the     *)
(* transaction that made it, and no partner or an existing one (the        *)
(* foreign key).                                                           *)
TablesOK ==
  /\ \A i \in Items : status[i] # "absent" =>
       \A t \in ChildTables : i \in children[t]
  /\ \A i \in Items : partnerOf[i] \in partners \cup {NoPartner}
  /\ Direct \in partners

(* Child tables the running refresh has read.                              *)
Read == {t \in ChildTables : \E k \in 2..step : LoadOrder[k] = t}

(* The refresh in progress.  Whatever was committed since its first SELECT *)
(* only added child rows and partners for the items it has loaded.         *)
BuildingOK ==
  /\ step = 0 => building.items = {}
  /\ \A i \in building.items : status[i] # "absent"
  /\ \A i \in building.items : building.partnerOf[i] \in partners \cup {NoPartner}
  /\ \A t \in Read : building.items \subseteq building.children[t]
  /\ step = 6 => \A i \in building.items :
                   building.partnerOf[i] \in building.partners \cup {NoPartner}

(* The inductive invariant behind the two theorems.                        *)
SnapshotInv ==
  RefreshTypeOK /\ TablesOK /\ BuildingOK /\ SnapshotComplete /\ PartnerResolves

(* The empty catalogue is a snapshot without items.                        *)
LEMMA EmptyFacts ==
  Empty \in Snapshot /\ Empty.items = {}
BY CatalogAssumption DEF Empty, Snapshot, MaybePartner

(* The SELECTs that have been made, one more after each step.              *)
LEMMA ReadFacts ==
  ASSUME step \in 0..6
  PROVE  /\ step < 2 => Read = {}
         /\ step = 6 => Read = ChildTables
BY LoadOrderFacts DEF Read, ChildTables

(* A commit of another process (cmd_seed, set_item_status, the operator)   *)
(* never invalidates what the refresh has read.                            *)
LEMMA WritersKeep ==
  ASSUME SnapshotInv, Writers
  PROVE  SnapshotInv'
<1> USE CatalogAssumption
<1>1. /\ UNCHANGED <<step, building, served, serving, failed>>
      /\ edits' \in 0..MaxEdits
      /\ Read' = Read
      /\ SnapshotComplete' /\ PartnerResolves'
  BY DEF Writers, Seed, SetItemStatus, AddPartner, MoveItem, Edit, noEdit,
         SnapshotInv, RefreshTypeOK, Read, SnapshotComplete, PartnerResolves
<1>2. ASSUME NEW new \in SUBSET Items, Seed(new) PROVE SnapshotInv'
  <2>1. /\ status' = [i \in Items |-> IF i \in new THEN "published" ELSE status[i]]
        /\ partnerOf' = [i \in Items |-> IF i \in new THEN Direct ELSE partnerOf[i]]
        /\ children' = [t \in ChildTables |-> children[t] \cup new]
        /\ partners' = partners
        /\ \A i \in new : status[i] = "absent"
    BY <1>2 DEF Seed
  <2>2. RefreshTypeOK'
    BY <1>1, <2>1 DEF SnapshotInv, RefreshTypeOK, ItemStatus, MaybePartner
  <2>3. TablesOK'
    BY <2>1 DEF SnapshotInv, TablesOK, RefreshTypeOK
  <2>4. BuildingOK'
    BY <1>1, <2>1 DEF SnapshotInv, BuildingOK, RefreshTypeOK, Snapshot
  <2> QED
    BY <1>1, <2>2, <2>3, <2>4 DEF SnapshotInv
<1>3. ASSUME NEW i \in Items, NEW st \in ItemStatus \ {"absent"},
             SetItemStatus(i, st)
      PROVE  SnapshotInv'
  <2>1. /\ status[i] # "absent" /\ status' = [status EXCEPT ![i] = st]
        /\ UNCHANGED <<partnerOf, children, partners>>
    BY <1>3 DEF SetItemStatus
  <2>2. RefreshTypeOK'
    BY <1>1, <2>1 DEF SnapshotInv, RefreshTypeOK
  <2>3. TablesOK'
    BY <2>1 DEF SnapshotInv, TablesOK, RefreshTypeOK
  <2>4. BuildingOK'
    BY <1>1, <2>1 DEF SnapshotInv, BuildingOK, RefreshTypeOK, Snapshot
  <2> QED
    BY <1>1, <2>2, <2>3, <2>4 DEF SnapshotInv
<1>4. ASSUME NEW p \in Partners, AddPartner(p) PROVE SnapshotInv'
  BY <1>1, <1>4 DEF AddPartner, SnapshotInv, RefreshTypeOK, TablesOK, BuildingOK
<1>5. ASSUME NEW i \in Items, NEW p \in MaybePartner, MoveItem(i, p)
      PROVE  SnapshotInv'
  BY <1>1, <1>5 DEF MoveItem, SnapshotInv, RefreshTypeOK, TablesOK, BuildingOK
<1> QED
  BY <1>2, <1>3, <1>4, <1>5 DEF Writers

(* One SELECT of load_published_items or list_partners.  A child SELECT    *)
(* finds rows for every item loaded before it; the partners SELECT finds   *)
(* every partner the items were loaded with.                               *)
LEMMA SelectKeeps ==
  ASSUME SnapshotInv, Select
  PROVE  SnapshotInv'
<1> DEFINE t == LoadOrder[step + 1]
<1>1. /\ step \in 0..5 /\ step' = step + 1 /\ step' \in 1..6
      /\ UNCHANGED <<status, partnerOf, children, partners, edits, served, serving,
                     failed>>
      /\ building \in Snapshot
  BY LoadOrderFacts DEF Select, SnapshotInv, RefreshTypeOK, noRefresh, tables
<1>2. /\ TablesOK' /\ SnapshotComplete' /\ PartnerResolves'
  BY <1>1 DEF SnapshotInv, TablesOK, SnapshotComplete, PartnerResolves
<1>3. CASE step = 0
  <2>1. building' = [building EXCEPT
                       !.items = {i \in Items : status[i] = "published"},
                       !.partnerOf = partnerOf]
    BY <1>3, LoadOrderFacts DEF Select
  <2>2. /\ building' \in Snapshot
        /\ building'.items = {i \in Items : status[i] = "published"}
        /\ building'.partnerOf = partnerOf
    BY <1>1, <2>1 DEF Snapshot, SnapshotInv, RefreshTypeOK
  <2>3. step' = 1 /\ Read' = {}
    BY <1>1, <1>3 DEF Read
  <2>4. BuildingOK'
    BY <1>1, <2>2, <2>3 DEF BuildingOK, SnapshotInv, TablesOK
  <2>5. RefreshTypeOK'
    BY <1>1, <2>2, <2>3, LoadOrderFacts DEF SnapshotInv, RefreshTypeOK
  <2> QED
    BY <1>2, <2>4, <2>5 DEF SnapshotInv
<1>4. CASE step = 5
  <2>1. building' = [building EXCEPT !.partners = partners]
    BY <1>4, LoadOrderFacts DEF Select
  <2>2. /\ building' \in Snapshot /\ building'.partners = partners
        /\ building'.items = building.items
        /\ building'.partnerOf = building.partnerOf
        /\ building'.children = building.children
    BY <1>1, <2>1 DEF Snapshot, SnapshotInv, RefreshTypeOK
  <2>3. step' = 6
    BY <1>1, <1>4
  <2>4. Read' = Read
    BY <1>4, <2>3, LoadOrderFacts DEF Read, ChildTables
  <2>5. BuildingOK'
    BY <1>1, <2>2, <2>3, <2>4 DEF BuildingOK, SnapshotInv
  <2>6. RefreshTypeOK'
    BY <1>1, <2>2, <2>3, LoadOrderFacts DEF SnapshotInv, RefreshTypeOK
  <2> QED
    BY <1>2, <2>5, <2>6 DEF SnapshotInv
<1>5. CASE step \in 1..4
  <2>1. t \in ChildTables /\ t # "items" /\ t # "partners"
    BY <1>5, LoadOrderFacts DEF ChildTables
  <2>2. building' = [building EXCEPT !.children[t] =
                                       children[t] \cap building.items]
    BY <2>1 DEF Select
  <2>3. /\ building' \in Snapshot
        /\ building'.items = building.items
        /\ building'.partnerOf = building.partnerOf
        /\ building'.children =
             [building.children EXCEPT ![t] = children[t] \cap building.items]
    BY <1>1, <2>1, <2>2 DEF Snapshot, SnapshotInv, RefreshTypeOK
  <2>4. step' \in 2..5
    BY <1>1, <1>5
  <2>5. Read' \subseteq Read \cup {t}
    BY <1>1, <1>5 DEF Read
  <2>6. building.items \subseteq children[t]
    BY <1>1, <2>1 DEF Snapshot, SnapshotInv, BuildingOK, TablesOK
  <2>7. \A u \in Read' : building.items \subseteq building'.children[u]
    <3> TAKE u \in Read'
    <3>1. u \in ChildTables /\ building.children \in [ChildTables -> SUBSET Items]
      BY <1>1 DEF Read, Snapshot
    <3>2. CASE u = t
      BY <2>3, <2>6, <3>1, <3>2
    <3>3. CASE u # t
      BY <2>3, <2>5, <3>1, <3>3 DEF SnapshotInv, BuildingOK
    <3> QED
      BY <3>2, <3>3
  <2>8. BuildingOK'
    BY <1>1, <2>3, <2>4, <2>7 DEF BuildingOK, SnapshotInv
  <2>9. RefreshTypeOK'
    BY <1>1, <2>3, <2>4, LoadOrderFacts DEF SnapshotInv, RefreshTypeOK
  <2> QED
    BY <1>2, <2>8, <2>9 DEF SnapshotInv
<1> QED
  BY <1>1, <1>3, <1>4, <1>5

(* CatalogHandle::set swaps in what was built: all six reads are done.     *)
LEMMA PublishKeeps ==
  ASSUME SnapshotInv, Publish
  PROVE  SnapshotInv'
<1>1. /\ step = 6 /\ served' = building /\ building' = Empty /\ step' = 0
      /\ serving' = TRUE
      /\ UNCHANGED <<status, partnerOf, children, partners, edits, failed>>
  BY LoadOrderFacts DEF Publish, noRefresh, tables
<1>2. SnapshotComplete' /\ PartnerResolves'
  BY <1>1, ReadFacts
  DEF SnapshotInv, BuildingOK, SnapshotComplete, PartnerResolves
<1>3. RefreshTypeOK' /\ TablesOK'
  BY <1>1, EmptyFacts, LoadOrderFacts DEF SnapshotInv, RefreshTypeOK, TablesOK
<1>4. Read' = {}
  BY <1>1 DEF Read
<1>5. BuildingOK'
  BY <1>1, <1>4, EmptyFacts DEF BuildingOK
<1> QED
  BY <1>2, <1>3, <1>5 DEF SnapshotInv

(* A refresh that throws keeps the snapshot being served; a process that   *)
(* comes back starts with the empty one.                                   *)
LEMMA DiscardKeeps ==
  ASSUME SnapshotInv, RefreshFail \/ Restart
  PROVE  SnapshotInv'
<1>1. /\ building' = Empty /\ step' = 0 /\ served' \in {served, Empty}
      /\ UNCHANGED <<status, partnerOf, children, partners, edits>>
  BY DEF RefreshFail, Restart, noRefresh, tables
<1>1a. failed' \in 0..MaxRefreshFailures
  BY CatalogAssumption DEF RefreshFail, Restart, SnapshotInv, RefreshTypeOK
<1>1b. serving' \in BOOLEAN
  BY Zenon DEF RefreshFail, Restart, SnapshotInv, RefreshTypeOK
<1>2. SnapshotComplete' /\ PartnerResolves'
  BY <1>1, EmptyFacts DEF SnapshotInv, SnapshotComplete, PartnerResolves
<1>3. RefreshTypeOK' /\ TablesOK'
  BY <1>1, <1>1a, <1>1b, EmptyFacts, LoadOrderFacts
  DEF SnapshotInv, RefreshTypeOK, TablesOK
<1>4. Read' = {}
  BY <1>1 DEF Read
<1>5. BuildingOK'
  BY <1>1, <1>4, EmptyFacts DEF BuildingOK
<1> QED
  BY <1>2, <1>3, <1>5 DEF SnapshotInv

(* The invariant holds in every reachable state.                           *)
LEMMA SnapshotInvariant == RefreshSpec => []SnapshotInv
<1>1. RefreshInit => SnapshotInv
  <2> SUFFICES ASSUME RefreshInit PROVE SnapshotInv
    OBVIOUS
  <2> USE CatalogAssumption
  <2>1. RefreshTypeOK
    <3>1. /\ status \in [Items -> ItemStatus]
          /\ partnerOf \in [Items -> MaybePartner]
          /\ children \in [ChildTables -> SUBSET Items]
          /\ partners \subseteq Partners
          /\ \A t \in ChildTables : children[t] = {}
      BY DEF RefreshInit, ItemStatus, MaybePartner
    <3>2. /\ step \in 0..Len(LoadOrder)
          /\ edits \in 0..MaxEdits /\ failed \in 0..MaxRefreshFailures
      BY LoadOrderFacts DEF RefreshInit
    <3>3. building \in Snapshot /\ served \in Snapshot /\ serving \in BOOLEAN
      BY EmptyFacts DEF RefreshInit
    <3> QED
      BY <3>1, <3>2, <3>3 DEF RefreshTypeOK
  <2>2. TablesOK
    BY DEF RefreshInit, TablesOK
  <2>3. Read = {}
    BY DEF RefreshInit, Read
  <2>4. BuildingOK
    BY <2>3, EmptyFacts DEF RefreshInit, BuildingOK
  <2>5. SnapshotComplete /\ PartnerResolves
    BY EmptyFacts DEF RefreshInit, SnapshotComplete, PartnerResolves
  <2> QED
    BY <2>1, <2>2, <2>4, <2>5 DEF SnapshotInv
<1>2. SnapshotInv /\ [RefreshNext]_refreshVars => SnapshotInv'
  <2>1. SnapshotInv /\ UNCHANGED refreshVars => SnapshotInv'
    BY DEF SnapshotInv, RefreshTypeOK, TablesOK, BuildingOK, Read, SnapshotComplete,
           PartnerResolves, refreshVars, tables
  <2> QED
    BY <2>1, WritersKeep, SelectKeeps, PublishKeeps, DiscardKeeps
    DEF RefreshNext, Refresh
<1> QED
  BY <1>1, <1>2, PTL DEF RefreshSpec

(* The tables, the snapshot being built and the one on show have their      *)
(* types throughout (list_partners, load_published_items, Catalog).         *)
THEOREM TypeCorrect == RefreshSpec => []RefreshTypeOK
<1>1. SnapshotInv => RefreshTypeOK
  BY DEF SnapshotInv
<1> QED
  BY <1>1, SnapshotInvariant, PTL

(* No request ever sees an item without its images, tags, sizes and        *)
(* colours, whatever is committed between the SELECTs                      *)
(* (load_published_items).                                                 *)
THEOREM SnapshotsComplete == RefreshSpec => []SnapshotComplete
<1>1. SnapshotInv => SnapshotComplete
  BY DEF SnapshotInv
<1> QED
  BY <1>1, SnapshotInvariant, PTL

(* No item is on show with a partner that the same snapshot does not know  *)
(* (refresh: load_published_items before list_partners).                   *)
THEOREM PartnersResolve == RefreshSpec => []PartnerResolves
<1>1. SnapshotInv => PartnerResolves
  BY DEF SnapshotInv
<1> QED
  BY <1>1, SnapshotInvariant, PTL
=============================================================================

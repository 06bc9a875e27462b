------------------------- MODULE InventorySyncProofs -------------------------
(***************************************************************************)
(* Proofs about InventorySync: whatever is lost, pruned, replaced or          *)
(* restored, an accepted inventory shows what was last observed, and without  *)
(* a restore the scans are accepted in their order, for every set of          *)
(* sections, values and observations and every number of scans and rows.      *)
(***************************************************************************)
EXTENDS InventorySync, SequenceTheorems, WellFoundedInduction, TLAPS

-----------------------------------------------------------------------------
(* Numbers                                                                  *)

LEMMA HasMaximum ==
    ASSUME NEW n \in Nat, NEW S, S \subseteq 0..n, S # {}
    PROVE  \E m \in S : \A l \in S : l <= m
<1> DEFINE R == OpToRel(<, Nat)
           T == {n - s : s \in S}
<1>1. IsWellFoundedOn(R, Nat)
  BY NatLessThanWellFounded
<1>2. \A a, b \in Nat : <<a, b>> \in R <=> a < b
  BY DEF R, OpToRel
<1> HIDE DEF R
<1>3. T \subseteq Nat /\ T # {}
  <2>1. \A s \in S : s \in Nat /\ s <= n
    OBVIOUS
  <2>2. \A s \in S : n - s \in Nat
    BY <2>1
  <2> QED
    BY <2>2
<1>4. \E x \in T : \A y \in T : ~ (y < x)
  <2> HIDE DEF T
  <2>1. PICK x \in T : \A y \in T : ~ (<<y, x>> \in R)
    BY <1>1, <1>3, WFMin
  <2>2. \A y \in T : ~ (y < x)
    BY <1>2, <1>3, <2>1
  <2> QED
    BY <2>2
<1>5. PICK m \in S : \A y \in T : ~ (y < n - m)
  BY <1>4
<1>6. ASSUME NEW l \in S PROVE l <= m
  <2>1. ~ (n - l < n - m)
    BY <1>5
  <2>2. l \in 0..n /\ m \in 0..n
    OBVIOUS
  <2> QED
    BY <2>1, <2>2
<1> QED
  BY <1>6

-----------------------------------------------------------------------------
(* Inventories and their differences                                        *)

Kept == (Sections \ Telemetry) \cup {Completeness}
Contents == Values \cup SUBSET Sections
Inventories == UNION {[D -> Contents] : D \in SUBSET Kept}

Snap == [inv : Inventories, prev : Nat, initial : BOOLEAN, changes : SUBSET Kept]

LEMMA InventoryIs ==
    ASSUME NEW f \in Inventories
    PROVE  /\ DOMAIN f \subseteq Kept /\ f = [s \in DOMAIN f |-> f[s]]
           /\ \A s \in DOMAIN f : f[s] \in Contents
<1>1. PICK D \in SUBSET Kept : f \in [D -> Contents]
  BY DEF Inventories
<1> QED
  BY <1>1

LEMMA IsInventory ==
    ASSUME NEW D \in SUBSET Kept, NEW f \in [D -> Contents]
    PROVE  f \in Inventories
BY DEF Inventories

LEMMA NormalIsItself ==
    ASSUME NEW f \in Inventories
    PROVE  Normalized(f) = f
<1>1. DOMAIN f \subseteq Kept /\ f = [s \in DOMAIN f |-> f[s]]
  BY InventoryIs
<1>2. Kept \cap Telemetry = {}
  BY InventoryAssumption DEF Kept
<1>3. DOMAIN f \ Telemetry = DOMAIN f
  BY <1>1, <1>2
<1>4. Normalized(f) = [s \in DOMAIN f |-> f[s]]
  BY <1>3 DEF Normalized
<1> QED
  BY <1>1, <1>4

\* What a delta makes of a base.
Applied(base, sections, removed) ==
    [s \in (DOMAIN base \cup DOMAIN sections) \ removed |->
        IF s \in DOMAIN sections THEN sections[s] ELSE base[s]]

(* A difference applied to the inventory it was taken from gives the other.    *)
LEMMA DifferenceApplies ==
    ASSUME NEW snap \in Snap, NEW a \in Inventories, snap.changes = Changes(a, snap.inv)
    PROVE  /\ Applied(a, Replaced(snap), Removed(snap)) = snap.inv
           /\ Replaced(snap) \in Inventories /\ Removed(snap) \subseteq Kept
           /\ DOMAIN Replaced(snap) \cap Removed(snap) = {}
           /\ DOMAIN Replaced(snap) \cup Removed(snap) = snap.changes
<1> DEFINE b == snap.inv
           new == Replaced(snap)
           gone == Removed(snap)
<1>1. /\ b \in Inventories /\ new = [s \in Changes(a, b) \cap DOMAIN b |-> b[s]]
      /\ gone = Changes(a, b) \ DOMAIN b /\ snap.changes = Changes(a, b)
  BY DEF Snap, Replaced, Removed
<1> HIDE DEF b, new, gone
<1>2. /\ DOMAIN a \subseteq Kept /\ DOMAIN b \subseteq Kept /\ b = [s \in DOMAIN b |-> b[s]]
      /\ \A s \in DOMAIN b : b[s] \in Contents
  BY <1>1, InventoryIs
<1>3. \A s : s \in Changes(a, b) <=>
              /\ s \in DOMAIN a \cup DOMAIN b
              /\ ~(s \in DOMAIN a /\ s \in DOMAIN b /\ a[s] = b[s])
  BY DEF Changes
<1>4. DOMAIN new = Changes(a, b) \cap DOMAIN b /\ \A s \in DOMAIN new : new[s] = b[s]
  BY <1>1
<1> DEFINE D == (DOMAIN a \cup DOMAIN new) \ gone
<1>5. D = DOMAIN b
  BY <1>1, <1>3, <1>4
<1>6. \A s \in D : (IF s \in DOMAIN new THEN new[s] ELSE a[s]) = b[s]
  BY <1>3, <1>4, <1>5
<1>7. Applied(a, new, gone) = [s \in DOMAIN b |-> b[s]]
  <2>1. Applied(a, new, gone) = [s \in D |-> IF s \in DOMAIN new THEN new[s] ELSE a[s]]
    BY DEF Applied
  <2> HIDE DEF D
  <2> QED
    BY <1>5, <1>6, <2>1
<1>8. new \in Inventories
  <2>1. new \in [Changes(a, b) \cap DOMAIN b -> Contents]
    BY <1>1, <1>2
  <2> QED
    BY <1>2, <2>1, IsInventory
<1>9. gone \subseteq Kept /\ DOMAIN new \cap gone = {} /\ DOMAIN new \cup gone = Changes(a, b)
  BY <1>1, <1>2, <1>3, <1>4
<1> QED
  BY <1>1, <1>2, <1>7, <1>8, <1>9 DEF b, new, gone

LEMMA NoDifference ==
    ASSUME NEW a \in Inventories, NEW b \in Inventories, Changes(a, b) = {}
    PROVE  a = b
<1>1. a = [s \in DOMAIN a |-> a[s]] /\ b = [s \in DOMAIN b |-> b[s]]
  BY InventoryIs
<1>2. DOMAIN a = DOMAIN b /\ \A s \in DOMAIN b : a[s] = b[s]
  BY DEF Changes
<1> QED
  BY <1>1, <1>2

-----------------------------------------------------------------------------
(* Documents                                                                *)

Doc == [scan : Nat, mode : {"full", "delta", "unchanged"}, hash : Inventories,
        previous : Inventories \cup {None}, snapshot : Inventories, sections : Inventories,
        removed : SUBSET Kept]

\* A document describes the inventory it gives the hash of: by itself, or by
\* its difference to the one whose hash it gives as previous.
Fits(doc) ==
    /\ doc \in Doc /\ WellFormed(doc)
    /\ doc.mode = "full" => doc.snapshot = doc.hash
    /\ doc.mode = "unchanged" => doc.previous = doc.hash
    /\ doc.mode = "delta" =>
         doc.previous \in Inventories /\ Described(doc, doc.previous) = doc.hash

\* A snapshot is a baseline, or holds its difference to one that is stored.
Linked(table, k) ==
    /\ table[k] \in Snap
    /\ table[k].initial => table[k].prev = 0
    /\ ~table[k].initial =>
         /\ table[k].prev \in 1..(k - 1) /\ table[table[k].prev] \in Snap
         /\ table[k].changes = Changes(table[table[k].prev].inv, table[k].inv)

LEMMA EmptyIsInventory == Empty \in Inventories
<1>1. Empty \in [{} -> Contents]
  BY DEF Empty
<1> QED
  BY <1>1, IsInventory

LEMMA FullFits ==
    ASSUME NEW k \in Nat, NEW inv \in Inventories
    PROVE  /\ Fits(Full(k, inv, None)) /\ Full(k, inv, None).hash = inv
           /\ Full(k, inv, None).scan = k /\ Full(k, inv, None).mode = "full"
           /\ Full(k, inv, None).previous = None
BY EmptyIsInventory DEF Full, Fits, Doc, WellFormed, Empty

LEMMA PayloadFits ==
    ASSUME NEW table, NEW k \in Nat, Linked(table, k)
    PROVE  /\ Fits(Payload(table, k))
           /\ Payload(table, k).hash = table[k].inv /\ Payload(table, k).scan = k
           /\ table[k].initial => Payload(table, k).mode = "full" /\ Payload(table, k).previous = None
           /\ ~table[k].initial => /\ Payload(table, k).mode # "full"
                                   /\ Payload(table, k).previous = table[table[k].prev].inv
<1> DEFINE snap == table[k]
           base == table[snap.prev].inv
           doc == [scan |-> k, mode |-> "delta", hash |-> snap.inv,
                   previous |-> PreviousHash(table, snap), snapshot |-> Empty,
                   sections |-> Replaced(snap), removed |-> Removed(snap)]
<1>1. snap \in Snap /\ snap.inv \in Inventories /\ snap.initial \in BOOLEAN
  BY DEF Linked, Snap
<1>2. CASE snap.initial
  <2>1. snap.prev = 0
    BY <1>2 DEF Linked
  <2>2. Payload(table, k) = Full(k, snap.inv, None)
    BY <1>2, <2>1 DEF Payload, PreviousHash
  <2> QED
    BY <1>1, <1>2, <2>2, FullFits
<1>3. CASE ~snap.initial
  <2>1. /\ snap.prev # 0 /\ base \in Inventories /\ snap.changes = Changes(base, snap.inv)
    BY <1>3 DEF Linked, Snap
  <2>2. PreviousHash(table, snap) = base
    BY <2>1 DEF PreviousHash
  <2>3. /\ Applied(base, Replaced(snap), Removed(snap)) = snap.inv
        /\ Replaced(snap) \in Inventories /\ Removed(snap) \subseteq Kept
        /\ DOMAIN Replaced(snap) \cap Removed(snap) = {}
        /\ DOMAIN Replaced(snap) \cup Removed(snap) = snap.changes
    <3> HIDE DEF snap, base
    <3> QED
      BY <1>1, <2>1, DifferenceApplies
  <2>4. doc \in Doc
    BY <1>1, <2>1, <2>2, <2>3, EmptyIsInventory DEF Doc
  <2>5. CASE snap.changes = {}
    <3>1. Payload(table, k) = [doc EXCEPT !.mode = "unchanged"]
      BY <1>3, <2>5 DEF Payload
    <3>2. base = snap.inv
      BY <1>1, <2>1, <2>5, NoDifference
    <3> QED
      BY <1>3, <2>2, <2>3, <2>4, <3>1, <3>2 DEF Fits, Doc, WellFormed
  <2>6. CASE snap.changes # {}
    <3>1. Payload(table, k) = doc
      BY <1>3, <2>6 DEF Payload
    <3>2. /\ doc.mode = "delta" /\ doc.previous = base /\ doc.hash = snap.inv /\ doc.scan = k
          /\ doc.sections = Replaced(snap) /\ doc.removed = Removed(snap)
      BY <2>2
    <3> HIDE DEF doc
    <3>3. Described(doc, base) = Applied(base, doc.sections, doc.removed)
      BY <3>2 DEF Described, Applied
    <3>4. WellFormed(doc)
      BY <2>3, <2>6, <3>2 DEF WellFormed
    <3> QED
      BY <1>3, <2>1, <2>3, <2>4, <3>1, <3>2, <3>3, <3>4 DEF Fits
  <2> QED
    BY <2>5, <2>6
<1> QED
  BY <1>1, <1>2, <1>3

-----------------------------------------------------------------------------
(* What was last observed                                                   *)

Shown(inv, s) == IF s \in DOMAIN inv THEN inv[s] ELSE None

Shows(inv, k) == \A s \in Sections \ Telemetry : Shown(inv, s) = LastSeen(k, s)

SnapsOK ==
    /\ seen \in Seq(Observations) /\ snaps \in Seq(Snap \cup {None}) /\ Len(seen) = Len(snaps)
    /\ snaps # <<>> => snaps[Latest] \in Snap /\ Shows(snaps[Latest].inv, Latest)
    /\ \A k \in Stored : Linked(snaps, k) /\ Shows(snaps[k].inv, k)

\* LastSeen, by the scans that looked at the section.
Looked(table, k, s) == {n \in 1..k : s \in table[n].observed}
Newer(looked) == CHOOSE m \in looked : \A l \in looked : l <= m
SeenBy(looked, table, s) ==
    IF looked = {} \/ s \notin DOMAIN table[Newer(looked)].values THEN None
    ELSE table[Newer(looked)].values[s]

LEMMA LastSeenIs ==
    ASSUME NEW k, NEW s
    PROVE  /\ LastSeen(k, s) = SeenBy(Looked(seen, k, s), seen, s)
           /\ LastSeen(k, s)' = SeenBy(Looked(seen', k, s), seen', s)
BY Zenon DEF LastSeen, SeenBy, Looked, Newer

(* A later scan does not change what earlier ones have seen.                 *)
LEMMA SeenKept ==
    ASSUME seen \in Seq(Observations), NEW o \in Observations, seen' = Append(seen, o),
           NEW k \in 0..Len(seen), NEW s
    PROVE  LastSeen(k, s)' = LastSeen(k, s)
<1> DEFINE looked == Looked(seen, k, s)
<1>1. k \in Nat /\ Len(seen) \in Nat /\ k <= Len(seen)
  OBVIOUS
<1>2. \A n \in 1..k : seen'[n] = seen[n]
  BY <1>1, AppendProperties
<1>3. Looked(seen', k, s) = looked /\ looked \subseteq 1..k
  BY <1>2 DEF Looked
<1> HIDE DEF looked
<1>4. looked # {} => Newer(looked) \in 1..k
  <2>1. looked \subseteq 0..k
    BY <1>1, <1>3
  <2>2. looked # {} => \E m \in looked : \A l \in looked : l <= m
    BY <1>1, <2>1, HasMaximum
  <2>3. looked # {} => Newer(looked) \in looked
    BY <2>2 DEF Newer
  <2> QED
    BY <1>3, <2>3
<1>5. looked # {} => seen'[Newer(looked)] = seen[Newer(looked)]
  BY <1>2, <1>4
<1>6. SeenBy(looked, seen', s) = SeenBy(looked, seen, s)
  BY <1>5 DEF SeenBy
<1> QED
  BY <1>3, <1>6, LastSeenIs DEF looked

LEMMA ShowsKept ==
    ASSUME seen \in Seq(Observations), NEW o \in Observations, seen' = Append(seen, o),
           NEW k \in 1..Len(seen), NEW inv, Shows(inv, k)
    PROVE  Shows(inv, k)'
<1>1. k \in 0..Len(seen)
  OBVIOUS
<1>2. \A s : LastSeen(k, s)' = LastSeen(k, s)
  BY <1>1, SeenKept
<1> QED
  BY <1>2 DEF Shows, Shown

(* What a scan has seen itself, and what it has not.                         *)
LEMMA SeenNow ==
    ASSUME seen \in Seq(Observations), NEW o \in Observations, seen' = Append(seen, o),
           NEW k, k = Len(seen) + 1, NEW s
    PROVE  /\ s \in o.observed => LastSeen(k, s)' = Shown(o.values, s)
           /\ s \notin o.observed => LastSeen(k, s)' = LastSeen(k - 1, s)
<1> DEFINE looked == Looked(seen', k, s)
<1>1. Len(seen) \in Nat /\ k \in Nat /\ k > 0 /\ k - 1 = Len(seen) /\ k - 1 \in 0..Len(seen)
  OBVIOUS
<1>2. seen'[k] = o /\ \A n \in 1..(k - 1) : seen'[n] = seen[n]
  BY <1>1, AppendProperties
<1>3. LastSeen(k, s)' = SeenBy(looked, seen', s)
  BY LastSeenIs
<1>4. ASSUME s \in o.observed PROVE LastSeen(k, s)' = Shown(o.values, s)
  <2>1. k \in looked /\ looked \subseteq 1..k
    BY <1>1, <1>2, <1>4 DEF Looked
  <2> HIDE DEF looked
  <2>2. Newer(looked) = k
    <3>1. \A l \in looked : l <= k
      BY <1>1, <2>1
    <3>2. \A m \in looked : (\A l \in looked : l <= m) => m = k
      BY <1>1, <2>1
    <3> QED
      BY <2>1, <3>1, <3>2 DEF Newer
  <2> QED
    BY <1>2, <1>3, <2>1, <2>2 DEF Shown, SeenBy
<1>5. ASSUME s \notin o.observed PROVE LastSeen(k, s)' = LastSeen(k - 1, s)
  <2> DEFINE j == k - 1
  <2>1. j \in 0..Len(seen) /\ \A n : n \in 1..k <=> n \in 1..j \/ n = k
    BY <1>1
  <2> HIDE DEF j
  <2>2. Looked(seen', k, s) = Looked(seen', j, s)
    BY <1>2, <1>5, <2>1 DEF Looked
  <2>3. LastSeen(k, s)' = LastSeen(j, s)'
    BY <2>2, LastSeenIs
  <2>4. LastSeen(j, s)' = LastSeen(j, s)
    BY <2>1, SeenKept
  <2> QED
    BY <2>3, <2>4 DEF j
<1> QED
  BY <1>4, <1>5

(* The inventory a scan stores shows what it saw and carries what it did not. *)
LEMMA InventoryShows ==
    ASSUME SnapsOK, NEW o \in Observations, seen' = Append(seen, o),
           NEW k, k = Latest + 1, NEW inv, inv = Inventory(o)
    PROVE  inv \in Inventories /\ Shows(inv, k)'
<1> DEFINE carried == Carried(o.observed)
           D == DOMAIN o.values \cup carried \cup {Completeness}
           whole == [s \in D |-> IF s = Completeness THEN o.observed
                                 ELSE IF s \in o.observed THEN o.values[s]
                                 ELSE snaps[Latest].inv[s]]
<1>1. /\ o.observed \subseteq Sections /\ DOMAIN o.values \subseteq o.observed
      /\ \A s \in DOMAIN o.values : o.values[s] \in Values
      /\ Telemetry \subseteq Sections /\ Completeness \notin Sections
  BY InventoryAssumption DEF Observation
<1>2. inv = [s \in D \ Telemetry |-> whole[s]]
  BY DEF Inventory, Normalized
<1>3. DOMAIN inv = D \ Telemetry /\ \A s \in DOMAIN inv :
          inv[s] = IF s = Completeness THEN o.observed
                   ELSE IF s \in o.observed THEN o.values[s] ELSE snaps[Latest].inv[s]
  BY <1>2
<1>4. /\ Len(seen) = Latest /\ Latest \in Nat /\ seen \in Seq(Observations)
      /\ snaps = <<>> <=> Latest = 0
  BY DEF SnapsOK, Latest
<1>5. snaps # <<>> => /\ snaps[Latest].inv \in Inventories /\ Shows(snaps[Latest].inv, Latest)
                     /\ carried = DOMAIN snaps[Latest].inv \ (o.observed \cup {Completeness})
  BY DEF SnapsOK, Snap, Carried
<1>6. snaps = <<>> => carried = {}
  BY DEF Carried
<1> HIDE DEF carried, whole
<1>7. inv \in Inventories
  <2>1. carried \subseteq Kept /\ \A s \in carried : snaps[Latest].inv[s] \in Contents
    BY <1>5, <1>6, InventoryIs
  <2>2. D \ Telemetry \subseteq Kept
    BY <1>1, <2>1 DEF Kept
  <2>3. ASSUME NEW s \in D \ Telemetry PROVE inv[s] \in Contents
    <3>1. CASE s = Completeness
      BY <1>1, <1>3, <3>1 DEF Contents
    <3>2. CASE s # Completeness /\ s \in o.observed
      <4>1. s \in DOMAIN o.values
        BY <1>5, <1>6, <3>2
      <4> QED
        BY <1>1, <1>3, <3>2, <4>1 DEF Contents
    <3>3. CASE s # Completeness /\ s \notin o.observed
      <4>1. s \in carried
        BY <1>1, <3>3
      <4> QED
        BY <1>3, <2>1, <3>3, <4>1
    <3> QED
      BY <3>1, <3>2, <3>3
  <2>4. inv \in [D \ Telemetry -> Contents]
    BY <1>2, <2>3
  <2> QED
    BY <2>2, <2>4, IsInventory
<1>8. ASSUME NEW s \in Sections \ Telemetry
      PROVE  Shown(inv, s) = LastSeen(k, s)'
  <2>1. s # Completeness /\ k = Len(seen) + 1
    BY <1>1, <1>4, <1>8
  <2>2. CASE s \in o.observed
    <3>1. LastSeen(k, s)' = Shown(o.values, s)
      BY <1>4, <2>1, <2>2, SeenNow
    <3>2. s \in DOMAIN inv <=> s \in DOMAIN o.values
      BY <1>3, <1>5, <1>6, <2>1, <2>2
    <3> QED
      BY <1>3, <2>1, <2>2, <3>1, <3>2 DEF Shown
  <2>3. CASE s \notin o.observed
    <3>1. LastSeen(k, s)' = LastSeen(k - 1, s) /\ k - 1 = Latest
      BY <1>4, <2>1, <2>3, SeenNow
    <3>2. s \in DOMAIN inv <=> s \in carried
      BY <1>1, <1>3, <2>1, <2>3
    <3>3. CASE snaps = <<>>
      <4>1. LastSeen(0, s) = None
        <5>1. {n \in 1..0 : s \in seen[n].observed} = {}
          OBVIOUS
        <5> QED
          BY <5>1 DEF LastSeen
      <4> QED
        BY <1>4, <1>6, <3>1, <3>2, <3>3, <4>1 DEF Shown
    <3>4. CASE snaps # <<>>
      <4>1. Shown(snaps[Latest].inv, s) = LastSeen(Latest, s)
        BY <1>5, <3>4 DEF Shows
      <4>2. s \in carried <=> s \in DOMAIN snaps[Latest].inv
        BY <1>5, <2>1, <2>3, <3>4
      <4> QED
        BY <1>3, <2>1, <2>3, <3>1, <3>2, <4>1, <4>2 DEF Shown
    <3> QED
      BY <3>3, <3>4
  <2> QED
    BY <2>2, <2>3
<1>9. Shows(inv, k)'
  BY <1>8 DEF Shows, Shown
<1> QED
  BY <1>7, <1>9

-----------------------------------------------------------------------------
(* Tables                                                                   *)

RowType == [doc : Doc, status : {"PENDING", "SUCCEEDED", "DEAD", "GONE"}, pred : Nat, by : Nat,
            recovery : BOOLEAN]
Upload == [doc : Doc, row : Nat, inv : Inventories]

\* A document that describes what was last observed up to its scan.
Good(doc) == Fits(doc) /\ doc.scan \in 1..Len(seen) /\ Shows(doc.hash, doc.scan)

GoodTable(table) == table \in Seq(RowType) /\ \A i \in DOMAIN table : Good(table[i].doc)

GoodLog(log) ==
    /\ log \in Seq(Upload)
    /\ \A n \in DOMAIN log : Good(log[n].doc) /\ log[n].inv = log[n].doc.hash

SyncInv == SnapsOK /\ GoodTable(rows) /\ GoodLog(accepted)

\* A step adds at most one observation.
SeenOnly == seen' = seen \/ \E o \in Observations : seen' = Append(seen, o)

LEMMA GoodKept ==
    ASSUME seen \in Seq(Observations), NEW doc, Good(doc),
           SeenOnly
    PROVE  Good(doc)'
<1>1. CASE seen' = seen
  BY <1>1 DEF Good, Shows, Shown, LastSeen
<1>2. ASSUME NEW o \in Observations, seen' = Append(seen, o)
      PROVE  Good(doc)'
  <2>1. Fits(doc) /\ doc.scan \in 1..Len(seen) /\ Shows(doc.hash, doc.scan)
    BY DEF Good
  <2> DEFINE k == doc.scan
             inv == doc.hash
  <2>2. k \in 1..Len(seen) /\ Shows(inv, k)
    BY <2>1
  <2> HIDE DEF k, inv
  <2>3. Shows(inv, k)'
    BY <1>2, <2>2, ShowsKept
  <2>4. Len(seen') = Len(seen) + 1 /\ Len(seen) \in Nat
    BY <1>2, AppendProperties
  <2>5. k \in 1..Len(seen')
    BY <2>2, <2>4
  <2> QED
    BY <2>1, <2>3, <2>5 DEF Good, k, inv
<1> QED
  BY <1>1, <1>2 DEF SeenOnly

LEMMA LogKept ==
    ASSUME seen \in Seq(Observations), NEW log, GoodLog(log),
           SeenOnly
    PROVE  GoodLog(log)'
<1>1. ASSUME NEW n \in DOMAIN log PROVE Good(log[n].doc)'
  <2> DEFINE doc == log[n].doc
  <2>1. Good(doc)
    BY DEF GoodLog
  <2> HIDE DEF doc
  <2>2. Good(doc)'
    BY <2>1, GoodKept
  <2> QED
    BY <2>2 DEF doc
<1> QED
  BY <1>1 DEF GoodLog

\* A sequence and what comes last in it.
Grown(more, old, last) == more = Append(old, last)

LEMMA TableGrows ==
    ASSUME NEW table \in Seq(RowType), NEW row \in RowType, NEW more, Grown(more, table, row)
    PROVE  /\ more \in Seq(RowType) /\ Len(more) = Len(table) + 1
           /\ \A i \in 1..Len(table) : i \in DOMAIN more /\ more[i] = table[i]
           /\ more[Len(table) + 1] = row
           /\ \A i \in DOMAIN more : i \in DOMAIN table \/ i = Len(table) + 1
<1>1. Len(table) \in Nat /\ DOMAIN table = 1..Len(table)
  OBVIOUS
<1>2. /\ more \in Seq(RowType) /\ Len(more) = Len(table) + 1
      /\ \A i \in 1..Len(table) : more[i] = table[i]
      /\ more[Len(table) + 1] = row
  BY AppendProperties DEF Grown
<1>3. DOMAIN more = 1..(Len(table) + 1)
  BY <1>2
<1> QED
  BY <1>1, <1>2, <1>3

LEMMA RowIs ==
    ASSUME NEW doc \in Doc, NEW pred \in Nat, NEW recovery \in BOOLEAN
    PROVE  /\ Row(doc, pred, recovery) \in RowType /\ Row(doc, pred, recovery).doc = doc
           /\ Row(doc, pred, recovery).status = "PENDING" /\ Row(doc, pred, recovery).by = 0
           /\ Row(doc, pred, recovery).pred = pred /\ Row(doc, pred, recovery).recovery = recovery
BY DEF Row, RowType

(* The documents of the rows after a step are those before it, or a good one. *)
LEMMA RowsSame ==
    ASSUME seen \in Seq(Observations), GoodTable(rows), SeenOnly, rows' \in Seq(RowType),
           \A i \in DOMAIN rows' : Good(rows[i].doc)' \/ \E j \in Ids : rows'[i].doc = rows[j].doc
    PROVE  GoodTable(rows)'
<1>1. ASSUME NEW i \in DOMAIN rows' PROVE Good(rows[i].doc)'
  <2>1. CASE \E j \in Ids : rows'[i].doc = rows[j].doc
    <3>1. PICK j \in Ids : rows'[i].doc = rows[j].doc
      BY <2>1
    <3>2. PICK doc : doc = rows'[i].doc
      OBVIOUS
    <3>3. Good(doc)
      BY <3>1, <3>2 DEF GoodTable, Ids
    <3>4. Good(doc)'
      BY <3>3, GoodKept
    <3> QED
      BY <3>2, <3>4
  <2> QED
    BY <2>1
<1> QED
  BY <1>1 DEF GoodTable

LEMMA RowsGrow ==
    ASSUME seen \in Seq(Observations), GoodTable(rows), SeenOnly, NEW table \in Seq(RowType),
           DOMAIN table = Ids, \A i \in Ids : table[i].doc = rows[i].doc,
           NEW doc, Good(doc)', NEW row \in RowType, row.doc = doc, Grown(rows', table, row)
    PROVE  GoodTable(rows)'
<1>1. /\ rows' \in Seq(RowType) /\ rows'[Len(table) + 1] = row
      /\ \A i \in 1..Len(table) : rows'[i] = table[i]
  BY TableGrows
<1>2. \A i \in DOMAIN rows' : i \in DOMAIN table \/ i = Len(table) + 1
  BY TableGrows
<1>3. Ids = 1..Len(table)
  OBVIOUS
<1>4. ASSUME NEW i \in DOMAIN rows'
      PROVE  Good(rows[i].doc)' \/ \E j \in Ids : rows'[i].doc = rows[j].doc
  <2>1. CASE i = Len(table) + 1
    <3>1. rows'[i].doc = doc
      BY <1>1, <2>1
    <3> QED
      BY <3>1
  <2>2. CASE i \in DOMAIN table
    BY <1>1, <1>3, <2>2
  <2> QED
    BY <1>2, <2>1, <2>2
<1> QED
  BY <1>1, <1>4, RowsSame

LEMMA NewestIs ==
    ASSUME GoodTable(rows)
    PROVE  /\ Newest \in 0..Len(rows)
           /\ Newest # 0 => Newest \in Ids /\ Live(Newest)
           /\ \A i \in Ids : Live(i) => i <= Newest
<1> DEFINE live == {i \in Ids : Live(i)}
<1>1. Len(rows) \in Nat /\ live \subseteq 1..Len(rows) /\ Ids = 1..Len(rows)
  BY DEF GoodTable, Ids
<1>2. Newest = IF live = {} THEN 0 ELSE CHOOSE i \in live : \A j \in live : j <= i
  BY DEF Newest
<1>3. ASSUME live # {} PROVE Newest \in live /\ \A j \in live : j <= Newest
  <2> HIDE DEF live
  <2>1. live \subseteq 0..Len(rows)
    BY <1>1
  <2>2. \E i \in live : \A j \in live : j <= i
    BY <1>1, <1>3, <2>1, HasMaximum
  <2>3. Newest = CHOOSE i \in live : \A j \in live : j <= i
    BY <1>2, <1>3
  <2> QED
    BY <2>2, <2>3
<1>4. CASE live = {}
  BY <1>1, <1>2, <1>4
<1>5. CASE live # {}
  BY <1>1, <1>3, <1>5
<1> QED
  BY <1>4, <1>5

-----------------------------------------------------------------------------
(* Scans                                                                    *)

LEMMA LinkedKept ==
    ASSUME NEW table, NEW other, NEW k \in Nat \ {0}, Linked(table, k),
           \A i \in 1..k : other[i] = table[i]
    PROVE  Linked(other, k)
<1>1. k \in 1..k /\ \A i \in 1..(k - 1) : i \in 1..k
  OBVIOUS
<1>2. other[k] = table[k]
  BY <1>1
<1>3. table[k].prev \in 1..(k - 1) => other[table[k].prev] = table[table[k].prev]
  BY <1>1
<1> QED
  BY <1>2, <1>3 DEF Linked

LEMMA SnapshotIs ==
    ASSUME SnapsOK, NEW inv \in Inventories, NEW k, k = Latest + 1,
           NEW table, Grown(table, snaps, Snapshot(inv))
    PROVE  /\ table \in Seq(Snap \cup {None}) /\ Len(table) = k /\ k \in Nat \ {0}
           /\ \A i \in 1..Latest : table[i] = snaps[i]
           /\ table[k].inv = inv /\ Linked(table, k)
           /\ table[k].initial <=> k = 1
           /\ ~table[k].initial => table[k].prev = Latest
<1> DEFINE snap == Snapshot(inv)
<1>1. snaps \in Seq(Snap \cup {None}) /\ Latest = Len(snaps) /\ Latest \in Nat
      /\ (snaps = <<>> <=> Latest = 0)
  BY DEF SnapsOK, Latest
<1>2. /\ snap.inv = inv /\ snap.prev = Latest /\ (snap.initial <=> snaps = <<>>)
      /\ snap.initial \in BOOLEAN
      /\ snaps # <<>> => snap.changes = Changes(snaps[Latest].inv, inv)
      /\ snaps = <<>> => snap.changes = {}
  BY DEF Snapshot
<1>3. snap \in Snap
  <2>1. snap.changes \subseteq Kept
    <3>1. CASE snaps = <<>>
      BY <1>2, <3>1
    <3>2. CASE snaps # <<>>
      <4>1. snaps[Latest].inv \in Inventories
        BY <3>2 DEF SnapsOK, Snap
      <4>2. DOMAIN snaps[Latest].inv \subseteq Kept /\ DOMAIN inv \subseteq Kept
        BY <4>1, InventoryIs
      <4> QED
        BY <1>2, <3>2, <4>2 DEF Changes
    <3> QED
      BY <3>1, <3>2
  <2>2. snap = [inv |-> inv, prev |-> Latest, initial |-> snap.initial, changes |-> snap.changes]
    BY DEF Snapshot
  <2> HIDE DEF snap
  <2> QED
    BY <1>1, <1>2, <2>1, <2>2 DEF Snap
<1> HIDE DEF snap
<1>4. /\ table \in Seq(Snap \cup {None}) /\ Len(table) = k
      /\ \A i \in 1..Latest : table[i] = snaps[i]
      /\ table[k] = snap
  <2>1. table = Append(snaps, snap) /\ snap \in Snap \cup {None}
    BY <1>3 DEF snap, Grown
  <2> QED
    BY <1>1, <2>1, AppendProperties
<1>5. Linked(table, k)
  <2>1. CASE snaps = <<>>
    BY <1>1, <1>2, <1>3, <1>4, <2>1 DEF Linked
  <2>2. CASE snaps # <<>>
    <3>1. Latest \in 1..(k - 1) /\ table[Latest] = snaps[Latest] /\ snaps[Latest] \in Snap
      BY <1>1, <1>4, <2>2 DEF SnapsOK
    <3> QED
      BY <1>2, <1>3, <1>4, <2>2, <3>1 DEF Linked
  <2> QED
    BY <2>1, <2>2
<1> QED
  BY <1>1, <1>2, <1>4, <1>5

LEMMA ScanStores ==
    ASSUME SyncInv, NEW o \in Observations, Scan(o), NEW k, k = Latest + 1,
           NEW inv, inv = Inventory(o), NEW table, Grown(table, snaps, Snapshot(inv)),
           NEW doc, doc = Payload(table, k)
    PROVE  /\ SnapsOK' /\ Good(doc)'
           /\ snaps' = table /\ Grown(rows', rows, Row(doc, Newest, FALSE)) /\ accepted' = accepted
<1>1. /\ SnapsOK /\ seen \in Seq(Observations) /\ Len(seen) = Latest /\ Latest = Len(snaps)
      /\ Latest \in Nat /\ snaps \in Seq(Snap \cup {None}) /\ DOMAIN snaps = 1..Latest
  BY DEF SyncInv, SnapsOK, Latest
<1>2. seen' = Append(seen, o) /\ snaps' = table /\ accepted' = accepted
  BY DEF Scan, Grown
<1>3. inv \in Inventories /\ Shows(inv, k)'
  BY <1>1, <1>2, InventoryShows
<1>4. SnapsOK /\ inv \in Inventories
  BY <1>1, <1>3
<1>5. /\ table \in Seq(Snap \cup {None}) /\ Len(table) = k /\ k \in Nat \ {0}
      /\ \A i \in 1..Latest : table[i] = snaps[i]
      /\ table[k].inv = inv /\ Linked(table, k)
  BY <1>4, SnapshotIs
<1>6. Grown(rows', rows, Row(doc, Newest, FALSE))
  BY <1>5 DEF Scan, Enqueued, Grown
<1>7. seen' \in Seq(Observations) /\ Len(seen') = k
  BY <1>1, <1>2, AppendProperties
<1>8. ASSUME NEW j \in 1..k, table[j] # None, NEW v, v = table[j].inv
      PROVE  Linked(table, j) /\ Shows(v, j)'
  <2>1. CASE j = k
    <3>1. v = inv
      BY <1>5, <1>8, <2>1
    <3> QED
      BY <1>3, <1>5, <2>1, <3>1
  <2>2. CASE j # k
    <3>1. j \in 1..Latest /\ j \in Nat \ {0} /\ table[j] = snaps[j]
      BY <1>1, <1>5, <1>8, <2>2
    <3>2. j \in Stored
      BY <1>1, <1>8, <3>1 DEF Stored
    <3>3. Linked(snaps, j) /\ Shows(v, j)
      BY <1>1, <1>8, <3>1, <3>2 DEF SnapsOK
    <3>4. \A i \in 1..j : table[i] = snaps[i]
      BY <1>1, <1>5, <3>1
    <3>5. Linked(table, j)
      BY <3>1, <3>3, <3>4, LinkedKept
    <3>6. Shows(v, j)'
      BY <1>1, <1>2, <3>1, <3>3, ShowsKept
    <3> QED
      BY <3>5, <3>6
  <2> QED
    BY <2>1, <2>2
<1>9. SnapsOK'
  <2>1. Latest' = k /\ snaps' \in Seq(Snap \cup {None}) /\ k \in 1..k /\ DOMAIN snaps' = 1..k
    BY <1>2, <1>5 DEF Latest
  <2>2. snaps'[k] \in Snap
    BY <1>2, <1>5 DEF Linked
  <2>3. Shows(snaps[Latest].inv, Latest)'
    BY <1>2, <1>3, <1>5, <2>1
  <2>4. ASSUME NEW j \in Stored'
        PROVE  Linked(snaps', j) /\ Shows(snaps[j].inv, j)'
    <3>1. j \in 1..k /\ table[j] # None
      BY <1>2, <2>1 DEF Stored
    <3>2. PICK v : v = table[j].inv
      OBVIOUS
    <3>3. Linked(table, j) /\ Shows(v, j)'
      BY <1>8, <3>1, <3>2
    <3> QED
      BY <1>2, <3>2, <3>3
  <2>5. (\A j \in Stored : Linked(snaps, j) /\ Shows(snaps[j].inv, j))'
    BY <2>4
  <2> QED
    BY <1>7, <2>1, <2>2, <2>3, <2>5 DEF SnapsOK
<1>10. Good(doc)'
  <2>1. k \in Nat /\ Linked(table, k) /\ table[k].inv = inv
    BY <1>5
  <2>2. Fits(doc) /\ doc.hash = inv /\ doc.scan = k
    BY <2>1, PayloadFits
  <2>3. doc.scan \in 1..Len(seen')
    BY <1>5, <1>7, <2>2
  <2>4. Shows(doc.hash, doc.scan)'
    BY <1>3, <2>2
  <2> QED
    BY <2>2, <2>3, <2>4 DEF Good
<1> QED
  BY <1>2, <1>6, <1>9, <1>10

LEMMA ScanGood ==
    ASSUME SyncInv, NEW o \in Observations, Scan(o)
    PROVE  SyncInv'
<1>1. PICK k, inv : k = Latest + 1 /\ inv = Inventory(o)
  OBVIOUS
<1>2. PICK table : Grown(table, snaps, Snapshot(inv))
  BY DEF Grown
<1>3. PICK doc : doc = Payload(table, k)
  OBVIOUS
<1>4. /\ SnapsOK' /\ Good(doc)'
      /\ Grown(rows', rows, Row(doc, Newest, FALSE)) /\ accepted' = accepted
  BY <1>1, <1>2, <1>3, ScanStores
<1>5. /\ seen \in Seq(Observations) /\ SeenOnly
      /\ GoodTable(rows) /\ GoodLog(accepted) /\ rows \in Seq(RowType)
  BY DEF Scan, SyncInv, SnapsOK, GoodTable, SeenOnly
<1>6. Newest \in Nat /\ doc \in Doc
  BY <1>4, <1>5, NewestIs DEF Good, Fits
<1>7. Row(doc, Newest, FALSE) \in RowType /\ Row(doc, Newest, FALSE).doc = doc
  BY <1>6, RowIs
<1>8. GoodTable(rows)'
  <2>1. DOMAIN rows = Ids
    BY DEF Ids
  <2> QED
    BY <1>4, <1>5, <1>7, <2>1, RowsGrow
<1>9. GoodLog(accepted)'
  <2>1. PICK log : log = accepted
    OBVIOUS
  <2>2. GoodLog(log)'
    BY <1>5, <2>1, LogKept
  <2> QED
    BY <1>4, <2>1, <2>2
<1> QED
  BY <1>4, <1>8, <1>9 DEF SyncInv

-----------------------------------------------------------------------------
(* The other steps                                                          *)

LEMMA SnapsSame ==
    ASSUME SnapsOK, UNCHANGED <<seen, snaps>>
    PROVE  SnapsOK' /\ SeenOnly /\ seen \in Seq(Observations)
<1>1. seen' = seen /\ snaps' = snaps
  OBVIOUS
<1>2. ASSUME NEW inv, NEW k, Shows(inv, k) PROVE Shows(inv, k)'
  BY <1>1, <1>2 DEF Shows, Shown, LastSeen
<1>3. /\ seen' \in Seq(Observations) /\ snaps' \in Seq(Snap \cup {None})
      /\ Len(seen') = Len(snaps') /\ Latest' = Latest /\ Stored' = Stored
  BY DEF SnapsOK, Latest, Stored
<1>4. snaps' # <<>> => snaps'[Latest'] \in Snap /\ Shows(snaps[Latest].inv, Latest)'
  <2>1. PICK k, inv : k = Latest /\ inv = snaps[Latest].inv
    OBVIOUS
  <2>2. snaps # <<>> => snaps[Latest] \in Snap /\ Shows(inv, k)
    BY <2>1 DEF SnapsOK
  <2>3. snaps # <<>> => Shows(inv, k)'
    BY <1>2, <2>2
  <2>4. Latest' = k /\ snaps'[Latest'].inv = inv
    BY <1>3, <2>1
  <2> QED
    BY <1>3, <2>2, <2>3, <2>4
<1>5. ASSUME NEW k \in Stored' PROVE Linked(snaps', k) /\ Shows(snaps[k].inv, k)'
  <2>1. PICK inv : inv = snaps[k].inv
    OBVIOUS
  <2>2. Linked(snaps, k) /\ Shows(inv, k)
    BY <1>3, <2>1 DEF SnapsOK
  <2>3. Shows(inv, k)' /\ inv = snaps'[k].inv
    BY <1>2, <2>1, <2>2
  <2> QED
    BY <2>2, <2>3
<1>6. (\A k \in Stored : Linked(snaps, k) /\ Shows(snaps[k].inv, k))'
  BY <1>5
<1> QED
  BY <1>3, <1>4, <1>6 DEF SnapsOK, SeenOnly

LEMMA LogSame ==
    ASSUME seen \in Seq(Observations), SeenOnly, GoodLog(accepted), accepted' = accepted
    PROVE  GoodLog(accepted)'
<1>1. PICK log : log = accepted
  OBVIOUS
<1>2. GoodLog(log)'
  BY <1>1, LogKept
<1> QED
  BY <1>1, <1>2

(* A stored snapshot, as a document of its own or as a difference.           *)
LEMMA StoredGood ==
    ASSUME SnapsOK, NEW k \in Stored
    PROVE  Good(Payload(snaps, k)) /\ Good(Full(k, snaps[k].inv, None)) /\ k \in Nat
<1>1. /\ Linked(snaps, k) /\ Shows(snaps[k].inv, k) /\ k \in 1..Len(seen) /\ k \in Nat
      /\ snaps[k].inv \in Inventories
  BY DEF SnapsOK, Stored, Linked, Snap
<1>2. /\ Fits(Payload(snaps, k)) /\ Payload(snaps, k).hash = snaps[k].inv
      /\ Payload(snaps, k).scan = k
  BY <1>1, PayloadFits
<1>3. /\ Fits(Full(k, snaps[k].inv, None)) /\ Full(k, snaps[k].inv, None).hash = snaps[k].inv
      /\ Full(k, snaps[k].inv, None).scan = k
  BY <1>1, FullFits
<1> QED
  BY <1>1, <1>2, <1>3 DEF Good

\* The rows again, with other statuses and links.
SameDocs(table) ==
    /\ table \in Seq(RowType) /\ DOMAIN table = Ids /\ Len(table) = Len(rows)
    /\ \A j \in Ids : table[j].doc = rows[j].doc

LEMMA RowsSameDocs ==
    ASSUME seen \in Seq(Observations), GoodTable(rows), SeenOnly, SameDocs(rows')
    PROVE  GoodTable(rows)'
<1>1. /\ rows' \in Seq(RowType)
      /\ \A i \in DOMAIN rows' : \E j \in Ids : rows'[i].doc = rows[j].doc
  BY DEF SameDocs
<1> QED
  BY <1>1, RowsSame

LEMMA DeadIs ==
    ASSUME rows \in Seq(RowType), NEW i \in Ids, NEW by \in Nat
    PROVE  /\ SameDocs(Dead(i, by))
           /\ \A j \in Ids \ {i} : Dead(i, by)[j] = rows[j]
           /\ Dead(i, by)[i] = [rows[i] EXCEPT !.status = "DEAD", !.by = by]
<1>0. PICK table : table = Dead(i, by)
  OBVIOUS
<1>1. Ids = 1..Len(rows) /\ Len(rows) \in Nat /\ \A j \in Ids : rows[j] \in RowType
  BY DEF Ids
<1>2. /\ table = [j \in Ids |-> table[j]] /\ \A j \in Ids \ {i} : table[j] = rows[j]
      /\ table[i] = [rows[i] EXCEPT !.status = "DEAD", !.by = by]
  BY <1>0, <1>1 DEF Dead, Ids
<1>3. table[i] \in RowType /\ table[i].doc = rows[i].doc
  BY <1>1, <1>2 DEF RowType
<1>4. \A j \in Ids : table[j] \in RowType /\ table[j].doc = rows[j].doc
  BY <1>1, <1>2, <1>3
<1>5. table \in Seq(RowType) /\ Len(table) = Len(rows)
  BY <1>1, <1>2, <1>4
<1>6. SameDocs(table)
  BY <1>1, <1>2, <1>4, <1>5 DEF SameDocs
<1> QED
  BY <1>0, <1>2, <1>6

Marked(i, status) == [rows EXCEPT ![i].status = status]

LEMMA MarkedIs ==
    ASSUME rows \in Seq(RowType), NEW i \in Ids, NEW status \in {"PENDING", "SUCCEEDED"}
    PROVE  /\ SameDocs(Marked(i, status))
           /\ \A j \in Ids \ {i} : Marked(i, status)[j] = rows[j]
           /\ Marked(i, status)[i] = [rows[i] EXCEPT !.status = status]
<1>0. PICK table : table = Marked(i, status)
  OBVIOUS
<1>1. Ids = 1..Len(rows) /\ Len(rows) \in Nat /\ \A j \in Ids : rows[j] \in RowType
  BY DEF Ids
<1>2. /\ table = [j \in Ids |-> table[j]] /\ \A j \in Ids \ {i} : table[j] = rows[j]
      /\ table[i] = [rows[i] EXCEPT !.status = status]
  BY <1>0, <1>1 DEF Marked, Ids
<1>3. table[i] \in RowType /\ table[i].doc = rows[i].doc
  BY <1>1, <1>2 DEF RowType
<1>4. \A j \in Ids : table[j] \in RowType /\ table[j].doc = rows[j].doc
  BY <1>1, <1>2, <1>3
<1>5. table \in Seq(RowType) /\ Len(table) = Len(rows)
  BY <1>1, <1>2, <1>4
<1>6. SameDocs(table)
  BY <1>1, <1>2, <1>4, <1>5 DEF SameDocs
<1> QED
  BY <1>0, <1>2, <1>6

LEMMA PurgeIs ==
    ASSUME rows \in Seq(RowType), NEW i \in Ids, Purge(i)
    PROVE  /\ SameDocs(rows')
           /\ rows'[i] = [rows[i] EXCEPT !.status = "GONE", !.pred = 0, !.by = 0]
           /\ \A j \in Ids \ {i} :
                rows'[j] = [rows[j] EXCEPT !.pred = Nulled(@, i), !.by = Nulled(@, i)]
<1>1. Ids = 1..Len(rows) /\ Len(rows) \in Nat /\ \A j \in Ids : rows[j] \in RowType
  BY DEF Ids
<1>2. rows' = [j \in Ids |-> rows'[j]]
  BY DEF Purge
<1>3. rows'[i] = [rows[i] EXCEPT !.status = "GONE", !.pred = 0, !.by = 0]
  BY DEF Purge
<1>4. ASSUME NEW j \in Ids \ {i}
      PROVE  rows'[j] = [rows[j] EXCEPT !.pred = Nulled(@, i), !.by = Nulled(@, i)]
  BY DEF Purge
<1>5. ASSUME NEW j \in Ids PROVE rows'[j] \in RowType /\ rows'[j].doc = rows[j].doc
  <2>1. rows[j] \in RowType
    BY <1>1
  <2>2. CASE j = i
    <3>1. PICK row \in RowType : row = rows[j]
      BY <2>1
    <3>2. rows'[j] = [row EXCEPT !.status = "GONE", !.pred = 0, !.by = 0]
      BY <1>3, <2>2, <3>1
    <3>3. rows'[j] = [doc |-> row.doc, status |-> "GONE", pred |-> 0, by |-> 0,
                      recovery |-> row.recovery]
      BY <3>2 DEF RowType
    <3> QED
      BY <3>1, <3>3 DEF RowType
  <2>3. CASE j # i
    <3>1. rows'[j] = [rows[j] EXCEPT !.pred = Nulled(rows[j].pred, i), !.by = Nulled(rows[j].by, i)]
      BY <1>4, <2>3
    <3>2. Nulled(rows[j].pred, i) \in Nat /\ Nulled(rows[j].by, i) \in Nat
      BY <2>1 DEF RowType, Nulled
    <3> QED
      BY <2>1, <3>1, <3>2 DEF RowType
  <2> QED
    BY <2>2, <2>3
<1>6. rows' \in Seq(RowType) /\ DOMAIN rows' = Ids /\ Len(rows') = Len(rows)
  BY <1>1, <1>2, <1>5
<1>7. SameDocs(rows')
  BY <1>5, <1>6 DEF SameDocs
<1> QED
  BY <1>3, <1>4, <1>7

LEMMA ReconcileGood ==
    ASSUME SyncInv, NEW k, Reconcile(k)
    PROVE  SyncInv'
<1>1. /\ SnapsOK /\ GoodTable(rows) /\ GoodLog(accepted) /\ k \in Stored
      /\ UNCHANGED <<seen, snaps>> /\ accepted' = accepted /\ rows \in Seq(RowType)
  BY DEF SyncInv, Reconcile, GoodTable
<1>2. SnapsOK' /\ SeenOnly /\ seen \in Seq(Observations)
  BY <1>1, SnapsSame
<1>3. PICK doc : doc = Payload(snaps, k)
  OBVIOUS
<1>4. PICK row : row = Row(doc, Newest, FALSE)
  OBVIOUS
<1>5. Good(doc) /\ Good(doc)' /\ doc \in Doc
  <2>1. Good(doc)
    BY <1>1, <1>3, StoredGood
  <2>2. Good(doc)'
    BY <1>2, <2>1, GoodKept
  <2> QED
    BY <2>1, <2>2 DEF Good, Fits
<1>6. row \in RowType /\ row.doc = doc
  <2>1. Newest \in Nat
    BY <1>1, NewestIs
  <2> QED
    BY <1>4, <1>5, <2>1, RowIs
<1>7. Grown(rows', rows, row)
  BY <1>3, <1>4 DEF Reconcile, Enqueued, Grown
<1>8. DOMAIN rows = Ids
  BY DEF Ids
<1>9. GoodTable(rows)'
  BY <1>1, <1>2, <1>5, <1>6, <1>7, <1>8, RowsGrow
<1>10. GoodLog(accepted)'
  BY <1>1, <1>2, LogSame
<1> QED
  BY <1>2, <1>9, <1>10 DEF SyncInv

(* What the cloud accepts is what the document gives the hash of.             *)
LEMMA AcceptedGood ==
    ASSUME SyncInv, NEW i \in Ids, Answer(i) = "accept"
    PROVE  /\ Accepted(i) = Append(accepted, [doc |-> rows[i].doc, row |-> i, inv |-> rows[i].doc.hash])
           /\ GoodLog(Accepted(i))
           /\ BaseMatches(rows[i].doc) /\ rows[i].doc.scan \notin AcceptedScans \cup expired
<1> DEFINE doc == rows[i].doc
           up == [doc |-> doc, row |-> i, inv |-> doc.hash]
<1>1. Good(doc) /\ doc \in Doc /\ doc.hash \in Inventories /\ i \in Nat
  BY DEF SyncInv, GoodTable, Good, Fits, Doc, Ids
<1>2. doc.scan \notin AcceptedScans \cup expired /\ Reconstruct(doc) = "accept"
  BY DEF Answer
<1>3. BaseMatches(doc) /\ Normalized(Described(doc, Current.inv)) = doc.hash
  BY <1>2 DEF Reconstruct
<1>4. Accepted(i) = Append(accepted, up)
  BY <1>3 DEF Accepted
<1>5. up \in Upload /\ up.doc = doc /\ up.inv = doc.hash
  BY <1>1 DEF Upload
<1> HIDE DEF doc, up
<1>6. PICK log : log = Append(accepted, up)
  OBVIOUS
<1>7. accepted \in Seq(Upload) /\ Len(accepted) \in Nat /\ DOMAIN accepted = 1..Len(accepted)
  BY DEF SyncInv, GoodLog
<1>8. /\ log \in Seq(Upload) /\ Len(log) = Len(accepted) + 1
      /\ \A n \in 1..Len(accepted) : log[n] = accepted[n]
      /\ log[Len(accepted) + 1] = up
  BY <1>5, <1>6, <1>7, AppendProperties
<1>9. ASSUME NEW n \in DOMAIN log PROVE Good(log[n].doc) /\ log[n].inv = log[n].doc.hash
  <2>1. n \in DOMAIN accepted \/ n = Len(accepted) + 1
    BY <1>7, <1>8
  <2> QED
    BY <1>1, <1>5, <1>7, <1>8, <2>1 DEF SyncInv, GoodLog
<1>10. GoodLog(log)
  BY <1>8, <1>9 DEF GoodLog
<1> QED
  BY <1>2, <1>3, <1>4, <1>6, <1>10 DEF up, doc

LEMMA DeliverGood ==
    ASSUME SyncInv, NEW i, Deliver(i)
    PROVE  SyncInv'
<1>1. /\ SnapsOK /\ GoodTable(rows) /\ GoodLog(accepted) /\ i \in Ids
      /\ UNCHANGED <<seen, snaps>> /\ rows \in Seq(RowType)
      /\ accepted' = IF Answer(i) = "accept" THEN Accepted(i) ELSE accepted
      /\ \/ rows' = [rows EXCEPT ![i].status = "SUCCEEDED"]
         \/ rows' = rows
  BY DEF SyncInv, Deliver, GoodTable
<1>2. SnapsOK' /\ SeenOnly /\ seen \in Seq(Observations)
  BY <1>1, SnapsSame
<1>3. SameDocs(rows')
  <2>1. CASE rows' = rows
    BY <1>1, <2>1 DEF Ids, SameDocs
  <2>2. CASE rows' # rows
    <3>1. rows' = Marked(i, "SUCCEEDED")
      BY <1>1, <2>2 DEF Marked
    <3> QED
      BY <1>1, <3>1, MarkedIs
  <2> QED
    BY <2>1, <2>2
<1>4. GoodTable(rows)'
  BY <1>1, <1>2, <1>3, RowsSameDocs
<1>5. GoodLog(accepted)'
  <2>1. PICK log : log = accepted'
    OBVIOUS
  <2>2. GoodLog(log)
    BY <1>1, <2>1, AcceptedGood
  <2>3. GoodLog(log)'
    BY <1>2, <2>2, LogKept
  <2> QED
    BY <2>1, <2>3
<1> QED
  BY <1>2, <1>4, <1>5 DEF SyncInv

LEMMA ConflictGood ==
    ASSUME SyncInv, NEW i, Conflict(i)
    PROVE  SyncInv'
<1>1. /\ SnapsOK /\ GoodTable(rows) /\ GoodLog(accepted) /\ i \in Ids
      /\ UNCHANGED <<seen, snaps>> /\ accepted' = accepted /\ rows \in Seq(RowType)
      /\ Len(rows) \in Nat /\ Ids = 1..Len(rows)
  BY DEF SyncInv, Conflict, GoodTable, Ids
<1>2. SnapsOK' /\ SeenOnly /\ seen \in Seq(Observations)
  BY <1>1, SnapsSame
<1>3. GoodLog(accepted)'
  BY <1>1, <1>2, LogSame
<1> SUFFICES GoodTable(rows)'
  BY <1>2, <1>3 DEF SyncInv
<1>4. ASSUME NEW by \in Nat, rows' = Dead(i, by) PROVE GoodTable(rows)'
  <2>1. SameDocs(rows')
    BY <1>1, <1>4, DeadIs
  <2> QED
    BY <1>1, <1>2, <2>1, RowsSameDocs
<1>5. CASE ~CanResync(i)
  <2>1. rows' = Dead(i, 0) /\ 0 \in Nat
    BY <1>5 DEF Conflict
  <2> QED
    BY <1>4, <2>1
<1>6. CASE CanResync(i)
  <2> DEFINE known == SameKey(rows[i].doc.scan, TRUE)
  <2>1. CASE known # {}
    <3>1. known \subseteq Ids
      BY DEF SameKey
    <3>2. PICK by : by = CHOOSE r \in known : TRUE
      OBVIOUS
    <3>3. rows' = Dead(i, by)
      BY <1>6, <2>1, <3>2 DEF Conflict
    <3>4. by \in Nat
      <4> HIDE DEF known
      <4>1. by \in known
        BY <2>1, <3>2
      <4> QED
        BY <1>1, <3>1, <4>1
    <3> QED
      BY <1>4, <3>3, <3>4
  <2>2. CASE known = {}
    <3>1. PICK k, doc : k = rows[i].doc.scan /\ doc = Full(k, snaps[k].inv, None)
      OBVIOUS
    <3>2. k \in Stored
      BY <1>6, <3>1 DEF CanResync
    <3>3. Good(doc) /\ Good(doc)' /\ doc \in Doc
      <4>1. Good(doc)
        BY <1>1, <3>1, <3>2, StoredGood
      <4>2. Good(doc)'
        BY <1>2, <4>1, GoodKept
      <4> QED
        BY <4>1, <4>2 DEF Good, Fits
    <3>4. PICK pred, row : pred = rows[i].pred /\ row = Row(doc, pred, TRUE)
      OBVIOUS
    <3>5. row \in RowType /\ row.doc = doc
      <4>1. pred \in Nat
        <5>1. rows[i] \in RowType
          BY <1>1
        <5> QED
          BY <3>4, <5>1 DEF RowType
      <4> QED
        BY <3>3, <3>4, <4>1, RowIs
    <3>6. PICK by, table : by = Len(rows) + 1 /\ table = Dead(i, by)
      OBVIOUS
    <3>7. table \in Seq(RowType) /\ DOMAIN table = Ids /\ \A j \in Ids : table[j].doc = rows[j].doc
      <4>1. by \in Nat
        BY <1>1, <3>6
      <4>2. SameDocs(table)
        BY <1>1, <3>6, <4>1, DeadIs
      <4> QED
        BY <4>2 DEF SameDocs
    <3>8. Grown(rows', table, row)
      BY <1>6, <2>2, <3>1, <3>4, <3>6 DEF Conflict, Recovery, Grown
    <3> QED
      BY <1>1, <1>2, <3>3, <3>5, <3>7, <3>8, RowsGrow
  <2> QED
    BY <2>1, <2>2
<1> QED
  BY <1>5, <1>6

LEMMA RequeueGood ==
    ASSUME SyncInv, NEW i, Requeue(i)
    PROVE  SyncInv'
<1>1. /\ SnapsOK /\ GoodTable(rows) /\ GoodLog(accepted) /\ i \in Ids
      /\ UNCHANGED <<seen, snaps>> /\ accepted' = accepted /\ rows \in Seq(RowType)
      /\ rows' = Marked(i, "PENDING")
  BY DEF SyncInv, Requeue, GoodTable, Marked
<1>2. SnapsOK' /\ SeenOnly /\ seen \in Seq(Observations)
  BY <1>1, SnapsSame
<1>3. SameDocs(rows')
  BY <1>1, MarkedIs
<1>4. GoodTable(rows)'
  BY <1>1, <1>2, <1>3, RowsSameDocs
<1>5. GoodLog(accepted)'
  BY <1>1, <1>2, LogSame
<1> QED
  BY <1>2, <1>4, <1>5 DEF SyncInv

LEMMA PurgeGood ==
    ASSUME SyncInv, NEW i, Purge(i)
    PROVE  SyncInv'
<1>1. /\ SnapsOK /\ GoodTable(rows) /\ GoodLog(accepted) /\ i \in Ids
      /\ UNCHANGED <<seen, snaps>> /\ accepted' = accepted /\ rows \in Seq(RowType)
  BY DEF SyncInv, Purge, GoodTable
<1>2. SnapsOK' /\ SeenOnly /\ seen \in Seq(Observations)
  BY <1>1, SnapsSame
<1>3. SameDocs(rows')
  BY <1>1, PurgeIs
<1>4. GoodTable(rows)'
  BY <1>1, <1>2, <1>3, RowsSameDocs
<1>5. GoodLog(accepted)'
  BY <1>1, <1>2, LogSame
<1> QED
  BY <1>2, <1>4, <1>5 DEF SyncInv

LEMMA OrphanedIs ==
    ASSUME NEW snap \in Snap
    PROVE  /\ Orphaned(snap) \in Snap /\ Orphaned(snap).inv = snap.inv
           /\ Orphaned(snap).initial /\ Orphaned(snap).prev = 0
BY DEF Orphaned, Snap

LEMMA PruneGood ==
    ASSUME SyncInv, NEW k, Prune(k)
    PROVE  SyncInv'
<1>1. /\ SnapsOK /\ GoodTable(rows) /\ GoodLog(accepted) /\ k \in Stored /\ k # Latest
      /\ seen' = seen /\ accepted' = accepted /\ rows' = rows
      /\ seen \in Seq(Observations) /\ SeenOnly
  BY DEF SyncInv, SnapsOK, Prune, SeenOnly
<1>2. /\ snaps \in Seq(Snap \cup {None}) /\ DOMAIN snaps = 1..Latest /\ Latest = Len(snaps)
      /\ Latest \in Nat /\ Len(seen) = Latest /\ k \in 1..Latest
  BY <1>1 DEF SnapsOK, Latest, Stored
<1>3. /\ snaps' = [n \in 1..Latest |-> snaps'[n]] /\ snaps'[k] = None
      /\ \A n \in 1..Latest : n # k =>
            snaps'[n] = IF n \in Stored /\ snaps[n].prev = k THEN Orphaned(snaps[n]) ELSE snaps[n]
  BY <1>2 DEF Prune
<1>4. ASSUME NEW n \in 1..Latest, n # k
      PROVE  /\ snaps[n] \in Snap => snaps'[n] \in Snap /\ snaps'[n].inv = snaps[n].inv
             /\ snaps'[n] \in Snap \cup {None}
  <2>1. CASE n \in Stored /\ snaps[n].prev = k
    <3>1. snaps[n] \in Snap /\ snaps'[n] = Orphaned(snaps[n])
      BY <1>1, <1>3, <1>4, <2>1 DEF SnapsOK, Linked
    <3> QED
      BY <3>1, OrphanedIs
  <2>2. CASE ~(n \in Stored /\ snaps[n].prev = k)
    <3>1. snaps'[n] = snaps[n] /\ snaps[n] \in Snap \cup {None}
      BY <1>2, <1>3, <1>4, <2>2
    <3> QED
      BY <3>1
  <2> QED
    BY <2>1, <2>2
<1>5. snaps' \in Seq(Snap \cup {None}) /\ Len(snaps') = Latest /\ DOMAIN snaps' = 1..Latest
  <2>1. \A n \in 1..Latest : snaps'[n] \in Snap \cup {None}
    BY <1>3, <1>4
  <2> QED
    BY <1>2, <1>3, <2>1
<1>6. ASSUME NEW n, NEW inv, Shows(inv, n) PROVE Shows(inv, n)'
  BY <1>1, <1>6 DEF Shows, Shown, LastSeen
<1>7. ASSUME NEW n \in Stored' PROVE Linked(snaps', n) /\ Shows(snaps[n].inv, n)'
  <2>1. n \in 1..Latest /\ n # k /\ snaps'[n] # None
    BY <1>3, <1>5 DEF Stored
  <2>2. n \in Stored
    BY <1>2, <1>3, <2>1 DEF Stored
  <2>3. Linked(snaps, n) /\ Shows(snaps[n].inv, n) /\ snaps[n] \in Snap
    BY <1>1, <2>2 DEF SnapsOK, Linked
  <2>4. snaps'[n] \in Snap /\ snaps'[n].inv = snaps[n].inv
    BY <1>4, <2>1, <2>3
  <2>5. Shows(snaps[n].inv, n)'
    <3>1. PICK inv : inv = snaps[n].inv
      OBVIOUS
    <3>2. Shows(inv, n)'
      BY <1>6, <2>3, <3>1
    <3>3. inv = snaps'[n].inv
      BY <2>4, <3>1
    <3> QED
      BY <3>2, <3>3
  <2>6. CASE snaps[n].prev = k
    <3>1. snaps'[n].initial /\ snaps'[n].prev = 0
      BY <1>3, <2>1, <2>2, <2>3, <2>6, OrphanedIs
    <3> QED
      BY <2>4, <2>5, <3>1 DEF Linked
  <2>7. CASE snaps[n].prev # k
    <3>1. snaps'[n] = snaps[n]
      BY <1>3, <2>1, <2>7
    <3>2. CASE snaps[n].initial
      BY <2>3, <2>4, <2>5, <3>1, <3>2 DEF Linked
    <3>3. CASE ~snaps[n].initial
      <4>1. PICK m : m = snaps[n].prev
        OBVIOUS
      <4>2. m \in 1..(n - 1) /\ snaps[m] \in Snap /\ m # k
        BY <2>3, <2>7, <3>3, <4>1 DEF Linked
      <4>3. m \in 1..Latest
        BY <1>2, <2>1, <4>2
      <4>4. snaps'[m] \in Snap /\ snaps'[m].inv = snaps[m].inv
        BY <1>4, <4>2, <4>3
      <4> QED
        BY <2>3, <2>5, <3>1, <3>3, <4>1, <4>2, <4>4 DEF Linked
    <3> QED
      BY <3>2, <3>3
  <2> QED
    BY <2>6, <2>7
<1>8. SnapsOK'
  <2>1. Latest' = Latest /\ Latest \in 1..Latest
    BY <1>2, <1>5 DEF Latest
  <2>2. snaps[Latest] \in Snap /\ Shows(snaps[Latest].inv, Latest)
    <3>1. snaps # <<>>
      BY <1>2
    <3> QED
      BY <1>1, <3>1 DEF SnapsOK
  <2>3. PICK n, inv : n = Latest /\ inv = snaps[Latest].inv
    OBVIOUS
  <2>4. snaps'[n] \in Snap /\ snaps'[n].inv = inv
    BY <1>1, <1>4, <2>1, <2>2, <2>3
  <2>5. Shows(inv, n)'
    BY <1>6, <2>2, <2>3
  <2>6. snaps'[Latest'] \in Snap /\ Shows(snaps[Latest].inv, Latest)'
    <3>1. Latest' = n /\ inv = snaps'[Latest'].inv
      BY <2>1, <2>3, <2>4
    <3> QED
      BY <2>4, <2>5, <3>1
  <2>7. (\A n_1 \in Stored : Linked(snaps, n_1) /\ Shows(snaps[n_1].inv, n_1))'
    BY <1>7
  <2> QED
    BY <1>1, <1>2, <1>5, <2>6, <2>7 DEF SnapsOK
<1>9. GoodTable(rows)'
  <2>1. SameDocs(rows')
    BY <1>1 DEF SameDocs, GoodTable, Ids
  <2> QED
    BY <1>1, <2>1, RowsSameDocs
<1>10. GoodLog(accepted)'
  BY <1>1, LogSame
<1> QED
  BY <1>8, <1>9, <1>10 DEF SyncInv

LEMMA RestoreGood ==
    ASSUME SyncInv, NEW n \in Nat, Restore(n)
    PROVE  SyncInv'
<1>1. /\ SnapsOK /\ GoodTable(rows) /\ GoodLog(accepted) /\ rows' = rows
      /\ UNCHANGED <<seen, snaps>> /\ accepted' = SubSeq(accepted, 1, n) /\ n < Len(accepted)
      /\ accepted \in Seq(Upload)
  BY DEF SyncInv, Restore, GoodLog
<1>2. SnapsOK' /\ SeenOnly /\ seen \in Seq(Observations)
  BY <1>1, SnapsSame
<1>3. GoodTable(rows)'
  <2>1. SameDocs(rows')
    BY <1>1 DEF SameDocs, GoodTable, Ids
  <2> QED
    BY <1>1, <1>2, <2>1, RowsSameDocs
<1>4. PICK log : log = SubSeq(accepted, 1, n)
  OBVIOUS
<1>5. /\ log \in Seq(Upload) /\ DOMAIN log = 1..n
      /\ \A m \in 1..n : log[m] = accepted[m] /\ m \in DOMAIN accepted
  BY <1>1, <1>4
<1>6. GoodLog(log)
  BY <1>1, <1>5 DEF GoodLog
<1>7. GoodLog(log)'
  BY <1>2, <1>6, LogKept
<1>8. GoodLog(accepted)'
  BY <1>1, <1>4, <1>7
<1> QED
  BY <1>2, <1>3, <1>8 DEF SyncInv

LEMMA SameGood ==
    ASSUME SyncInv, UNCHANGED <<seen, snaps, rows, accepted>>
    PROVE  SyncInv'
<1>1. /\ SnapsOK /\ GoodTable(rows) /\ GoodLog(accepted) /\ rows' = rows
      /\ UNCHANGED <<seen, snaps>> /\ accepted' = accepted
  BY DEF SyncInv
<1>2. SnapsOK' /\ SeenOnly /\ seen \in Seq(Observations)
  BY <1>1, SnapsSame
<1>3. SameDocs(rows')
  BY <1>1 DEF SameDocs, GoodTable, Ids
<1>4. GoodTable(rows)'
  BY <1>1, <1>2, <1>3, RowsSameDocs
<1>5. GoodLog(accepted)'
  BY <1>1, <1>2, LogSame
<1> QED
  BY <1>2, <1>4, <1>5 DEF SyncInv

LEMMA InitGood == Init => SyncInv
<1> SUFFICES ASSUME Init PROVE SyncInv
  OBVIOUS
<1>1. seen = <<>> /\ snaps = <<>> /\ rows = <<>> /\ accepted = <<>>
  BY DEF Init
<1>2. SnapsOK
  BY <1>1 DEF SnapsOK, Stored
<1>3. GoodTable(rows)
  BY <1>1 DEF GoodTable
<1>4. GoodLog(accepted)
  BY <1>1 DEF GoodLog
<1> QED
  BY <1>2, <1>3, <1>4 DEF SyncInv

-----------------------------------------------------------------------------
(* The order of the scans                                                   *)

Normal == {i \in Ids : ~rows[i].recovery}
ScanOf(i) == rows[i].doc.scan

\* The scans before this row's are accepted, or it waits for the last of them
\* or for a resync that will never be accepted.
InOrder(i) ==
    \/ \A m \in 1..(ScanOf(i) - 1) : m <= Len(accepted)
    \/ /\ rows[i].pred # 0 /\ rows[i].pred \in Ids /\ Live(rows[i].pred)
       /\ rows[rows[i].pred].recovery \/ ScanOf(rows[i].pred) = ScanOf(i) - 1

LogInOrder ==
    \A n \in DOMAIN accepted :
        /\ accepted[n].doc.scan = n /\ accepted[n].row \in Normal
        /\ rows[accepted[n].row].doc = accepted[n].doc

\* Only evidence of expired scans is sent again, in vain.
ResyncsInVain ==
    /\ \A n \in DOMAIN accepted : n \notin expired
    /\ \A i \in Ids : rows[i].recovery => ScanOf(i) \in expired /\ rows[i].status \in {"PENDING", "DEAD"}
    /\ \A i \in Ids : rows[i].by # 0 => rows[i].by \in Ids \ Normal

DeliveredAccepted ==
    \A i \in Ids : rows[i].status \in {"SUCCEEDED", "GONE"} => ScanOf(i) \in DOMAIN accepted

OneRowEach ==
    /\ \A k \in 1..Len(snaps) : \E i \in Normal : ScanOf(i) = k
    /\ \A i, j \in Normal : i < j => ScanOf(i) < ScanOf(j)

\* Each document builds on that of the scan before.
Chained ==
    /\ \A i \in Normal : ScanOf(i) = Latest => rows[i].doc.hash = snaps[Latest].inv
    /\ \A i \in Normal :
        /\ rows[i].doc.mode = "full" => rows[i].doc.previous = None
        /\ rows[i].doc.mode # "full" =>
             /\ ScanOf(i) > 1
             /\ \A j \in Normal : ScanOf(j) = ScanOf(i) - 1 => rows[i].doc.previous = rows[j].doc.hash

OrderInv ==
    /\ LogInOrder /\ ResyncsInVain /\ DeliveredAccepted /\ OneRowEach /\ Chained
    /\ \A i \in Normal : InOrder(i)

FullInv == SyncInv /\ restores \in Nat /\ (restores = 0 => OrderInv)

LEMMA NullIsNone == None \notin Inventories
<1> SUFFICES ASSUME None \in Inventories PROVE FALSE
  OBVIOUS
<1>1. PICK D \in SUBSET Kept : None \in [D -> Contents]
  BY DEF Inventories
<1>2. D \in SUBSET (Sections \cup {Completeness})
  BY DEF Kept
<1> QED
  BY <1>1, <1>2, NullAssumption DEF Contents

(* What SyncInv says of sizes and of each row.                               *)
LEMMA Sizes ==
    ASSUME SyncInv
    PROVE  /\ rows \in Seq(RowType) /\ Len(rows) \in Nat /\ Ids = 1..Len(rows)
           /\ accepted \in Seq(Upload) /\ Len(accepted) \in Nat /\ DOMAIN accepted = 1..Len(accepted)
           /\ Latest = Len(snaps) /\ Latest \in Nat /\ Normal \subseteq Ids
BY DEF SyncInv, GoodTable, GoodLog, SnapsOK, Latest, Ids, Normal

LEMMA RowFacts ==
    ASSUME SyncInv, NEW i \in Ids
    PROVE  /\ rows[i] \in RowType /\ Fits(rows[i].doc) /\ i \in Nat
           /\ ScanOf(i) \in 1..Len(snaps) /\ ScanOf(i) \in Nat
           /\ rows[i].doc.hash \in Inventories
           /\ rows[i].doc.mode \in {"full", "delta", "unchanged"}
           /\ rows[i].status \in {"PENDING", "SUCCEEDED", "DEAD", "GONE"}
           /\ rows[i].pred \in Nat /\ rows[i].by \in Nat /\ rows[i].recovery \in BOOLEAN
<1>1. rows[i] \in RowType /\ Good(rows[i].doc) /\ i \in Nat
  BY DEF SyncInv, GoodTable, Ids
<1>2. Len(seen) = Len(snaps)
  BY DEF SyncInv, SnapsOK
<1> QED
  BY <1>1, <1>2 DEF RowType, Good, Fits, Doc, ScanOf

LEMMA AcceptedAre ==
    ASSUME SyncInv, OrderInv
    PROVE  AcceptedScans = DOMAIN accepted
BY DEF OrderInv, LogInOrder, AcceptedScans

LEMMA ResolvedIs ==
    ASSUME SyncInv, OrderInv, NEW i \in Ids, Resolved(i)
    PROVE  i \in Normal /\ rows[i].status = "SUCCEEDED" /\ ScanOf(i) \in DOMAIN accepted
<1>1. rows[i].by # 0 => rows[rows[i].by].status # "SUCCEEDED"
  <2>1. rows[i].by # 0 => rows[i].by \in Ids /\ rows[rows[i].by].recovery
    BY DEF OrderInv, ResyncsInVain, Normal
  <2> QED
    BY <2>1 DEF OrderInv, ResyncsInVain
<1>2. rows[i].status = "SUCCEEDED"
  BY <1>1 DEF Resolved
<1>3. i \in Normal
  BY <1>2 DEF OrderInv, ResyncsInVain, Normal
<1> QED
  BY <1>2, <1>3 DEF OrderInv, DeliveredAccepted

LEMMA ReadyInTurn ==
    ASSUME SyncInv, OrderInv, NEW i \in Normal, Ready(i)
    PROVE  \A m \in 1..(ScanOf(i) - 1) : m <= Len(accepted)
<1>1. InOrder(i) /\ i \in Ids
  BY DEF OrderInv, Normal
<1>2. CASE rows[i].pred # 0 /\ rows[i].pred \in Ids /\
           (rows[rows[i].pred].recovery \/ ScanOf(rows[i].pred) = ScanOf(i) - 1)
  <2>1. PICK p : p = rows[i].pred
    OBVIOUS
  <2>2. p \in Ids /\ Resolved(p)
    BY <1>2, <2>1 DEF Ready
  <2>3. p \in Normal /\ ScanOf(p) \in DOMAIN accepted
    BY <2>2, ResolvedIs
  <2>4. ScanOf(p) = ScanOf(i) - 1
    BY <1>2, <2>1, <2>3 DEF Normal
  <2>5. ScanOf(i) \in Nat /\ DOMAIN accepted = 1..Len(accepted) /\ Len(accepted) \in Nat
    BY <1>1, RowFacts, Sizes
  <2> QED
    BY <2>3, <2>4, <2>5
<1> QED
  BY <1>1, <1>2 DEF InOrder

(* Every scan's own row is there until it is accepted.                       *)
LEMMA NothingToReconcile ==
    ASSUME SyncInv, OrderInv, NEW k
    PROVE  ~Reconcile(k)
<1> SUFFICES ASSUME k \in Stored, k \notin AcceptedScans, SameKey(k, FALSE) = {}
             PROVE  FALSE
  BY DEF Reconcile
<1>1. k \in 1..Len(snaps)
  BY DEF SyncInv, SnapsOK, Stored
<1>2. PICK i \in Normal : ScanOf(i) = k
  BY <1>1 DEF OrderInv, OneRowEach
<1>3. k \notin DOMAIN accepted
  BY AcceptedAre
<1>4. rows[i].status # "GONE" /\ i \in Ids
  BY <1>2, <1>3 DEF OrderInv, DeliveredAccepted, Normal
<1>5. rows[i].recovery = FALSE
  BY <1>2, <1>4, RowFacts DEF Normal
<1>6. i \in SameKey(k, FALSE)
  BY <1>2, <1>4, <1>5 DEF SameKey, Live, ScanOf
<1> QED
  BY <1>6

LEMMA SameScanSameRow ==
    ASSUME SyncInv, OrderInv, NEW i \in Normal, NEW j \in Normal, ScanOf(i) = ScanOf(j)
    PROVE  i = j
<1>1. i \in Nat /\ j \in Nat /\ ScanOf(i) \in Nat /\ ScanOf(j) \in Nat
  BY RowFacts DEF Normal
<1>2. ~(i < j) /\ ~(j < i)
  BY <1>1 DEF OrderInv, OneRowEach
<1> QED
  BY <1>1, <1>2

LEMMA MatchesAccepted ==
    ASSUME SyncInv, NEW i \in Ids, BaseMatches(rows[i].doc)
    PROVE  Reconstruct(rows[i].doc) = "accept"
<1>1. PICK doc : doc = rows[i].doc
  OBVIOUS
<1>2. Fits(doc) /\ doc.hash \in Inventories /\ doc.mode \in {"full", "delta", "unchanged"}
  BY <1>1, RowFacts
<1>3. Described(doc, Current.inv) = doc.hash /\ WellFormed(doc)
  <2>1. Current.hash # None => Current.inv = Current.hash
    BY DEF Current, NoState
  <2>2. CASE doc.mode = "full"
    BY <1>2, <2>2 DEF Fits, Described
  <2>3. CASE doc.mode = "delta"
    <3>1. Current.inv = doc.previous
      BY <1>1, <2>1, <2>3 DEF BaseMatches
    <3> QED
      BY <1>2, <2>3, <3>1 DEF Fits
  <2>4. CASE doc.mode = "unchanged"
    <3>1. Current.inv = doc.hash
      BY <1>1, <2>1, <2>4 DEF BaseMatches
    <3> QED
      BY <1>2, <2>4, <3>1 DEF Fits, Described
  <2> QED
    BY <1>2, <2>2, <2>3, <2>4
<1>4. Normalized(Described(doc, Current.inv)) = doc.hash
  BY <1>2, <1>3, NormalIsItself
<1> QED
  BY <1>1, <1>3, <1>4 DEF Reconstruct

(* A scan whose turn it is has the base its document builds on.              *)
LEMMA BaseInTurn ==
    ASSUME SyncInv, OrderInv, NEW i \in Normal, ScanOf(i) = Len(accepted) + 1
    PROVE  BaseMatches(rows[i].doc)
<1>1. PICK doc : doc = rows[i].doc
  OBVIOUS
<1>2. Fits(doc) /\ doc.mode \in {"full", "delta", "unchanged"}
  BY <1>1, RowFacts DEF Normal
<1>3. CASE doc.mode = "full"
  <2>1. doc.previous = None
    BY <1>1, <1>3 DEF OrderInv, Chained
  <2> QED
    BY <1>1, <1>3, <2>1 DEF BaseMatches
<1>4. CASE doc.mode # "full"
  <2>1. ScanOf(i) > 1 /\ \A j \in Normal : ScanOf(j) = ScanOf(i) - 1 => doc.previous = rows[j].doc.hash
    BY <1>1, <1>4 DEF OrderInv, Chained
  <2>2. Len(accepted) \in DOMAIN accepted /\ Len(accepted) \in Nat
    BY <2>1, Sizes
  <2>3. PICK up : up = accepted[Len(accepted)]
    OBVIOUS
  <2>4. /\ up.doc.scan = Len(accepted) /\ up.row \in Normal /\ rows[up.row].doc = up.doc
        /\ up.inv = up.doc.hash
    BY <2>2, <2>3 DEF OrderInv, LogInOrder, SyncInv, GoodLog
  <2>5. doc.previous = up.inv /\ up.inv \in Inventories
    <3>1. ScanOf(up.row) = ScanOf(i) - 1
      BY <2>2, <2>4 DEF ScanOf
    <3>2. up.inv \in Inventories
      BY <2>4, RowFacts DEF Normal
    <3> QED
      BY <2>1, <2>4, <3>1, <3>2
  <2>6. Current.hash = up.inv
    <3>1. accepted # <<>>
      BY <2>2
    <3> QED
      BY <2>3, <3>1 DEF Current, Last
  <2>7. Current.hash # None /\ doc.previous = Current.hash
    BY <2>5, <2>6, NullIsNone
  <2>8. doc.mode = "unchanged" => doc.hash = doc.previous
    BY <1>2 DEF Fits
  <2> QED
    BY <1>1, <1>2, <1>4, <2>7, <2>8 DEF BaseMatches
<1> QED
  BY <1>3, <1>4

LEMMA AnswersInOrder ==
    ASSUME SyncInv, OrderInv, NEW i \in Ids, Ready(i)
    PROVE  /\ Answer(i) = "accept" =>
                 i \in Normal /\ ScanOf(i) = Len(accepted) + 1 /\ ScanOf(i) \notin expired
           /\ Answer(i) = "replay" => i \in Normal /\ ScanOf(i) \in DOMAIN accepted
           /\ Answer(i) \in {"resync", "malformed", "conflict"} => ScanOf(i) \in expired
<1>1. AcceptedScans = DOMAIN accepted
  BY AcceptedAre
<1>2. \A n \in DOMAIN accepted : accepted[n].row = i => i \in Normal /\ ScanOf(i) = n
  BY DEF OrderInv, LogInOrder, ScanOf
<1>3. CASE \E n \in DOMAIN accepted : accepted[n].row = i
  <2>1. Answer(i) = "replay"
    BY <1>3 DEF Answer
  <2> QED
    BY <1>2, <1>3, <2>1
<1>4. CASE ~(\E n \in DOMAIN accepted : accepted[n].row = i)
  <2>1. CASE ScanOf(i) \in expired
    <3>1. Answer(i) = "conflict"
      BY <1>4, <2>1 DEF Answer, ScanOf
    <3> QED
      BY <2>1, <3>1
  <2>2. CASE ScanOf(i) \notin expired
    <3>1. i \in Normal
      BY <2>2 DEF OrderInv, ResyncsInVain, Normal
    <3>2. ScanOf(i) \notin DOMAIN accepted
      <4> SUFFICES ASSUME ScanOf(i) \in DOMAIN accepted PROVE FALSE
        OBVIOUS
      <4>1. PICK n, j : n = ScanOf(i) /\ j = accepted[n].row
        OBVIOUS
      <4>2. j \in Normal /\ ScanOf(j) = n
        BY <4>1 DEF OrderInv, LogInOrder, ScanOf
      <4>3. i = j
        BY <3>1, <4>1, <4>2, SameScanSameRow
      <4> QED
        BY <1>4, <4>1, <4>3
    <3>3. ScanOf(i) = Len(accepted) + 1
      <4>1. \A m \in 1..(ScanOf(i) - 1) : m <= Len(accepted)
        BY <3>1, ReadyInTurn
      <4>2. /\ ScanOf(i) \in Nat /\ ScanOf(i) >= 1 /\ Len(accepted) \in Nat
            /\ DOMAIN accepted = 1..Len(accepted)
        BY RowFacts, Sizes
      <4>3. ScanOf(i) > Len(accepted)
        BY <3>2, <4>2
      <4>4. ScanOf(i) > 1 => ScanOf(i) - 1 <= Len(accepted)
        BY <4>1, <4>2
      <4> QED
        BY <4>2, <4>3, <4>4
    <3>4. Reconstruct(rows[i].doc) = "accept"
      BY <3>1, <3>3, BaseInTurn, MatchesAccepted
    <3>5. Answer(i) = "accept"
      BY <1>1, <1>4, <2>2, <3>2, <3>4 DEF Answer, ScanOf
    <3> QED
      BY <2>2, <3>1, <3>3, <3>5
  <2> QED
    BY <2>1, <2>2
<1> QED
  BY <1>3, <1>4

\* The rows keep their documents, and only resyncs are added.
SameRows ==
    /\ \A j \in Ids : j \in DOMAIN rows' /\ rows'[j].doc = rows[j].doc
                     /\ rows'[j].recovery = rows[j].recovery
    /\ \A j \in DOMAIN rows' \ Ids : rows'[j].recovery

SameLatest == Len(snaps') = Len(snaps) /\ (Latest # 0 => snaps'[Latest].inv = snaps[Latest].inv)

LEMMA SameNormal ==
    ASSUME SyncInv, OrderInv, SameRows, SameLatest
    PROVE  /\ Normal' = Normal /\ \A i \in Ids : ScanOf(i)' = ScanOf(i)
           /\ OneRowEach' /\ Chained'
<1>1. Normal' = Normal
  BY DEF SameRows, Normal, Ids
<1>2. \A i \in Ids : ScanOf(i)' = ScanOf(i)
  BY DEF SameRows, ScanOf
<1>3. Normal \subseteq Ids /\ Latest' = Latest /\ Latest = Len(snaps)
  BY Sizes DEF SameLatest, Latest
<1>4. OneRowEach'
  <2>1. \A k \in 1..Len(snaps') : \E i \in Normal' : ScanOf(i)' = k
    BY <1>1, <1>2, <1>3 DEF SameLatest, OrderInv, OneRowEach
  <2>2. \A i, j \in Normal' : i < j => ScanOf(i)' < ScanOf(j)'
    BY <1>1, <1>2, <1>3 DEF OrderInv, OneRowEach
  <2> QED
    BY <2>1, <2>2 DEF OneRowEach
<1>5. Chained'
  <2>1. ASSUME NEW i \in Normal, ScanOf(i) = Latest PROVE rows'[i].doc.hash = snaps'[Latest'].inv
    <3>1. i \in Ids /\ Latest # 0
      BY <1>3, <2>1, RowFacts
    <3>2. rows[i].doc.hash = snaps[Latest].inv
      BY <2>1 DEF OrderInv, Chained
    <3> QED
      BY <1>3, <3>1, <3>2 DEF SameRows, SameLatest
  <2>2. ASSUME NEW i \in Normal
        PROVE  /\ rows'[i].doc.mode = "full" => rows'[i].doc.previous = None
               /\ rows'[i].doc.mode # "full" =>
                    /\ ScanOf(i) > 1
                    /\ \A j \in Normal : ScanOf(j) = ScanOf(i) - 1 =>
                          rows'[i].doc.previous = rows'[j].doc.hash
    <3>1. \A j \in Normal : rows'[j].doc = rows[j].doc
      BY <1>3 DEF SameRows
    <3> QED
      BY <3>1 DEF OrderInv, Chained
  <2>3. \A i \in Normal' : ScanOf(i)' = Latest' => rows'[i].doc.hash = snaps'[Latest'].inv
    BY <1>1, <1>2, <1>3, <2>1
  <2>4. \A i \in Normal' :
          /\ rows'[i].doc.mode = "full" => rows'[i].doc.previous = None
          /\ rows'[i].doc.mode # "full" =>
               /\ ScanOf(i)' > 1
               /\ \A j \in Normal' : ScanOf(j)' = ScanOf(i)' - 1 =>
                     rows'[i].doc.previous = rows'[j].doc.hash
    BY <1>1, <1>2, <1>3, <2>2
  <2> QED
    BY <2>3, <2>4 DEF Chained
<1> QED
  BY <1>1, <1>2, <1>4, <1>5

LEMMA LogSameOrder ==
    ASSUME SyncInv, OrderInv, SameRows, SameLatest, accepted' = accepted
    PROVE  LogInOrder'
<1>1. Normal' = Normal /\ Normal \subseteq Ids
  BY SameNormal, Sizes
<1>2. \A n \in DOMAIN accepted :
        /\ accepted[n].doc.scan = n /\ accepted[n].row \in Normal
        /\ rows[accepted[n].row].doc = accepted[n].doc
  BY DEF OrderInv, LogInOrder
<1>3. \A j \in Normal : rows'[j].doc = rows[j].doc
  BY <1>1 DEF SameRows
<1> QED
  BY <1>1, <1>2, <1>3 DEF LogInOrder

(* A row of a scan whose links stay, or whose predecessor is removed once      *)
(* accepted, keeps its place.                                                  *)
LEMMA PlaceKept ==
    ASSUME SyncInv, OrderInv, SameRows, SameLatest, Len(accepted') \in Nat,
           Len(accepted) <= Len(accepted'), NEW i \in Normal,
           \/ /\ rows'[i].pred = rows[i].pred
              /\ rows[i].pred \in Ids => (Live(rows[i].pred) => Live(rows[i].pred)')
           \/ rows[i].pred \in Ids /\ Resolved(rows[i].pred)
    PROVE  InOrder(i)'
<1>1. i \in Ids /\ InOrder(i) /\ ScanOf(i) \in Nat /\ Len(accepted) \in Nat
  BY Sizes, RowFacts DEF OrderInv
<1>2. ScanOf(i)' = ScanOf(i)
  BY <1>1, SameNormal
<1>3. CASE \A m \in 1..(ScanOf(i) - 1) : m <= Len(accepted)
  <2>1. \A m \in 1..(ScanOf(i)' - 1) : m <= Len(accepted')
    BY <1>1, <1>2, <1>3
  <2> QED
    BY <2>1 DEF InOrder
<1>4. CASE ~(\A m \in 1..(ScanOf(i) - 1) : m <= Len(accepted))
  <2>1. PICK p : p = rows[i].pred
    OBVIOUS
  <2>2. p # 0 /\ p \in Ids /\ Live(p) /\ (rows[p].recovery \/ ScanOf(p) = ScanOf(i) - 1)
    BY <1>1, <1>4, <2>1 DEF InOrder
  <2>3. ~Resolved(p)
    <3> SUFFICES ASSUME Resolved(p) PROVE FALSE
      OBVIOUS
    <3>1. p \in Normal /\ ScanOf(p) \in DOMAIN accepted
      BY <2>2, ResolvedIs
    <3>2. ScanOf(i) - 1 \in 1..Len(accepted)
      BY <2>2, <3>1, Sizes DEF Normal
    <3> QED
      BY <1>1, <1>4, <3>2
  <2>4. rows'[i].pred = p /\ Live(p)'
    <3>1. rows'[i].pred = rows[i].pred
      BY <2>1, <2>2, <2>3
    <3>2. Live(rows[i].pred)'
      BY <2>1, <2>2, <2>3
    <3> QED
      BY <2>1, <3>1, <3>2 DEF Live
  <2>5. p \in Ids' /\ rows'[p].recovery = rows[p].recovery /\ ScanOf(p)' = ScanOf(p)
    BY <2>2, SameNormal DEF SameRows, Ids
  <2> QED
    BY <1>2, <2>2, <2>4, <2>5 DEF InOrder
<1> QED
  BY <1>3, <1>4

LEMMA DeliverOrder ==
    ASSUME SyncInv, OrderInv, NEW i, Deliver(i)
    PROVE  OrderInv'
<1>1. /\ i \in Ids /\ Ready(i) /\ Answer(i) \in {"accept", "replay"}
      /\ snaps' = snaps /\ expired' = expired
      /\ accepted' = IF Answer(i) = "accept" THEN Accepted(i) ELSE accepted
      /\ rows' = Marked(i, "SUCCEEDED") \/ rows' = rows
  BY DEF Deliver, Marked
<1>2. i \in Normal
  BY <1>1, AnswersInOrder
<1>3. ASSUME NEW j \in Ids
      PROVE  /\ rows'[j].doc = rows[j].doc /\ rows'[j].recovery = rows[j].recovery
             /\ rows'[j].pred = rows[j].pred /\ rows'[j].by = rows[j].by
             /\ rows'[j].status = rows[j].status \/ (j = i /\ rows'[j].status = "SUCCEEDED")
  <2>1. CASE rows' = rows
    BY <2>1
  <2>2. CASE rows' = Marked(i, "SUCCEEDED")
    <3>1. /\ \A l \in Ids \ {i} : rows'[l] = rows[l]
          /\ rows'[i] = [rows[i] EXCEPT !.status = "SUCCEEDED"]
      BY <1>1, <2>2, Sizes, MarkedIs
    <3>2. rows[i] \in RowType
      BY <1>1, RowFacts
    <3>3. CASE j = i
      BY <3>1, <3>2, <3>3 DEF RowType
    <3>4. CASE j # i
      BY <3>1, <3>4
    <3> QED
      BY <3>3, <3>4
  <2> QED
    BY <1>1, <2>1, <2>2
<1>4. DOMAIN rows' = Ids /\ Ids' = Ids
  <2>1. CASE rows' = rows
    BY <2>1 DEF Ids
  <2>2. CASE rows' = Marked(i, "SUCCEEDED")
    BY <1>1, <2>2, Sizes, MarkedIs DEF SameDocs, Ids
  <2> QED
    BY <1>1, <2>1, <2>2
<1>5. SameRows /\ SameLatest
  BY <1>1, <1>3, <1>4 DEF SameRows, SameLatest
<1>6. Normal' = Normal /\ (\A j \in Ids : ScanOf(j)' = ScanOf(j)) /\ OneRowEach' /\ Chained'
  BY <1>5, SameNormal
<1>7. /\ Len(accepted') \in Nat /\ Len(accepted) \in Nat /\ Len(accepted) <= Len(accepted')
      /\ DOMAIN accepted' = 1..Len(accepted') /\ DOMAIN accepted = 1..Len(accepted)
      /\ ScanOf(i) \in DOMAIN accepted' /\ LogInOrder'
      /\ \A n \in DOMAIN accepted' : n \notin expired
  <2>1. CASE Answer(i) = "replay"
    <3>1. accepted' = accepted
      BY <1>1, <2>1
    <3>2. LogInOrder'
      BY <1>5, <3>1, LogSameOrder
    <3>3. ScanOf(i) \in DOMAIN accepted
      BY <1>1, <2>1, AnswersInOrder
    <3>4. \A n \in DOMAIN accepted : n \notin expired
      BY DEF OrderInv, ResyncsInVain
    <3> QED
      BY <3>1, <3>2, <3>3, <3>4, Sizes
  <2>2. CASE Answer(i) = "accept"
    <3>1. ScanOf(i) = Len(accepted) + 1 /\ ScanOf(i) \notin expired
      BY <1>1, <2>2, AnswersInOrder
    <3>2. PICK up : up = [doc |-> rows[i].doc, row |-> i, inv |-> rows[i].doc.hash]
      OBVIOUS
    <3>3. accepted' = Append(accepted, up)
      BY <1>1, <2>2, <3>2, AcceptedGood
    <3>4. accepted \in Seq(Upload) /\ up \in Upload
      BY <1>1, <3>2, Sizes, RowFacts DEF RowType, Upload
    <3>5. /\ Len(accepted') = Len(accepted) + 1 /\ accepted' \in Seq(Upload)
          /\ \A n \in 1..Len(accepted) : accepted'[n] = accepted[n]
          /\ accepted'[Len(accepted) + 1] = up
      BY <3>3, <3>4, AppendProperties
    <3>6. Len(accepted) \in Nat /\ DOMAIN accepted = 1..Len(accepted)
      BY Sizes
    <3>7. DOMAIN accepted' = 1..Len(accepted')
      BY <3>5
    <3>8. ASSUME NEW n \in DOMAIN accepted'
          PROVE  /\ accepted'[n].doc.scan = n /\ accepted'[n].row \in Normal /\ n \notin expired
                 /\ rows[accepted'[n].row].doc = accepted'[n].doc
      <4>1. CASE n = Len(accepted) + 1
        BY <1>2, <3>1, <3>2, <3>5, <4>1 DEF ScanOf
      <4>2. CASE n # Len(accepted) + 1
        <5>1. n \in DOMAIN accepted /\ accepted'[n] = accepted[n]
          BY <3>5, <3>6, <3>7, <4>2
        <5> QED
          BY <5>1 DEF OrderInv, LogInOrder, ResyncsInVain
      <4> QED
        BY <4>1, <4>2
    <3>9. LogInOrder'
      <4>1. \A j \in Normal : rows'[j].doc = rows[j].doc
        BY <1>3, Sizes
      <4> QED
        BY <1>6, <3>8, <4>1 DEF LogInOrder
    <3> QED
      BY <3>1, <3>5, <3>6, <3>7, <3>8, <3>9
  <2> QED
    BY <1>1, <2>1, <2>2
<1>8. ResyncsInVain'
  <2>1. \A j \in Ids : rows'[j].recovery =>
            ScanOf(j)' \in expired /\ rows'[j].status \in {"PENDING", "DEAD"}
    BY <1>2, <1>3, <1>6 DEF OrderInv, ResyncsInVain, Normal
  <2>2. \A j \in Ids : rows'[j].by # 0 => rows'[j].by \in Ids \ Normal
    BY <1>3 DEF OrderInv, ResyncsInVain
  <2> QED
    BY <1>1, <1>4, <1>6, <1>7, <2>1, <2>2 DEF ResyncsInVain
<1>9. DeliveredAccepted'
  <2>1. ASSUME NEW j \in Ids, rows'[j].status \in {"SUCCEEDED", "GONE"}
        PROVE  ScanOf(j)' \in DOMAIN accepted'
    <3>1. CASE j = i
      BY <1>6, <1>7, <3>1
    <3>2. CASE j # i
      <4>1. ScanOf(j) \in DOMAIN accepted
        BY <1>3, <2>1, <3>2 DEF OrderInv, DeliveredAccepted
      <4> QED
        BY <1>6, <1>7, <4>1
    <3> QED
      BY <3>1, <3>2
  <2> QED
    BY <1>4, <2>1 DEF DeliveredAccepted
<1>10. ASSUME NEW j \in Normal PROVE InOrder(j)'
  <2>1. rows'[j].pred = rows[j].pred
    BY <1>3, Sizes
  <2>2. rows[j].pred \in Ids => (Live(rows[j].pred) => Live(rows[j].pred)')
    BY <1>3, <2>1 DEF Live
  <2> QED
    BY <1>5, <1>7, <2>1, <2>2, PlaceKept
<1> QED
  BY <1>6, <1>7, <1>8, <1>9, <1>10 DEF OrderInv

LEMMA ConflictOrder ==
    ASSUME SyncInv, OrderInv, NEW i, Conflict(i)
    PROVE  OrderInv'
<1>1. /\ i \in Ids /\ Ready(i) /\ Answer(i) \in {"resync", "malformed", "conflict"}
      /\ snaps' = snaps /\ expired' = expired /\ accepted' = accepted
  BY DEF Conflict
<1>2. ScanOf(i) \in expired
  BY <1>1, AnswersInOrder
<1>3. Ids = 1..Len(rows) /\ Len(rows) \in Nat /\ rows \in Seq(RowType) /\ rows[i] \in RowType
  BY <1>1, Sizes, RowFacts
\* The refused row dies, for nothing, a known resync or a new one.
<1> DEFINE Dies(table, by) ==
      /\ table \in Seq(RowType) /\ Len(table) = Len(rows) /\ DOMAIN table = Ids
      /\ \A j \in Ids \ {i} : table[j] = rows[j]
      /\ table[i] = [rows[i] EXCEPT !.status = "DEAD", !.by = by]
<1>4. ASSUME NEW by \in Nat PROVE Dies(Dead(i, by), by)
  BY <1>1, <1>3, DeadIs DEF SameDocs
<1>5. \E by \in Nat :
        \/ Dies(rows', by) /\ (by = 0 \/ by \in Ids \ Normal)
        \/ /\ by = Len(rows) + 1 /\ DOMAIN rows' = 1..by
           /\ \A j \in Ids \ {i} : rows'[j] = rows[j]
           /\ rows'[i] = [rows[i] EXCEPT !.status = "DEAD", !.by = by]
           /\ rows'[by].doc.scan = ScanOf(i) /\ rows'[by].recovery
           /\ rows'[by].status = "PENDING" /\ rows'[by].by = 0
  <2> HIDE DEF Dies
  <2>1. CASE ~CanResync(i)
    <3>1. rows' = Dead(i, 0) /\ 0 \in Nat
      BY <2>1 DEF Conflict
    <3>2. Dies(rows', 0)
      BY <1>4, <3>1
    <3> QED
      BY <3>2
  <2>2. CASE CanResync(i) /\ SameKey(rows[i].doc.scan, TRUE) # {}
    <3>1. PICK known : known = SameKey(rows[i].doc.scan, TRUE)
      OBVIOUS
    <3>2. PICK by : by = CHOOSE r \in known : TRUE
      OBVIOUS
    <3>3. rows' = Dead(i, by)
      BY <2>2, <3>1, <3>2 DEF Conflict
    <3>4. by \in known
      BY <2>2, <3>1, <3>2
    <3>5. by \in Ids \ Normal /\ by \in Nat
      BY <1>3, <3>1, <3>4 DEF SameKey, Normal
    <3> QED
      BY <1>4, <3>3, <3>5
  <2>3. CASE CanResync(i) /\ SameKey(rows[i].doc.scan, TRUE) = {}
    <3>1. PICK by, table : by = Len(rows) + 1 /\ table = Dead(i, by)
      OBVIOUS
    <3>2. PICK row : row = Row(Recovery(i), rows[i].pred, TRUE)
      OBVIOUS
    <3>3. Grown(rows', table, row)
      BY <2>3, <3>1, <3>2 DEF Conflict, Grown
    <3>4. by \in Nat /\ Dies(table, by)
      BY <1>3, <1>4, <3>1
    <3>5. /\ row \in RowType /\ row.doc.scan = ScanOf(i) /\ row.recovery
          /\ row.status = "PENDING" /\ row.by = 0
      <4>1. PICK k, doc, pred : /\ k = ScanOf(i) /\ doc = Full(k, snaps[k].inv, None)
                                /\ pred = rows[i].pred
        OBVIOUS
      <4>2. k \in Stored /\ pred \in Nat
        BY <1>1, <2>3, <4>1, RowFacts DEF CanResync, ScanOf
      <4>3. Good(doc)
        BY <4>1, <4>2, StoredGood DEF SyncInv
      <4>4. doc \in Doc /\ doc.scan = k
        BY <4>1, <4>3 DEF Good, Fits, Full
      <4>5. row = Row(doc, pred, TRUE)
        BY <3>2, <4>1 DEF Recovery, ScanOf
      <4> QED
        BY <4>1, <4>2, <4>4, <4>5 DEF Row, RowType
    <3>6. /\ rows' \in Seq(RowType) /\ Len(rows') = Len(table) + 1
          /\ rows'[Len(table) + 1] = row
          /\ \A j \in 1..Len(table) : rows'[j] = table[j]
      <4>1. table \in Seq(RowType)
        BY <3>4 DEF Dies
      <4> QED
        BY <3>3, <3>5, <4>1, TableGrows
    <3>7. /\ by = Len(rows) + 1 /\ DOMAIN rows' = 1..by /\ rows'[by] = row
          /\ \A j \in Ids : rows'[j] = table[j]
      BY <1>3, <3>1, <3>4, <3>6 DEF Dies
    <3>8. /\ \A j \in Ids \ {i} : rows'[j] = rows[j]
          /\ rows'[i] = [rows[i] EXCEPT !.status = "DEAD", !.by = by]
      BY <1>1, <3>4, <3>7 DEF Dies
    <3>9. /\ rows'[by].doc.scan = ScanOf(i) /\ rows'[by].recovery
          /\ rows'[by].status = "PENDING" /\ rows'[by].by = 0
      BY <3>5, <3>7
    <3>10. by \in Nat /\ by = Len(rows) + 1 /\ DOMAIN rows' = 1..by
      BY <3>4, <3>7
    <3> QED
      BY <3>8, <3>9, <3>10
  <2> QED
    BY <2>1, <2>2, <2>3
<1>6. PICK by \in Nat :
        \/ Dies(rows', by) /\ (by = 0 \/ by \in Ids \ Normal)
        \/ /\ by = Len(rows) + 1 /\ DOMAIN rows' = 1..by
           /\ \A j \in Ids \ {i} : rows'[j] = rows[j]
           /\ rows'[i] = [rows[i] EXCEPT !.status = "DEAD", !.by = by]
           /\ rows'[by].doc.scan = ScanOf(i) /\ rows'[by].recovery
           /\ rows'[by].status = "PENDING" /\ rows'[by].by = 0
  BY <1>5
<1>7. /\ \A j \in Ids \ {i} : rows'[j] = rows[j]
      /\ rows'[i] = [rows[i] EXCEPT !.status = "DEAD", !.by = by]
      /\ Ids \subseteq DOMAIN rows'
  BY <1>3, <1>6
<1>8. ASSUME NEW j \in DOMAIN rows' \ Ids
      PROVE  /\ rows'[j].doc.scan = ScanOf(i) /\ rows'[j].recovery
             /\ rows'[j].status = "PENDING" /\ rows'[j].by = 0
  <2>1. j = by
    BY <1>3, <1>6
  <2> QED
    BY <1>3, <1>6, <2>1
<1>9. by = 0 \/ (by \in DOMAIN rows' /\ by \notin Normal)
  BY <1>3, <1>6, Sizes
<1> HIDE DEF Dies
<1>10. ASSUME NEW j \in Ids
       PROVE  /\ rows'[j].doc = rows[j].doc /\ rows'[j].recovery = rows[j].recovery
              /\ rows'[j].pred = rows[j].pred
              /\ rows'[j].status = "DEAD" \/ rows'[j].status = rows[j].status
              /\ rows'[j].by = by \/ rows'[j].by = rows[j].by
  <2>1. CASE j = i
    BY <1>3, <1>7, <2>1 DEF RowType
  <2>2. CASE j # i
    BY <1>7, <2>2
  <2> QED
    BY <2>1, <2>2
<1>11. SameRows /\ SameLatest
  BY <1>1, <1>7, <1>8, <1>10 DEF SameRows, SameLatest
<1>12. Normal' = Normal /\ (\A j \in Ids : ScanOf(j)' = ScanOf(j)) /\ OneRowEach' /\ Chained'
  BY <1>11, SameNormal
<1>13. LogInOrder'
  BY <1>1, <1>11, LogSameOrder
<1>14. ResyncsInVain'
  <2>1. \A j \in DOMAIN rows' : rows'[j].recovery =>
            ScanOf(j)' \in expired /\ rows'[j].status \in {"PENDING", "DEAD"}
    <3>1. \A j \in DOMAIN rows' \ Ids : ScanOf(j)' = ScanOf(i)
      BY <1>8 DEF ScanOf
    <3> QED
      BY <1>2, <1>8, <1>10, <1>12, <3>1 DEF OrderInv, ResyncsInVain
  <2>2. \A j \in DOMAIN rows' : rows'[j].by # 0 => rows'[j].by \in DOMAIN rows' \ Normal
    BY <1>7, <1>8, <1>9, <1>10 DEF OrderInv, ResyncsInVain
  <2>3. Ids' = DOMAIN rows'
    BY DEF Ids
  <2>4. \A n \in DOMAIN accepted' : n \notin expired'
    BY <1>1 DEF OrderInv, ResyncsInVain
  <2> QED
    BY <1>1, <1>12, <2>1, <2>2, <2>3, <2>4 DEF ResyncsInVain
<1>15. DeliveredAccepted'
  <2>1. ASSUME NEW j \in DOMAIN rows', rows'[j].status \in {"SUCCEEDED", "GONE"}
        PROVE  ScanOf(j)' \in DOMAIN accepted'
    <3>1. j \in Ids /\ rows'[j].status = rows[j].status
      BY <1>8, <1>10, <2>1
    <3> QED
      BY <1>1, <1>12, <2>1, <3>1 DEF OrderInv, DeliveredAccepted
  <2> QED
    BY <2>1 DEF DeliveredAccepted, Ids
<1>16. ASSUME NEW j \in Normal PROVE InOrder(j)'
  <2>1. rows'[j].pred = rows[j].pred
    BY <1>10, Sizes
  <2>2. rows[j].pred \in Ids => (Live(rows[j].pred) => Live(rows[j].pred)')
    BY <1>10, <2>1 DEF Live
  <2>3. Len(accepted') \in Nat /\ Len(accepted) <= Len(accepted')
    BY <1>1, Sizes
  <2> QED
    BY <1>11, <2>1, <2>2, <2>3, PlaceKept
<1> QED
  BY <1>12, <1>13, <1>14, <1>15, <1>16 DEF OrderInv

LEMMA RequeueOrder ==
    ASSUME SyncInv, OrderInv, NEW i, Requeue(i)
    PROVE  OrderInv'
<1>1. /\ i \in Ids /\ rows' = Marked(i, "PENDING")
      /\ snaps' = snaps /\ expired' = expired /\ accepted' = accepted
  BY DEF Requeue, Marked
<1>2. /\ DOMAIN rows' = Ids /\ Ids' = Ids
      /\ \A l \in Ids \ {i} : rows'[l] = rows[l]
      /\ rows'[i] = [rows[i] EXCEPT !.status = "PENDING"]
  BY <1>1, Sizes, MarkedIs DEF SameDocs, Ids
<1>3. ASSUME NEW j \in Ids
      PROVE  /\ rows'[j].doc = rows[j].doc /\ rows'[j].recovery = rows[j].recovery
             /\ rows'[j].pred = rows[j].pred /\ rows'[j].by = rows[j].by
             /\ rows'[j].status = rows[j].status \/ rows'[j].status = "PENDING"
  <2>1. rows[i] \in RowType
    BY <1>1, RowFacts
  <2>2. CASE j = i
    BY <1>2, <2>1, <2>2 DEF RowType
  <2>3. CASE j # i
    BY <1>2, <2>3
  <2> QED
    BY <2>2, <2>3
<1>4. SameRows /\ SameLatest
  BY <1>1, <1>2, <1>3 DEF SameRows, SameLatest
<1>5. Normal' = Normal /\ (\A j \in Ids : ScanOf(j)' = ScanOf(j)) /\ OneRowEach' /\ Chained'
  BY <1>4, SameNormal
<1>6. LogInOrder'
  BY <1>1, <1>4, LogSameOrder
<1>7. ResyncsInVain'
  BY <1>1, <1>2, <1>3, <1>5 DEF OrderInv, ResyncsInVain
<1>8. DeliveredAccepted'
  BY <1>1, <1>2, <1>3, <1>5 DEF OrderInv, DeliveredAccepted
<1>9. ASSUME NEW j \in Normal PROVE InOrder(j)'
  <2>1. rows'[j].pred = rows[j].pred
    BY <1>3, Sizes
  <2>2. rows[j].pred \in Ids => (Live(rows[j].pred) => Live(rows[j].pred)')
    BY <1>3, <2>1 DEF Live
  <2>3. Len(accepted') \in Nat /\ Len(accepted) <= Len(accepted')
    BY <1>1, Sizes
  <2> QED
    BY <1>4, <2>1, <2>2, <2>3, PlaceKept
<1> QED
  BY <1>5, <1>6, <1>7, <1>8, <1>9 DEF OrderInv

LEMMA PurgeOrder ==
    ASSUME SyncInv, OrderInv, NEW i, Purge(i)
    PROVE  OrderInv'
<1>1. /\ i \in Ids /\ Resolved(i)
      /\ snaps' = snaps /\ expired' = expired /\ accepted' = accepted
  BY DEF Purge, Resolved
<1>2. i \in Normal /\ ScanOf(i) \in DOMAIN accepted
  BY <1>1, ResolvedIs
<1>3. /\ DOMAIN rows' = Ids /\ Ids' = Ids
      /\ rows'[i] = [rows[i] EXCEPT !.status = "GONE", !.pred = 0, !.by = 0]
      /\ \A j \in Ids \ {i} :
           rows'[j] = [rows[j] EXCEPT !.pred = Nulled(@, i), !.by = Nulled(@, i)]
  BY <1>1, Sizes, PurgeIs DEF SameDocs, Ids
<1>4. ASSUME NEW j \in Ids
      PROVE  /\ rows'[j].doc = rows[j].doc /\ rows'[j].recovery = rows[j].recovery
             /\ rows'[j].by \in {0, rows[j].by}
             /\ j # i => rows'[j].pred = Nulled(rows[j].pred, i) /\ rows'[j].status = rows[j].status
             /\ j = i => rows'[j].pred = 0 /\ rows'[j].status = "GONE"
  <2>1. rows[j] \in RowType
    BY RowFacts
  <2>2. CASE j = i
    <3>1. rows'[j] = [rows[j] EXCEPT !.status = "GONE", !.pred = 0, !.by = 0]
      BY <1>3, <2>2
    <3> QED
      BY <2>1, <2>2, <3>1 DEF RowType
  <2>3. CASE j # i
    <3>1. rows'[j] = [rows[j] EXCEPT !.pred = Nulled(rows[j].pred, i), !.by = Nulled(rows[j].by, i)]
      BY <1>3, <2>3
    <3>2. Nulled(rows[j].by, i) \in {0, rows[j].by}
      BY DEF Nulled
    <3> QED
      BY <2>1, <2>3, <3>1, <3>2 DEF RowType
  <2> QED
    BY <2>2, <2>3
<1>5. SameRows /\ SameLatest
  BY <1>1, <1>3, <1>4 DEF SameRows, SameLatest
<1>6. Normal' = Normal /\ (\A j \in Ids : ScanOf(j)' = ScanOf(j)) /\ OneRowEach' /\ Chained'
  BY <1>5, SameNormal
<1>7. LogInOrder'
  BY <1>1, <1>5, LogSameOrder
<1>8. ResyncsInVain'
  <2>1. \A j \in Ids : rows'[j].recovery =>
            ScanOf(j)' \in expired /\ rows'[j].status \in {"PENDING", "DEAD"}
    <3>1. ~rows[i].recovery
      BY <1>2 DEF Normal
    <3> QED
      BY <1>4, <1>6, <3>1 DEF OrderInv, ResyncsInVain
  <2>2. \A j \in Ids : rows'[j].by # 0 => rows'[j].by \in Ids \ Normal
    BY <1>4 DEF OrderInv, ResyncsInVain
  <2> QED
    BY <1>1, <1>3, <1>6, <2>1, <2>2 DEF OrderInv, ResyncsInVain
<1>9. DeliveredAccepted'
  <2>1. ASSUME NEW j \in Ids, rows'[j].status \in {"SUCCEEDED", "GONE"}
        PROVE  ScanOf(j)' \in DOMAIN accepted'
    <3>1. CASE j = i
      BY <1>1, <1>2, <1>6, <3>1
    <3>2. CASE j # i
      BY <1>1, <1>4, <1>6, <2>1, <3>2 DEF OrderInv, DeliveredAccepted
    <3> QED
      BY <3>1, <3>2
  <2> QED
    BY <1>3, <2>1 DEF DeliveredAccepted
<1>10. Len(accepted') \in Nat /\ Len(accepted) <= Len(accepted')
  BY <1>1, Sizes
<1>11. ASSUME NEW j \in Normal PROVE InOrder(j)'
  <2>1. j \in Ids
    BY Sizes
  <2>2. CASE j = i
    <3>1. ScanOf(i)' \in 1..Len(accepted') /\ Len(accepted') \in Nat
      BY <1>1, <1>2, <1>6, Sizes
    <3>2. \A m \in 1..(ScanOf(i)' - 1) : m <= Len(accepted')
      BY <3>1
    <3> QED
      BY <2>2, <3>2 DEF InOrder
  <2>3. CASE j # i /\ rows[j].pred = i
    <3>1. rows[j].pred \in Ids /\ Resolved(rows[j].pred)
      BY <1>1, <2>3
    <3> QED
      BY <1>5, <1>10, <3>1, PlaceKept
  <2>4. CASE j # i /\ rows[j].pred # i
    <3>1. rows'[j].pred = rows[j].pred
      BY <1>4, <2>1, <2>4 DEF Nulled
    <3>2. rows[j].pred \in Ids => (Live(rows[j].pred) => Live(rows[j].pred)')
      BY <1>4, <2>4, <3>1 DEF Live
    <3> QED
      BY <1>5, <1>10, <3>1, <3>2, PlaceKept
  <2> QED
    BY <2>2, <2>3, <2>4
<1> QED
  BY <1>6, <1>7, <1>8, <1>9, <1>11 DEF OrderInv

(* Steps of the cloud and of retention that touch no row.                    *)
LEMMA RestOrder ==
    ASSUME SyncInv, OrderInv, rows' = rows, accepted' = accepted, SameLatest,
           expired' = expired \/ \E k : k \notin AcceptedScans /\ expired' = expired \cup {k}
    PROVE  OrderInv'
<1>1. SameRows /\ Ids' = Ids
  BY DEF SameRows, Ids
<1>2. Normal' = Normal /\ (\A j \in Ids : ScanOf(j)' = ScanOf(j)) /\ OneRowEach' /\ Chained'
  BY <1>1, SameNormal
<1>3. LogInOrder'
  BY <1>1, LogSameOrder
<1>4. ResyncsInVain'
  <2>1. expired \subseteq expired' /\ \A n \in DOMAIN accepted : n \notin expired'
    BY AcceptedAre DEF OrderInv, ResyncsInVain
  <2> QED
    BY <1>1, <1>2, <2>1 DEF OrderInv, ResyncsInVain
<1>5. DeliveredAccepted'
  BY <1>1, <1>2 DEF OrderInv, DeliveredAccepted
<1>6. ASSUME NEW j \in Normal PROVE InOrder(j)'
  <2>1. rows'[j].pred = rows[j].pred
    OBVIOUS
  <2>2. rows[j].pred \in Ids => (Live(rows[j].pred) => Live(rows[j].pred)')
    BY DEF Live
  <2>3. Len(accepted') \in Nat /\ Len(accepted) <= Len(accepted')
    BY Sizes
  <2> QED
    BY <1>1, <2>1, <2>2, <2>3, PlaceKept
<1> QED
  BY <1>2, <1>3, <1>4, <1>5, <1>6 DEF OrderInv

LEMMA PruneOrder ==
    ASSUME SyncInv, OrderInv, NEW k, Prune(k)
    PROVE  OrderInv'
<1>1. /\ k \in Stored /\ k # Latest /\ rows' = rows /\ accepted' = accepted /\ expired' = expired
      /\ snaps' = [n \in DOMAIN snaps |->
                   IF n = k THEN None
                   ELSE IF n \in Stored /\ snaps[n].prev = k THEN Orphaned(snaps[n])
                   ELSE snaps[n]]
  BY DEF Prune
<1>2. /\ Latest \in DOMAIN snaps /\ Len(snaps) = Latest /\ Latest \in Nat
      /\ DOMAIN snaps = 1..Latest /\ snaps[Latest] \in Snap
  BY <1>1 DEF SyncInv, SnapsOK, Stored, Latest
<1>3. Len(snaps') = Len(snaps)
  BY <1>1, <1>2
<1>4. snaps'[Latest].inv = snaps[Latest].inv
  <2>1. snaps'[Latest] = snaps[Latest] \/ snaps'[Latest] = Orphaned(snaps[Latest])
    BY <1>1, <1>2
  <2> QED
    BY <1>2, <2>1, OrphanedIs
<1>5. SameLatest
  BY <1>3, <1>4 DEF SameLatest
<1> QED
  BY <1>1, <1>5, RestOrder

(* What the document of a new scan says.                                     *)
LEMMA ScanDoc ==
    ASSUME SyncInv, NEW o \in Observations, Scan(o), NEW k, k = Latest + 1,
           NEW inv, inv = Inventory(o), NEW table, Grown(table, snaps, Snapshot(inv)),
           NEW doc, doc = Payload(table, k)
    PROVE  /\ doc.scan = k /\ doc.hash = inv /\ table[k].inv = inv /\ Len(table) = k
           /\ k = 1 => doc.mode = "full" /\ doc.previous = None
           /\ k # 1 => doc.mode # "full" /\ doc.previous = snaps[Latest].inv
<1>1. SnapsOK /\ inv \in Inventories
  BY InventoryShows DEF Scan, SyncInv
<1>2. /\ Len(table) = k /\ k \in Nat \ {0}
      /\ \A i \in 1..Latest : table[i] = snaps[i]
      /\ table[k].inv = inv /\ Linked(table, k)
      /\ table[k].initial <=> k = 1
      /\ ~table[k].initial => table[k].prev = Latest
  BY <1>1, SnapshotIs
<1>3. k \in Nat /\ Linked(table, k)
  BY <1>2
<1>4. /\ doc.hash = table[k].inv /\ doc.scan = k
      /\ table[k].initial => doc.mode = "full" /\ doc.previous = None
      /\ ~table[k].initial => doc.mode # "full" /\ doc.previous = table[table[k].prev].inv
  BY <1>3, PayloadFits
<1>5. k # 1 => table[Latest] = snaps[Latest]
  BY <1>2, Sizes
<1> QED
  BY <1>2, <1>4, <1>5

LEMMA ScanOrder ==
    ASSUME SyncInv, OrderInv, NEW o \in Observations, Scan(o)
    PROVE  OrderInv'
<1>1. PICK k, inv : k = Latest + 1 /\ inv = Inventory(o)
  OBVIOUS
<1>2. PICK table : Grown(table, snaps, Snapshot(inv))
  BY DEF Grown
<1>3. PICK doc : doc = Payload(table, k)
  OBVIOUS
<1>4. /\ snaps' = table /\ Grown(rows', rows, Row(doc, Newest, FALSE)) /\ Good(doc)'
      /\ accepted' = accepted /\ expired' = expired
  BY <1>1, <1>2, <1>3, ScanStores DEF Scan
<1>5. /\ doc.scan = k /\ doc.hash = inv /\ table[k].inv = inv /\ Len(table) = k
      /\ k = 1 => doc.mode = "full" /\ doc.previous = None
      /\ k # 1 => doc.mode # "full" /\ doc.previous = snaps[Latest].inv
  BY <1>1, <1>2, <1>3, ScanDoc
<1>6. PICK p, L, row : p = Newest /\ L = Len(rows) + 1 /\ row = Row(doc, p, FALSE)
  OBVIOUS
<1>7. /\ rows \in Seq(RowType) /\ Len(rows) \in Nat /\ Ids = 1..Len(rows) /\ Normal \subseteq Ids
      /\ Latest = Len(snaps) /\ Latest \in Nat
      /\ DOMAIN accepted = 1..Len(accepted) /\ Len(accepted) \in Nat
  BY Sizes
<1>8. /\ p \in 0..Len(rows) /\ (p # 0 => p \in Ids /\ Live(p))
      /\ \A i \in Ids : Live(i) => i <= p
  BY <1>6, NewestIs DEF SyncInv
<1>9. /\ row \in RowType /\ row.doc = doc /\ row.pred = p /\ row.by = 0
      /\ row.status = "PENDING" /\ ~row.recovery
  <2>1. doc \in Doc /\ p \in Nat
    BY <1>4, <1>8 DEF Good, Fits
  <2> QED
    BY <1>6, <2>1 DEF Row, RowType
<1>10. /\ \A j \in Ids : rows'[j] = rows[j]
       /\ rows'[L] = row /\ DOMAIN rows' = Ids \cup {L} /\ L \notin Ids
  <2>1. Grown(rows', rows, row) /\ rows \in Seq(RowType) /\ row \in RowType
    BY <1>4, <1>6, <1>7, <1>9
  <2>2. /\ rows' \in Seq(RowType) /\ Len(rows') = Len(rows) + 1
        /\ rows'[Len(rows) + 1] = row /\ \A j \in 1..Len(rows) : rows'[j] = rows[j]
    BY <2>1, TableGrows
  <2> QED
    BY <1>6, <1>7, <2>2
<1>11. Normal' = Normal \cup {L} /\ ScanOf(L)' = k /\ \A j \in Ids : ScanOf(j)' = ScanOf(j)
  <2>1. ScanOf(L)' = k /\ \A j \in Ids : ScanOf(j)' = ScanOf(j)
    BY <1>5, <1>9, <1>10 DEF ScanOf
  <2>2. Normal' = Normal \cup {L}
    BY <1>9, <1>10 DEF Normal, Ids
  <2> QED
    BY <2>1, <2>2
<1>12. /\ \A j \in Ids : ScanOf(j) \in 1..Latest
       /\ Len(snaps') = k /\ Latest' = k
  BY <1>4, <1>5, <1>7, RowFacts DEF Latest
<1>13. OneRowEach'
  <2>1. ASSUME NEW m \in 1..k PROVE \E i \in Normal' : ScanOf(i)' = m
    <3>1. CASE m = k
      BY <1>11, <3>1
    <3>2. CASE m # k
      <4>1. m \in 1..Len(snaps)
        BY <1>1, <1>7, <3>2
      <4>2. PICK i \in Normal : ScanOf(i) = m
        BY <4>1 DEF OrderInv, OneRowEach
      <4> QED
        BY <1>7, <1>11, <4>2
    <3> QED
      BY <3>1, <3>2
  <2>2. ASSUME NEW i \in Normal', NEW j \in Normal', i < j PROVE ScanOf(i)' < ScanOf(j)'
    <3>1. i \in Normal
      BY <1>6, <1>7, <1>11, <2>2
    <3>2. CASE j = L
      BY <1>1, <1>7, <1>11, <1>12, <3>1, <3>2
    <3>3. CASE j # L
      BY <1>7, <1>11, <2>2, <3>1, <3>3 DEF OrderInv, OneRowEach
    <3> QED
      BY <3>2, <3>3
  <2> QED
    BY <1>12, <2>1, <2>2 DEF OneRowEach
<1>14. Chained'
  <2>1. ASSUME NEW i \in Normal', ScanOf(i)' = k PROVE rows'[i].doc.hash = snaps'[k].inv
    <3>1. i = L
      BY <1>1, <1>7, <1>11, <1>12, <2>1
    <3> QED
      BY <1>4, <1>5, <1>9, <1>10, <3>1
  <2>2. ASSUME NEW i \in Normal'
        PROVE  /\ rows'[i].doc.mode = "full" => rows'[i].doc.previous = None
               /\ rows'[i].doc.mode # "full" =>
                    /\ ScanOf(i)' > 1
                    /\ \A j \in Normal' : ScanOf(j)' = ScanOf(i)' - 1 =>
                          rows'[i].doc.previous = rows'[j].doc.hash
    <3>1. CASE i = L
      <4>1. ASSUME NEW j \in Normal', ScanOf(j)' = k - 1
            PROVE  rows'[j].doc.hash = snaps[Latest].inv
        <5>1. j \in Normal /\ ScanOf(j) = Latest
          BY <1>1, <1>7, <1>11, <4>1
        <5>2. rows[j].doc.hash = snaps[Latest].inv
          BY <5>1 DEF OrderInv, Chained
        <5> QED
          BY <1>7, <1>10, <5>1, <5>2
      <4>2. k # 1 => k > 1
        BY <1>1, <1>7
      <4>3. rows'[i].doc = doc
        BY <1>9, <1>10, <3>1
      <4> QED
        BY <1>5, <1>11, <3>1, <4>1, <4>2, <4>3
    <3>2. CASE i # L
      <4>1. i \in Normal /\ i \in Ids /\ rows'[i] = rows[i] /\ ScanOf(i)' = ScanOf(i)
        BY <1>7, <1>10, <1>11, <3>2
      <4>2. ASSUME NEW j \in Normal', ScanOf(j)' = ScanOf(i)' - 1
            PROVE  j \in Normal /\ ScanOf(j) = ScanOf(i) - 1 /\ rows'[j] = rows[j]
        <5>1. j # L
          BY <1>1, <1>7, <1>11, <1>12, <4>1, <4>2
        <5> QED
          BY <1>7, <1>10, <1>11, <4>1, <4>2, <5>1
      <4> QED
        BY <4>1, <4>2 DEF OrderInv, Chained
    <3> QED
      BY <3>1, <3>2
  <2> QED
    BY <1>12, <2>1, <2>2 DEF Chained
<1>15. LogInOrder'
  BY <1>4, <1>7, <1>10, <1>11 DEF OrderInv, LogInOrder
<1>16. ResyncsInVain'
  <2>1. ASSUME NEW j \in DOMAIN rows'
        PROVE  /\ rows'[j].recovery =>
                    ScanOf(j)' \in expired /\ rows'[j].status \in {"PENDING", "DEAD"}
               /\ rows'[j].by # 0 => rows'[j].by \in DOMAIN rows' \ Normal'
    <3>1. CASE j = L
      BY <1>9, <1>10, <3>1
    <3>2. CASE j # L
      <4>1. j \in Ids /\ rows'[j] = rows[j] /\ ScanOf(j)' = ScanOf(j)
        BY <1>10, <1>11, <3>2
      <4>2. rows[j].by # 0 => rows[j].by \in Ids \ Normal
        BY <4>1 DEF OrderInv, ResyncsInVain
      <4>3. Ids \ Normal \subseteq DOMAIN rows' \ Normal'
        BY <1>10, <1>11
      <4> QED
        BY <4>1, <4>2, <4>3 DEF OrderInv, ResyncsInVain
    <3> QED
      BY <3>1, <3>2
  <2>2. Ids' = DOMAIN rows'
    BY DEF Ids
  <2> QED
    BY <1>4, <2>1, <2>2 DEF OrderInv, ResyncsInVain
<1>17. DeliveredAccepted'
  <2>1. ASSUME NEW j \in DOMAIN rows', rows'[j].status \in {"SUCCEEDED", "GONE"}
        PROVE  ScanOf(j)' \in DOMAIN accepted'
    <3>1. j \in Ids /\ rows'[j] = rows[j]
      BY <1>9, <1>10, <2>1
    <3> QED
      BY <1>4, <1>11, <2>1, <3>1 DEF OrderInv, DeliveredAccepted
  <2> QED
    BY <2>1 DEF DeliveredAccepted, Ids
<1>18. ASSUME NEW i \in Normal' PROVE InOrder(i)'
  <2>1. CASE i # L
    <3>1. /\ i \in Normal /\ i \in Ids /\ rows'[i] = rows[i] /\ ScanOf(i)' = ScanOf(i)
      BY <1>7, <1>10, <1>11, <2>1
    <3>2. InOrder(i)
      BY <3>1 DEF OrderInv
    <3>3. CASE \A m \in 1..(ScanOf(i) - 1) : m <= Len(accepted)
      BY <1>4, <3>1, <3>3 DEF InOrder
    <3>4. CASE ~(\A m \in 1..(ScanOf(i) - 1) : m <= Len(accepted))
      <4>1. PICK q : q = rows[i].pred
        OBVIOUS
      <4>2. q # 0 /\ q \in Ids /\ Live(q) /\ (rows[q].recovery \/ ScanOf(q) = ScanOf(i) - 1)
        BY <3>2, <3>4, <4>1 DEF InOrder
      <4>3. q \in Ids' /\ Live(q)' /\ rows'[q] = rows[q] /\ ScanOf(q)' = ScanOf(q) /\ rows'[i].pred = q
        BY <1>10, <1>11, <3>1, <4>1, <4>2 DEF Live, Ids
      <4> QED
        BY <3>1, <4>2, <4>3 DEF InOrder
    <3> QED
      BY <3>3, <3>4
  <2>2. CASE i = L
    <3>1. rows'[i].pred = p /\ ScanOf(i)' = k
      BY <1>9, <1>10, <1>11, <2>2
    <3>2. ASSUME ~(\A m \in 1..(k - 1) : m <= Len(accepted))
          PROVE  p # 0 /\ p \in Ids /\ Live(p) /\ (rows[p].recovery \/ ScanOf(p) = k - 1)
      <4>1. Latest \in 1..Len(snaps) /\ Latest \notin DOMAIN accepted /\ k - 1 = Latest
        BY <1>1, <1>7, <3>2
      <4>2. PICK q \in Normal : ScanOf(q) = Latest
        BY <4>1 DEF OrderInv, OneRowEach
      <4>3. q \in Ids /\ Live(q)
        BY <1>7, <4>1, <4>2 DEF OrderInv, DeliveredAccepted, Live
      <4>4. q <= p /\ p # 0 /\ p \in Ids /\ Live(p)
        BY <1>7, <1>8, <4>3
      <4>5. CASE rows[p].recovery
        BY <4>4, <4>5
      <4>6. CASE ~rows[p].recovery
        <5>1. p \in Normal
          BY <4>4, <4>6 DEF Normal
        <5>2. q < p => ScanOf(q) < ScanOf(p)
          BY <4>2, <5>1 DEF OrderInv, OneRowEach
        <5>3. ScanOf(p) \in 1..Latest
          BY <1>12, <4>4
        <5>4. q = p
          BY <1>7, <4>2, <4>3, <4>4, <5>2, <5>3
        <5> QED
          BY <4>1, <4>2, <4>4, <5>4
      <4> QED
        BY <4>5, <4>6
    <3>3. CASE \A m \in 1..(k - 1) : m <= Len(accepted)
      BY <1>4, <3>1, <3>3 DEF InOrder
    <3>4. CASE ~(\A m \in 1..(k - 1) : m <= Len(accepted))
      <4>1. p # 0 /\ p \in Ids /\ Live(p) /\ (rows[p].recovery \/ ScanOf(p) = k - 1)
        BY <3>2, <3>4
      <4>2. p \in Ids' /\ Live(p)' /\ rows'[p] = rows[p] /\ ScanOf(p)' = ScanOf(p)
        BY <1>10, <1>11, <4>1 DEF Live, Ids
      <4> QED
        BY <3>1, <4>1, <4>2 DEF InOrder
    <3> QED
      BY <3>3, <3>4
  <2> QED
    BY <2>1, <2>2
<1> QED
  BY <1>13, <1>14, <1>15, <1>16, <1>17, <1>18 DEF OrderInv

LEMMA OrderStep ==
    ASSUME FullInv, [Next]_vars
    PROVE  /\ restores' \in Nat /\ (restores' = 0 => OrderInv')
           /\ restores' = restores \/ Len(accepted') <= Len(accepted)
<1>1. SyncInv /\ restores \in Nat /\ (restores = 0 => OrderInv)
  BY DEF FullInv
<1>2. ASSUME restores' = restores, restores = 0 => OrderInv'
      PROVE  restores' \in Nat /\ (restores' = 0 => OrderInv')
  BY <1>1, <1>2
<1>3. ASSUME NEW o \in Observations, Scan(o)
      PROVE  restores' = restores /\ (restores = 0 => OrderInv')
  BY <1>1, <1>3, ScanOrder DEF Scan
<1>4. ASSUME NEW k, Reconcile(k)
      PROVE  restores' = restores /\ (restores = 0 => OrderInv')
  BY <1>1, <1>4, NothingToReconcile DEF Reconcile
<1>5. ASSUME NEW k, Prune(k)
      PROVE  restores' = restores /\ (restores = 0 => OrderInv')
  BY <1>1, <1>5, PruneOrder DEF Prune
<1>6. ASSUME NEW k, Expire(k)
      PROVE  restores' = restores /\ (restores = 0 => OrderInv')
  <2>1. /\ rows' = rows /\ accepted' = accepted /\ SameLatest /\ restores' = restores
        /\ \E n : n \notin AcceptedScans /\ expired' = expired \cup {n}
    BY <1>6 DEF Expire, SameLatest
  <2> QED
    BY <1>1, <2>1, RestOrder
<1>7. ASSUME NEW i, Deliver(i)
      PROVE  restores' = restores /\ (restores = 0 => OrderInv')
  BY <1>1, <1>7, DeliverOrder DEF Deliver
<1>8. ASSUME NEW i, Conflict(i)
      PROVE  restores' = restores /\ (restores = 0 => OrderInv')
  BY <1>1, <1>8, ConflictOrder DEF Conflict
<1>9. ASSUME NEW i, Requeue(i)
      PROVE  restores' = restores /\ (restores = 0 => OrderInv')
  BY <1>1, <1>9, RequeueOrder DEF Requeue
<1>10. ASSUME NEW i, Purge(i)
      PROVE  restores' = restores /\ (restores = 0 => OrderInv')
  BY <1>1, <1>10, PurgeOrder DEF Purge
<1>11. ASSUME NEW n \in 0..MaxScans, Restore(n)
       PROVE  restores' \in Nat /\ restores' # 0 /\ Len(accepted') <= Len(accepted)
  <2>1. accepted' = SubSeq(accepted, 1, n) /\ n < Len(accepted) /\ accepted \in Seq(Upload)
    BY <1>1, <1>11, Sizes DEF Restore
  <2>2. Len(accepted') = n
    BY <2>1
  <2> QED
    BY <1>1, <1>11, <2>1, <2>2 DEF Restore
<1>12. CASE UNCHANGED vars
  <2>1. /\ rows' = rows /\ accepted' = accepted /\ SameLatest /\ restores' = restores
        /\ expired' = expired
    BY <1>12 DEF vars, SameLatest
  <2>2. restores = 0 => OrderInv'
    BY <1>1, <2>1, RestOrder
  <2> QED
    BY <1>2, <2>1, <2>2
<1>13. CASE Next
  BY <1>2, <1>3, <1>4, <1>5, <1>6, <1>7, <1>8, <1>9, <1>10, <1>11, <1>13 DEF Next
<1> QED
  BY <1>12, <1>13

-----------------------------------------------------------------------------
(* Theorems                                                                 *)

(* Every snapshot is a baseline or differs from a stored one by what it says,  *)
(* and every document, queued or accepted, shows what was last observed up to  *)
(* its scan: store_snapshot, snapshot_upload_payload, schedule_full_resync and *)
(* reconstruct_inventory taken together.                                       *)
THEOREM SyncInvariant == Spec => []SyncInv
<1>1. Init => SyncInv
  BY InitGood
<1>2. SyncInv /\ [Next]_vars => SyncInv'
  <2> SUFFICES ASSUME SyncInv, [Next]_vars
               PROVE  SyncInv'
    OBVIOUS
  <2>1. ASSUME NEW o \in Observations, Scan(o) PROVE SyncInv'
    BY <2>1, ScanGood
  <2>2. ASSUME NEW k \in Scans, Reconcile(k) PROVE SyncInv'
    BY <2>2, ReconcileGood
  <2>3. ASSUME NEW k \in Scans, Prune(k) PROVE SyncInv'
    BY <2>3, PruneGood
  <2>4. ASSUME NEW k \in Scans, Expire(k) PROVE SyncInv'
    BY <2>4, SameGood DEF Expire
  <2>5. ASSUME NEW i \in 1..MaxRows, Deliver(i) PROVE SyncInv'
    BY <2>5, DeliverGood
  <2>6. ASSUME NEW i \in 1..MaxRows, Conflict(i) PROVE SyncInv'
    BY <2>6, ConflictGood
  <2>7. ASSUME NEW i \in 1..MaxRows, Requeue(i) PROVE SyncInv'
    BY <2>7, RequeueGood
  <2>8. ASSUME NEW i \in 1..MaxRows, Purge(i) PROVE SyncInv'
    BY <2>8, PurgeGood
  <2>9. ASSUME NEW n \in 0..MaxScans, Restore(n) PROVE SyncInv'
    <3>1. n \in Nat
      OBVIOUS
    <3> QED
      BY <2>9, <3>1, RestoreGood
  <2>10. CASE UNCHANGED vars
    BY <2>10, SameGood DEF vars
  <2> QED
    BY <2>1, <2>2, <2>3, <2>4, <2>5, <2>6, <2>7, <2>8, <2>9, <2>10 DEF Next
<1> QED
  BY <1>1, <1>2, PTL DEF Spec

(* Whatever was lost, pruned, replaced by a full resync or restored: what the  *)
(* cloud rebuilt for a scan is what was last observed of every section.        *)
THEOREM ReportedCorrect == Spec => []ReportedAsObserved
<1>1. SyncInv => ReportedAsObserved
  <2> SUFFICES ASSUME SyncInv, NEW n \in DOMAIN accepted, NEW s \in Sections \ Telemetry
               PROVE  (IF s \in DOMAIN accepted[n].inv THEN accepted[n].inv[s] ELSE None)
                          = LastSeen(accepted[n].doc.scan, s)
    BY DEF ReportedAsObserved
  <2>1. Shows(accepted[n].inv, accepted[n].doc.scan)
    BY DEF SyncInv, GoodLog, Good
  <2> QED
    BY <2>1 DEF Shows, Shown
<1> QED
  BY <1>1, SyncInvariant, PTL

(* reconstruct_inventory never answers that a document of the endpoint does    *)
(* not describe the inventory it gives the hash of: it refuses a base.         *)
THEOREM NeverMalformedCorrect == Spec => []NeverMalformed
<1>1. SyncInv => NeverMalformed
  <2> SUFFICES ASSUME SyncInv, NEW i \in Ids
               PROVE  Answer(i) # "malformed"
    BY DEF NeverMalformed
  <2>1. BaseMatches(rows[i].doc) => Reconstruct(rows[i].doc) = "accept"
    BY MatchesAccepted
  <2>2. Reconstruct(rows[i].doc) # "malformed"
    BY <2>1 DEF Reconstruct
  <2> QED
    BY <2>2 DEF Answer
<1> QED
  BY <1>1, SyncInvariant, PTL

(* As long as the cloud's database is not restored: the scans are accepted one *)
(* by one in their order, resyncs are only queued for expired scans, and every *)
(* document finds the base it builds on.                                       *)
THEOREM OrderInvariant == Spec => []FullInv
<1>1. Init => FullInv
  <2>1. ASSUME Init PROVE restores \in Nat /\ OrderInv
    <3>1. /\ snaps = <<>> /\ rows = <<>> /\ accepted = <<>> /\ restores = 0
      BY <2>1 DEF Init
    <3>2. Ids = {} /\ Normal = {} /\ DOMAIN accepted = {} /\ 1..Len(snaps) = {}
      BY <3>1 DEF Ids, Normal
    <3>3. OrderInv
      BY <3>2 DEF OrderInv, LogInOrder, ResyncsInVain, DeliveredAccepted, OneRowEach, Chained
    <3> QED
      BY <3>1, <3>3
  <2> QED
    BY <2>1, InitGood DEF FullInv
<1>2. FullInv /\ SyncInv' /\ [Next]_vars => FullInv'
  BY OrderStep DEF FullInv
<1> QED
  BY <1>1, <1>2, SyncInvariant, PTL DEF Spec

(* "so stale full uploads cannot silently replace newer state": the inventory  *)
(* of an older scan replaces a newer one only after a restore of the database. *)
THEOREM OrderKept == Spec => SetBackOnlyByRestore
<1>1. FullInv /\ FullInv' /\ [Next]_vars => [SetBack => restores > 0]_vars
  <2> SUFFICES ASSUME FullInv, FullInv', [Next]_vars, SetBack, ~(restores > 0) PROVE FALSE
    OBVIOUS
  <2>1. restores = 0 /\ OrderInv /\ SyncInv
    BY DEF FullInv
  <2>2. Len(accepted') > Len(accepted) /\ accepted # <<>>
        /\ Last(accepted').doc.scan < Last(accepted).doc.scan
    BY DEF SetBack
  <2>3. /\ Len(accepted) \in Nat /\ DOMAIN accepted = 1..Len(accepted)
        /\ Len(accepted') \in Nat /\ DOMAIN accepted' = 1..Len(accepted')
        /\ accepted \in Seq(Upload)
    BY DEF FullInv, SyncInv, GoodLog
  <2>4. restores' = 0
    BY <2>1, <2>2, <2>3, OrderStep
  <2>5. LogInOrder /\ LogInOrder'
    BY <2>1, <2>4 DEF FullInv, OrderInv
  <2>6. Len(accepted) \in DOMAIN accepted /\ Len(accepted') \in DOMAIN accepted'
    BY <2>2, <2>3
  <2>7. /\ Last(accepted) = accepted[Len(accepted)] /\ Last(accepted') = accepted'[Len(accepted')]
    BY DEF Last
  <2>8. /\ Last(accepted).doc.scan = Len(accepted)
        /\ Last(accepted').doc.scan = Len(accepted')
    BY <2>5, <2>6, <2>7 DEF LogInOrder
  <2> QED
    BY <2>2, <2>3, <2>8
<1> QED
  BY <1>1, OrderInvariant, PTL DEF Spec, SetBackOnlyByRestore
=============================================================================

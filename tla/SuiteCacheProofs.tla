-------------------------- MODULE SuiteCacheProofs --------------------------
(***************************************************************************)
(* Proofs about SuiteCache.tla, for any number of runs, sources, contents  *)
(* and edits, and for a cache of any size.                                 *)
(*                                                                         *)
(* Three inductive invariants, one on top of the other: TypeInv holds      *)
(* whatever the runs and the editor do; SaveInv, when no two runs save at  *)
(* the same time, says how far a save has got in the file; FreshInv, when  *)
(* moreover no source is edited between being compiled and being recorded, *)
(* says that every entry anywhere is for what its suite was compiled from. *)
(***************************************************************************)
EXTENDS SuiteCache, FiniteSetTheorems, SequenceTheorems, TLAPS

Saving == {"write", "write removed"}

\* What each cell of the cache file may hold.
DiskTyped(d) ==
  /\ DOMAIN d = Cells
  /\ d[1] \subseteq Nat
  /\ \A i \in Slots :
       /\ d[MetaCell(i)] \subseteq Metas
       /\ d[LenCell(i)] \subseteq {"placeholder", "written"}
       /\ d[DataCell(i)] \subseteq Contents \cup {None}

\* The stores of a run: no more entries than CACHE_MAX_ENTRIES.
Stores == {s \in Seq(Entries) : Len(s) <= MaxEntries}

\* What TypeOK leaves out: the cache file, the histories, and that a run which
\* is not saving is at one of the sources, the first one until it looks it up.
ShapeInv ==
  /\ DiskTyped(disk)
  /\ store \in [Jobs -> Stores] /\ save \in [Jobs -> Stores]
  /\ seen \in [Jobs -> [Paths -> SUBSET Contents]]
  /\ next \in [Jobs -> Nat \ {0}]
  /\ \A j \in Jobs :
       /\ pc[j] \notin Saving => next[j] <= Len(Sources)
       /\ pc[j] \in {"idle", "clear", "load"} => next[j] = 1

TypeInv == TypeOK /\ ShapeInv
-----------------------------------------------------------------------------
(* The list of sources, the cells and the store.                           *)

LEMMA SourcesAssumption ==
  Len(Sources) \in Nat \ {0} /\ \A n \in 1..Len(Sources) : Sources[n] \in Paths
  BY CacheAssumption DEF Paths

LEMMA MetaTyped ==
  ASSUME TypeOK, NEW p \in Paths
  PROVE  Meta(p) \in Metas /\ Meta(p).path = p /\ Meta(p).hash = src[p].content
<1>1. src[p].content \in Contents /\ src[p].mtime \in Nat
  <2>1. src[p] \in [content : Contents, mtime : Nat]
    BY DEF TypeOK
  <2> QED  BY <2>1
<1>2. Size(src[p].content) \in {Size(c) : c \in Contents}
  BY <1>1
<1> QED  BY <1>1, <1>2 DEF Meta, Metas

LEMMA CellsApart ==
  ASSUME NEW i \in Slots
  PROVE  /\ 1 \in Cells /\ MetaCell(i) \in Cells /\ LenCell(i) \in Cells
         /\ DataCell(i) \in Cells
         /\ MetaCell(i) # 1 /\ LenCell(i) # 1 /\ DataCell(i) # 1
         /\ \A k \in Slots :
              /\ MetaCell(i) # LenCell(k) /\ MetaCell(i) # DataCell(k)
              /\ LenCell(i) # DataCell(k)
              /\ k # i => /\ MetaCell(i) # MetaCell(k) /\ LenCell(i) # LenCell(k)
                          /\ DataCell(i) # DataCell(k)
  BY CacheAssumption DEF Slots, Cells, MetaCell, LenCell, DataCell

LEMMA NoFileTyped == DiskTyped(NoFile)
<1>1. 1 \in Cells
  BY CacheAssumption DEF Cells
<1> QED  BY <1>1, CellsApart DEF DiskTyped, NoFile

\* A write of a save, other than of the header, is one of the writes of an entry.
LEMMA WriteOfEntry ==
  ASSUME NEW s, Len(s) \in Nat, NEW n \in Nat \ {0}, n # 1, n <= WritesOf(s)
  PROVE  \E i \in 1..Len(s), k \in 1..4 :
           n = 4 * i + k - 3 /\ Write(s, n) = EntryWrites(s, i)[k]
<1>1. n \in 2..(1 + 4 * Len(s))
  BY DEF WritesOf
<1> DEFINE i == ((n - 2) \div 4) + 1
           k == ((n - 2) % 4) + 1
<1>2. i \in 1..Len(s) /\ k \in 1..4 /\ n = 4 * i + k - 3
  BY <1>1
<1>3. Write(s, n) = EntryWrites(s, i)[k]
  BY DEF Write
<1> QED  BY <1>2, <1>3

\* cache_load stops at the first entry that is not whole: what it loads are
\* the first n slots of the file, each of them whole.
LEMMA LoadedShape ==
  ASSUME NEW d, d[1] \subseteq Nat
  PROVE  \E n \in 0..MaxEntries : /\ Loaded(d) = [i \in 1..n |-> EntryAt(d, i)]
                                  /\ \A i \in Slots : i <= n <=> i \in Whole(d)
<1> DEFINE n == Cardinality(Whole(d))
<1>1. ASSUME NEW i \in Whole(d), NEW k \in 1..i PROVE k \in Whole(d)
  <2>1. i \in Slots /\ k \in Slots /\ i \in Int /\ k \in Int /\ k <= i
    BY CacheAssumption DEF Whole, Slots
  <2>2. \A l \in 1..k : l \in 1..i
    BY <2>1
  <2>3. \E count \in d[1] : k <= count
    BY <2>1 DEF Whole
  <2> QED  BY <2>1, <2>2, <2>3 DEF Whole
<1>2. IsFiniteSet(Slots) /\ Cardinality(Slots) = MaxEntries
  BY FS_Interval, CacheAssumption DEF Slots
<1>3. Whole(d) \subseteq Slots
  BY DEF Whole
<1>4. IsFiniteSet(Whole(d)) /\ n \in Nat /\ n <= MaxEntries
  BY <1>2, <1>3, FS_Subset, FS_CardinalityType
<1>5. ASSUME NEW i \in Whole(d) PROVE i <= n
  <2>1. i \in Nat /\ 1..i \subseteq Whole(d)
    BY <1>1, <1>3 DEF Slots
  <2>2. IsFiniteSet(1..i) /\ Cardinality(1..i) = i
    BY <2>1, <1>3, FS_Interval DEF Slots
  <2> QED  BY <2>1, <2>2, <1>4, FS_Subset
<1>6. ASSUME NEW i \in Slots, i <= n, i \notin Whole(d) PROVE FALSE
  <2>1. Whole(d) \subseteq 1..(i - 1)
    BY <1>1, <1>3, <1>6, CacheAssumption DEF Slots
  <2>2. IsFiniteSet(1..(i - 1)) /\ Cardinality(1..(i - 1)) = i - 1
    BY FS_Interval, CacheAssumption DEF Slots
  <2>3. n <= i - 1
    BY <2>1, <2>2, FS_Subset
  <2> QED  BY <2>3, <1>4, <1>6, CacheAssumption DEF Slots
<1>7. n \in 0..MaxEntries
  BY <1>4, CacheAssumption
<1> HIDE DEF n
<1>8. Loaded(d) = [i \in 1..n |-> EntryAt(d, i)]
  BY DEF Loaded, n
<1> QED  BY <1>5, <1>6, <1>7, <1>8

LEMMA EntryTyped ==
  ASSUME NEW d, DiskTyped(d), NEW i \in Whole(d)
  PROVE  /\ EntryAt(d, i) \in Entries
         /\ EntryAt(d, i).meta \in d[MetaCell(i)]
         /\ IF "written" \in d[LenCell(i)] THEN EntryAt(d, i).data \in d[DataCell(i)]
            ELSE EntryAt(d, i).data = None
<1>1. i \in Slots /\ Readable(d, i)
  BY CacheAssumption DEF Whole, Slots
<1>2. PICK m \in d[MetaCell(i)] : m = CHOOSE y \in d[MetaCell(i)] : TRUE
  BY <1>1 DEF Readable
<1>3. m \in Metas /\ EntryAt(d, i).meta = m
  BY <1>1, <1>2 DEF DiskTyped, EntryAt
<1>4. CASE "written" \in d[LenCell(i)]
  <2>1. PICK x \in d[DataCell(i)] : x = CHOOSE y \in d[DataCell(i)] : TRUE
    BY <1>1, <1>4 DEF Readable
  <2>2. x \in Contents \cup {None} /\ EntryAt(d, i) = [meta |-> m, data |-> x]
    BY <1>1, <1>2, <1>4, <2>1 DEF DiskTyped, EntryAt
  <2> QED  BY <1>2, <1>3, <1>4, <2>1, <2>2 DEF Entries
<1>5. CASE "written" \notin d[LenCell(i)]
  <2>1. EntryAt(d, i) = [meta |-> m, data |-> None]
    BY <1>2, <1>5 DEF EntryAt
  <2> QED  BY <1>2, <1>3, <1>5, <2>1 DEF Entries
<1> QED  BY <1>4, <1>5

LEMMA LoadedTyped ==
  ASSUME NEW d, DiskTyped(d)
  PROVE  Loaded(d) \in Stores
<1>1. PICK n \in 0..MaxEntries : /\ Loaded(d) = [i \in 1..n |-> EntryAt(d, i)]
                                 /\ \A i \in Slots : i <= n <=> i \in Whole(d)
  BY LoadedShape DEF DiskTyped
<1>2. n \in Nat /\ n <= MaxEntries /\ \A i \in 1..n : i \in Whole(d)
  BY <1>1, CacheAssumption DEF Slots
<1>3. \A i \in 1..n : EntryAt(d, i) \in Entries
  BY <1>2, EntryTyped
<1>4. [i \in 1..n |-> EntryAt(d, i)] \in [1..n -> Entries]
  BY <1>3
<1>5. Loaded(d) \in Seq(Entries)
  BY <1>1, <1>2, <1>4
<1>6. Len(Loaded(d)) = n
  BY <1>1, <1>2, <1>5
<1> QED  BY <1>2, <1>5, <1>6 DEF Stores

\* What cache_update leaves: the store, with the entry at the places of its
\* path or at the end, or without it.
LEMMA RecordedTyped ==
  ASSUME NEW s \in Stores, NEW e \in Entries
  PROVE  /\ Recorded(s, e) \in Stores
         /\ \A i \in DOMAIN Recorded(s, e) :
              Recorded(s, e)[i] = e \/ (i \in DOMAIN s /\ Recorded(s, e)[i] = s[i])
<1>1. s \in Seq(Entries) /\ Len(s) \in Nat /\ Len(s) <= MaxEntries /\ DOMAIN s = 1..Len(s)
  BY DEF Stores
<1> DEFINE r == [i \in DOMAIN s |-> IF s[i].meta.path = e.meta.path THEN e ELSE s[i]]
<1>2. CASE \E i \in DOMAIN s : s[i].meta.path = e.meta.path
  <2>1. Recorded(s, e) = r
    BY <1>2 DEF Recorded
  <2>2. \A i \in DOMAIN s : r[i] \in Entries
    BY <1>1
  <2>3. r \in Seq(Entries) /\ Len(r) = Len(s)
    BY <1>1, <2>2
  <2> QED  BY <1>1, <2>1, <2>3 DEF Stores
<1>3. CASE ~(\E i \in DOMAIN s : s[i].meta.path = e.meta.path) /\ Len(s) < MaxEntries
  <2>1. Recorded(s, e) = Append(s, e)
    BY <1>3 DEF Recorded
  <2>2. Append(s, e) \in Seq(Entries) /\ Len(Append(s, e)) = Len(s) + 1
    BY <1>1, AppendProperties
  <2>3. \A i \in 1..(Len(s) + 1) : Append(s, e)[i] = IF i = Len(s) + 1 THEN e ELSE s[i]
    BY <1>1
  <2> QED  BY <1>1, <1>3, <2>1, <2>2, <2>3, CacheAssumption DEF Stores
<1>4. CASE ~(\E i \in DOMAIN s : s[i].meta.path = e.meta.path) /\ Len(s) >= MaxEntries
  BY <1>1, <1>4, CacheAssumption DEF Recorded
<1> QED  BY <1>1, <1>2, <1>3, <1>4, CacheAssumption

\* No write leaves the cells, or puts into one what is not for it.
LEMMA WriteTyped ==
  ASSUME NEW d, DiskTyped(d), NEW s \in Stores, NEW n \in Nat \ {0}, n <= WritesOf(s)
  PROVE  DiskTyped([d EXCEPT ![Write(s, n)[1]] = {Write(s, n)[2]}])
<1>1. s \in Seq(Entries) /\ Len(s) \in Nat /\ Len(s) <= MaxEntries
  BY DEF Stores
<1>2. CASE n = 1
  <2>1. Write(s, n)[1] = 1 /\ Write(s, n)[2] \in Nat
    BY <1>1, <1>2 DEF Write
  <2> QED  BY <2>1, CellsApart, NoFileTyped DEF DiskTyped, NoFile
<1>3. CASE n # 1
  <2>1. PICK i \in 1..Len(s), k \in 1..4 : Write(s, n) = EntryWrites(s, i)[k]
    BY <1>1, <1>3, WriteOfEntry
  <2>2. i \in Slots /\ s[i].meta \in Metas /\ s[i].data \in Contents \cup {None}
    <3>1. i \in Slots /\ s[i] \in Entries
      BY <1>1, CacheAssumption DEF Slots
    <3> QED  BY <3>1 DEF Entries
  <2>3. \/ Write(s, n)[1] = MetaCell(i) /\ Write(s, n)[2] \in Metas
        \/ Write(s, n)[1] = LenCell(i) /\ Write(s, n)[2] \in {"placeholder", "written"}
        \/ Write(s, n)[1] = DataCell(i) /\ Write(s, n)[2] \in Contents \cup {None}
    BY <2>1, <2>2 DEF EntryWrites
  <2> DEFINE c == Write(s, n)[1]
             v == Write(s, n)[2]
  <2> HIDE DEF c, v
  <2>4. DiskTyped([d EXCEPT ![c] = {v}])
    BY <2>2, <2>3, CellsApart DEF DiskTyped, c, v
  <2> QED  BY <2>4 DEF c, v
<1> QED  BY <1>2, <1>3
-----------------------------------------------------------------------------
(* Types, whatever the runs and the editor do.                             *)

LEMMA InitType == Init => TypeInv
<1> SUFFICES ASSUME Init PROVE TypeInv
  OBVIOUS
<1>1. <<>> \in Stores
  BY CacheAssumption DEF Stores
<1>2. store \in [Jobs -> Stores] /\ save \in [Jobs -> Stores]
  BY <1>1 DEF Init
<1>3. TypeOK
  BY <1>2, CacheAssumption DEF Init, TypeOK, Stores
<1>4. ShapeInv
  BY <1>2, NoFileTyped, SourcesAssumption DEF Init, ShapeInv, Saving
<1> QED  BY <1>3, <1>4 DEF TypeInv

\* A run that has ended is as it was before its start.
LEMMA GoneType ==
  ASSUME TypeInv, NEW j \in Jobs, Gone(j)
  PROVE  TypeInv'
<1>1. <<>> \in Stores
  BY CacheAssumption DEF Stores
<1>2. store' \in [Jobs -> Stores] /\ save' \in [Jobs -> Stores]
  BY <1>1 DEF TypeInv, ShapeInv, Gone
<1>3. TypeOK'
  BY <1>2 DEF TypeInv, TypeOK, Gone, Goto, Stores
<1>4. \A k \in Jobs : k # j => next'[k] = next[k] /\ pc'[k] = pc[k]
  BY DEF TypeInv, TypeOK, ShapeInv, Gone, Goto
<1>5. pc'[j] = "idle"
  BY DEF TypeInv, TypeOK, Gone, Goto
<1>6. next'[j] = 1 /\ next' \in [Jobs -> Nat \ {0}]
  BY DEF TypeInv, ShapeInv, Gone
<1>7. seen' \in [Jobs -> [Paths -> SUBSET Contents]]
  BY DEF TypeInv, ShapeInv, Gone
<1>8. ASSUME NEW k \in Jobs
      PROVE  /\ pc'[k] \notin Saving => next'[k] <= Len(Sources)
             /\ pc'[k] \in {"idle", "clear", "load"} => next'[k] = 1
  <2>1. 1 <= Len(Sources)
    BY SourcesAssumption
  <2>2. CASE k = j
    BY <1>6, <2>1, <2>2
  <2>3. CASE k # j
    BY <1>4, <2>3 DEF TypeInv, ShapeInv
  <2> QED  BY <2>2, <2>3
<1>9. disk' = disk
  BY DEF Gone
<1>10. ShapeInv'
  BY <1>2, <1>6, <1>7, <1>8, <1>9 DEF TypeInv, ShapeInv
<1> QED  BY <1>3, <1>10 DEF TypeInv

\* The source a run is at is one of them.
LEMMA SourceTyped ==
  ASSUME TypeInv, NEW j \in Jobs, pc[j] \notin Saving
  PROVE  Source(j) \in Paths /\ next[j] \in 1..Len(Sources)
<1>1. next[j] \in 1..Len(Sources)
  BY SourcesAssumption DEF TypeInv, ShapeInv
<1> QED  BY <1>1, SourcesAssumption DEF Source

LEMMA UseType ==
  ASSUME TypeInv, NEW j \in Jobs, NEW x \in Contents \cup {None}, pc[j] = "lookup", Use(j, x)
  PROVE  TypeInv'
<1>1. Source(j) \in Paths
  BY SourceTyped DEF Saving
<1>2. suite' \in [Jobs -> [Paths -> Contents \cup {None}]]
  BY <1>1 DEF TypeInv, TypeOK, Use
<1>3. TypeOK'
  BY <1>2 DEF TypeInv, TypeOK, Use, Goto
<1>4. ShapeInv'
  BY DEF TypeInv, TypeOK, ShapeInv, Use, Goto, Saving
<1> QED  BY <1>3, <1>4 DEF TypeInv

LEMMA UpdateType ==
  ASSUME TypeInv, NEW j \in Jobs, Update(j)
  PROVE  TypeInv'
<1> DEFINE e == [meta |-> Meta(Source(j)), data |-> suite[j][Source(j)]]
<1>1. Source(j) \in Paths /\ next[j] \in 1..Len(Sources) /\ pc[j] = "update"
  BY SourceTyped DEF Update, Saving
<1>2. e \in Entries
  BY <1>1, MetaTyped DEF TypeInv, TypeOK, Entries
<1>3. save[j] \in Stores /\ save' = [save EXCEPT ![j] = Recorded(save[j], e)]
  BY DEF TypeInv, ShapeInv, Update
<1> HIDE DEF e
<1>4. save' \in [Jobs -> Stores]
  BY <1>2, <1>3, RecordedTyped DEF TypeInv, ShapeInv
<1>5. TypeOK'
  BY <1>4 DEF TypeInv, TypeOK, Update, Goto, Stores
<1>6. next' \in [Jobs -> Nat \ {0}] /\ next'[j] <= Len(Sources)
  BY <1>1, SourcesAssumption DEF TypeInv, ShapeInv, Update
<1>7. \A k \in Jobs : k # j => next'[k] = next[k] /\ pc'[k] = pc[k]
  BY DEF TypeInv, TypeOK, ShapeInv, Update, Goto
<1>8. pc'[j] \in {"lookup", "test"}
  BY DEF TypeInv, TypeOK, Update, Goto
<1>9. ShapeInv'
  BY <1>4, <1>6, <1>7, <1>8 DEF TypeInv, ShapeInv, Update, Saving
<1> QED  BY <1>5, <1>9 DEF TypeInv

LEMMA WriteCellType ==
  ASSUME TypeInv, NEW j \in Jobs, WriteCell(j)
  PROVE  TypeInv'
<1>1. DiskTyped(disk')
  <2>1. PICK d : d = disk
    OBVIOUS
  <2>2. PICK s \in Stores : s = save[j]
    BY DEF TypeInv, ShapeInv
  <2>3. PICK n \in Nat \ {0} : n = next[j]
    BY DEF TypeInv, ShapeInv
  <2>4. DiskTyped(d) /\ n <= WritesOf(s)
    BY <2>1, <2>2, <2>3 DEF TypeInv, ShapeInv, WriteCell
  <2>5. disk' = [d EXCEPT ![Write(s, n)[1]] = {Write(s, n)[2]}]
    BY <2>1, <2>2, <2>3 DEF WriteCell
  <2> QED  BY <2>4, <2>5, WriteTyped
<1>2. TypeOK'
  BY DEF TypeInv, TypeOK, WriteCell
<1>3. next' \in [Jobs -> Nat \ {0}] /\ \A k \in Jobs : k # j => next'[k] = next[k]
  BY DEF TypeInv, ShapeInv, WriteCell
<1>4. ShapeInv'
  BY <1>1, <1>3 DEF TypeInv, ShapeInv, WriteCell, Saving
<1> QED  BY <1>2, <1>4 DEF TypeInv

LEMMA EditType ==
  ASSUME TypeInv, NEW p \in Paths, NEW c \in Contents, Edit(p, c)
  PROVE  TypeInv'
<1>1. src' \in [Paths -> [content : Contents, mtime : Nat]]
  <2>1. PICK t : /\ t \in {src[p].mtime, src[p].mtime + 1}
                 /\ src' = [src EXCEPT ![p] = [content |-> c, mtime |-> t]]
    BY DEF Edit
  <2>2. src[p].mtime \in Nat
    BY DEF TypeInv, TypeOK
  <2>3. [content |-> c, mtime |-> t] \in [content : Contents, mtime : Nat]
    BY <2>1, <2>2
  <2> HIDE DEF TypeInv
  <2> QED  BY <2>1, <2>3 DEF TypeInv, TypeOK
<1>2. seen' \in [Jobs -> [Paths -> SUBSET Contents]]
  BY DEF TypeInv, ShapeInv, Edit
<1>3. TypeOK'
  BY <1>1 DEF TypeInv, TypeOK, Edit
<1>4. ShapeInv'
  BY <1>2 DEF TypeInv, ShapeInv, Edit
<1> QED  BY <1>3, <1>4 DEF TypeInv

LEMMA StartType ==
  ASSUME TypeInv, NEW j \in Jobs, Start(j)
  PROVE  TypeInv'
<1>1. ASSUME NEW p \in Paths PROVE {src[p].content} \subseteq Contents
  <2>1. src[p] \in [content : Contents, mtime : Nat]
    BY DEF TypeInv, TypeOK
  <2> QED  BY <2>1
<1>2. seen' \in [Jobs -> [Paths -> SUBSET Contents]]
  <2>1. [p \in Paths |-> {src[p].content}] \in [Paths -> SUBSET Contents]
    BY <1>1
  <2>2. seen' = [seen EXCEPT ![j] = [p \in Paths |-> {src[p].content}]]
    BY DEF Start
  <2> QED  BY <2>1, <2>2 DEF TypeInv, ShapeInv
<1>3. PICK l \in {"clear", "load"} : pc' = [pc EXCEPT ![j] = l]
  BY DEF Start, Goto
<1>4. runs' \in 0..MaxRuns
  <2>1. runs \in 0..MaxRuns /\ runs' = runs + 1 /\ runs < MaxRuns
    BY DEF TypeInv, TypeOK, Start
  <2> QED  BY <2>1, CacheAssumption
<1>5. TypeOK'
  BY <1>3, <1>4 DEF TypeInv, TypeOK, Start
<1>6. \A k \in Jobs : k # j => pc'[k] = pc[k]
  BY <1>3 DEF TypeInv, TypeOK
<1>7. pc[j] = "idle" /\ pc'[j] = l
  BY <1>3 DEF TypeInv, TypeOK, Start
<1>8. ShapeInv'
  BY <1>2, <1>6, <1>7 DEF TypeInv, ShapeInv, Start, Saving
<1> QED  BY <1>5, <1>8 DEF TypeInv

LEMMA ClearType ==
  ASSUME TypeInv, NEW j \in Jobs, Clear(j)
  PROVE  TypeInv'
<1>1. TypeOK'
  BY DEF TypeInv, TypeOK, Clear
<1>2. \A k \in Jobs : \/ pc'[k] = pc[k]
                      \/ pc[k] = "clear" /\ pc'[k] = "load"
                      \/ pc[k] = "write" /\ pc'[k] = "write removed"
  <2>1. pc[j] = "clear" /\ pc'[j] = "load"
    BY DEF Clear
  <2>2. \A k \in Jobs : k # j =>
          pc'[k] = IF pc[k] = "write" THEN "write removed" ELSE pc[k]
    BY DEF Clear
  <2> QED  BY <2>1, <2>2
<1>3. ShapeInv'
  BY <1>2, NoFileTyped DEF TypeInv, ShapeInv, Clear, Saving
<1> QED  BY <1>1, <1>3 DEF TypeInv

LEMMA LoadType ==
  ASSUME TypeInv, NEW j \in Jobs, Load(j)
  PROVE  TypeInv'
<1>1. store' \in [Jobs -> Stores]
  <2>1. Loaded(disk) \in Stores
    BY LoadedTyped DEF TypeInv, ShapeInv
  <2>2. <<>> \in Stores
    BY CacheAssumption DEF Stores
  <2>3. PICK s \in Stores : store' = [store EXCEPT ![j] = s]
    BY <2>1, <2>2 DEF Load
  <2> QED  BY <2>3 DEF TypeInv, ShapeInv
<1>2. TypeOK'
  BY <1>1 DEF TypeInv, TypeOK, Load, Goto, Stores
<1>3. \A k \in Jobs : pc'[k] = pc[k] \/ (pc[k] = "load" /\ pc'[k] = "lookup")
  BY DEF TypeInv, TypeOK, Load, Goto
<1>4. ShapeInv'
  BY <1>1, <1>3, SourcesAssumption DEF TypeInv, ShapeInv, Load, Saving
<1> QED  BY <1>2, <1>4 DEF TypeInv

\* What a run finds in its store is a suite.
LEMMA HitTyped ==
  ASSUME TypeOK, NEW j \in Jobs, NEW i \in Hits(j)
  PROVE  store[j][i].data \in Contents
<1>1. store[j] \in Seq(Entries) /\ i \in DOMAIN store[j] /\ store[j][i].data # None
  BY DEF TypeOK, Hits
<1>2. store[j][i] \in Entries
  BY <1>1
<1> QED  BY <1>1, <1>2 DEF Entries

LEMMA SourceContent ==
  ASSUME TypeOK, NEW p \in Paths
  PROVE  src[p].content \in Contents /\ src[p].content # None
<1>1. src[p] \in [content : Contents, mtime : Nat]
  BY DEF TypeOK
<1> QED  BY <1>1, CacheAssumption

LEMMA OpenType ==
  ASSUME TypeInv, NEW j \in Jobs, OpenCache(j)
  PROVE  TypeInv'
<1>1. TypeOK'
  BY DEF TypeInv, TypeOK, OpenCache, Goto
<1>2. \A k \in Jobs : k # j => pc'[k] = pc[k] /\ next'[k] = next[k]
  BY DEF TypeInv, TypeOK, ShapeInv, OpenCache, Goto
<1>3. pc'[j] = "write"
  BY DEF TypeInv, TypeOK, OpenCache, Goto
<1>5. next' \in [Jobs -> Nat \ {0}]
  BY DEF TypeInv, ShapeInv, OpenCache
<1>4. ShapeInv'
  BY <1>2, <1>3, <1>5, NoFileTyped DEF TypeInv, ShapeInv, OpenCache, Saving
<1> QED  BY <1>1, <1>4 DEF TypeInv

LEMMA NextType == TypeInv /\ [Next]_vars => TypeInv'
<1> SUFFICES ASSUME TypeInv, [Next]_vars PROVE TypeInv'
  OBVIOUS
<1>1. ASSUME NEW j \in Jobs, LookupHit(j) PROVE TypeInv'
  <2>1. PICK i \in Hits(j) : Use(j, store[j][i].data)
    BY <1>1 DEF LookupHit
  <2>2. store[j][i].data \in Contents \cup {None}
    BY <2>1, HitTyped DEF TypeInv
  <2> QED  BY <1>1, <2>1, <2>2, UseType DEF LookupHit
<1>2. ASSUME NEW j \in Jobs, LookupMiss(j) PROVE TypeInv'
  <2>1. Source(j) \in Paths
    BY <1>2, SourceTyped DEF LookupMiss, Saving
  <2>2. src[Source(j)].content \in Contents \cup {None}
    BY <2>1, SourceContent DEF TypeInv
  <2> QED  BY <1>2, <2>2, UseType DEF LookupMiss
<1>3. ASSUME NEW j \in Jobs, Run(j) \/ Die(j) PROVE TypeInv'
  BY <1>1, <1>2, <1>3, StartType, ClearType, LoadType, UpdateType, OpenType,
     WriteCellType, GoneType DEF Run, CloseCache, CloseRemoved, Die
<1>4. CASE UNCHANGED vars
  BY <1>4 DEF vars, TypeInv, TypeOK, ShapeInv
<1> QED  BY <1>3, <1>4, EditType DEF Next

\* The stores of every run and the cells of the file keep their types, and no
\* store outgrows CACHE_MAX_ENTRIES, also when saves overlap and sources are
\* edited at any time.
THEOREM TypeCorrect == Spec => []TypeOK
<1>1. TypeInv => TypeOK
  BY DEF TypeInv
<1> QED  BY InitType, NextType, <1>1, PTL DEF Spec
-----------------------------------------------------------------------------
(* Saves that do not overlap.                                              *)

\* The file after the first n - 1 writes of a save of s.
SavedUpTo(d, s, n) ==
  /\ d[1] = IF n > 1 THEN {Len(s)} ELSE {}
  /\ \A i \in Slots :
       /\ d[MetaCell(i)] = IF i <= Len(s) /\ n > 4 * i - 2 THEN {s[i].meta} ELSE {}
       /\ d[LenCell(i)]  = IF i <= Len(s) /\ n > 4 * i + 1 THEN {"written"}
                           ELSE IF i <= Len(s) /\ n > 4 * i - 1 THEN {"placeholder"}
                           ELSE {}
       /\ d[DataCell(i)] = IF i <= Len(s) /\ n > 4 * i THEN {s[i].data} ELSE {}

\* At most one run writes to the file that others can find, and the file holds
\* what it has written so far and nothing else.
SaveInv ==
  /\ \A j, k \in Jobs : pc[j] = "write" /\ pc[k] = "write" => j = k
  /\ \A j \in Jobs : pc[j] = "write" => SavedUpTo(disk, save[j], next[j])

LEMMA NothingSaved ==
  ASSUME NEW s \in Stores
  PROVE  SavedUpTo(NoFile, s, 1)
<1>1. 1 \in Cells
  BY CacheAssumption DEF Cells
<1>2. \A i \in Slots : i \in Nat \ {0}
  BY CacheAssumption DEF Slots
<1> QED  BY <1>1, <1>2, CellsApart DEF SavedUpTo, NoFile

\* Every write of a save adds one cell, or fills in a length.
LEMMA OneMoreSaved ==
  ASSUME NEW d, DOMAIN d = Cells, NEW s \in Stores, NEW n \in Nat \ {0},
         n <= WritesOf(s), SavedUpTo(d, s, n)
  PROVE  SavedUpTo([d EXCEPT ![Write(s, n)[1]] = {Write(s, n)[2]}], s, n + 1)
<1>1. Len(s) \in Nat /\ Len(s) <= MaxEntries
  BY DEF Stores
<1> DEFINE e == [d EXCEPT ![Write(s, n)[1]] = {Write(s, n)[2]}]
<1>2. \A i \in Slots : i \in Nat \ {0}
  BY CacheAssumption DEF Slots
<1>3. 1 \in Cells
  BY CacheAssumption DEF Cells
<1>4. CASE n = 1
  <2>1. Write(s, n)[1] = 1 /\ Write(s, n)[2] = Len(s)
    BY <1>4 DEF Write
  <2>2. e = [d EXCEPT ![1] = {Len(s)}]
    BY <2>1
  <2>3. e[1] = {Len(s)}
    BY <1>3, <2>2
  <2>4. \A i \in Slots : /\ e[MetaCell(i)] = d[MetaCell(i)]
                         /\ e[LenCell(i)] = d[LenCell(i)]
                         /\ e[DataCell(i)] = d[DataCell(i)]
    BY <2>2, CellsApart
  <2>5. \A i \in Slots : ~(1 > 4 * i - 2) /\ ~(1 > 4 * i - 1) /\ ~(1 > 4 * i)
                         /\ ~(1 > 4 * i + 1)
    BY <1>2
  <2> HIDE DEF e
  <2>6. SavedUpTo(d, s, 1)
    BY <1>4
  <2>7. \A i \in Slots : /\ e[MetaCell(i)] = {} /\ e[LenCell(i)] = {}
                         /\ e[DataCell(i)] = {}
    BY <2>4, <2>5, <2>6 DEF SavedUpTo
  <2>8. SavedUpTo(e, s, 2)
    <3>1. ASSUME NEW i \in Slots
          PROVE  /\ e[MetaCell(i)] = IF i <= Len(s) /\ 2 > 4 * i - 2 THEN {s[i].meta} ELSE {}
                 /\ e[LenCell(i)]  = IF i <= Len(s) /\ 2 > 4 * i + 1 THEN {"written"}
                                     ELSE IF i <= Len(s) /\ 2 > 4 * i - 1 THEN {"placeholder"}
                                     ELSE {}
                 /\ e[DataCell(i)] = IF i <= Len(s) /\ 2 > 4 * i THEN {s[i].data} ELSE {}
      <4>1. i \in Nat \ {0}
        BY <1>2
      <4>2. ~(2 > 4 * i - 2) /\ ~(2 > 4 * i - 1) /\ ~(2 > 4 * i) /\ ~(2 > 4 * i + 1)
        BY <4>1
      <4> QED  BY <2>7, <4>2
    <3>2. e[1] = IF 2 > 1 THEN {Len(s)} ELSE {}
      BY <2>3
    <3> QED  BY <3>1, <3>2 DEF SavedUpTo
  <2> QED  BY <1>4, <2>8 DEF e
<1>5. CASE n # 1
  <2>1. PICK i \in 1..Len(s), k \in 1..4 :
          n = 4 * i + k - 3 /\ Write(s, n) = EntryWrites(s, i)[k]
    BY <1>1, <1>5, WriteOfEntry
  <2>2. i \in Slots /\ i \in Nat \ {0} /\ i <= Len(s)
    BY <1>1, CacheAssumption DEF Slots
  <2> DEFINE c == Write(s, n)[1]
             v == Write(s, n)[2]
  <2>3. /\ k = 1 => c = MetaCell(i) /\ v = s[i].meta
        /\ k = 2 => c = LenCell(i) /\ v = "placeholder"
        /\ k = 3 => c = DataCell(i) /\ v = s[i].data
        /\ k = 4 => c = LenCell(i) /\ v = "written"
    BY <2>1 DEF EntryWrites
  <2>4. e = [d EXCEPT ![c] = {v}]
    OBVIOUS
  <2> HIDE DEF e, c, v
  <2>5. k = 1 \/ k = 2 \/ k = 3 \/ k = 4
    OBVIOUS
  <2>6. c \in Cells /\ c # 1
    BY <2>2, <2>3, <2>5, CellsApart
  <2>7. e[c] = {v} /\ \A x \in Cells : x # c => e[x] = d[x]
    BY <2>4, <2>6
  <2>8. e[1] = {Len(s)}
    BY <1>3, <1>5, <2>6, <2>7 DEF SavedUpTo
  <2>9. ASSUME NEW l \in Slots, l # i
        PROVE  /\ e[MetaCell(l)] = d[MetaCell(l)]
               /\ e[LenCell(l)] = d[LenCell(l)]
               /\ e[DataCell(l)] = d[DataCell(l)]
               /\ n > 4 * l - 2 <=> n + 1 > 4 * l - 2
               /\ n > 4 * l - 1 <=> n + 1 > 4 * l - 1
               /\ n > 4 * l     <=> n + 1 > 4 * l
               /\ n > 4 * l + 1 <=> n + 1 > 4 * l + 1
    <3>1. c # MetaCell(l) /\ c # LenCell(l) /\ c # DataCell(l)
      BY <2>2, <2>3, <2>5, <2>9, CellsApart
    <3>2. MetaCell(l) \in Cells /\ LenCell(l) \in Cells /\ DataCell(l) \in Cells
      BY CellsApart
    <3>3. l \in Nat \ {0} /\ l # i
      BY <1>2, <2>9
    <3> QED  BY <2>1, <2>2, <2>7, <3>1, <3>2, <3>3
  <2>10. /\ e[MetaCell(i)] = {s[i].meta}
         /\ e[LenCell(i)]  = IF k = 4 THEN {"written"} ELSE IF k = 1 THEN {} ELSE {"placeholder"}
         /\ e[DataCell(i)] = IF k >= 3 THEN {s[i].data} ELSE {}
    <3>1. MetaCell(i) \in Cells /\ LenCell(i) \in Cells /\ DataCell(i) \in Cells
      BY <2>2, CellsApart
    <3>2. MetaCell(i) # LenCell(i) /\ MetaCell(i) # DataCell(i) /\ LenCell(i) # DataCell(i)
      BY <2>2, CellsApart
    <3>3. /\ d[MetaCell(i)] = IF k > 1 THEN {s[i].meta} ELSE {}
          /\ d[LenCell(i)] = IF k > 2 THEN {"placeholder"} ELSE {}
          /\ d[DataCell(i)] = IF k > 3 THEN {s[i].data} ELSE {}
      <4>1. /\ n > 4 * i - 2 <=> k > 1
            /\ n > 4 * i - 1 <=> k > 2
            /\ n > 4 * i <=> k > 3
            /\ ~(n > 4 * i + 1)
        BY <2>1, <2>2
      <4> QED  BY <2>2, <4>1 DEF SavedUpTo
    <3>4. CASE k = 1
      BY <2>3, <2>7, <3>1, <3>2, <3>3, <3>4
    <3>5. CASE k = 2
      BY <2>3, <2>7, <3>1, <3>2, <3>3, <3>5
    <3>6. CASE k = 3
      BY <2>3, <2>7, <3>1, <3>2, <3>3, <3>6
    <3>7. CASE k = 4
      BY <2>3, <2>7, <3>1, <3>2, <3>3, <3>7
    <3> QED  BY <2>5, <3>4, <3>5, <3>6, <3>7
  <2>11. /\ n + 1 > 4 * i - 2
         /\ n + 1 > 4 * i - 1 <=> k >= 2
         /\ n + 1 > 4 * i <=> k >= 3
         /\ n + 1 > 4 * i + 1 <=> k = 4
         /\ n + 1 > 1
    BY <2>1, <2>2
  <2>12. /\ e[MetaCell(i)] = IF i <= Len(s) /\ n + 1 > 4 * i - 2 THEN {s[i].meta} ELSE {}
         /\ e[LenCell(i)]  = IF i <= Len(s) /\ n + 1 > 4 * i + 1 THEN {"written"}
                             ELSE IF i <= Len(s) /\ n + 1 > 4 * i - 1 THEN {"placeholder"}
                             ELSE {}
         /\ e[DataCell(i)] = IF i <= Len(s) /\ n + 1 > 4 * i THEN {s[i].data} ELSE {}
    BY <2>2, <2>5, <2>10, <2>11
  <2>13. SavedUpTo(e, s, n + 1)
    BY <2>8, <2>9, <2>11, <2>12 DEF SavedUpTo
  <2> QED  BY <2>13 DEF e
<1> QED  BY <1>4, <1>5

\* A save that was written to its end is loaded as it was.
LEMMA AllSaved ==
  ASSUME NEW d, NEW s \in Stores, NEW n \in Nat, n > WritesOf(s), SavedUpTo(d, s, n)
  PROVE  Loaded(d) = s
<1>1. s \in Seq(Entries) /\ Len(s) \in Nat /\ Len(s) <= MaxEntries /\ n > 1 + 4 * Len(s)
  BY DEF Stores, WritesOf
<1>2. d[1] = {Len(s)}
  BY <1>1 DEF SavedUpTo
<1>3. ASSUME NEW i \in Slots, i <= Len(s)
      PROVE  /\ d[MetaCell(i)] = {s[i].meta} /\ d[LenCell(i)] = {"written"}
             /\ d[DataCell(i)] = {s[i].data}
  <2>1. n > 4 * i - 2 /\ n > 4 * i + 1 /\ n > 4 * i
    BY <1>1, <1>3, CacheAssumption DEF Slots
  <2> QED  BY <1>3, <2>1 DEF SavedUpTo
<1>4. ASSUME NEW i \in Slots, i <= Len(s) PROVE i \in Whole(d)
  <2>1. ASSUME NEW k \in 1..i PROVE Readable(d, k)
    <3>1. k \in Slots /\ k <= Len(s) /\ (k > 1 => k - 1 \in Slots /\ k - 1 <= Len(s))
      BY <1>1, <1>4, CacheAssumption DEF Slots
    <3> QED  BY <1>3, <3>1 DEF Readable
  <2> QED  BY <1>2, <1>4, <2>1 DEF Whole
<1>5. \A i \in Whole(d) : i <= Len(s)
  BY <1>2 DEF Whole
<1>6. PICK l \in 0..MaxEntries : /\ Loaded(d) = [i \in 1..l |-> EntryAt(d, i)]
                                 /\ \A i \in Slots : i <= l <=> i \in Whole(d)
  BY <1>1, <1>2, LoadedShape
<1>7. l = Len(s)
  <2>1. \A i \in 1..MaxEntries : i <= l <=> i <= Len(s)
    BY <1>4, <1>5, <1>6 DEF Slots
  <2>2. l \in Nat /\ l <= MaxEntries
    BY CacheAssumption
  <2>3. l > 0 => l <= Len(s)
    BY <2>1, <2>2, CacheAssumption
  <2>4. Len(s) > 0 => Len(s) <= l
    BY <1>1, <2>1, <2>2, CacheAssumption
  <2> QED  BY <1>1, <2>2, <2>3, <2>4
<1>8. ASSUME NEW i \in 1..Len(s) PROVE EntryAt(d, i) = s[i]
  <2>1. i \in Slots /\ i <= Len(s) /\ s[i] \in Entries
    BY <1>1, CacheAssumption DEF Slots
  <2>2. s[i] = [meta |-> s[i].meta, data |-> s[i].data]
    BY <2>1 DEF Entries
  <2>3. /\ d[MetaCell(i)] = {s[i].meta} /\ d[LenCell(i)] = {"written"}
        /\ d[DataCell(i)] = {s[i].data}
    BY <1>3, <2>1
  <2>4. EntryAt(d, i) = [meta |-> s[i].meta, data |-> s[i].data]
    BY <2>3 DEF EntryAt
  <2> QED  BY <2>2, <2>4
<1>9. Loaded(d) = [i \in 1..Len(s) |-> s[i]]
  BY <1>6, <1>7, <1>8
<1> QED  BY <1>1, <1>9

\* A step of which no writer is the author, or that leaves no writer.
LEMMA WritersStay ==
  ASSUME SaveInv,
         \A k \in Jobs : pc'[k] = "write" =>
           pc[k] = "write" /\ save'[k] = save[k] /\ next'[k] = next[k],
         disk' = disk \/ \A k \in Jobs : pc'[k] # "write"
  PROVE  SaveInv'
  BY DEF SaveInv

LEMMA NextSave ==
  ASSUME ~SavesOverlap, TypeInv, SaveInv, [Next]_vars
  PROVE  SaveInv'
<1>1. ASSUME NEW j \in Jobs, Gone(j) PROVE SaveInv'
  BY <1>1, WritersStay DEF TypeInv, TypeOK, ShapeInv, Gone, Goto
<1>2. ASSUME NEW j \in Jobs, Start(j) PROVE SaveInv'
  BY <1>2, WritersStay DEF TypeInv, TypeOK, Start, Goto
<1>3. ASSUME NEW j \in Jobs, Clear(j) PROVE SaveInv'
  <2>1. \A k \in Jobs : pc'[k] # "write"
    BY <1>3 DEF Clear
  <2> QED  BY <2>1, WritersStay
<1>4. ASSUME NEW j \in Jobs, Load(j) PROVE SaveInv'
  BY <1>4, WritersStay DEF TypeInv, TypeOK, Load, Goto
<1>5. ASSUME NEW j \in Jobs, LookupHit(j) \/ LookupMiss(j) PROVE SaveInv'
  BY <1>5, WritersStay DEF TypeInv, TypeOK, LookupHit, LookupMiss, Use, Goto
<1>6. ASSUME NEW j \in Jobs, Update(j) PROVE SaveInv'
  <2>1. \A k \in Jobs \ {j} : pc'[k] = pc[k] /\ save'[k] = save[k] /\ next'[k] = next[k]
    BY <1>6 DEF TypeInv, TypeOK, ShapeInv, Update, Goto
  <2>2. pc'[j] # "write" /\ disk' = disk
    BY <1>6 DEF TypeInv, TypeOK, Update, Goto
  <2> QED  BY <2>1, <2>2, WritersStay
<1>7. ASSUME NEW j \in Jobs, OpenCache(j) PROVE SaveInv'
  <2>1. \A k \in Jobs : pc[k] # "write"
    BY <1>7 DEF OpenCache
  <2>2. \A k \in Jobs : pc'[k] = "write" => k = j
    BY <1>7, <2>1 DEF TypeInv, TypeOK, OpenCache, Goto
  <2>3. disk' = NoFile /\ save' = save /\ next'[j] = 1
    BY <1>7 DEF TypeInv, ShapeInv, OpenCache
  <2>4. SavedUpTo(disk', save'[j], next'[j])
    BY <2>3, NothingSaved DEF TypeInv, ShapeInv
  <2> QED  BY <2>2, <2>4 DEF SaveInv
<1>8. ASSUME NEW j \in Jobs, WriteCell(j) PROVE SaveInv'
  <2>1. PICK d : d = disk
    OBVIOUS
  <2>2. PICK s \in Stores : s = save[j]
    BY DEF TypeInv, ShapeInv
  <2>3. PICK n \in Nat \ {0} : n = next[j]
    BY DEF TypeInv, ShapeInv
  <2>4. DOMAIN d = Cells /\ n <= WritesOf(s) /\ SavedUpTo(d, s, n)
    BY <1>8, <2>1, <2>2, <2>3 DEF TypeInv, ShapeInv, DiskTyped, WriteCell, SaveInv
  <2>5. disk' = [d EXCEPT ![Write(s, n)[1]] = {Write(s, n)[2]}]
    BY <1>8, <2>1, <2>2, <2>3 DEF WriteCell
  <2>6. SavedUpTo(disk', s, n + 1)
    BY <2>4, <2>5, OneMoreSaved
  <2>7. save'[j] = s /\ next'[j] = n + 1 /\ pc' = pc /\ pc[j] = "write"
    BY <1>8, <2>2, <2>3 DEF TypeInv, ShapeInv, WriteCell
  <2>8. SavedUpTo(disk', save'[j], next'[j])
    BY <2>6, <2>7
  <2> QED  BY <2>7, <2>8 DEF SaveInv
<1>9. ASSUME NEW p \in Paths, NEW c \in Contents, Edit(p, c) PROVE SaveInv'
  BY <1>9, WritersStay DEF Edit
<1>10. CASE UNCHANGED vars
  BY <1>10, WritersStay DEF vars
<1> QED
  BY <1>1, <1>2, <1>3, <1>4, <1>5, <1>6, <1>7, <1>8, <1>9, <1>10
  DEF Next, Run, CloseCache, CloseRemoved, Die

\* When no two runs save at the same time, a run that closes the file has left
\* in it all it meant to save, whatever was left there before, by a save that
\* was cut short for instance, and whatever is edited or cleared meanwhile.
THEOREM SaveCorrect ==
  ASSUME ~SavesOverlap
  PROVE  Spec => SaveCanBeLoaded
<1>1. Init => TypeInv /\ SaveInv
  BY InitType DEF Init, SaveInv
<1>2. TypeInv /\ SaveInv /\ [Next]_vars => (TypeInv /\ SaveInv)'
  BY NextType, NextSave
<1>3. ASSUME TypeInv, SaveInv, NEW j \in Jobs, CloseCache(j)
      PROVE  Loaded(disk) = save[j]
  <2>1. PICK s \in Stores : s = save[j]
    BY <1>3 DEF TypeInv, ShapeInv
  <2>2. PICK n \in Nat \ {0} : n = next[j]
    BY <1>3 DEF TypeInv, ShapeInv
  <2>3. n > WritesOf(s) /\ SavedUpTo(disk, s, n)
    BY <1>3, <2>1, <2>2 DEF SaveInv, CloseCache
  <2> QED  BY <2>1, <2>3, AllSaved
<1>4. TypeInv /\ SaveInv =>
        [\A j \in Jobs : CloseCache(j) => Loaded(disk) = save[j]]_vars
  BY <1>3
<1> QED  BY <1>1, <1>2, <1>4, PTL DEF Spec, SaveCanBeLoaded
-----------------------------------------------------------------------------
(* Sources that are not edited between being compiled and being recorded.  *)

\* The suite of an entry, if it has one, is what the metadata is about.
Faithful(e) == e.data \in {None, e.meta.hash}

StoreFaithful(s) == \A i \in DOMAIN s : Faithful(s[i])
DiskFaithful(d)  == \A i \in Slots : \A m \in d[MetaCell(i)], x \in d[DataCell(i)] :
                      Faithful([meta |-> m, data |-> x])

FreshInv ==
  /\ \A j \in Jobs : StoreFaithful(store[j]) /\ StoreFaithful(save[j])
  /\ DiskFaithful(disk)
  /\ \A j \in Jobs, p \in Paths :
       /\ pc[j] # "idle" => src[p].content \in seen[j][p]
       /\ pc[j] = "idle" => suite[j][p] = None
       /\ suite[j][p] \in seen[j][p] \cup {None}
  /\ \A j \in Jobs : pc[j] = "update" =>
       suite[j][Source(j)] = src[Source(j)].content

LEMMA LoadedFaithful ==
  ASSUME NEW d, DiskTyped(d), DiskFaithful(d)
  PROVE  StoreFaithful(Loaded(d))
<1>1. PICK n \in 0..MaxEntries : /\ Loaded(d) = [i \in 1..n |-> EntryAt(d, i)]
                                 /\ \A i \in Slots : i <= n <=> i \in Whole(d)
  BY LoadedShape DEF DiskTyped
<1>2. ASSUME NEW i \in 1..n PROVE Faithful(EntryAt(d, i))
  <2>1. i \in Whole(d) /\ i \in Slots
    BY <1>1, CacheAssumption DEF Slots
  <2>2. CASE "written" \in d[LenCell(i)]
    <3>1. /\ EntryAt(d, i).meta \in d[MetaCell(i)]
          /\ EntryAt(d, i).data \in d[DataCell(i)]
      BY <2>1, <2>2, EntryTyped
    <3>2. Faithful([meta |-> EntryAt(d, i).meta, data |-> EntryAt(d, i).data])
      BY <2>1, <3>1 DEF DiskFaithful
    <3> QED  BY <3>2 DEF Faithful
  <2>3. CASE "written" \notin d[LenCell(i)]
    BY <2>1, <2>3, EntryTyped DEF Faithful
  <2> QED  BY <2>2, <2>3
<1> QED  BY <1>1, <1>2 DEF StoreFaithful

LEMMA SavedFaithful ==
  ASSUME NEW d, NEW s \in Stores, NEW n \in Nat, SavedUpTo(d, s, n), StoreFaithful(s)
  PROVE  DiskFaithful(d)
<1> SUFFICES ASSUME NEW i \in Slots, NEW m \in d[MetaCell(i)], NEW x \in d[DataCell(i)]
             PROVE  Faithful([meta |-> m, data |-> x])
  BY DEF DiskFaithful
<1>1. i <= Len(s) /\ m = s[i].meta /\ x = s[i].data
  BY DEF SavedUpTo
<1>2. i \in DOMAIN s
  BY <1>1, CacheAssumption DEF Slots, Stores
<1> QED  BY <1>1, <1>2 DEF StoreFaithful, Faithful

LEMMA RecordedFaithful ==
  ASSUME NEW s \in Stores, StoreFaithful(s), NEW e \in Entries, Faithful(e)
  PROVE  StoreFaithful(Recorded(s, e))
  BY RecordedTyped DEF StoreFaithful

LEMMA InitFresh == Init => FreshInv
<1> SUFFICES ASSUME Init PROVE FreshInv
  OBVIOUS
<1>1. StoreFaithful(<<>>)
  BY DEF StoreFaithful
<1>2. DiskFaithful(NoFile)
  BY CellsApart DEF DiskFaithful, NoFile
<1> QED  BY <1>1, <1>2 DEF Init, FreshInv

LEMMA GoneFresh ==
  ASSUME TypeInv, FreshInv, NEW j \in Jobs, Gone(j)
  PROVE  FreshInv'
<1>1. StoreFaithful(<<>>)
  BY DEF StoreFaithful
<1>2. \A k \in Jobs : StoreFaithful(store'[k]) /\ StoreFaithful(save'[k])
  BY <1>1 DEF TypeInv, ShapeInv, FreshInv, Gone
<1>3. disk' = disk /\ src' = src /\ pc'[j] = "idle"
  BY DEF TypeInv, TypeOK, Gone, Goto
<1>4. \A p \in Paths : suite'[j][p] = None
  BY DEF TypeInv, TypeOK, Gone
<1>5. \A k \in Jobs \ {j} : /\ pc'[k] = pc[k] /\ suite'[k] = suite[k]
                           /\ seen'[k] = seen[k] /\ next'[k] = next[k]
  BY DEF TypeInv, TypeOK, ShapeInv, Gone, Goto
<1>6. \A k \in Jobs, p \in Paths :
        /\ pc'[k] # "idle" => src'[p].content \in seen'[k][p]
        /\ pc'[k] = "idle" => suite'[k][p] = None
        /\ suite'[k][p] \in seen'[k][p] \cup {None}
  BY <1>3, <1>4, <1>5 DEF FreshInv
<1>7. \A k \in Jobs : pc'[k] = "update" =>
        suite'[k][Source(k)'] = src'[Source(k)'].content
  BY <1>3, <1>5 DEF FreshInv, Source
<1> QED  BY <1>2, <1>3, <1>6, <1>7 DEF FreshInv

LEMMA UseFresh ==
  ASSUME TypeInv, FreshInv, NEW j \in Jobs, pc[j] = "lookup",
         Use(j, src[Source(j)].content)
  PROVE  FreshInv'
<1> DEFINE c == src[Source(j)].content
<1>1. Source(j) \in Paths
  BY SourceTyped DEF Saving
<1>2. /\ suite'[j][Source(j)] = c
      /\ \A p \in Paths : p # Source(j) => suite'[j][p] = suite[j][p]
      /\ \A k \in Jobs : k # j => suite'[k] = suite[k]
  BY <1>1 DEF TypeInv, TypeOK, Use
<1>3. pc'[j] = "update" /\ \A k \in Jobs : k # j => pc'[k] = pc[k]
  BY DEF TypeInv, TypeOK, Use, Goto
<1>4. \A k \in Jobs, p \in Paths :
        /\ pc'[k] # "idle" => src'[p].content \in seen'[k][p]
        /\ pc'[k] = "idle" => suite'[k][p] = None
        /\ suite'[k][p] \in seen'[k][p] \cup {None}
  BY <1>1, <1>2, <1>3 DEF FreshInv, Use
<1>5. \A k \in Jobs : pc'[k] = "update" =>
        suite'[k][Source(k)'] = src'[Source(k)'].content
  BY <1>2, <1>3 DEF FreshInv, Source, Use
<1> QED  BY <1>4, <1>5 DEF FreshInv, Use

LEMMA NextFresh ==
  ASSUME ~SavesOverlap, ~EditsAnyTime, TypeInv, SaveInv, FreshInv,
         TypeInv', SaveInv', [Next]_vars
  PROVE  FreshInv'
<1>1. ASSUME NEW j \in Jobs, Start(j) PROVE FreshInv'
  <2>1. /\ pc[j] = "idle" /\ pc'[j] \in {"clear", "load"}
        /\ \A k \in Jobs : k # j => pc'[k] = pc[k]
    BY <1>1 DEF TypeInv, TypeOK, Start, Goto
  <2>2. /\ \A p \in Paths : seen'[j][p] = {src[p].content}
        /\ \A k \in Jobs : k # j => seen'[k] = seen[k]
    BY <1>1 DEF TypeInv, ShapeInv, Start
  <2>3. \A k \in Jobs, p \in Paths :
          /\ pc'[k] # "idle" => src'[p].content \in seen'[k][p]
          /\ pc'[k] = "idle" => suite'[k][p] = None
          /\ suite'[k][p] \in seen'[k][p] \cup {None}
    BY <1>1, <2>1, <2>2 DEF FreshInv, Start
  <2>4. \A k \in Jobs : pc'[k] = "update" =>
          suite'[k][Source(k)'] = src'[Source(k)'].content
    BY <1>1, <2>1 DEF FreshInv, Source, Start
  <2> QED  BY <1>1, <2>3, <2>4 DEF FreshInv, Start
<1>2. ASSUME NEW j \in Jobs, Clear(j) PROVE FreshInv'
  <2>1. DiskFaithful(NoFile)
    BY CellsApart DEF DiskFaithful, NoFile
  <2>2. \A k \in Jobs : /\ pc'[k] = "idle" <=> pc[k] = "idle"
                        /\ pc'[k] = "update" => pc[k] = "update"
    BY <1>2 DEF Clear
  <2> QED  BY <1>2, <2>1, <2>2 DEF FreshInv, Source, Clear
<1>3. ASSUME NEW j \in Jobs, Load(j) PROVE FreshInv'
  <2>1. StoreFaithful(Loaded(disk))
    BY LoadedFaithful DEF TypeInv, ShapeInv, FreshInv
  <2>0. PICK s \in {Loaded(disk), <<>>} : store' = [store EXCEPT ![j] = s]
    BY <1>3 DEF Load
  <2>2. \A k \in Jobs : StoreFaithful(store'[k])
    <3>1. StoreFaithful(s)
      BY <2>1 DEF StoreFaithful
    <3> QED
      BY <2>0, <3>1 DEF TypeInv, ShapeInv, FreshInv
  <2>3. \A k \in Jobs : /\ pc'[k] = "idle" <=> pc[k] = "idle"
                        /\ pc'[k] = "update" => pc[k] = "update"
    BY <1>3 DEF TypeInv, TypeOK, Load, Goto
  <2> QED  BY <1>3, <2>2, <2>3 DEF FreshInv, Source, Load
<1>4. ASSUME NEW j \in Jobs, LookupHit(j) PROVE FreshInv'
  <2>1. PICK i \in Hits(j) : Use(j, store[j][i].data)
    BY <1>4 DEF LookupHit
  <2>2. Source(j) \in Paths
    BY <1>4, SourceTyped DEF LookupHit, Saving
  <2>3. store[j][i].meta.hash = src[Source(j)].content
    BY <2>1, <2>2, MetaTyped DEF Hits, Current, TypeInv
  <2>4. Faithful(store[j][i]) /\ store[j][i].data # None
    BY <2>1 DEF FreshInv, StoreFaithful, Hits
  <2>5. store[j][i].data = src[Source(j)].content
    BY <2>3, <2>4 DEF Faithful
  <2> QED  BY <1>4, <2>1, <2>5, UseFresh DEF LookupHit
<1>5. ASSUME NEW j \in Jobs, LookupMiss(j) PROVE FreshInv'
  BY <1>5, UseFresh DEF LookupMiss
<1>6. ASSUME NEW j \in Jobs, Update(j) PROVE FreshInv'
  <2> DEFINE e == [meta |-> Meta(Source(j)), data |-> suite[j][Source(j)]]
  <2>1. pc[j] = "update" /\ Source(j) \in Paths
    BY <1>6, SourceTyped DEF Update, Saving
  <2>2. e \in Entries
    BY <2>1, MetaTyped DEF TypeInv, TypeOK, Entries
  <2>3. Faithful(e)
    BY <2>1, MetaTyped DEF TypeInv, FreshInv, Faithful
  <2>4. save[j] \in Stores /\ save' = [save EXCEPT ![j] = Recorded(save[j], e)]
    BY <1>6 DEF TypeInv, ShapeInv, Update
  <2> HIDE DEF e
  <2>5. \A k \in Jobs : StoreFaithful(save'[k])
    BY <2>2, <2>3, <2>4, RecordedFaithful DEF TypeInv, ShapeInv, FreshInv
  <2>6. pc'[j] \in {"lookup", "test"}
    BY <1>6 DEF TypeInv, TypeOK, Update, Goto
  <2>7. \A k \in Jobs : k # j => pc'[k] = pc[k] /\ next'[k] = next[k]
    BY <1>6 DEF TypeInv, TypeOK, ShapeInv, Update, Goto
  <2>8. \A k \in Jobs : pc'[k] = "update" =>
          suite'[k][Source(k)'] = src'[Source(k)'].content
    BY <1>6, <2>6, <2>7 DEF FreshInv, Source, Update
  <2>9. \A k \in Jobs : pc'[k] = "idle" <=> pc[k] = "idle"
    BY <2>1, <2>6, <2>7
  <2> QED  BY <1>6, <2>5, <2>8, <2>9 DEF FreshInv, Update
<1>7. ASSUME NEW j \in Jobs, OpenCache(j) PROVE FreshInv'
  <2>1. DiskFaithful(NoFile)
    BY CellsApart DEF DiskFaithful, NoFile
  <2>2. pc[j] = "test" /\ pc'[j] = "write"
    BY <1>7 DEF TypeInv, TypeOK, OpenCache, Goto
  <2>3. \A k \in Jobs : k # j => pc'[k] = pc[k] /\ next'[k] = next[k]
    BY <1>7 DEF TypeInv, TypeOK, ShapeInv, OpenCache, Goto
  <2>4. \A k \in Jobs : pc'[k] = "update" =>
          suite'[k][Source(k)'] = src'[Source(k)'].content
    BY <1>7, <2>2, <2>3 DEF FreshInv, Source, OpenCache
  <2> QED  BY <1>7, <2>1, <2>2, <2>3, <2>4 DEF FreshInv, OpenCache
<1>8. ASSUME NEW j \in Jobs, WriteCell(j) PROVE FreshInv'
  <2>1. DiskFaithful(disk')
    <3>1. pc'[j] = "write" /\ save' = save
      BY <1>8 DEF WriteCell
    <3>2. SavedUpTo(disk', save[j], next'[j]) /\ next'[j] \in Nat /\ save[j] \in Stores
      BY <3>1 DEF SaveInv, TypeInv, ShapeInv
    <3>3. StoreFaithful(save[j])
      BY DEF FreshInv
    <3> QED  BY <3>2, <3>3, SavedFaithful
  <2>2. \A k \in Jobs : pc[k] = "update" => Source(k)' = Source(k)
    BY <1>8 DEF TypeInv, ShapeInv, WriteCell, Source
  <2> QED  BY <1>8, <2>1, <2>2 DEF FreshInv, WriteCell
<1>9. ASSUME NEW p \in Paths, NEW c \in Contents, Edit(p, c) PROVE FreshInv'
  <2>1. src'[p].content = c /\ \A q \in Paths : q # p => src'[q] = src[q]
    <3>1. PICK t : src' = [src EXCEPT ![p] = [content |-> c, mtime |-> t]]
      BY <1>9 DEF Edit
    <3>2. DOMAIN src = Paths
      BY DEF TypeInv, TypeOK
    <3> QED  BY <3>1, <3>2
  <2>2. \A k \in Jobs : pc[k] = "update" => Source(k) # p /\ Source(k) \in Paths
    BY <1>9, SourceTyped DEF Edit, Saving
  <2>3. ASSUME NEW k \in Jobs
        PROVE  /\ pc[k] = "idle" => seen'[k] = seen[k]
               /\ pc[k] # "idle" => /\ seen'[k][p] = seen[k][p] \cup {c}
                                    /\ \A q \in Paths : q # p => seen'[k][q] = seen[k][q]
    BY <1>9 DEF TypeInv, ShapeInv, Edit
  <2>4. \A k \in Jobs, q \in Paths :
          /\ pc[k] # "idle" => src'[q].content \in seen'[k][q]
          /\ suite[k][q] \in seen'[k][q] \cup {None}
    BY <2>1, <2>3 DEF FreshInv
  <2>5. \A k \in Jobs : pc'[k] = "update" =>
          suite'[k][Source(k)'] = src'[Source(k)'].content
    BY <1>9, <2>1, <2>2 DEF FreshInv, Source, Edit
  <2> QED  BY <1>9, <2>4, <2>5 DEF FreshInv, Edit
<1>10. CASE UNCHANGED vars
  BY <1>10 DEF vars, FreshInv, Source
<1> QED
  BY <1>1, <1>2, <1>3, <1>4, <1>5, <1>6, <1>7, <1>8, <1>9, <1>10, GoneFresh
  DEF Next, Run, CloseCache, CloseRemoved, Die

\* When moreover no source is edited between being compiled and being recorded,
\* no run ever uses a suite that was compiled from what the source held before
\* the run, whatever else is edited, killed, cleared or half-written.
THEOREM Freshness ==
  ASSUME ~SavesOverlap, ~EditsAnyTime
  PROVE  Spec => []NeverStale
<1> DEFINE Inv == TypeInv /\ SaveInv /\ FreshInv
<1>1. Init => Inv
  BY InitType, InitFresh DEF Init, SaveInv
<1>2. Inv /\ [Next]_vars => Inv'
  BY NextType, NextSave, NextFresh
<1>3. Inv => NeverStale
  <2> SUFFICES ASSUME Inv, NEW j \in Jobs, pc[j] = "update"
               PROVE  suite[j][Source(j)] # None
    BY DEF FreshInv, NeverStale
  <2>1. Source(j) \in Paths
    BY SourceTyped DEF Saving
  <2> QED  BY <2>1, SourceContent DEF TypeInv, FreshInv
<1> HIDE DEF Inv
<1> QED  BY <1>1, <1>2, <1>3, PTL DEF Spec
=============================================================================

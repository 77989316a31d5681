------------------------------ MODULE DiffProofs ------------------------------
(***************************************************************************)
(* The memory pool keeps blocks apart, for blobs and requests of any size, *)
(* and so print_diff keeps its arrays apart in it, for texts of any length *)
(* and whatever was allocated before.  What it prints can be read back into*)
(* the two texts, and no other diff of them has more common lines, whatever*)
(* lines match whatever lines.                                             *)
(***************************************************************************)
EXTENDS Diff, FiniteSetTheorems, SequenceTheorems, TLAPS
-----------------------------------------------------------------------------
(* The memory pool.  What a blob uses ends where its last block ends,      *)
(* rounded up, so a new block begins after all others of its blob.  A      *)
(* block that is too large drives the use of its blob past its size, and   *)
(* nothing fits there any more.                                            *)

\* align_up rounds up, to a multiple of the alignment.
LEMMA AlignUpFacts ==
  ASSUME NEW n \in Nat
  PROVE  /\ AlignUp(n) \in Nat
         /\ AlignUp(n) >= n
         /\ Aligned(AlignUp(n))
<1> DEFINE x == n + Alignment - 1
           q == x \div Alignment
<1>1. x \in Nat /\ Alignment \in Nat \ {0}
  BY AllocatorAssumption
<1>2. q \in Nat /\ q * Alignment <= x /\ x < q * Alignment + Alignment
  BY <1>1
<1>3. AlignUp(n) = q * Alignment
  BY DEF AlignUp
<1> HIDE DEF q, x
<1>4. q <= q * Alignment /\ q * Alignment \in Nat
  BY <1>1, <1>2
<1>5. AlignUp(n) >= n
  BY <1>1, <1>2, <1>3, <1>4 DEF x
<1> QED
  BY <1>1, <1>2, <1>3, <1>4, <1>5 DEF Aligned

\* A block lies in the used part of its blob; one that is too large has driven
\* that past the end of the blob.
Placed(x, u) ==
  /\ x.blob \in 1..Len(u)
  /\ Aligned(x.offset)
  /\ x.offset + AlignUp(x.size) <= u[x.blob]
  /\ TooLarge(x) \/ x.offset + AlignUp(x.size) <= BlobSize

PoolInv ==
  /\ PoolTypeOK
  /\ \A k \in DOMAIN blocks : Placed(blocks[k], used)
  /\ BlocksApart

LEMMA PoolInitInv == PoolInit => PoolInv
  BY AllocatorAssumption
  DEF PoolInit, PoolInv, PoolTypeOK, BlocksApart

ApartAlone(x, y) == Apart(x, y) /\ (TooLarge(x) => y.blob # x.blob)

\* A block is cut from a blob behind all others there, and it fits, or it is
\* too large and has a new blob of its own.
GoodCut(b, offset, size) ==
  /\ b \in 1..(Len(used) + 1) /\ offset \in Nat /\ size \in Nat
  /\ Aligned(offset)
  /\ b <= Len(used) => used[b] <= offset
  /\ \/ offset + AlignUp(size) <= BlobSize
     \/ b = Len(used) + 1 /\ AlignUp(size) > BlobSize
  /\ Cut(b, offset, size)

\* What it changes.
LEMMA CutUsed ==
  ASSUME PoolTypeOK, NEW b, NEW offset, NEW size, GoodCut(b, offset, size)
  PROVE  /\ used' \in Seq(Nat)
         /\ Len(used') = IF b > Len(used) THEN b ELSE Len(used)
         /\ used'[b] = offset + AlignUp(size)
         /\ \A c \in 1..Len(used) : c # b => used'[c] = used[c]
<1>1. used \in Seq(Nat)
  BY DEF PoolTypeOK
<1>2. b \in 1..(Len(used) + 1) /\ offset \in Nat /\ size \in Nat
  BY DEF GoodCut
<1>3. used' = [c \in 1..(IF b > Len(used) THEN b ELSE Len(used)) |->
                   IF c = b THEN offset + AlignUp(size) ELSE used[c]]
  BY DEF GoodCut, Cut
<1>4. AlignUp(size) \in Nat
  BY <1>2, AlignUpFacts
<1>5. used' \in Seq(Nat) /\ Len(used') = IF b > Len(used) THEN b ELSE Len(used)
  BY <1>1, <1>2, <1>3, <1>4
<1>6. used'[b] = offset + AlignUp(size)
  BY <1>1, <1>2, <1>3
<1>7. \A c \in 1..Len(used) : c # b => used'[c] = used[c]
  BY <1>1, <1>2, <1>3
<1> QED
  BY <1>5, <1>6, <1>7

LEMMA CutBlocks ==
  ASSUME PoolTypeOK, NEW b, NEW offset, NEW size, GoodCut(b, offset, size)
  PROVE  /\ blocks' \in Seq(Block) /\ Len(blocks') = Len(blocks) + 1
         /\ blocks'[Len(blocks) + 1] = [blob |-> b, offset |-> offset, size |-> size]
         /\ \A k \in 1..Len(blocks) : blocks'[k] = blocks[k]
<1>1. blocks \in Seq(Block)
  BY DEF PoolTypeOK
<1> DEFINE new == [blob |-> b, offset |-> offset, size |-> size]
<1>2. new \in Block
  <2>1. b \in 1..(Len(used) + 1) /\ offset \in Nat /\ size \in Nat /\ Len(used) \in Nat
    BY DEF GoodCut, PoolTypeOK
  <2> QED  BY <2>1 DEF Block
<1>3. blocks' = Append(blocks, new)
  BY DEF GoodCut, Cut
<1> HIDE DEF new
<1>4. /\ blocks' \in Seq(Block) /\ Len(blocks') = Len(blocks) + 1
      /\ blocks'[Len(blocks) + 1] = new
      /\ \A k \in 1..Len(blocks) : blocks'[k] = blocks[k]
  BY <1>1, <1>2, <1>3
<1> QED
  BY <1>4 DEF new

\* Where an old block is stays true.
LEMMA OldStaysPlaced ==
  ASSUME PoolTypeOK, NEW b, NEW offset, NEW size, GoodCut(b, offset, size),
         NEW k \in 1..Len(blocks), Placed(blocks[k], used)
  PROVE  Placed(blocks'[k], used')
<1> DEFINE c == blocks[k].blob
<1>1. /\ c \in 1..Len(used) /\ Aligned(blocks[k].offset)
      /\ blocks[k].offset + AlignUp(blocks[k].size) <= used[c]
      /\ TooLarge(blocks[k]) \/ blocks[k].offset + AlignUp(blocks[k].size) <= BlobSize
  BY DEF Placed
<1>2. blocks'[k] = blocks[k]
  BY CutBlocks
<1>3. c \in 1..Len(used')
  <2>1. Len(used) \in Nat /\ b \in 1..(Len(used) + 1)
    BY DEF PoolTypeOK, GoodCut
  <2>2. Len(used') = IF b > Len(used) THEN b ELSE Len(used)
    BY CutUsed
  <2> QED  BY <1>1, <2>1, <2>2
<1>4. used[c] <= used'[c] /\ used[c] \in Nat /\ used'[c] \in Nat
  <2>0. used \in Seq(Nat) /\ used' \in Seq(Nat)
    BY CutUsed DEF PoolTypeOK
  <2>3. used[c] \in Nat /\ used'[c] \in Nat
    BY <1>1, <1>3, <2>0, ElementOfSeq
  <2>1. CASE c = b
    <3>1. used[c] <= offset /\ offset \in Nat /\ size \in Nat
      BY <1>1, <2>1, <2>0 DEF GoodCut
    <3>4. used'[b] = offset + AlignUp(size)
      BY CutUsed
    <3>2. used'[c] = offset + AlignUp(size)
      BY <2>1, <3>4
    <3>3. AlignUp(size) \in Nat
      BY <3>1, AlignUpFacts
    <3> QED  BY <3>1, <3>2, <3>3, <2>3
  <2>2. CASE c # b
    <3>1. used'[c] = used[c]
      BY <2>2, <1>1, CutUsed
    <3> QED  BY <3>1, <2>3
  <2> QED  BY <2>1, <2>2, <2>3
<1>5. blocks[k].offset \in Nat /\ blocks[k].size \in Nat
  <2>1. blocks[k] \in Block
    BY DEF PoolTypeOK
  <2> QED  BY <2>1 DEF Block
<1>6. AlignUp(blocks[k].size) \in Nat
  BY <1>5, AlignUpFacts
<1>7. blocks'[k].offset + AlignUp(blocks'[k].size) <= used'[c]
  BY <1>1, <1>2, <1>4, <1>5, <1>6
<1> QED
  BY <1>1, <1>2, <1>3, <1>7 DEF Placed, TooLarge

\* The new block is placed.
LEMMA NewIsPlaced ==
  ASSUME PoolTypeOK, NEW b, NEW offset, NEW size, GoodCut(b, offset, size)
  PROVE  Placed([blob |-> b, offset |-> offset, size |-> size], used')
<1> DEFINE new == [blob |-> b, offset |-> offset, size |-> size]
<1>1. new.blob = b /\ new.offset = offset /\ new.size = size
  OBVIOUS
<1> HIDE DEF new
<1>3. b \in 1..Len(used')
  <2>1. Len(used) \in Nat /\ b \in 1..(Len(used) + 1)
    BY DEF PoolTypeOK, GoodCut
  <2>2. Len(used') = IF b > Len(used) THEN b ELSE Len(used)
    BY CutUsed
  <2> QED  BY <2>1, <2>2
<1>2. used'[b] = offset + AlignUp(size)
  BY CutUsed
<1>4. Aligned(offset) /\ offset \in Nat /\ size \in Nat
  BY DEF GoodCut
<1>5. AlignUp(size) \in Nat
  BY <1>4, AlignUpFacts
<1>6. AlignUp(size) > BlobSize \/ offset + AlignUp(size) <= BlobSize
  BY DEF GoodCut
<1> QED
  <2>1. offset + AlignUp(size) <= used'[b]
    BY <1>2, <1>4, <1>5
  <2>2. Placed(new, used')
    BY <1>1, <1>3, <1>4, <1>6, <2>1 DEF Placed, TooLarge
  <2> QED  BY <2>2 DEF new

\* It lies behind the blocks of its blob, none of which is too large.
LEMMA NewIsBehind ==
  ASSUME PoolTypeOK, NEW b, NEW offset, NEW size, GoodCut(b, offset, size),
         NEW k \in 1..Len(blocks), Placed(blocks[k], used), blocks[k].blob = b
  PROVE  /\ blocks[k].offset + blocks[k].size <= offset
         /\ ~TooLarge(blocks[k]) /\ ~(AlignUp(size) > BlobSize)
<1> DEFINE o == blocks[k].offset
           s == blocks[k].size
<1>1. o \in Nat /\ s \in Nat
  <2>1. blocks[k] \in Block
    BY DEF PoolTypeOK
  <2> QED  BY <2>1 DEF Block
<1>2. AlignUp(s) \in Nat /\ AlignUp(s) >= s
  BY <1>1, AlignUpFacts
<1>3. /\ b \in 1..Len(used) /\ o + AlignUp(s) <= used[b]
      /\ TooLarge(blocks[k]) \/ o + AlignUp(s) <= BlobSize
  BY DEF Placed
<1>4. offset \in Nat /\ size \in Nat /\ Len(used) \in Nat /\ used[b] \in Nat
  BY <1>3 DEF GoodCut, PoolTypeOK
<1>5. used[b] <= offset
  BY <1>3, <1>4 DEF GoodCut
<1>6. offset + AlignUp(size) <= BlobSize
  BY <1>3, <1>4 DEF GoodCut
<1>7. AlignUp(size) \in Nat /\ BlobSize \in Nat
  BY <1>4, AlignUpFacts, AllocatorAssumption
<1>8. ~TooLarge(blocks[k])
  BY <1>1, <1>2, <1>3, <1>4, <1>5, <1>6, <1>7 DEF TooLarge
<1> QED
  <2>1. o + s <= offset
    BY <1>1, <1>2, <1>3, <1>4, <1>5
  <2>2. ~(AlignUp(size) > BlobSize)
    BY <1>4, <1>6, <1>7
  <2> QED  BY <2>1, <2>2, <1>8

LEMMA CutKeepsBlocksApart ==
  ASSUME PoolInv, NEW b, NEW offset, NEW size, GoodCut(b, offset, size)
  PROVE  BlocksApart' /\ \A k \in DOMAIN blocks' : Placed(blocks'[k], used')
<1> DEFINE n == Len(blocks)
           new == [blob |-> b, offset |-> offset, size |-> size]
<1>1. PoolTypeOK /\ BlocksApart /\ \A k \in 1..n : Placed(blocks[k], used)
  BY DEF PoolInv, PoolTypeOK
<1>2. n \in Nat /\ DOMAIN blocks = 1..n
  BY <1>1 DEF PoolTypeOK
<1>3. DOMAIN blocks' = 1..(n + 1)
  <2>1. blocks' \in Seq(Block) /\ Len(blocks') = n + 1
    BY <1>1, CutBlocks
  <2> QED  BY <2>1
<1>4. blocks'[n + 1] = new /\ \A k \in 1..n : blocks'[k] = blocks[k]
  BY <1>1, CutBlocks
<1>5. \A k \in 1..n : Placed(blocks'[k], used')
  BY <1>1, OldStaysPlaced
<1>6. Placed(new, used')
  BY <1>1, NewIsPlaced
<1>7. \A k \in 1..(n + 1) : Placed(blocks'[k], used')
  <2> HIDE DEF new, n
  <2>1. ASSUME NEW k \in 1..(n + 1) PROVE Placed(blocks'[k], used')
    <3>1. CASE k = n + 1
      BY <3>1, <1>4, <1>6
    <3>2. CASE k \in 1..n
      BY <3>2, <1>5
    <3> QED  BY <3>1, <3>2, <1>2
  <2> QED  BY <2>1
<1>8. ASSUME NEW k \in 1..(n + 1)
      PROVE  /\ Aligned(blocks'[k].offset)
             /\ Within(blocks'[k]) \/ TooLarge(blocks'[k])
  <2> DEFINE o == blocks'[k].offset
             s == blocks'[k].size
  <2>1. Aligned(o) /\ (TooLarge(blocks'[k]) \/ o + AlignUp(s) <= BlobSize)
    BY <1>7 DEF Placed
  <2>2. blocks'[k] \in Block
    <3>1. blocks' \in Seq(Block) /\ Len(blocks') = n + 1
      BY <1>1, CutBlocks
    <3> QED  BY <3>1
  <2>3. o \in Nat /\ s \in Nat
    BY <2>2 DEF Block
  <2>4. AlignUp(s) \in Nat /\ AlignUp(s) >= s
    BY <2>3, AlignUpFacts
  <2>5. BlobSize \in Nat
    BY AllocatorAssumption
  <2>6. o + AlignUp(s) <= BlobSize => o + s <= BlobSize
    BY <2>3, <2>4, <2>5
  <2> QED
    BY <2>1, <2>6 DEF Within
<1>9. ASSUME NEW k \in 1..n, NEW l \in 1..n, k # l
      PROVE  ApartAlone(blocks'[k], blocks'[l])
  <2>1. ApartAlone(blocks[k], blocks[l])
    BY <1>1, <1>2, <1>9 DEF BlocksApart, ApartAlone
  <2>2. blocks'[k] = blocks[k] /\ blocks'[l] = blocks[l]
    BY <1>4
  <2> QED
    BY <2>1, <2>2
<1>10. ASSUME NEW k \in 1..n
       PROVE  ApartAlone(blocks'[k], new) /\ ApartAlone(new, blocks'[k])
  <2>1. blocks'[k] = blocks[k]
    BY <1>4
  <2>2. new.blob = b /\ new.offset = offset /\ new.size = size
    OBVIOUS
  <2> HIDE DEF new
  <2>3. blocks[k].blob = b => /\ blocks[k].offset + blocks[k].size <= offset
                             /\ ~TooLarge(blocks[k]) /\ ~(AlignUp(size) > BlobSize)
    BY <1>1, NewIsBehind
  <2>4. CASE blocks[k].blob = b
    BY <2>1, <2>2, <2>3, <2>4 DEF ApartAlone, Apart, TooLarge
  <2>5. CASE blocks[k].blob # b
    BY <2>1, <2>2, <2>5 DEF ApartAlone, Apart
  <2> QED  BY <2>4, <2>5
<1> HIDE DEF new
<1>11. ASSUME NEW k \in 1..(n + 1), NEW l \in 1..(n + 1), k # l
       PROVE  ApartAlone(blocks'[k], blocks'[l])
  <2>1. CASE k \in 1..n /\ l \in 1..n
    BY <2>1, <1>9, <1>11
  <2>2. CASE k \in 1..n /\ l = n + 1
    BY <2>2, <1>4, <1>10
  <2>3. CASE k = n + 1 /\ l \in 1..n
    BY <2>3, <1>4, <1>10
  <2>4. \/ k \in 1..n /\ l \in 1..n
        \/ k \in 1..n /\ l = n + 1
        \/ k = n + 1 /\ l \in 1..n
    BY <1>2, <1>11
  <2> QED  BY <2>1, <2>2, <2>3, <2>4
<1>12. BlocksApart'
  BY <1>3, <1>8, <1>11 DEF BlocksApart, ApartAlone
<1> QED
  BY <1>3, <1>7, <1>12

\* memory_blob_pool_alloc
LEMMA AllocKeepsPool ==
  ASSUME PoolInv, NEW size \in Nat, Alloc(size)
  PROVE  PoolInv'
<1>1. /\ PoolTypeOK /\ used \in Seq(Nat) /\ Len(used) \in Nat
      /\ capacity \in Nat \ {0} /\ Len(used) <= capacity
  BY DEF PoolInv, PoolTypeOK
<1>2. AlignUp(size) \in Nat /\ BlobSize \in Nat
  BY AlignUpFacts, AllocatorAssumption
<1>3. ASSUME NEW b, NEW offset, GoodCut(b, offset, size),
             capacity' \in Nat \ {0}, Len(used') <= capacity'
      PROVE  PoolInv'
  <2>1. used' \in Seq(Nat)
    BY <1>1, <1>3, CutUsed
  <2>2. blocks' \in Seq(Block)
    BY <1>1, <1>3, CutBlocks
  <2>3. BlocksApart' /\ \A k \in DOMAIN blocks' : Placed(blocks'[k], used')
    BY <1>3, CutKeepsBlocksApart
  <2> QED  BY <1>3, <2>1, <2>2, <2>3 DEF PoolInv, PoolTypeOK
<1>4. ASSUME NEW b \in 1..Len(used), InOldBlob(b, size) PROVE PoolInv'
  <2> DEFINE offset == AlignUp(used[b])
  <2>1. used[b] \in Nat
    BY <1>1
  <2>2. offset \in Nat /\ offset >= used[b] /\ Aligned(offset)
    BY <2>1, AlignUpFacts
  <2>3. /\ offset + AlignUp(size) <= BlobSize /\ Cut(b, offset, size)
        /\ capacity' = capacity
    BY <1>4 DEF InOldBlob, Fits
  <2> HIDE DEF offset
  <2>4. GoodCut(b, offset, size)
    BY <1>1, <2>1, <2>2, <2>3 DEF GoodCut
  <2>5. Len(used') = Len(used)
    BY <1>1, <2>4, CutUsed
  <2> QED  BY <1>1, <1>3, <2>3, <2>4, <2>5
<1>5. ASSUME InNewBlob(size) PROVE PoolInv'
  <2>1. Aligned(0)
    BY AllocatorAssumption DEF Aligned
  <2>2. /\ Cut(Len(used) + 1, 0, size)
        /\ capacity' = IF Len(used) >= capacity THEN capacity * 2 ELSE capacity
    BY <1>5 DEF InNewBlob
  <2>3. GoodCut(Len(used) + 1, 0, size)
    BY <1>1, <1>2, <2>1, <2>2 DEF GoodCut
  <2>4. Len(used') = Len(used) + 1
    BY <1>1, <2>3, CutUsed
  <2>5. capacity' \in Nat \ {0} /\ Len(used') <= capacity'
    BY <1>1, <2>2, <2>4
  <2> QED  BY <1>3, <2>3, <2>5
<1> QED
  BY <1>4, <1>5 DEF Alloc

LEMMA DestroyKeepsPool ==
  ASSUME PoolInv, Destroy PROVE PoolInv'
  BY DEF Destroy, PoolInv, PoolTypeOK, BlocksApart

LEMMA SamePool ==
  ASSUME PoolInv, UNCHANGED poolVars PROVE PoolInv'
<1> USE DEF poolVars
<1>1. PoolTypeOK'
  BY DEF PoolInv, PoolTypeOK
<1>2. \A k \in DOMAIN blocks' : Placed(blocks'[k], used')
  BY DEF PoolInv, Placed, TooLarge
<1>3. BlocksApart'
  BY DEF PoolInv, BlocksApart, Within, TooLarge, Apart
<1> QED  BY <1>1, <1>2, <1>3 DEF PoolInv
-----------------------------------------------------------------------------
(* print_diff in the pool.                                                 *)

\* Sizes are computed from the numbers of lines.
SizesInv ==
  /\ expected \in Seq(Chars) /\ actual \in Seq(Chars)
  /\ Len(expLines) \in Nat /\ Len(actLines) \in Nat

Inv == PoolInv /\ SizesInv

LEMMA CountLinesType ==
  ASSUME NEW t \in Seq(Chars) PROVE CountLines(t) \in Nat
<1>1. IsFiniteSet(1..Len(t))
  BY FS_Interval
<1>2. Newlines(t) \subseteq 1..Len(t)
  BY DEF Newlines
<1>3. IsFiniteSet(Newlines(t))
  BY <1>1, <1>2, FS_Subset
<1>4. Cardinality(Newlines(t)) \in Nat
  BY <1>3, FS_CardinalityType
<1> QED
  BY <1>4 DEF CountLines

LEMMA SplitLinesLen ==
  ASSUME NEW t \in Seq(Chars) PROVE Len(SplitLines(t)) \in Nat
<1> DEFINE n == CountLines(t)
<1>1. n \in Nat
  BY CountLinesType
<1>2. SplitLines(t) = [k \in 1..n |-> SubSeq(t, LineStart(t, k), LineEnd(t, k) - 1)]
  BY DEF SplitLines
<1> HIDE DEF n
<1> QED
  BY <1>1, <1>2

LEMMA AllocLinesKeepsPool ==
  ASSUME PoolInv, NEW n \in Nat, AllocLines(n) PROVE PoolInv'
<1>1. CASE n = 0
  BY <1>1, SamePool DEF AllocLines
<1>2. CASE n # 0
  <2>1. n * LineSize \in Nat
    BY DEF LineSize
  <2>2. Alloc(n * LineSize)
    BY <1>2 DEF AllocLines
  <2> QED  BY <2>1, <2>2, AllocKeepsPool
<1> QED
  BY <1>1, <1>2

LEMMA InitInv == Init => Inv
<1> SUFFICES ASSUME Init PROVE Inv
  OBVIOUS
<1>1. PoolInv
  BY PoolInitInv DEF Init
<1>2. SizesInv
  BY DiffAssumption DEF Init, SizesInv
<1> QED
  BY <1>1, <1>2 DEF Inv

LEMMA NextInv == Inv /\ [Next]_vars => Inv'
<1> SUFFICES ASSUME Inv, [Next]_vars PROVE Inv'
  OBVIOUS
<1>0. PoolInv /\ SizesInv
  BY DEF Inv
<1>1. CASE AllocateOther
  <2>1. PICK size \in OtherSizes : Alloc(size)
    BY <1>1 DEF AllocateOther
  <2>2. size \in Nat
    BY DiffAssumption
  <2>3. PoolInv'
    BY <1>0, <2>1, <2>2, AllocKeepsPool
  <2>4. SizesInv'
    BY <1>0, <1>1 DEF AllocateOther, SizesInv, textVars
  <2> QED  BY <2>3, <2>4 DEF Inv
<1>2. CASE SplitExpected
  <2>1. CountLines(expected) \in Nat /\ Len(SplitLines(expected)) \in Nat
    BY <1>0, CountLinesType, SplitLinesLen DEF SizesInv
  <2>2. PoolInv'
    BY <1>0, <1>2, <2>1, AllocLinesKeepsPool DEF SplitExpected
  <2>3. SizesInv'
    BY <1>0, <1>2, <2>1 DEF SplitExpected, SizesInv, textVars
  <2> QED  BY <2>2, <2>3 DEF Inv
<1>3. CASE SplitActual
  <2>1. CountLines(actual) \in Nat /\ Len(SplitLines(actual)) \in Nat
    BY <1>0, CountLinesType, SplitLinesLen DEF SizesInv
  <2>2. PoolInv'
    BY <1>0, <1>3, <2>1, AllocLinesKeepsPool DEF SplitActual
  <2>3. SizesInv'
    BY <1>0, <1>3, <2>1 DEF SplitActual, SizesInv, textVars
  <2> QED  BY <2>2, <2>3 DEF Inv
<1>4. CASE AllocTable
  <2>1. Rows * Cols * IntSize \in Nat
    <3>1. Len(expLines) \in Nat /\ Len(actLines) \in Nat
      BY <1>0 DEF SizesInv
    <3>2. Rows \in Nat /\ Cols \in Nat
      BY <3>1 DEF Rows, Cols
    <3> QED  BY <3>2 DEF IntSize
  <2>2. PoolInv'
    BY <1>0, <1>4, <2>1, AllocKeepsPool DEF AllocTable
  <2>3. SizesInv'
    BY <1>0, <1>4 DEF AllocTable, SizesInv, textVars
  <2> QED  BY <2>2, <2>3 DEF Inv
<1>5. CASE AllocActions
  <2>1. StackSize \in Nat
    BY <1>0 DEF SizesInv, StackSize
  <2>2. PoolInv'
    BY <1>0, <1>5, <2>1, AllocKeepsPool DEF AllocActions
  <2>3. SizesInv'
    BY <1>0, <1>5 DEF AllocActions, SizesInv, textVars
  <2> QED  BY <2>2, <2>3 DEF Inv
<1>6. CASE AllocIndices
  <2>1. StackSize * IntSize \in Nat
    BY <1>0 DEF SizesInv, StackSize, IntSize
  <2>2. PoolInv'
    BY <1>0, <1>6, <2>1, AllocKeepsPool DEF AllocIndices
  <2>3. SizesInv'
    BY <1>0, <1>6 DEF AllocIndices, SizesInv, textVars
  <2> QED  BY <2>2, <2>3 DEF Inv
<1>7. CASE Exit
  <2>1. PoolInv'
    BY <1>0, <1>7, DestroyKeepsPool DEF Exit
  <2>2. SizesInv'
    BY <1>0, <1>7 DEF Exit, SizesInv, textVars
  <2> QED  BY <2>1, <2>2 DEF Inv
<1>8. CASE TableOverruns \/ FillCell \/ NextRow \/ Walk \/ EndWalk \/ PrintLine \/ UNCHANGED vars
  <2>1. UNCHANGED <<poolVars, textVars, expLines, actLines>>
    BY <1>8 DEF TableOverruns, FillCell, NextRow, Walk, EndWalk, PrintLine, vars
  <2>2. PoolInv'
    BY <1>0, <2>1, SamePool
  <2>3. SizesInv'
    BY <1>0, <2>1 DEF SizesInv, textVars
  <2> QED  BY <2>2, <2>3 DEF Inv
<1> QED
  BY <1>1, <1>2, <1>3, <1>4, <1>5, <1>6, <1>7, <1>8 DEF Next

\* Arrays of a diff never share memory with one another or with what was there
\* before, and leave their blob only when they are larger than one (allocator.c).
THEOREM DiffBlocksApart == Spec => []BlocksApart
<1>1. Inv => BlocksApart
  BY DEF Inv, PoolInv
<1> QED
  BY <1>1, InitInv, NextInv, PTL DEF Spec
-----------------------------------------------------------------------------
(* The table, as a grid.                                                   *)

LEMMA CellFacts ==
  ASSUME NEW R \in Nat, NEW C \in Nat \ {0}, NEW r \in 0..(R - 1), NEW c \in 0..(C - 1)
  PROVE  r * C + c \in 0..(R * C - 1)
<1>1. r * C \in Nat /\ R * C \in Nat /\ (R - 1 - r) * C \in Nat
  OBVIOUS
<1>2. R * C = r * C + (R - 1 - r) * C + C
  OBVIOUS
<1> QED
  BY <1>1, <1>2

LEMMA CellsDiffer ==
  ASSUME NEW C \in Nat \ {0}, NEW r \in Nat, NEW s \in Nat,
         NEW c \in 0..(C - 1), NEW d \in 0..(C - 1),
         r * C + c = s * C + d
  PROVE  r = s /\ c = d
<1>1. ASSUME NEW x \in Nat, NEW y \in Nat, NEW e \in 0..(C - 1), NEW f \in 0..(C - 1),
             x < y
      PROVE  x * C + e < y * C + f
  <2>1. x * C \in Nat /\ (y - x - 1) * C \in Nat /\ y * C = x * C + (y - x - 1) * C + C
    BY <1>1
  <2> QED
    BY <2>1
<1>2. r * C \in Nat /\ s * C \in Nat
  OBVIOUS
<1>3. ~(r < s)
  BY <1>1, <1>2
<1>4. ~(s < r)
  BY <1>1, <1>2
<1>5. r = s
  BY <1>3, <1>4
<1> QED
  BY <1>2, <1>5

\* What a step of the walk leaves.
Step == [action : {" ", "+", "-"}, index : Nat]

LEMMA CommonLinesFacts ==
  ASSUME NEW s \in Seq(Step), NEW a \in Step
  PROVE  /\ Append(s, a) \in Seq(Step)
         /\ CommonLines(s) \in Nat
         /\ CommonLines(Append(s, a)) = CommonLines(s) + (IF a.action = " " THEN 1 ELSE 0)
<1> DEFINE S == {k \in DOMAIN s : s[k].action = " "}
           t == Append(s, a)
           T == {k \in DOMAIN t : t[k].action = " "}
           n == Len(s) + 1
<1>1. DOMAIN s = 1..Len(s) /\ Len(s) \in Nat
  OBVIOUS
<1>2. IsFiniteSet(S)
  <2>1. IsFiniteSet(1..Len(s))
    BY <1>1, FS_Interval
  <2>2. S \subseteq 1..Len(s)
    BY <1>1
  <2> QED  BY <2>1, <2>2, FS_Subset
<1>3. Cardinality(S) \in Nat
  BY <1>2, FS_CardinalityType
<1>4. t \in Seq(Step) /\ Len(t) = n /\ DOMAIN t = 1..n
  OBVIOUS
<1>5. t[n] = a /\ \A k \in 1..Len(s) : t[k] = s[k]
  OBVIOUS
<1>6. T = IF a.action = " " THEN S \cup {n} ELSE S
  <2> HIDE DEF t
  <2>1. \A k : k \in T <=> k \in 1..n /\ t[k].action = " "
    BY <1>4
  <2>2. \A k : k \in 1..n <=> k = n \/ k \in 1..Len(s)
    BY <1>1
  <2>3. \A k : k \in S <=> k \in 1..Len(s) /\ s[k].action = " "
    BY <1>1
  <2>4. \A k : k \in T <=> k \in S \/ (k = n /\ a.action = " ")
    <3> HIDE DEF S, T, n
    <3> QED  BY <2>1, <2>2, <2>3, <1>5
  <2> HIDE DEF S, T, n
  <2> QED  BY <2>4
<1>7. n \notin S
  <2>1. n \notin 1..Len(s)
    BY <1>1
  <2> QED  BY <2>1, <1>1
<1>8. Cardinality(S \cup {n}) = Cardinality(S) + 1
  BY <1>2, <1>7, FS_AddElement
<1>9. CommonLines(s) = Cardinality(S) /\ CommonLines(t) = Cardinality(T)
  BY DEF CommonLines
<1> HIDE DEF S, T, t, n
<1>10. CommonLines(t) = CommonLines(s) + (IF a.action = " " THEN 1 ELSE 0)
  <2>1. CASE a.action = " "
    BY <2>1, <1>6, <1>8, <1>9
  <2>2. CASE a.action # " "
    <3>1. T = S
      BY <2>2, <1>6
    <3>2. CommonLines(t) = CommonLines(s)
      BY <3>1, <1>9
    <3>3. CommonLines(s) \in Nat
      BY <1>3, <1>9
    <3>4. CommonLines(t) = CommonLines(s) + 0
      <4> DEFINE x == CommonLines(s)
      <4>1. x \in Nat /\ CommonLines(t) = x
        BY <3>2, <3>3
      <4> HIDE DEF x
      <4>2. CommonLines(t) = x + 0
        BY <4>1
      <4> QED  BY <4>2 DEF x
    <3>5. (IF a.action = " " THEN 1 ELSE 0) = 0
      BY <2>2
    <3> QED  BY <3>4, <3>5
  <2> QED  BY <2>1, <2>2
<1>11. CommonLines(s) \in Nat
  BY <1>3, <1>9
<1> QED
  BY <1>4, <1>10, <1>11 DEF t

LEMMA NoCommonLines == CommonLines(<<>>) = 0
<1> DEFINE s == <<>>
           S == {k \in DOMAIN s : s[k].action = " "}
<1>1. DOMAIN s = {}
  OBVIOUS
<1>2. CommonLines(s) = Cardinality(S)
  BY DEF CommonLines
<1> HIDE DEF s
<1>3. S = {}
  BY <1>1
<1> HIDE DEF S
<1>4. CommonLines(s) = 0
  BY <1>2, <1>3, FS_EmptySet
<1> QED
  BY <1>4 DEF s

-----------------------------------------------------------------------------
(* What the loops over the table keep.                                     *)

Inside(r, c) == r \in 0..Len(expLines) /\ c \in 0..Len(actLines)

\* The table has a number in every cell, and 0 at its borders.
GridInv ==
  /\ table \in [0..(Rows * Cols - 1) -> Nat]
  /\ \A r \in 0..Len(expLines) : table[Cell(r, 0)] = 0
  /\ \A c \in 0..Len(actLines) : table[Cell(0, c)] = 0

\* The lengths that lines r and c leave to choose from, in table t.
FilledIn(t, r, c) ==
  IF Equal(r, c) THEN t[Cell(r - 1, c - 1)] + 1
  ELSE Larger(t[Cell(r - 1, c)], t[Cell(r, c - 1)])

Full(r, c) == table[Cell(r, c)] = FilledIn(table, r, c)

FullBefore(r, c) ==
  \A s \in 1..Len(expLines), d \in 1..Len(actLines) :
    s < r \/ (s = r /\ d < c) => Full(s, d)

LEMMA GridFacts ==
  ASSUME SizesInv
  PROVE  /\ Len(expLines) \in Nat /\ Len(actLines) \in Nat
         /\ Rows = Len(expLines) + 1 /\ Cols = Len(actLines) + 1
         /\ \A r, c : Inside(r, c) => Cell(r, c) \in 0..(Rows * Cols - 1)
         /\ \A r, c, s, d : Inside(r, c) /\ Inside(s, d) /\ Cell(r, c) = Cell(s, d) =>
              r = s /\ c = d
<1>1. Len(expLines) \in Nat /\ Len(actLines) \in Nat
  BY DEF SizesInv
<1>2. Rows = Len(expLines) + 1 /\ Cols = Len(actLines) + 1
  BY DEF Rows, Cols
<1>3. Rows \in Nat /\ Cols \in Nat \ {0}
  BY <1>1, <1>2
<1>4. ASSUME NEW r, NEW c, Inside(r, c)
      PROVE  r \in 0..(Rows - 1) /\ c \in 0..(Cols - 1) /\ r \in Nat /\ Cell(r, c) = r * Cols + c
  BY <1>1, <1>2, <1>4 DEF Inside, Cell
<1>5. ASSUME NEW r, NEW c, Inside(r, c) PROVE Cell(r, c) \in 0..(Rows * Cols - 1)
  BY <1>3, <1>4, <1>5, CellFacts
<1>6. ASSUME NEW r, NEW c, NEW s, NEW d, Inside(r, c), Inside(s, d), Cell(r, c) = Cell(s, d)
      PROVE  r = s /\ c = d
  <2>1. /\ r \in Nat /\ s \in Nat /\ c \in 0..(Cols - 1) /\ d \in 0..(Cols - 1)
        /\ r * Cols + c = s * Cols + d
    BY <1>4, <1>6
  <2> QED  BY <1>3, <2>1, CellsDiffer
<1> QED
  BY <1>1, <1>2, <1>5, <1>6

LEMMA NumbersInside ==
  ASSUME SizesInv, GridInv, NEW r, NEW c, Inside(r, c)
  PROVE  table[Cell(r, c)] \in Nat
<1>1. Cell(r, c) \in 0..(Rows * Cols - 1)
  BY GridFacts
<1> QED
  BY <1>1 DEF GridInv

LEMMA SameLines ==
  ASSUME UNCHANGED <<expLines, actLines>>
  PROVE  /\ Rows' = Rows /\ Cols' = Cols
         /\ \A r, c : Cell(r, c)' = Cell(r, c) /\ (Equal(r, c)' <=> Equal(r, c))
         /\ \A r, c : Full(r, c)' <=> table'[Cell(r, c)] = FilledIn(table', r, c)
<1>1. Rows' = Rows /\ Cols' = Cols
  BY DEF Rows, Cols
<1>2. ASSUME NEW r, NEW c PROVE Cell(r, c)' = Cell(r, c) /\ (Equal(r, c)' <=> Equal(r, c))
  BY <1>1 DEF Cell, Equal
<1>3. ASSUME NEW r, NEW c PROVE Full(r, c)' <=> table'[Cell(r, c)] = FilledIn(table', r, c)
  BY <1>1 DEF Full, FilledIn, Cell, Equal, Larger
<1> QED
  BY <1>1, <1>2, <1>3

\* One more cell.
LEMMA FillCellFills ==
  ASSUME SizesInv, GridInv, NEW r \in 1..Len(expLines), NEW c \in 1..Len(actLines),
         FullBefore(r, c),
         table' = [table EXCEPT ![Cell(r, c)] = Filled(r, c)],
         UNCHANGED <<expLines, actLines>>
  PROVE  GridInv' /\ FullBefore(r, c + 1)'
<1>1. Len(expLines) \in Nat /\ Len(actLines) \in Nat
  BY GridFacts
<1>2. /\ Inside(r, c) /\ Inside(r - 1, c - 1) /\ Inside(r - 1, c) /\ Inside(r, c - 1)
  BY <1>1 DEF Inside
<1>3. Filled(r, c) \in Nat
  <2>1. /\ table[Cell(r - 1, c - 1)] \in Nat
        /\ table[Cell(r - 1, c)] \in Nat /\ table[Cell(r, c - 1)] \in Nat
    BY <1>2, NumbersInside
  <2> QED  BY <2>1 DEF Filled, Larger
<1>4. Cell(r, c) \in 0..(Rows * Cols - 1) /\ table \in [0..(Rows * Cols - 1) -> Nat]
  BY <1>2, GridFacts DEF GridInv
<1>5. table'[Cell(r, c)] = Filled(r, c) /\ table' \in [0..(Rows * Cols - 1) -> Nat]
  BY <1>3, <1>4
<1>6. ASSUME NEW s, NEW d, Inside(s, d), s # r \/ d # c
      PROVE  table'[Cell(s, d)] = table[Cell(s, d)]
  <2>1. Cell(s, d) # Cell(r, c)
    BY <1>2, <1>6, GridFacts
  <2>2. Cell(s, d) \in 0..(Rows * Cols - 1)
    BY <1>6, GridFacts
  <2> QED  BY <2>1, <2>2, <1>4
<1>7. FilledIn(table, r, c) = Filled(r, c)
  BY DEF FilledIn, Filled
<1>8. ASSUME NEW s \in 1..Len(expLines), NEW d \in 1..Len(actLines),
             s < r \/ (s = r /\ d < c + 1)
      PROVE  FilledIn(table', s, d) = FilledIn(table, s, d)
  <2>1. /\ Inside(s - 1, d - 1) /\ Inside(s - 1, d) /\ Inside(s, d - 1)
    BY <1>1 DEF Inside
  <2>2. s - 1 # r /\ (s # r \/ d - 1 # c)
    BY <1>1, <1>8
  <2>3. /\ table'[Cell(s - 1, d - 1)] = table[Cell(s - 1, d - 1)]
        /\ table'[Cell(s - 1, d)] = table[Cell(s - 1, d)]
        /\ table'[Cell(s, d - 1)] = table[Cell(s, d - 1)]
    BY <2>1, <2>2, <1>6
  <2> QED  BY <2>3 DEF FilledIn
<1>9. ASSUME NEW s \in 1..Len(expLines), NEW d \in 1..Len(actLines),
             s < r \/ (s = r /\ d < c + 1)
      PROVE  table'[Cell(s, d)] = FilledIn(table, s, d)
  <2>1. CASE s = r /\ d = c
    BY <2>1, <1>5, <1>7
  <2>2. CASE s # r \/ d # c
    <3>1. Inside(s, d)
      BY <1>1 DEF Inside
    <3>2. table'[Cell(s, d)] = table[Cell(s, d)]
      BY <3>1, <2>2, <1>6
    <3>3. s < r \/ (s = r /\ d < c)
      BY <1>1, <1>9, <2>2
    <3>4. Full(s, d)
      BY <3>3 DEF FullBefore
    <3> QED  BY <3>2, <3>4 DEF Full
  <2> QED  BY <2>1, <2>2
<1>10. FullBefore(r, c + 1)'
  <2>1. ASSUME NEW s \in 1..Len(expLines), NEW d \in 1..Len(actLines),
               s < r \/ (s = r /\ d < c + 1)
        PROVE  Full(s, d)'
    <3>1. table'[Cell(s, d)] = FilledIn(table', s, d)
      BY <2>1, <1>8, <1>9
    <3> QED  BY <3>1, SameLines
  <2> QED  BY <2>1 DEF FullBefore
<1>11. GridInv'
  <2>1. ASSUME NEW s \in 0..Len(expLines) PROVE table'[Cell(s, 0)] = 0
    <3>1. Inside(s, 0) /\ 0 # c
      BY <1>1 DEF Inside
    <3>2. table'[Cell(s, 0)] = table[Cell(s, 0)]
      BY <3>1, <1>6
    <3> QED  BY <3>2 DEF GridInv
  <2>2. ASSUME NEW d \in 0..Len(actLines) PROVE table'[Cell(0, d)] = 0
    <3>1. Inside(0, d) /\ 0 # r
      BY <1>1 DEF Inside
    <3>2. table'[Cell(0, d)] = table[Cell(0, d)]
      BY <3>1, <1>6
    <3> QED  BY <3>2 DEF GridInv
  <2>3. /\ table' \in [0..(Rows' * Cols' - 1) -> Nat]
        /\ \A s \in 0..Len(expLines') : table'[Cell(s, 0)'] = 0
        /\ \A d \in 0..Len(actLines') : table'[Cell(0, d)'] = 0
    BY <1>5, <2>1, <2>2, SameLines
  <2> QED  BY <2>3 DEF GridInv
<1> QED
  BY <1>10, <1>11
-----------------------------------------------------------------------------
(* The walk back through the table.                                        *)

\* The table's entry where the walk is, by the one where it goes next.
LEMMA NextEntry ==
  ASSUME SizesInv, GridInv, FullBefore(Rows, 1), NEW r, NEW c, Inside(r, c), r + c > 0
  PROVE  LET common == r > 0 /\ c > 0 /\ Equal(r, c)
             left == c > 0 /\ (r > 0 => table[Cell(r, c - 1)] >= table[Cell(r - 1, c)])
         IN /\ common => /\ Inside(r - 1, c - 1)
                         /\ table[Cell(r, c)] = table[Cell(r - 1, c - 1)] + 1
            /\ ~common /\ left => /\ Inside(r, c - 1)
                                  /\ table[Cell(r, c)] = table[Cell(r, c - 1)]
            /\ ~common /\ ~left => /\ Inside(r - 1, c)
                                   /\ table[Cell(r, c)] = table[Cell(r - 1, c)]
<1>1. /\ Len(expLines) \in Nat /\ Len(actLines) \in Nat /\ Rows = Len(expLines) + 1
      /\ r \in 0..Len(expLines) /\ c \in 0..Len(actLines)
  BY GridFacts DEF Inside
<1>2. CASE r > 0 /\ c > 0
  <2>1. r \in 1..Len(expLines) /\ c \in 1..Len(actLines) /\ r < Rows
    BY <1>1, <1>2
  <2>2. Full(r, c)
    BY <2>1 DEF FullBefore
  <2>3. Inside(r - 1, c - 1) /\ Inside(r, c - 1) /\ Inside(r - 1, c)
    BY <1>1, <2>1 DEF Inside
  <2>4. table[Cell(r, c - 1)] \in Nat /\ table[Cell(r - 1, c)] \in Nat
    BY <2>3, NumbersInside
  <2>5. table[Cell(r, c)] = IF Equal(r, c) THEN table[Cell(r - 1, c - 1)] + 1
                            ELSE Larger(table[Cell(r - 1, c)], table[Cell(r, c - 1)])
    BY <2>2 DEF Full, FilledIn
  <2>6. /\ table[Cell(r, c - 1)] >= table[Cell(r - 1, c)] =>
             Larger(table[Cell(r - 1, c)], table[Cell(r, c - 1)]) = table[Cell(r, c - 1)]
        /\ ~(table[Cell(r, c - 1)] >= table[Cell(r - 1, c)]) =>
             Larger(table[Cell(r - 1, c)], table[Cell(r, c - 1)]) = table[Cell(r - 1, c)]
    BY <2>4 DEF Larger
  <2> QED
    BY <1>2, <2>3, <2>5, <2>6
<1>3. CASE ~(r > 0)
  <2>1. r = 0 /\ c > 0 /\ c - 1 \in 0..Len(actLines)
    BY <1>1, <1>3
  <2>2. table[Cell(0, c)] = 0 /\ table[Cell(0, c - 1)] = 0 /\ Inside(0, c - 1)
    BY <1>1, <2>1 DEF GridInv, Inside
  <2> QED
    BY <1>3, <2>1, <2>2
<1>4. CASE ~(c > 0)
  <2>1. c = 0 /\ r > 0 /\ r - 1 \in 0..Len(expLines)
    BY <1>1, <1>4
  <2>2. table[Cell(r, 0)] = 0 /\ table[Cell(r - 1, 0)] = 0 /\ Inside(r - 1, 0)
    BY <1>1, <2>1 DEF GridInv, Inside
  <2> QED
    BY <1>4, <2>1, <2>2
<1> QED
  BY <1>2, <1>3, <1>4

\* The inductive invariant of the table and the walk.
TableInv ==
  /\ pc \in {"fill", "indices", "walk"} => GridInv
  /\ pc = "fill" => i \in 1..Rows /\ j \in 1..Cols /\ FullBefore(i, j)
  /\ pc \in {"indices", "walk"} => FullBefore(Rows, 1)
  /\ pc \in {"before", "split actual", "table", "fill", "indices"} => actions = <<>>
  /\ pc = "walk" => Inside(i, j) /\ actions \in Seq(Step) /\ WalkAgreesWithTable

\* Neither the table nor the lines change.
LEMMA SameTable ==
  ASSUME UNCHANGED <<expLines, actLines, table>>
  PROVE  /\ GridInv' <=> GridInv
         /\ \A r, c : FullBefore(r, c)' <=> FullBefore(r, c)
         /\ \A r, c : Inside(r, c)' <=> Inside(r, c)
<1>1. \A r, c : Full(r, c)' <=> Full(r, c)
  BY SameLines DEF Full
<1> QED
  BY <1>1, SameLines DEF GridInv, FullBefore, Inside

LEMMA AllocTableStep ==
  ASSUME SizesInv, TableInv, AllocTable PROVE TableInv'
<1>1. /\ pc = "table" /\ pc' = "fill" /\ i' = 1 /\ j' = 1
      /\ UNCHANGED <<expLines, actLines, actions>>
      /\ table' = [k \in 0..(Rows * Cols - 1) |-> 0]
  BY DEF AllocTable
<1>2. /\ Len(expLines) \in Nat /\ Len(actLines) \in Nat
      /\ Rows = Len(expLines) + 1 /\ Cols = Len(actLines) + 1
  BY GridFacts
<1>3. GridInv'
  <2>1. table' \in [0..(Rows * Cols - 1) -> Nat]
    BY <1>1
  <2>2. ASSUME NEW r \in 0..Len(expLines) PROVE table'[Cell(r, 0)] = 0
    <3>1. Inside(r, 0)
      BY <1>2 DEF Inside
    <3>2. Cell(r, 0) \in 0..(Rows * Cols - 1)
      BY <3>1, GridFacts
    <3> QED  BY <1>1, <3>2
  <2>3. ASSUME NEW c \in 0..Len(actLines) PROVE table'[Cell(0, c)] = 0
    <3>1. Inside(0, c)
      BY <1>2 DEF Inside
    <3>2. Cell(0, c) \in 0..(Rows * Cols - 1)
      BY <3>1, GridFacts
    <3> QED  BY <1>1, <3>2
  <2>4. /\ table' \in [0..(Rows' * Cols' - 1) -> Nat]
        /\ \A s \in 0..Len(expLines') : table'[Cell(s, 0)'] = 0
        /\ \A d \in 0..Len(actLines') : table'[Cell(0, d)'] = 0
    BY <1>1, <2>1, <2>2, <2>3, SameLines
  <2> QED  BY <2>4 DEF GridInv
<1>4. FullBefore(1, 1)'
  <2>1. \A s \in 1..Len(expLines), d \in 1..Len(actLines) : ~(s < 1 \/ (s = 1 /\ d < 1))
    BY <1>2
  <2> QED  BY <1>1, <2>1 DEF FullBefore
<1>5. i' \in 1..Rows' /\ j' \in 1..Cols'
  BY <1>1, <1>2, SameLines
<1>6. FullBefore(i, j)'
  BY <1>1, <1>4 DEF FullBefore
<1>7. actions' = <<>>
  BY <1>1 DEF TableInv
<1> QED
  BY <1>1, <1>3, <1>5, <1>6, <1>7 DEF TableInv

LEMMA FillCellStep ==
  ASSUME SizesInv, TableInv, FillCell PROVE TableInv'
<1>1. /\ pc = "fill" /\ pc' = "fill" /\ i' = i /\ j' = j + 1 /\ i < Rows /\ j < Cols
      /\ UNCHANGED <<expLines, actLines, actions>>
      /\ table' = [table EXCEPT ![Cell(i, j)] = Filled(i, j)]
  BY DEF FillCell
<1>2. /\ Len(expLines) \in Nat /\ Len(actLines) \in Nat
      /\ Rows = Len(expLines) + 1 /\ Cols = Len(actLines) + 1
  BY GridFacts
<1>3. GridInv /\ i \in 1..Rows /\ j \in 1..Cols /\ FullBefore(i, j) /\ actions = <<>>
  BY <1>1 DEF TableInv
<1>4. i \in 1..Len(expLines) /\ j \in 1..Len(actLines)
  BY <1>1, <1>2, <1>3
<1>5. PICK r \in 1..Len(expLines), c \in 1..Len(actLines) : r = i /\ c = j
  BY <1>4
<1>6. GridInv' /\ FullBefore(i, j)'
  <2>1. table' = [table EXCEPT ![Cell(r, c)] = Filled(r, c)] /\ FullBefore(r, c)
    BY <1>1, <1>3, <1>5
  <2>2. GridInv' /\ FullBefore(r, c + 1)'
    BY <1>1, <1>3, <2>1, FillCellFills
  <2>3. i' = r /\ j' = c + 1
    BY <1>1, <1>5
  <2> QED  BY <2>2, <2>3 DEF FullBefore
<1>7. i' \in 1..Rows' /\ j' \in 1..Cols'
  BY <1>1, <1>2, <1>3, SameLines
<1> QED
  BY <1>1, <1>3, <1>6, <1>7 DEF TableInv

LEMMA NextRowStep ==
  ASSUME SizesInv, TableInv, NextRow PROVE TableInv'
<1>1. /\ pc = "fill" /\ pc' = "fill" /\ i' = i + 1 /\ j' = 1 /\ i < Rows /\ j = Cols
      /\ UNCHANGED <<expLines, actLines, actions, table>>
  BY DEF NextRow
<1>2. /\ Len(expLines) \in Nat /\ Len(actLines) \in Nat
      /\ Rows = Len(expLines) + 1 /\ Cols = Len(actLines) + 1
  BY GridFacts
<1>3. GridInv /\ i \in 1..Rows /\ j \in 1..Cols /\ FullBefore(i, j) /\ actions = <<>>
  BY <1>1 DEF TableInv
<1>4. FullBefore(i + 1, 1)
  <2>1. \A s \in 1..Len(expLines), d \in 1..Len(actLines) :
          s < i + 1 \/ (s = i + 1 /\ d < 1) => s < i \/ (s = i /\ d < j)
    BY <1>1, <1>2, <1>3
  <2> QED  BY <1>3, <2>1 DEF FullBefore
<1>5. PICK r \in 2..Rows : r = i + 1
  BY <1>1, <1>2, <1>3
<1>6. GridInv' /\ FullBefore(i, j)'
  <2>1. GridInv' /\ FullBefore(r, 1)'
    BY <1>1, <1>3, <1>4, <1>5, SameTable
  <2>2. i' = r /\ j' = 1
    BY <1>1, <1>5
  <2> QED  BY <2>1, <2>2 DEF FullBefore
<1>7. i' \in 1..Rows' /\ j' \in 1..Cols'
  BY <1>1, <1>2, <1>3, SameLines
<1> QED
  BY <1>1, <1>3, <1>6, <1>7 DEF TableInv

LEMMA AllocActionsStep ==
  ASSUME SizesInv, TableInv, AllocActions PROVE TableInv'
<1>1. /\ pc = "fill" /\ pc' = "indices" /\ i = Rows
      /\ UNCHANGED <<expLines, actLines, actions, table>>
  BY DEF AllocActions
<1>2. /\ Len(expLines) \in Nat /\ Len(actLines) \in Nat
      /\ Rows = Len(expLines) + 1 /\ Cols = Len(actLines) + 1
  BY GridFacts
<1>3. GridInv /\ FullBefore(i, j) /\ actions = <<>>
  BY <1>1 DEF TableInv
<1>4. FullBefore(Rows, 1)
  <2>1. \A s \in 1..Len(expLines) : s < i
    BY <1>1, <1>2
  <2> QED  BY <1>3, <2>1 DEF FullBefore
<1>5. PICK r \in Nat : r = Rows
  BY <1>2
<1>6. GridInv' /\ FullBefore(Rows, 1)'
  <2>1. GridInv' /\ FullBefore(r, 1)'
    BY <1>1, <1>3, <1>4, <1>5, SameTable
  <2>2. Rows' = r
    BY <1>1, <1>5, SameLines
  <2> QED  BY <2>1, <2>2 DEF FullBefore
<1> QED
  BY <1>1, <1>3, <1>6 DEF TableInv

LEMMA AllocIndicesStep ==
  ASSUME SizesInv, TableInv, AllocIndices PROVE TableInv'
<1>1. /\ pc = "indices" /\ pc' = "walk" /\ i' = Len(expLines) /\ j' = Len(actLines)
      /\ UNCHANGED <<expLines, actLines, actions, table>>
  BY DEF AllocIndices
<1>2. GridInv /\ FullBefore(Rows, 1) /\ actions = <<>>
  BY <1>1 DEF TableInv
<1>3. Len(expLines) \in Nat /\ Len(actLines) \in Nat /\ Rows \in Nat
  BY GridFacts
<1>4. PICK r \in Nat : r = Rows
  BY <1>3
<1>5. GridInv' /\ FullBefore(Rows, 1)'
  <2>1. GridInv' /\ FullBefore(r, 1)'
    BY <1>1, <1>2, <1>4, SameTable
  <2>2. Rows' = r
    BY <1>1, <1>4, SameLines
  <2> QED  BY <2>1, <2>2 DEF FullBefore
<1>6. Inside(i, j)' /\ actions' \in Seq(Step)
  BY <1>1, <1>2, <1>3 DEF Inside
<1>7. WalkAgreesWithTable'
  <2>1. Inside(Len(expLines), Len(actLines))
    BY <1>3 DEF Inside
  <2>2. PICK x \in Nat : x = table[Cell(Len(expLines), Len(actLines))]
    <3>1. table[Cell(Len(expLines), Len(actLines))] \in Nat
      BY <1>2, <2>1, NumbersInside
    <3> QED  BY <3>1
  <2>3. /\ table'[Cell(i, j)'] = x
        /\ table'[Cell(Len(expLines), Len(actLines))'] = x
    BY <1>1, <2>2 DEF Cell, Cols
  <2>4. CommonLines(actions)' = 0
    BY <1>1, <1>2, NoCommonLines
  <2> QED  BY <2>2, <2>3, <2>4 DEF WalkAgreesWithTable
<1> QED
  BY <1>1, <1>5, <1>6, <1>7 DEF TableInv

\* An action adds its line to the common ones if it is one.
LEMMA WalkAdds ==
  ASSUME TableInv, pc = "walk",
         NEW a \in {" ", "+", "-"}, NEW n \in Nat, Push(a, n)
  PROVE  /\ actions' \in Seq(Step)
         /\ CommonLines(actions) \in Nat
         /\ CommonLines(actions)' = CommonLines(actions) + (IF a = " " THEN 1 ELSE 0)
<1> DEFINE e == [action |-> a, index |-> n]
<1>1. e \in Step /\ e.action = a
  BY DEF Step
<1>2. actions \in Seq(Step)
  BY DEF TableInv
<1>3. actions' = Append(actions, e)
  BY DEF Push
<1> HIDE DEF e
<1>4. actions' \in Seq(Step)
  BY <1>1, <1>2, <1>3, CommonLinesFacts
<1>5. /\ CommonLines(actions) \in Nat
      /\ CommonLines(Append(actions, e))
            = CommonLines(actions) + (IF e.action = " " THEN 1 ELSE 0)
  BY <1>1, <1>2, CommonLinesFacts
<1>6. CommonLines(actions)' = CommonLines(Append(actions, e))
  BY <1>3 DEF CommonLines
<1> QED
  BY <1>1, <1>4, <1>5, <1>6

LEMMA WalkStep ==
  ASSUME SizesInv, TableInv, Walk PROVE TableInv'
<1>1. /\ pc = "walk" /\ pc' = "walk" /\ i + j > 0
      /\ UNCHANGED <<expLines, actLines, table>>
  BY DEF Walk
<1>2. /\ GridInv /\ FullBefore(Rows, 1) /\ Inside(i, j) /\ actions \in Seq(Step)
      /\ CommonLines(actions) + table[Cell(i, j)] = table[Cell(Len(expLines), Len(actLines))]
  BY <1>1 DEF TableInv, WalkAgreesWithTable
<1>3. /\ Len(expLines) \in Nat /\ Len(actLines) \in Nat /\ Rows \in Nat
      /\ i \in Nat /\ j \in Nat
  BY <1>2, GridFacts DEF Inside
<1>4. GridInv' /\ FullBefore(Rows, 1)'
  <2>1. PICK r \in Nat : r = Rows
    BY <1>3
  <2>2. GridInv' /\ FullBefore(r, 1)'
    BY <1>1, <1>2, <2>1, SameTable
  <2>3. Rows' = r
    BY <1>1, <2>1, SameLines
  <2> QED  BY <2>2, <2>3 DEF FullBefore
<1>5. SUFFICES Inside(i, j)' /\ actions' \in Seq(Step) /\ WalkAgreesWithTable'
  BY <1>1, <1>4 DEF TableInv
\* What is left to show of a step to r, c that adds d to the common lines.
<1>6. ASSUME NEW r, NEW c, NEW d \in Nat, i' = r, j' = c, Inside(r, c),
             table[Cell(i, j)] = table[Cell(r, c)] + d,
             CommonLines(actions) \in Nat, CommonLines(actions)' = CommonLines(actions) + d
      PROVE  Inside(i, j)' /\ WalkAgreesWithTable'
  <2>1. Inside(i, j)'
    BY <1>1, <1>6 DEF Inside
  <2>2. table'[Cell(i, j)'] = table[Cell(r, c)]
    BY <1>1, <1>6 DEF Cell, Cols
  <2>3. table'[Cell(Len(expLines), Len(actLines))'] = table[Cell(Len(expLines), Len(actLines))]
    BY <1>1 DEF Cell, Cols
  <2>4. table[Cell(r, c)] \in Nat
    BY <1>2, <1>6, NumbersInside
  <2>5. CommonLines(actions)' + table[Cell(r, c)] = table[Cell(Len(expLines), Len(actLines))]
    BY <1>2, <1>6, <2>4
  <2> QED
    BY <2>1, <2>2, <2>3, <2>5 DEF WalkAgreesWithTable
<1>7. CASE IsCommon /\ Push(" ", i) /\ i' = i - 1 /\ j' = j - 1
  <2>1. Inside(i - 1, j - 1) /\ table[Cell(i, j)] = table[Cell(i - 1, j - 1)] + 1
    BY <1>1, <1>2, <1>7, NextEntry DEF IsCommon
  <2>2. /\ actions' \in Seq(Step) /\ CommonLines(actions) \in Nat
        /\ CommonLines(actions)' = CommonLines(actions) + 1
    BY <1>1, <1>3, <1>7, WalkAdds
  <2> QED
    BY <1>6, <1>7, <2>1, <2>2
<1>8. CASE ~IsCommon /\ GoLeft /\ Push("+", j) /\ j' = j - 1 /\ i' = i
  <2>1. Inside(i, j - 1) /\ table[Cell(i, j)] = table[Cell(i, j - 1)]
    BY <1>1, <1>2, <1>8, NextEntry DEF IsCommon, GoLeft, LeftIfNotLess
  <2>2. /\ actions' \in Seq(Step) /\ CommonLines(actions) \in Nat
        /\ CommonLines(actions)' = CommonLines(actions) + 0
    BY <1>1, <1>3, <1>8, WalkAdds
  <2>3. table[Cell(i, j)] = table[Cell(i, j - 1)] + 0
    BY <1>2, <2>1, NumbersInside
  <2> QED
    BY <1>6, <1>8, <2>1, <2>2, <2>3
<1>9. CASE ~IsCommon /\ ~GoLeft /\ Push("-", i) /\ i' = i - 1 /\ j' = j
  <2>1. Inside(i - 1, j) /\ table[Cell(i, j)] = table[Cell(i - 1, j)]
    BY <1>1, <1>2, <1>9, NextEntry DEF IsCommon, GoLeft, LeftIfNotLess
  <2>2. /\ actions' \in Seq(Step) /\ CommonLines(actions) \in Nat
        /\ CommonLines(actions)' = CommonLines(actions) + 0
    BY <1>1, <1>3, <1>9, WalkAdds
  <2>3. table[Cell(i, j)] = table[Cell(i - 1, j)] + 0
    BY <1>2, <2>1, NumbersInside
  <2> QED
    BY <1>6, <1>9, <2>1, <2>2, <2>3
<1> QED
  BY <1>7, <1>8, <1>9 DEF Walk

LEMMA NextTableInv == SizesInv /\ TableInv /\ [Next]_vars => TableInv'
<1> SUFFICES ASSUME SizesInv, TableInv, [Next]_vars PROVE TableInv'
  OBVIOUS
<1>1. CASE AllocTable \/ FillCell \/ NextRow \/ AllocActions \/ AllocIndices \/ Walk
  BY <1>1, AllocTableStep, FillCellStep, NextRowStep, AllocActionsStep, AllocIndicesStep, WalkStep
<1>2. CASE AllocateOther \/ SplitExpected \/ SplitActual
  <2>1. pc' \in {"before", "split actual", "table"} /\ actions' = actions
        /\ pc \in {"before", "split actual"}
    BY <1>2 DEF AllocateOther, SplitExpected, SplitActual
  <2> QED  BY <2>1 DEF TableInv
<1>3. CASE TableOverruns \/ EndWalk \/ PrintLine \/ Exit
  <2>1. pc' \in {"crashed", "print", "exited"}
    BY <1>3 DEF TableOverruns, EndWalk, PrintLine, Exit
  <2> QED  BY <2>1 DEF TableInv
<1>4. CASE UNCHANGED vars
  <2>1. UNCHANGED <<pc, expLines, actLines, table, i, j, actions>>
    BY <1>4 DEF vars
  <2> QED  BY <2>1 DEF TableInv, GridInv, FullBefore, Full, FilledIn, Inside, Cell, Equal, Rows,
                       Cols, WalkAgreesWithTable, CommonLines
<1> QED
  BY <1>1, <1>2, <1>3, <1>4 DEF Next

\* The walk back finds as many common lines as the table promises, whatever the
\* lines and whatever matches what (diff.c: the walk takes every match it meets,
\* and goes left where the entries are equal).
THEOREM WalkAgrees == Spec => []WalkAgreesWithTable
<1>1. Init => Inv /\ TableInv
  BY InitInv DEF Init, TableInv
<1>2. Inv /\ TableInv /\ [Next]_vars => (Inv /\ TableInv)'
  BY NextInv, NextTableInv DEF Inv
<1>3. TableInv => WalkAgreesWithTable
  BY DEF TableInv, WalkAgreesWithTable
<1> QED
  BY <1>1, <1>2, <1>3, PTL DEF Spec
-----------------------------------------------------------------------------
(* No diff has more common lines than the one that is found.               *)

\* A nonempty set of naturals upto n has a first element.
LEMMA FirstExists ==
  ASSUME NEW n \in Nat, NEW S \in SUBSET (0..n), S # {}
  PROVE  \E m \in S : \A k \in S : m <= k
<1> DEFINE Below(m) == {k \in S : k < m}
           T == {Below(m) : m \in S}
<1>1. IsFiniteSet(S)
  <2>1. IsFiniteSet(0..n)
    BY FS_Interval
  <2> QED
    BY <2>1, FS_Subset
<1>2. T \subseteq FiniteSubsetsOf(S) /\ T # {}
  <2>1. \A m \in S : Below(m) \in SUBSET S /\ IsFiniteSet(Below(m))
    BY <1>1, FS_Subset
  <2> QED
    BY <2>1 DEF FiniteSubsetsOf
<1>3. IsWellFoundedOn(StrictSubsetOrdering(S), FiniteSubsetsOf(S))
  BY FS_StrictSubsetOrderingWellFounded
<1>4. PICK t \in T : \A u \in T : <<u, t>> \notin StrictSubsetOrdering(S)
  <2> HIDE DEF T
  <2> QED
    BY <1>2, <1>3, WFMin, Zenon
<1>5. PICK m \in S : t = Below(m)
  BY <1>4
<1>6. \A k \in S : m <= k
  <2> SUFFICES ASSUME NEW k \in S, k < m PROVE FALSE
    OBVIOUS
  <2>0. \A x \in S : x \in Int
    OBVIOUS
  <2>1. k \in Below(m) /\ k \notin Below(k)
    BY <2>0
  <2>2. Below(k) \subseteq Below(m)
    <3>1. \A x \in S : x < k => x < m
      BY <2>0
    <3> QED
      BY <3>1
  <2>3. <<Below(k), t>> \in StrictSubsetOrdering(S)
    BY <1>5, <2>1, <2>2 DEF StrictSubsetOrdering
  <2> QED
    BY <2>3, <1>4
<1> QED
  BY <1>6

\* And a last one: the first number that no element is above.
LEMMA LastExists ==
  ASSUME NEW n \in Nat, NEW S \in SUBSET (1..n), S # {}
  PROVE  \E m \in S : \A k \in S : k <= m
<1> DEFINE T == {m \in 0..n : \A k \in S : k <= m}
<1>1. n \in T
  OBVIOUS
<1>2. PICK m \in T : \A k \in T : m <= k
  <2>1. T \in SUBSET (0..n)
    OBVIOUS
  <2> HIDE DEF T
  <2> QED
    BY <1>1, <2>1, FirstExists
<1>3. m \in S
  <2> SUFFICES ASSUME m \notin S PROVE FALSE
    OBVIOUS
  <2>1. m \in 0..n /\ \A k \in S : k <= m
    BY <1>2
  <2>2. \A k \in S : k <= m - 1
    BY <2>1
  <2>3. PICK k \in S : TRUE
    OBVIOUS
  <2>4. m - 1 \in 0..n
    BY <2>1, <2>2, <2>3
  <2>5. m - 1 \in T
    BY <2>2, <2>4
  <2> QED
    BY <1>2, <2>1, <2>5
<1> QED
  BY <1>2, <1>3

LEMMA NumberSet ==
  ASSUME NEW n \in Nat, NEW S \in SUBSET (1..n)
  PROVE  IsFiniteSet(S) /\ Cardinality(S) \in Nat
<1>1. IsFiniteSet(1..n)
  BY FS_Interval
<1>2. IsFiniteSet(S)
  BY <1>1, FS_Subset
<1> QED
  BY <1>2, FS_CardinalityType

\* The last line of a set has the rank of them all.
LEMMA RankOfLast ==
  ASSUME NEW n \in Nat, NEW S \in SUBSET (1..n), NEW m \in S, \A k \in S : k <= m
  PROVE  Rank(S, m) = Cardinality(S)
<1>1. {y \in S : y <= m} = S
  OBVIOUS
<1> QED
  BY <1>1 DEF Rank

\* Without it, the others keep their ranks.
LEMMA WithoutLast ==
  ASSUME NEW n \in Nat, NEW S \in SUBSET (1..n), NEW m \in S, \A k \in S : k <= m
  PROVE  /\ S \ {m} \in SUBSET (1..(m - 1))
         /\ Cardinality(S \ {m}) = Cardinality(S) - 1
         /\ \A x \in S \ {m} : Rank(S \ {m}, x) = Rank(S, x)
<1>1. IsFiniteSet(S) /\ Cardinality(S) \in Nat
  BY NumberSet
<1>2. Cardinality(S \ {m}) = Cardinality(S) - 1
  BY <1>1, FS_RemoveElement
<1>3. \A x \in S : x \in 1..n
  OBVIOUS
<1>4. ASSUME NEW x \in S \ {m} PROVE Rank(S \ {m}, x) = Rank(S, x)
  <2>1. x < m
    <3>1. x \in Int /\ m \in Int /\ x <= m /\ x # m
      BY <1>3
    <3> QED
      BY <3>1
  <2>2. m \in Int /\ x \in Int /\ ~(m <= x)
    BY <1>3, <2>1
  <2>3. {y \in S \ {m} : y <= x} = {y \in S : y <= x}
    BY <2>2
  <2> QED
    BY <2>3 DEF Rank
<1>5. S \ {m} \in SUBSET (1..(m - 1))
  <2>1. ASSUME NEW x \in S, x # m PROVE x \in 1..(m - 1)
    <3>1. x \in 1..n /\ m \in 1..n /\ x <= m
      BY <1>3
    <3> QED
      BY <2>1, <3>1
  <2> QED
    BY <2>1
<1> QED
  BY <1>2, <1>4, <1>5

\* A common subsequence stays one without its last lines.
LEMMA ShorterSubsequence ==
  ASSUME NEW n \in Nat, NEW R \in SUBSET (1..n), NEW C \in SUBSET (1..n),
         CommonSubsequence(R, C),
         NEW r \in R, \A x \in R : x <= r, NEW c \in C, \A x \in C : x <= c
  PROVE  /\ CommonSubsequence(R \ {r}, C \ {c})
         /\ Equal(r, c)
<1>1. /\ Cardinality(R) = Cardinality(C)
      /\ \A x \in R, y \in C : Rank(R, x) = Rank(C, y) => Equal(x, y)
  BY DEF CommonSubsequence
<1>2. /\ Cardinality(R \ {r}) = Cardinality(R) - 1
      /\ \A x \in R \ {r} : Rank(R \ {r}, x) = Rank(R, x)
  BY WithoutLast
<1>3. /\ Cardinality(C \ {c}) = Cardinality(C) - 1
      /\ \A x \in C \ {c} : Rank(C \ {c}, x) = Rank(C, x)
  BY WithoutLast
<1>4. CommonSubsequence(R \ {r}, C \ {c})
  BY <1>1, <1>2, <1>3 DEF CommonSubsequence
<1>5. Rank(R, r) = Cardinality(R) /\ Rank(C, c) = Cardinality(C)
  BY RankOfLast
<1> QED
  BY <1>1, <1>4, <1>5

\* Lines 1..r and 1..c have no more in common than the table says.
Bounded(r, c) ==
  \A R \in SUBSET (1..r), C \in SUBSET (1..c) :
    CommonSubsequence(R, C) => Cardinality(R) <= table[Cell(r, c)]

\* An entry is a bound if the ones it was filled from are.
LEMMA BoundedByNeighbours ==
  ASSUME SizesInv, GridInv, FullBefore(Rows, 1), NEW r, NEW c, Inside(r, c),
         r > 0 /\ c > 0 => Bounded(r - 1, c - 1) /\ Bounded(r - 1, c) /\ Bounded(r, c - 1)
  PROVE  Bounded(r, c)
<1>1. /\ Len(expLines) \in Nat /\ Len(actLines) \in Nat /\ Rows = Len(expLines) + 1
      /\ r \in 0..Len(expLines) /\ c \in 0..Len(actLines) /\ r \in Nat /\ c \in Nat
  BY GridFacts DEF Inside
<1>2. table[Cell(r, c)] \in Nat
  BY NumbersInside
<1> SUFFICES ASSUME NEW R \in SUBSET (1..r), NEW C \in SUBSET (1..c), CommonSubsequence(R, C)
             PROVE  Cardinality(R) <= table[Cell(r, c)]
  BY DEF Bounded
<1>3. Cardinality(R) \in Nat /\ Cardinality(R) = Cardinality(C)
  BY <1>1, NumberSet DEF CommonSubsequence
<1>4. CASE R = {} \/ C = {}
  <2>1. Cardinality(R) = 0
    BY <1>3, <1>4, FS_EmptySet
  <2> QED
    BY <1>2, <2>1
<1>5. CASE R # {} /\ C # {}
  <2>1. PICK a \in R : \A x \in R : x <= a
    BY <1>1, <1>5, LastExists
  <2>2. PICK b \in C : \A x \in C : x <= b
    BY <1>1, <1>5, LastExists
  <2>3. a \in 1..r /\ b \in 1..c
    OBVIOUS
  <2>4. r > 0 /\ c > 0 /\ r \in 1..Len(expLines) /\ c \in 1..Len(actLines)
    BY <1>1, <2>3
  <2>5. Full(r, c)
    BY <1>1, <2>4 DEF FullBefore
  <2>6. CommonSubsequence(R \ {a}, C \ {b}) /\ Equal(a, b)
    <3> DEFINE n == Len(expLines) + Len(actLines)
    <3>1. n \in Nat /\ 1..r \subseteq 1..n /\ 1..c \subseteq 1..n
      BY <1>1
    <3>2. R \in SUBSET (1..n) /\ C \in SUBSET (1..n)
      BY <3>1
    <3> HIDE DEF n
    <3> QED
      BY <2>1, <2>2, <3>1, <3>2, ShorterSubsequence
  <2>7. CASE Equal(r, c)
    <3>1. Cardinality(R \ {a}) = Cardinality(R) - 1 /\ R \ {a} \in SUBSET (1..(a - 1))
      BY <1>1, <2>1, WithoutLast
    <3>2. C \ {b} \in SUBSET (1..(b - 1))
      BY <1>1, <2>2, WithoutLast
    <3>3. 1..(a - 1) \subseteq 1..(r - 1) /\ 1..(b - 1) \subseteq 1..(c - 1)
      BY <1>1, <2>3
    <3>4. R \ {a} \in SUBSET (1..(r - 1)) /\ C \ {b} \in SUBSET (1..(c - 1))
      BY <3>1, <3>2, <3>3
    <3>5. Bounded(r - 1, c - 1)
      BY <2>4
    <3>6. Cardinality(R \ {a}) <= table[Cell(r - 1, c - 1)]
      BY <2>6, <3>4, <3>5 DEF Bounded
    <3>7. table[Cell(r, c)] = table[Cell(r - 1, c - 1)] + 1
      BY <2>5, <2>7 DEF Full, FilledIn
    <3>8. table[Cell(r - 1, c - 1)] \in Nat
      <4>1. Inside(r - 1, c - 1)
        BY <1>1, <2>4 DEF Inside
      <4> QED
        BY <4>1, NumbersInside
    <3> QED
      BY <1>3, <3>1, <3>6, <3>7, <3>8
  <2>8. CASE ~Equal(r, c)
    <3>1. a # r \/ b # c
      BY <2>6, <2>8
    <3>2. /\ table[Cell(r - 1, c)] \in Nat /\ table[Cell(r, c - 1)] \in Nat
      <4>1. Inside(r - 1, c) /\ Inside(r, c - 1)
        BY <1>1, <2>4 DEF Inside
      <4> QED
        BY <4>1, NumbersInside
    <3>3. table[Cell(r, c)] = Larger(table[Cell(r - 1, c)], table[Cell(r, c - 1)])
      BY <2>5, <2>8 DEF Full, FilledIn
    <3>4. table[Cell(r - 1, c)] <= table[Cell(r, c)] /\ table[Cell(r, c - 1)] <= table[Cell(r, c)]
      BY <3>2, <3>3 DEF Larger
    <3>5. CASE a # r
      <4>1. R \in SUBSET (1..(r - 1))
        <5>1. ASSUME NEW x \in R PROVE x \in 1..(r - 1)
          <6>1. x \in 1..r /\ x <= a /\ a < r
            BY <1>1, <2>1, <2>3, <3>5
          <6> QED
            BY <1>1, <2>3, <6>1
        <5> QED
          BY <5>1
      <4>2. Bounded(r - 1, c)
        BY <2>4
      <4>3. Cardinality(R) <= table[Cell(r - 1, c)]
        BY <4>1, <4>2 DEF Bounded
      <4> QED
        BY <1>2, <1>3, <3>2, <3>4, <4>3
    <3>6. CASE b # c
      <4>1. C \in SUBSET (1..(c - 1))
        <5>1. ASSUME NEW x \in C PROVE x \in 1..(c - 1)
          <6>1. x \in 1..c /\ x <= b /\ b < c
            BY <1>1, <2>2, <2>3, <3>6
          <6> QED
            BY <1>1, <2>3, <6>1
        <5> QED
          BY <5>1
      <4>2. Bounded(r, c - 1)
        BY <2>4
      <4>3. Cardinality(R) <= table[Cell(r, c - 1)]
        BY <4>1, <4>2 DEF Bounded
      <4> QED
        BY <1>2, <1>3, <3>2, <3>4, <4>3
    <3> QED
      BY <3>1, <3>5, <3>6
  <2> QED
    BY <2>7, <2>8
<1> QED
  BY <1>4, <1>5

\* Every entry of a full table is a bound: there is no first one that is not.
LEMMA FullTableBounds ==
  ASSUME SizesInv, GridInv, FullBefore(Rows, 1), NEW r, NEW c, Inside(r, c)
  PROVE  Bounded(r, c)
<1> DEFINE n == Len(expLines) + Len(actLines)
           S == {s \in 0..n : \E x, y : Inside(x, y) /\ x + y = s /\ ~Bounded(x, y)}
<1>1. /\ Len(expLines) \in Nat /\ Len(actLines) \in Nat /\ n \in Nat
  BY GridFacts
<1>2. \A x, y : Inside(x, y) => x \in Nat /\ y \in Nat /\ x + y \in 0..n
  BY <1>1 DEF Inside
<1>3. S = {}
  <2> SUFFICES ASSUME S # {} PROVE FALSE
    OBVIOUS
  <2>1. PICK s \in S : \A k \in S : s <= k
    <3>1. S \in SUBSET (0..n)
      OBVIOUS
    <3> HIDE DEF S, n
    <3> QED
      BY <1>1, <3>1, FirstExists
  <2>2. PICK x, y : Inside(x, y) /\ x + y = s /\ ~Bounded(x, y)
    BY <2>1
  <2>3. ASSUME NEW u, NEW v, Inside(u, v), u + v < s PROVE Bounded(u, v)
    <3> SUFFICES ASSUME ~Bounded(u, v) PROVE FALSE
      OBVIOUS
    <3>1. u + v \in S
      BY <1>2, <2>3
    <3>2. s <= u + v /\ s \in Nat /\ u + v \in Nat
      BY <1>1, <2>1, <3>1
    <3> QED
      BY <2>3, <3>2
  <2>4. x > 0 /\ y > 0 => Bounded(x - 1, y - 1) /\ Bounded(x - 1, y) /\ Bounded(x, y - 1)
    <3> SUFFICES ASSUME x > 0, y > 0
                 PROVE  Bounded(x - 1, y - 1) /\ Bounded(x - 1, y) /\ Bounded(x, y - 1)
      OBVIOUS
    <3>1. Inside(x - 1, y - 1) /\ Inside(x - 1, y) /\ Inside(x, y - 1)
      BY <1>1, <2>2 DEF Inside
    <3>2. x \in Nat /\ y \in Nat
      BY <1>2, <2>2
    <3>3. (x - 1) + (y - 1) < s /\ (x - 1) + y < s /\ x + (y - 1) < s
      BY <2>2, <3>2
    <3> HIDE DEF S, n
    <3> QED
      BY <2>3, <3>1, <3>3
  <2> QED
    BY <2>2, <2>4, BoundedByNeighbours
<1>4. r + c \in 0..n
  BY <1>2
<1> HIDE DEF n
<1> QED
  BY <1>3, <1>4

\* When the walk is over, it has found what the full table has for the whole.
ShortestInv ==
  pc = "print" =>
    /\ GridInv /\ FullBefore(Rows, 1)
    /\ CommonLines(actions) = table[Cell(Len(expLines), Len(actLines))]

LEMMA SameShortest ==
  ASSUME UNCHANGED <<expLines, actLines, table, actions>>, GridInv, FullBefore(Rows, 1)
  PROVE  /\ GridInv' /\ FullBefore(Rows, 1)'
         /\ CommonLines(actions)' = CommonLines(actions)
         /\ table[Cell(Len(expLines), Len(actLines))]'
              = table[Cell(Len(expLines), Len(actLines))]
<1>1. GridInv' /\ (\A r, c : FullBefore(r, c)' <=> FullBefore(r, c))
  BY SameTable
<1>2. FullBefore(Rows, 1)'
  <2>1. Rows' = Rows
    BY DEF Rows
  <2>2. FullBefore(Rows, 1)' <=> FullBefore(Rows, 1)
    BY <1>1, <2>1 DEF FullBefore, Full, FilledIn, Cell, Cols, Equal
  <2> QED
    BY <2>2
<1> QED
  BY <1>1, <1>2 DEF CommonLines, Cell, Cols

LEMMA EndWalkFinds ==
  ASSUME SizesInv, TableInv, EndWalk PROVE ShortestInv'
<1>1. pc = "walk" /\ i = 0 /\ j = 0 /\ UNCHANGED <<expLines, actLines, table, actions>>
  BY DEF EndWalk
<1>2. /\ GridInv /\ FullBefore(Rows, 1) /\ actions \in Seq(Step)
      /\ CommonLines(actions) + table[Cell(0, 0)] = table[Cell(Len(expLines), Len(actLines))]
  BY <1>1 DEF TableInv, WalkAgreesWithTable
<1>3. table[Cell(0, 0)] = 0
  <2>1. 0 \in 0..Len(expLines)
    BY GridFacts
  <2> QED
    BY <1>2, <2>1 DEF GridInv
<1>4. CommonLines(actions) \in Nat
  <2>1. [action |-> " ", index |-> 0] \in Step
    BY DEF Step
  <2> QED
    BY <1>2, <2>1, CommonLinesFacts
<1>5. CommonLines(actions) = table[Cell(Len(expLines), Len(actLines))]
  BY <1>2, <1>3, <1>4
<1> QED
  BY <1>1, <1>2, <1>5, SameShortest DEF ShortestInv

LEMMA NextShortest ==
  SizesInv /\ TableInv /\ ShortestInv /\ [Next]_vars => ShortestInv'
<1> SUFFICES ASSUME SizesInv, TableInv, ShortestInv, [Next]_vars PROVE ShortestInv'
  OBVIOUS
<1>1. CASE EndWalk
  BY <1>1, EndWalkFinds
<1>2. CASE PrintLine \/ UNCHANGED vars
  <2>1. UNCHANGED <<expLines, actLines, table, actions>> /\ pc' = pc
    BY <1>2 DEF PrintLine, vars
  <2> QED
    BY <2>1, SameShortest DEF ShortestInv
<1>3. ASSUME ~EndWalk, ~PrintLine, Next PROVE pc' # "print"
  BY <1>3
  DEF Next, AllocateOther, SplitExpected, SplitActual, AllocTable, TableOverruns, FillCell,
      NextRow, AllocActions, AllocIndices, Walk, Exit
<1> QED
  BY <1>1, <1>2, <1>3 DEF ShortestInv

-----------------------------------------------------------------------------
(* The lines of a text.                                                    *)

\* A later line has a higher rank.
LEMMA RankGrows ==
  ASSUME NEW n \in Nat, NEW S \in SUBSET (1..n), NEW a \in Int, NEW b \in S, a < b
  PROVE  Rank(S, a) \in Nat /\ Rank(S, b) \in Nat /\ Rank(S, a) < Rank(S, b)
<1> DEFINE A == {y \in S : y <= a}
           B == {y \in S : y <= b}
<1>1. A \in SUBSET (1..n) /\ B \in SUBSET (1..n)
  OBVIOUS
<1>2. \A y \in S : y \in Int
  OBVIOUS
<1>3. A \subseteq B /\ b \in B /\ b \notin A
  <2>1. \A y \in S : y <= a => y <= b
    BY <1>2
  <2>2. b \in Int /\ b <= b /\ ~(b <= a)
    BY <1>2
  <2> QED
    BY <2>1, <2>2
<1>4. Rank(S, a) = Cardinality(A) /\ Rank(S, b) = Cardinality(B)
  BY DEF Rank
<1> HIDE DEF A, B
<1>5. /\ IsFiniteSet(A) /\ Cardinality(A) \in Nat
      /\ IsFiniteSet(B) /\ Cardinality(B) \in Nat
  BY <1>1, NumberSet
<1>6. A # B
  BY <1>3
<1>7. Cardinality(A) <= Cardinality(B) /\ Cardinality(A) # Cardinality(B)
  BY <1>3, <1>5, <1>6, FS_Subset
<1> QED
  BY <1>4, <1>5, <1>7

LEMMA RankBounds ==
  ASSUME NEW n \in Nat, NEW S \in SUBSET (1..n), NEW a
  PROVE  Rank(S, a) \in Nat /\ Rank(S, a) <= Cardinality(S)
<1> DEFINE A == {y \in S : y <= a}
<1>1. A \in SUBSET (1..n) /\ A \subseteq S
  OBVIOUS
<1>2. Rank(S, a) = Cardinality(A)
  BY DEF Rank
<1> HIDE DEF A
<1>3. Cardinality(A) \in Nat /\ IsFiniteSet(S) /\ Cardinality(S) \in Nat
  BY <1>1, NumberSet
<1>4. Cardinality(A) <= Cardinality(S)
  BY <1>1, <1>3, FS_Subset
<1> QED
  BY <1>2, <1>3, <1>4

\* Every rank upto the number of elements is that of an element.
LEMMA RankExists ==
  ASSUME NEW n \in Nat, NEW S \in SUBSET (1..n), NEW k \in 1..Cardinality(S)
  PROVE  \E p \in S : Rank(S, p) = k
<1> DEFINE T == {m \in 0..n : Rank(S, m) >= k}
<1>1. n \in T
  <2>1. {y \in S : y <= n} = S
    <3>1. \A y \in S : y <= n
      OBVIOUS
    <3> HIDE DEF T
    <3> QED
      BY <3>1
  <2>2. Rank(S, n) = Cardinality(S)
    BY <2>1 DEF Rank
  <2>3. Cardinality(S) \in Nat
    BY NumberSet
  <2> QED
    BY <2>2, <2>3
<1>2. PICK m \in T : \A x \in T : m <= x
  <2>1. T \in SUBSET (0..n)
    OBVIOUS
  <2> HIDE DEF T
  <2> QED
    BY <1>1, <2>1, FirstExists
<1>3. m \in 0..n /\ Rank(S, m) >= k /\ Rank(S, m) \in Nat /\ Rank(S, m - 1) \in Nat
  BY <1>2, RankBounds
<1>4. m # 0
  <2> SUFFICES ASSUME m = 0 PROVE FALSE
    OBVIOUS
  <2>1. {y \in S : y <= 0} = {}
    <3>1. \A y \in S : ~(y <= 0)
      OBVIOUS
    <3> HIDE DEF T
    <3> QED
      BY <3>1
  <2>2. Rank(S, 0) = 0
    BY <2>1, FS_EmptySet DEF Rank
  <2> QED
    BY <1>3, <2>2
<1>5. ~(Rank(S, m - 1) >= k)
  <2>1. m - 1 \in 0..n /\ ~(m <= m - 1)
    BY <1>3, <1>4
  <2>2. m - 1 \notin T
    BY <1>2, <2>1
  <2> QED
    BY <2>1, <2>2
<1>6. Rank(S, m) = IF m \in S THEN Rank(S, m - 1) + 1 ELSE Rank(S, m - 1)
  <2> DEFINE A == {y \in S : y <= m - 1}
  <2>1. {y \in S : y <= m} = IF m \in S THEN A \cup {m} ELSE A
    <3>1. \A y \in S : y \in Int /\ (y <= m <=> y <= m - 1 \/ y = m)
      BY <1>3
    <3> QED
      BY <3>1
  <2>2. A \in SUBSET (1..n) /\ m \notin A
    <3>1. ~(m <= m - 1)
      BY <1>3
    <3> QED
      BY <3>1
  <2>3. Rank(S, m - 1) = Cardinality(A) /\ Rank(S, m) = Cardinality({y \in S : y <= m})
    BY DEF Rank
  <2> HIDE DEF A
  <2>4. IsFiniteSet(A)
    BY <2>2, NumberSet
  <2>5. Cardinality(A \cup {m}) = Cardinality(A) + 1
    BY <2>2, <2>4, FS_AddElement
  <2> QED
    BY <2>1, <2>3, <2>5
<1>7. m \in S /\ Rank(S, m) = Rank(S, m - 1) + 1
  BY <1>3, <1>5, <1>6
<1> QED
  BY <1>3, <1>5, <1>7

\* A line ends at the newline of its number, or at the end of the text.
LEMMA LineEndFacts ==
  ASSUME NEW t \in Seq(Chars), NEW k \in Nat \ {0}
  PROVE  /\ Newlines(t) \in SUBSET (1..Len(t)) /\ Len(t) \in Nat
         /\ Cardinality(Newlines(t)) \in Nat
         /\ k <= Cardinality(Newlines(t)) =>
              /\ LineEnd(t, k) \in Newlines(t)
              /\ Rank(Newlines(t), LineEnd(t, k)) = k
         /\ k > Cardinality(Newlines(t)) => LineEnd(t, k) = Len(t) + 1
<1> DEFINE S == Newlines(t)
<1>1. S \in SUBSET (1..Len(t)) /\ Len(t) \in Nat
  BY DEF Newlines
<1>2. Cardinality(S) \in Nat
  BY <1>1, NumberSet
<1>3. k > Cardinality(S) => LineEnd(t, k) = Len(t) + 1
  BY DEF LineEnd
<1>4. ASSUME k <= Cardinality(S) PROVE LineEnd(t, k) \in S /\ Rank(S, LineEnd(t, k)) = k
  <2>1. k \in 1..Cardinality(S)
    BY <1>2, <1>4
  <2>2. \E p \in S : Rank(S, p) = k
    BY <1>1, <2>1, RankExists
  <2>3. LineEnd(t, k) = CHOOSE p \in S : Cardinality({q \in S : q <= p}) = k
    <3>1. ~(k > Cardinality(S))
      BY <1>2, <1>4
    <3> QED
      BY <3>1, Zenon DEF LineEnd
  <2>4. \E p \in S : Cardinality({q \in S : q <= p}) = k
    BY <2>2, Zenon DEF Rank
  <2> HIDE DEF S
  <2>5. LineEnd(t, k) \in S /\ Cardinality({q \in S : q <= LineEnd(t, k)}) = k
    BY <2>3, <2>4, Zenon
  <2> QED
    BY <2>5, Zenon DEF Rank
<1> QED
  BY <1>1, <1>2, <1>3, <1>4

\* A line lies within its text and holds no newline.
LEMMA LineWithin ==
  ASSUME NEW t \in Seq(Chars), NEW k \in 1..CountLines(t)
  PROVE  /\ LineStart(t, k) \in 1..(Len(t) + 1) /\ LineEnd(t, k) \in 1..(Len(t) + 1)
         /\ \A x \in LineStart(t, k)..(LineEnd(t, k) - 1) : t[x] \in Chars \ {NL}
<1> DEFINE S == Newlines(t)
           n == Cardinality(S)
<1>1. S \in SUBSET (1..Len(t)) /\ Len(t) \in Nat /\ n \in Nat
  <2>1. 1 \in Nat \ {0}
    OBVIOUS
  <2> QED
    BY <2>1, LineEndFacts
<1>2. CountLines(t) \in Nat /\ CountLines(t) <= n + 1
  BY <1>1, CountLinesType DEF CountLines
<1>3. k \in Nat \ {0} /\ k <= n + 1
  BY <1>1, <1>2
<1>4. /\ k <= n => LineEnd(t, k) \in S /\ Rank(S, LineEnd(t, k)) = k
      /\ k > n => LineEnd(t, k) = Len(t) + 1
  BY <1>3, LineEndFacts
<1>5. ASSUME k # 1
      PROVE  LineEnd(t, k - 1) \in S /\ Rank(S, LineEnd(t, k - 1)) = k - 1
  <2>1. k - 1 \in Nat \ {0} /\ k - 1 <= n
    BY <1>1, <1>3, <1>5
  <2> QED
    BY <2>1, LineEndFacts
<1>6. LineEnd(t, k) \in 1..(Len(t) + 1)
  BY <1>1, <1>3, <1>4
<1>7. LineStart(t, k) \in 1..(Len(t) + 1)
  BY <1>1, <1>5 DEF LineStart
<1>8. ASSUME NEW x \in LineStart(t, k)..(LineEnd(t, k) - 1) PROVE t[x] \in Chars \ {NL}
  <2>1. x \in 1..Len(t) /\ x < LineEnd(t, k) /\ x >= LineStart(t, k) /\ x \in Int
    BY <1>1, <1>6, <1>7
  <2> SUFFICES ASSUME t[x] = NL PROVE FALSE
    BY <2>1
  <2>2. x \in S
    BY <2>1 DEF Newlines
  <2>3. Rank(S, x) \in Nat /\ Rank(S, x) <= n
    BY <1>1, RankBounds
  <2>4. Rank(S, x) <= k - 1
    <3>1. CASE k <= n
      <4>1. Rank(S, x) < Rank(S, LineEnd(t, k))
        <5>1. LineEnd(t, k) \in S /\ Rank(S, LineEnd(t, k)) = k
          BY <1>4, <3>1
        <5> HIDE DEF S
        <5> QED
          BY <1>1, <2>1, <5>1, RankGrows
      <4> QED
        BY <1>3, <1>4, <2>3, <3>1, <4>1
    <3>2. CASE k > n
      BY <1>1, <1>3, <2>3, <3>2
    <3> QED
      BY <1>1, <1>3, <3>1, <3>2
  <2>5. Rank(S, x) > k - 1
    <3>1. CASE k = 1
      <4>1. {y \in S : y <= 0} = {}
        BY <1>1
      <4>2. Rank(S, 0) = 0
        BY <4>1, FS_EmptySet DEF Rank
      <4>3. Rank(S, 0) < Rank(S, x)
        <5>1. 0 \in Int /\ 0 < x
          BY <2>1
        <5> HIDE DEF S
        <5> QED
          BY <1>1, <2>2, <5>1, RankGrows
      <4> QED
        BY <2>3, <3>1, <4>2, <4>3
    <3>2. CASE k # 1
      <4>1. LineEnd(t, k - 1) \in S /\ Rank(S, LineEnd(t, k - 1)) = k - 1
        BY <1>5, <3>2
      <4>2. LineEnd(t, k - 1) \in Int /\ LineEnd(t, k - 1) < x
        BY <1>1, <2>1, <3>2, <4>1 DEF LineStart
      <4>3. Rank(S, LineEnd(t, k - 1)) < Rank(S, x)
        <5> HIDE DEF S
        <5> QED
          BY <1>1, <2>2, <4>2, RankGrows
      <4> QED
        BY <1>3, <2>3, <4>1, <4>3
    <3> QED
      BY <3>1, <3>2
  <2> QED
    BY <1>3, <2>3, <2>4, <2>5
<1> QED
  BY <1>6, <1>7, <1>8

\* split_lines cuts a text into lines.
LEMMA SplitLinesType ==
  ASSUME NEW t \in Seq(Chars)
  PROVE  SplitLines(t) \in Lines /\ Len(SplitLines(t)) = CountLines(t)
<1>1. ASSUME NEW k \in 1..CountLines(t)
      PROVE  SubSeq(t, LineStart(t, k), LineEnd(t, k) - 1) \in Seq(Chars \ {NL})
  <2>1. /\ LineStart(t, k) \in Int /\ LineEnd(t, k) - 1 \in Int
        /\ \A x \in LineStart(t, k)..(LineEnd(t, k) - 1) : t[x] \in Chars \ {NL}
    BY LineWithin
  <2> QED
    BY <2>1, SubSeqProperties
<1>2. CountLines(t) \in Nat
  BY CountLinesType
<1> DEFINE n == CountLines(t)
           L == Seq(Chars \ {NL})
<1>3. SplitLines(t) = [k \in 1..n |-> SubSeq(t, LineStart(t, k), LineEnd(t, k) - 1)]
  BY DEF SplitLines
<1>4. SplitLines(t) \in [1..n -> L]
  BY <1>1, <1>3
<1> HIDE DEF n, L
<1>5. SplitLines(t) \in Seq(L) /\ Len(SplitLines(t)) = n
  BY <1>2, <1>4 DEF n
<1> QED
  BY <1>5 DEF n, L, Lines
-----------------------------------------------------------------------------
(* The types of the variables.                                             *)

\* A step of the walk is about a line that is there.
RightStep(a) == a.index \in 1..Len(IF a.action = "+" THEN actLines ELSE expLines)

\* The walk has used as much of the stack as it has come through the table.
StepsInv ==
  /\ actions \in Seq(Step)
  /\ \A k \in DOMAIN actions : RightStep(actions[k])
  /\ Len(actions) <= StackSize
  /\ pc = "walk" => Len(actions) + i + j <= StackSize

TypesInv ==
  /\ pc \in Points
  /\ expLines \in Lines /\ actLines \in Lines
  /\ pc \notin {"before", "split actual", "table", "crashed"} =>
       table \in [0..(Rows * Cols - 1) -> Nat]
  /\ i \in Nat /\ j \in Nat
  /\ StepsInv

LEMMA NoSteps ==
  ASSUME SizesInv', actions' = <<>>, pc' # "walk" PROVE StepsInv'
<1>1. Len(expLines') \in Nat /\ Len(actLines') \in Nat
  BY DEF SizesInv
<1>2. StackSize' \in Nat
  BY <1>1 DEF StackSize
<1>3. actions' \in Seq(Step) /\ Len(actions') = 0 /\ DOMAIN actions' = {}
  BY EmptySeq
<1> QED
  BY <1>2, <1>3 DEF StepsInv

LEMMA SameSteps ==
  ASSUME StepsInv, UNCHANGED <<actions, expLines, actLines>>, pc' # "walk"
  PROVE  StepsInv'
<1>1. StackSize' = StackSize
  BY DEF StackSize
<1>2. \A a : RightStep(a)' <=> RightStep(a)
  BY DEF RightStep
<1>3. \A k \in DOMAIN actions' : RightStep(actions[k])'
  BY <1>2 DEF StepsInv
<1> QED
  BY <1>1, <1>3 DEF StepsInv, RightStep

LEMMA RightStepAdded ==
  ASSUME NEW s \in Seq(Step), \A k \in DOMAIN s : RightStep(s[k]),
         NEW e \in Step, RightStep(e)
  PROVE  /\ Append(s, e) \in Seq(Step) /\ Len(Append(s, e)) = Len(s) + 1
         /\ \A k \in DOMAIN Append(s, e) : RightStep(Append(s, e)[k])
<1>1. /\ Append(s, e) \in Seq(Step) /\ Len(Append(s, e)) = Len(s) + 1
      /\ \A k \in 1..Len(s) : Append(s, e)[k] = s[k]
      /\ Append(s, e)[Len(s) + 1] = e
  BY AppendProperties
<1>2. Len(s) \in Nat /\ DOMAIN s = 1..Len(s) /\ DOMAIN Append(s, e) = 1..(Len(s) + 1)
  BY <1>1, LenProperties
<1>3. \A k \in 1..(Len(s) + 1) : k \in 1..Len(s) \/ k = Len(s) + 1
  BY <1>2
<1> QED
  BY <1>1, <1>2, <1>3

LEMMA SumOfNats == ASSUME NEW x \in Nat, NEW y \in Nat PROVE x + y \in Nat
  OBVIOUS

LEMMA LessToCome ==
  ASSUME NEW l \in Nat, NEW x \in Nat, NEW y \in Nat, NEW u \in Nat, NEW v \in Nat,
         NEW n \in Nat, l + x + y <= n, u + v < x + y
  PROVE  (l + 1) + u + v <= n /\ l + 1 <= n
  OBVIOUS

\* One step more, and at least one less to come.
LEMMA OneStepMore ==
  ASSUME SizesInv, StepsInv, pc = "walk", UNCHANGED <<expLines, actLines>>,
         i \in Nat, j \in Nat, i' \in Nat, j' \in Nat, i' + j' < i + j,
         NEW a \in {" ", "+", "-"}, NEW n \in Nat, Push(a, n),
         n \in 1..Len(IF a = "+" THEN actLines ELSE expLines)
  PROVE  StepsInv'
<1> DEFINE e == [action |-> a, index |-> n]
<1>1. e \in Step /\ RightStep(e)
  BY DEF Step, RightStep
<1>2. /\ actions \in Seq(Step)
      /\ \A k \in DOMAIN actions : RightStep(actions[k])
      /\ Len(actions) + i + j <= StackSize
  BY DEF StepsInv
<1>3. actions' = Append(actions, e)
  BY DEF Push
<1> HIDE DEF e
<1>4. /\ actions' \in Seq(Step) /\ Len(actions') = Len(actions) + 1
      /\ \A k \in DOMAIN actions' : RightStep(actions'[k])
  BY <1>1, <1>2, <1>3, RightStepAdded
<1>5. \A k \in DOMAIN actions' : RightStep(actions[k])'
  BY <1>4 DEF RightStep
<1>6. Len(actions) \in Nat
  BY <1>2, LenProperties
<1>7. StackSize \in Nat
  <2>1. Len(expLines) \in Nat /\ Len(actLines) \in Nat
    BY DEF SizesInv
  <2> QED
    BY <2>1, SumOfNats DEF StackSize
<1>8. (Len(actions) + 1) + i' + j' <= StackSize /\ Len(actions) + 1 <= StackSize
  BY <1>2, <1>6, <1>7, LessToCome
<1>9. StackSize' = StackSize
  BY DEF StackSize
<1>10. Len(actions') + i' + j' <= StackSize' /\ Len(actions') <= StackSize'
  BY <1>4, <1>8, <1>9
<1> QED
  BY <1>4, <1>5, <1>10 DEF StepsInv

LEMMA WalkTypes ==
  ASSUME SizesInv, TableInv, TypesInv, Walk PROVE StepsInv' /\ i' \in Nat /\ j' \in Nat
<1>1. /\ pc = "walk" /\ i + j > 0 /\ UNCHANGED <<expLines, actLines>>
      /\ i \in Nat /\ j \in Nat /\ i <= Len(expLines) /\ j <= Len(actLines)
      /\ StepsInv
  <2>1. pc = "walk" /\ i + j > 0 /\ UNCHANGED <<expLines, actLines>>
    BY DEF Walk
  <2>2. i \in Nat /\ j \in Nat /\ StepsInv
    BY DEF TypesInv
  <2>3. i \in 0..Len(expLines) /\ j \in 0..Len(actLines)
    BY <2>1 DEF TableInv, Inside
  <2>4. Len(expLines) \in Nat /\ Len(actLines) \in Nat
    BY DEF SizesInv
  <2>5. i <= Len(expLines) /\ j <= Len(actLines)
    BY <2>3, <2>4
  <2> QED
    BY <2>1, <2>2, <2>5
<1>2. /\ i > 0 => i - 1 \in Nat /\ i \in 1..Len(expLines)
      /\ j > 0 => j - 1 \in Nat /\ j \in 1..Len(actLines)
      /\ (i - 1) + (j - 1) < i + j /\ i + (j - 1) < i + j /\ (i - 1) + j < i + j
  <2>1. Len(expLines) \in Nat /\ Len(actLines) \in Nat
    BY DEF SizesInv
  <2>2. \A x, y, l \in Nat :
          /\ x > 0 /\ x <= l => x - 1 \in Nat /\ x \in 1..l
          /\ (x - 1) + (y - 1) < x + y /\ x + (y - 1) < x + y /\ (x - 1) + y < x + y
    OBVIOUS
  <2> HIDE DEF Walk
  <2> QED
    BY <1>1, <2>1, <2>2, Zenon
<1>3. CASE IsCommon /\ Push(" ", i) /\ i' = i - 1 /\ j' = j - 1
  <2>1. i > 0 /\ j > 0 /\ Push(" ", i)
    BY <1>3 DEF IsCommon
  <2>2. i' \in Nat /\ j' \in Nat /\ i' + j' < i + j /\ i \in 1..Len(expLines)
    BY <1>1, <1>2, <1>3, <2>1
  <2> QED
    BY <1>1, <2>1, <2>2, OneStepMore
<1>4. CASE ~IsCommon /\ GoLeft /\ Push("+", j) /\ j' = j - 1 /\ i' = i
  <2>1. j > 0 /\ Push("+", j)
    BY <1>4 DEF GoLeft
  <2>2. i' \in Nat /\ j' \in Nat /\ i' + j' < i + j /\ j \in 1..Len(actLines)
    BY <1>1, <1>2, <1>4, <2>1
  <2> QED
    BY <1>1, <2>1, <2>2, OneStepMore
<1>5. CASE ~IsCommon /\ ~GoLeft /\ Push("-", i) /\ i' = i - 1 /\ j' = j
  <2>1. i > 0 /\ Push("-", i)
    BY <1>1, <1>5 DEF GoLeft
  <2>2. i' \in Nat /\ j' \in Nat /\ i' + j' < i + j /\ i \in 1..Len(expLines)
    BY <1>1, <1>2, <1>5, <2>1
  <2> QED
    BY <1>1, <2>1, <2>2, OneStepMore
<1> QED
  BY <1>3, <1>4, <1>5 DEF Walk

LEMMA SameTypes ==
  ASSUME TypesInv, UNCHANGED <<expLines, actLines, table>>, i' \in Nat, j' \in Nat,
         pc' \in Points, StepsInv',
         pc' \in {"before", "split actual", "table", "crashed"}
           \/ pc \notin {"before", "split actual", "table", "crashed"}
  PROVE  TypesInv'
<1>1. Rows' = Rows /\ Cols' = Cols
  BY DEF Rows, Cols
<1> QED
  BY <1>1 DEF TypesInv

LEMMA NextTypes ==
  SizesInv /\ SizesInv' /\ TableInv /\ TableInv' /\ TypesInv /\ [Next]_vars => TypesInv'
<1> SUFFICES ASSUME SizesInv, SizesInv', TableInv, TableInv', TypesInv, [Next]_vars
             PROVE  TypesInv'
  OBVIOUS
<1> USE DEF Points
<1>1. StepsInv /\ i \in Nat /\ j \in Nat
  BY DEF TypesInv
<1>2. CASE AllocateOther
  <2>1. UNCHANGED <<pc, expLines, actLines, table, i, j, actions>> /\ pc = "before"
    BY <1>2 DEF AllocateOther
  <2> QED
    BY <1>1, <2>1, SameSteps, SameTypes
<1>3. CASE SplitExpected
  <2>1. /\ pc = "before" /\ pc' = "split actual" /\ expLines' = SplitLines(expected)
        /\ UNCHANGED <<actLines, table, i, j, actions>>
    BY <1>3 DEF SplitExpected
  <2>2. actions' = <<>>
    BY <2>1 DEF TableInv
  <2>3. StepsInv'
    BY <2>1, <2>2, NoSteps
  <2>4. expLines' \in Lines
    BY <2>1, SplitLinesType DEF SizesInv
  <2> QED
    BY <1>1, <2>1, <2>3, <2>4 DEF TypesInv
<1>4. CASE SplitActual
  <2>1. /\ pc = "split actual" /\ pc' = "table" /\ actLines' = SplitLines(actual)
        /\ UNCHANGED <<expLines, table, i, j, actions>>
    BY <1>4 DEF SplitActual
  <2>2. actions' = <<>>
    BY <2>1 DEF TableInv
  <2>3. StepsInv'
    BY <2>1, <2>2, NoSteps
  <2>4. actLines' \in Lines
    BY <2>1, SplitLinesType DEF SizesInv
  <2> QED
    BY <1>1, <2>1, <2>3, <2>4 DEF TypesInv
<1>5. CASE AllocTable \/ FillCell
  <2>1. /\ pc' = "fill" /\ UNCHANGED <<expLines, actLines, actions>>
        /\ i' \in Nat /\ j' \in Nat
    BY <1>1, <1>5 DEF AllocTable, FillCell
  <2>2. StepsInv'
    BY <1>1, <2>1, SameSteps
  <2>3. table' \in [0..(Rows' * Cols' - 1) -> Nat]
    BY <2>1 DEF TableInv, GridInv
  <2> QED
    BY <2>1, <2>2, <2>3 DEF TypesInv
<1>6. CASE NextRow \/ AllocActions \/ AllocIndices
  <2>1. /\ pc \in {"fill", "indices"} /\ pc' \in {"fill", "indices", "walk"}
        /\ UNCHANGED <<expLines, actLines, table, actions>>
    BY <1>6 DEF NextRow, AllocActions, AllocIndices
  <2>2. i' \in Nat /\ j' \in Nat /\ (pc' = "walk" => i' = Len(expLines) /\ j' = Len(actLines))
    BY <1>1, <1>6 DEF NextRow, AllocActions, AllocIndices, SizesInv
  <2>3. StepsInv'
    <3>1. CASE pc' # "walk"
      BY <1>1, <2>1, <3>1, SameSteps
    <3>2. CASE pc' = "walk"
      <4>1. actions' = <<>>
        BY <2>1 DEF TableInv
      <4>2. actions' \in Seq(Step) /\ Len(actions') = 0 /\ DOMAIN actions' = {}
        BY <4>1, EmptySeq
      <4>3. Len(expLines) \in Nat /\ Len(actLines) \in Nat
        BY DEF SizesInv
      <4>4. Len(actions') + i' + j' <= StackSize' /\ Len(actions') <= StackSize'
        BY <2>1, <2>2, <3>2, <4>2, <4>3 DEF StackSize
      <4> QED
        BY <4>2, <4>4 DEF StepsInv
    <3> QED
      BY <3>1, <3>2
  <2> QED
    BY <2>1, <2>2, <2>3, SameTypes
<1>7. CASE Walk
  <2>1. pc = "walk" /\ pc' = "walk" /\ UNCHANGED <<expLines, actLines, table>>
    BY <1>7 DEF Walk
  <2> QED
    BY <1>7, <2>1, WalkTypes, SameTypes
<1>8. CASE TableOverruns \/ EndWalk \/ PrintLine \/ Exit
  <2>1. /\ UNCHANGED <<expLines, actLines, table, actions>>
        /\ pc' \in {"crashed", "print", "exited"}
        /\ pc' # "crashed" => pc \in {"walk", "print"}
    BY <1>8 DEF TableOverruns, EndWalk, PrintLine, Exit
  <2>2. i' \in Nat /\ j' \in Nat
    <3>1. Len(actions) \in Nat
      BY <1>1, LenProperties DEF StepsInv
    <3> QED
      BY <1>1, <1>8, <3>1 DEF TableOverruns, EndWalk, PrintLine, Exit
  <2>3. StepsInv'
    BY <1>1, <2>1, SameSteps
  <2> QED
    BY <2>1, <2>2, <2>3, SameTypes
<1>9. CASE UNCHANGED vars
  BY <1>9 DEF vars, TypesInv, StepsInv, RightStep, StackSize, Rows, Cols
<1> QED
  BY <1>2, <1>3, <1>4, <1>5, <1>6, <1>7, <1>8, <1>9 DEF Next

LEMMA InitTypes == Init => TypesInv
<1> SUFFICES ASSUME Init PROVE TypesInv
  OBVIOUS
<1>1. /\ pc = "before" /\ expLines = <<>> /\ actLines = <<>> /\ i = 0 /\ j = 0
      /\ actions = <<>>
  BY DEF Init
<1>2. StepsInv
  <2>1. actions \in Seq(Step) /\ Len(actions) = 0 /\ DOMAIN actions = {}
    BY <1>1, EmptySeq
  <2>2. StackSize = 0
    BY <1>1, EmptySeq DEF StackSize
  <2> QED
    BY <1>1, <2>1, <2>2 DEF StepsInv
<1>3. expLines \in Lines /\ actLines \in Lines
  BY <1>1, EmptySeq DEF Lines
<1> QED
  BY <1>1, <1>2, <1>3 DEF TypesInv, Points

\* Every variable keeps its type: every line is cut from within its text and
\* without its newline, the counters of the loops never leave the table, and the
\* stack of print_diff holds all steps of the walk, each of a line that is there.
THEOREM TypeCorrect == Spec => []TypeOK
<1>1. Init => Inv /\ TableInv /\ TypesInv
  BY InitInv, InitTypes DEF Init, TableInv
<1>2. Inv /\ TableInv /\ TypesInv /\ [Next]_vars => (Inv /\ TableInv /\ TypesInv)'
  BY NextInv, NextTableInv, NextTypes DEF Inv
<1>3. Inv /\ TableInv /\ TypesInv => TypeOK
  <2> SUFFICES ASSUME Inv, TableInv, TypesInv PROVE TypeOK
    OBVIOUS
  <2>1. PoolTypeOK /\ expected \in Seq(Chars) /\ actual \in Seq(Chars)
    BY DEF Inv, PoolInv, SizesInv
  <2>2. pc = "walk" => i < Rows /\ j < Cols
    <3>1. Len(expLines) \in Nat /\ Len(actLines) \in Nat
      BY DEF Inv, SizesInv
    <3> QED
      BY <3>1 DEF TableInv, Inside, Rows, Cols
  <2>3. /\ Len(actions) <= StackSize
        /\ \A k \in DOMAIN actions :
             /\ actions[k].action \in {" ", "+", "-"}
             /\ actions[k].index
                  \in 1..Len(IF actions[k].action = "+" THEN actLines ELSE expLines)
    <3>1. \A k \in DOMAIN actions : actions[k] \in Step /\ RightStep(actions[k])
      BY LenProperties DEF TypesInv, StepsInv
    <3> QED
      BY <3>1 DEF TypesInv, StepsInv, Step, RightStep
  <2> QED
    BY <2>1, <2>2, <2>3 DEF TypesInv, TypeOK
<1> QED
  BY <1>1, <1>2, <1>3, PTL DEF Spec

\* No diff of two texts has more common lines than the one that is printed: the
\* greedy walk of diff.c through the table loses nothing, whatever the lines
\* and whatever relation, no equivalence, pattern_match is between them.
THEOREM Shortest == Spec => []DiffIsShortest
<1>1. SizesInv /\ TypesInv /\ ShortestInv => DiffIsShortest
  <2> SUFFICES ASSUME SizesInv, TypesInv, ShortestInv, pc = "print",
                      NEW R \in SUBSET DOMAIN expLines, NEW C \in SUBSET DOMAIN actLines,
                      CommonSubsequence(R, C)
               PROVE  Cardinality(R) <= CommonLines(actions)
    BY DEF DiffIsShortest
  <2>1. Inside(Len(expLines), Len(actLines))
    BY GridFacts DEF Inside
  <2>2. Bounded(Len(expLines), Len(actLines))
    BY <2>1, FullTableBounds DEF ShortestInv
  <2>3. DOMAIN expLines = 1..Len(expLines) /\ DOMAIN actLines = 1..Len(actLines)
    BY LenProperties DEF TypesInv, Lines
  <2> QED
    BY <2>2, <2>3 DEF Bounded, ShortestInv
<1>2. Init => Inv /\ TableInv /\ TypesInv /\ ShortestInv
  BY InitInv, InitTypes DEF Init, TableInv, ShortestInv
<1>3. Inv /\ TableInv /\ TypesInv /\ ShortestInv /\ [Next]_vars
        => (Inv /\ TableInv /\ TypesInv /\ ShortestInv)'
  BY NextInv, NextTableInv, NextTypes, NextShortest DEF Inv
<1> QED
  BY <1>1, <1>2, <1>3, PTL DEF Spec, Inv
-----------------------------------------------------------------------------
(* The lines of a text are the whole text.                                 *)

\* The lines upto the k-th, with their newlines.  The last line has one then even
\* where it has none in the text.
Upto(t, k) ==
  IF k = 0 THEN <<>>
  ELSE IF k <= Cardinality(Newlines(t)) THEN SubSeq(t, 1, LineEnd(t, k)) ELSE Append(t, NL)

\* They end where the k-th line ends, with a newline, and are the text before.
LEMMA UptoType ==
  ASSUME NEW t \in Seq(Chars), NEW k \in 0..CountLines(t)
  PROVE  /\ Upto(t, k) \in Seq(Chars)
         /\ k # 0 => /\ Len(Upto(t, k)) = LineEnd(t, k)
                     /\ Upto(t, k)[LineEnd(t, k)] = NL
                     /\ \A x \in 1..(LineEnd(t, k) - 1) : Upto(t, k)[x] = t[x]
                     /\ LineEnd(t, k) \in 1..(Len(t) + 1)
<1>0. NL \in Chars /\ Len(t) \in Nat
  BY DiffAssumption, LenProperties
<1>1. CASE k = 0
  BY <1>1, EmptySeq DEF Upto
<1> DEFINE n == Cardinality(Newlines(t))
           e == LineEnd(t, k)
<1>2. k # 0 => e \in 1..(Len(t) + 1) /\ k \in Nat \ {0}
  <2>1. k # 0 => k \in 1..CountLines(t)
    BY CountLinesType
  <2> QED
    BY <2>1, LineWithin
<1>3. CASE k # 0 /\ k <= n
  <2>1. e \in Newlines(t)
    BY <1>2, <1>3, LineEndFacts
  <2>2. e \in 1..Len(t) /\ t[e] = NL
    BY <2>1 DEF Newlines
  <2>3. Upto(t, k) = SubSeq(t, 1, e)
    BY <1>3, Zenon DEF Upto
  <2> HIDE DEF e
  <2>4. \A x \in 1..e : t[x] \in Chars
    BY <1>0, <2>2, ElementOfSeq
  <2>5. 1 \in Int /\ e \in Int /\ 1 <= e
    BY <1>0, <2>2
  <2>6. /\ SubSeq(t, 1, e) \in Seq(Chars)
        /\ Len(SubSeq(t, 1, e)) = e - 1 + 1
        /\ \A x \in 1..(e - 1 + 1) : SubSeq(t, 1, e)[x] = t[1 + x - 1]
    BY <2>4, <2>5, SubSeqProperties
  <2>7. /\ Len(Upto(t, k)) = e
        /\ \A x \in 1..e : Upto(t, k)[x] = t[x]
    BY <2>3, <2>5, <2>6
  <2>8. /\ e \in 1..e /\ \A x \in 1..(e - 1) : x \in 1..e
    BY <2>5
  <2> QED
    BY <1>2, <2>2, <2>3, <2>6, <2>7, <2>8 DEF e
<1>4. CASE k # 0 /\ ~(k <= n)
  <2>1. n \in Nat
    BY <1>2, <1>4, LineEndFacts
  <2>2. k > n
    BY <1>2, <1>4, <2>1
  <2>3. e = Len(t) + 1
    BY <1>2, <1>4, <2>2, LineEndFacts
  <2>4. Upto(t, k) = Append(t, NL)
    BY <1>4, Zenon DEF Upto
  <2>5. /\ Append(t, NL) \in Seq(Chars) /\ Len(Append(t, NL)) = Len(t) + 1
        /\ \A x \in 1..Len(t) : Append(t, NL)[x] = t[x]
        /\ Append(t, NL)[Len(t) + 1] = NL
    BY <1>0, AppendProperties
  <2>6. (Len(t) + 1) - 1 = Len(t)
    BY <1>0
  <2> HIDE DEF e
  <2> QED
    BY <1>2, <2>3, <2>4, <2>5, <2>6 DEF e
<1> QED
  BY <1>1, <1>3, <1>4

\* With the next line, and its newline, it is the lines upto that one.
LEMMA UptoNext ==
  ASSUME NEW t \in Seq(Chars), NEW k \in 1..CountLines(t)
  PROVE  Upto(t, k) = Upto(t, k - 1) \o SplitLines(t)[k] \o <<NL>>
<1> DEFINE a == LineStart(t, k)
           e == LineEnd(t, k)
           u == Upto(t, k)
           v == Upto(t, k - 1)
           w == SplitLines(t)[k]
<1>0. NL \in Chars /\ Len(t) \in Nat /\ CountLines(t) \in Nat
  BY DiffAssumption, LenProperties, CountLinesType
<1>1. k \in 0..CountLines(t) /\ k - 1 \in 0..CountLines(t) /\ k # 0
  BY <1>0
<1>2. /\ u \in Seq(Chars) /\ Len(u) = e /\ u[e] = NL
      /\ \A x \in 1..(e - 1) : u[x] = t[x]
      /\ e \in 1..(Len(t) + 1)
  BY <1>1, UptoType
<1>3. /\ v \in Seq(Chars) /\ Len(v) = a - 1
      /\ \A x \in 1..(a - 1) : v[x] = t[x]
  <2>1. CASE k = 1
    <3>1. v = <<>> /\ a = 1
      BY <2>1 DEF Upto, LineStart
    <3> HIDE DEF v, a
    <3> QED
      BY <3>1, EmptySeq
  <2>2. CASE k # 1
    <3> DEFINE d == LineEnd(t, k - 1)
    <3>1. k - 1 # 0 /\ a = d + 1
      BY <2>2 DEF LineStart
    <3>2. /\ v \in Seq(Chars) /\ Len(v) = d /\ v[d] = NL
          /\ \A x \in 1..(d - 1) : v[x] = t[x]
          /\ d \in 1..(Len(t) + 1)
      BY <1>1, <3>1, UptoType
    <3>3. t[d] = NL
      <4>1. k - 1 \in Nat \ {0} /\ k - 1 <= Cardinality(Newlines(t))
        <5>1. 1 \in Nat \ {0}
          OBVIOUS
        <5>2. Cardinality(Newlines(t)) \in Nat
          BY <5>1, LineEndFacts
        <5>3. CountLines(t) <= Cardinality(Newlines(t)) + 1
          BY <5>2 DEF CountLines
        <5> QED
          BY <1>0, <1>1, <3>1, <5>2, <5>3
      <4>2. d \in Newlines(t)
        BY <4>1, LineEndFacts
      <4> QED
        BY <4>2 DEF Newlines
    <3> HIDE DEF d, v, a
    <3>4. a - 1 = d /\ \A x \in 1..d : x = d \/ x \in 1..(d - 1)
      BY <3>1, <3>2
    <3> QED
      BY <3>2, <3>3, <3>4
  <2> QED
    BY <2>1, <2>2
<1>4. a \in 1..(Len(t) + 1) /\ \A x \in a..(e - 1) : t[x] \in Chars \ {NL}
  BY LineWithin
<1>5. w = SubSeq(t, a, e - 1)
  BY DEF SplitLines
<1>6. a <= e
  <2> SUFFICES ASSUME a > e PROVE FALSE
    BY <1>2, <1>4
  <2>1. Len(t) >= 1 /\ a - 1 >= e
    BY <1>0, <1>2, <1>4
  <2>2. e \in 1..(a - 1)
    BY <1>2, <1>4, <2>1
  <2>3. FALSE
    \* the line would end before the one before it
    <3> USE DEF a, e
    <3>1. k # 1
      BY <1>2 DEF LineStart
    <3>2. 1 \in Nat \ {0} /\ k \in Nat \ {0}
      BY <1>1
    <3>3. Newlines(t) \in SUBSET (1..Len(t)) /\ Cardinality(Newlines(t)) \in Nat
      BY <3>2, LineEndFacts
    <3>4. CountLines(t) <= Cardinality(Newlines(t)) + 1
      BY <3>3 DEF CountLines
    <3>5. k - 1 \in Nat \ {0} /\ k - 1 <= Cardinality(Newlines(t))
      BY <1>0, <3>1, <3>3, <3>4
    <3>6. LineEnd(t, k - 1) \in Newlines(t) /\ Rank(Newlines(t), LineEnd(t, k - 1)) = k - 1
      BY <3>5, LineEndFacts
    <3>7. LineEnd(t, k - 1) \in 1..Len(t) /\ LineEnd(t, k - 1) >= LineEnd(t, k)
      BY <1>2, <2>1, <3>1, <3>3, <3>6 DEF LineStart
    <3>8. CASE k <= Cardinality(Newlines(t))
      <4>1. LineEnd(t, k) \in Newlines(t) /\ Rank(Newlines(t), LineEnd(t, k)) = k
        BY <3>2, <3>8, LineEndFacts
      <4>2. CASE LineEnd(t, k) = LineEnd(t, k - 1)
        BY <3>2, <3>6, <4>1, <4>2
      <4>3. CASE LineEnd(t, k) < LineEnd(t, k - 1)
        <5>1. LineEnd(t, k) \in Int
          BY <1>2
        <5>2. Rank(Newlines(t), LineEnd(t, k)) < Rank(Newlines(t), LineEnd(t, k - 1))
          BY <1>0, <3>3, <3>6, <4>3, <5>1, RankGrows
        <5> QED
          BY <3>2, <3>6, <4>1, <5>2
      <4> QED
        BY <1>2, <3>7, <4>2, <4>3
    <3>9. CASE k > Cardinality(Newlines(t))
      <4>1. LineEnd(t, k) = Len(t) + 1
        BY <3>2, <3>9, LineEndFacts
      <4> QED
        BY <1>0, <3>7, <4>1
    <3> QED
      BY <3>2, <3>3, <3>8, <3>9
  <2> QED
    BY <2>3
<1> HIDE DEF a, e, u, v, w
<1>7. /\ w \in Seq(Chars) /\ Len(w) = e - a
      /\ \A x \in 1..(e - a) : w[x] = t[a + x - 1]
  <2>1. a \in Int /\ e - 1 \in Int /\ (\A x \in a..(e - 1) : t[x] \in Chars)
    BY <1>2, <1>4
  <2>2. /\ SubSeq(t, a, e - 1) \in Seq(Chars)
        /\ Len(SubSeq(t, a, e - 1)) = IF a <= e - 1 THEN (e - 1) - a + 1 ELSE 0
        /\ \A x \in 1..((e - 1) - a + 1) : SubSeq(t, a, e - 1)[x] = t[a + x - 1]
    BY <2>1, SubSeqProperties
  <2>3. (e - 1) - a + 1 = e - a /\ (IF a <= e - 1 THEN (e - 1) - a + 1 ELSE 0) = e - a
    BY <1>2, <1>4, <1>6
  <2> QED
    BY <1>5, <2>2, <2>3
<1>8. /\ v \o w \in Seq(Chars) /\ Len(v \o w) = e - 1
      /\ \A x \in 1..(e - 1) : (v \o w)[x] = t[x]
  <2>1. /\ v \o w \in Seq(Chars) /\ Len(v \o w) = Len(v) + Len(w)
        /\ \A x \in 1..(Len(v) + Len(w)) :
             (v \o w)[x] = IF x <= Len(v) THEN v[x] ELSE w[x - Len(v)]
    BY <1>3, <1>7, ConcatProperties
  <2>2. Len(v) + Len(w) = e - 1
    BY <1>2, <1>3, <1>4, <1>7
  <2>3. ASSUME NEW x \in 1..(e - 1) PROVE (v \o w)[x] = t[x]
    <3>1. CASE x <= Len(v)
      <4>1. x \in 1..(a - 1)
        BY <1>2, <1>3, <1>4, <3>1
      <4>2. (v \o w)[x] = v[x]
        BY <2>1, <2>2, <3>1
      <4> QED
        BY <1>3, <4>1, <4>2
    <3>2. CASE ~(x <= Len(v))
      <4> DEFINE y == x - (a - 1)
      <4>1. y \in 1..(e - a) /\ a + y - 1 = x
        BY <1>2, <1>3, <1>4, <3>2
      <4>2. (v \o w)[x] = w[y]
        BY <1>3, <2>1, <2>2, <3>2
      <4> HIDE DEF y
      <4>3. w[y] = t[x]
        BY <1>7, <4>1
      <4> QED
        BY <4>2, <4>3
    <3> QED
      BY <3>1, <3>2
  <2> QED
    BY <2>1, <2>2, <2>3
<1>9. Append(v \o w, NL) = (v \o w) \o <<NL>>
  BY <1>0, <1>8, AppendIsConcat
<1>10. Append(v \o w, NL) = u
  <2> DEFINE z == v \o w
  <2>0. z \in Seq(Chars) /\ Len(z) = e - 1 /\ \A x \in 1..(e - 1) : z[x] = t[x]
    BY <1>8
  <2> HIDE DEF z
  <2>1. /\ Append(z, NL) \in Seq(Chars) /\ Len(Append(z, NL)) = Len(z) + 1
        /\ \A x \in 1..Len(z) : Append(z, NL)[x] = z[x]
        /\ Append(z, NL)[Len(z) + 1] = NL
    BY <1>0, <2>0, AppendProperties
  <2>2. Len(z) + 1 = e
    BY <1>2, <2>0
  <2>3. \A x \in 1..e : x = e \/ x \in 1..(e - 1)
    BY <1>2
  <2>4. \A x \in 1..e : Append(z, NL)[x] = u[x]
    BY <1>2, <2>0, <2>1, <2>2, <2>3
  <2> QED
    BY <1>2, <2>1, <2>2, <2>4, SeqEqual DEF z
<1> QED
  BY <1>9, <1>10 DEF u, v, w

\* Function f puts the lines s together, step by step.
Joins(f, s, n) ==
  \A k \in 0..n : f[k] = IF k = 0 THEN <<>> ELSE f[k - 1] \o s[k] \o <<NL>>

\* No other function does: it would differ from it first at some line, with no
\* difference before that makes it.
LEMMA JoinIsUnique ==
  ASSUME NEW N \in Nat, NEW s, NEW f, NEW g, Joins(f, s, N), Joins(g, s, N)
  PROVE  f[N] = g[N]
<1> DEFINE S == {k \in 0..N : f[k] # g[k]}
<1> SUFFICES ASSUME f[N] # g[N] PROVE FALSE
  OBVIOUS
<1>1. N \in S /\ S \in SUBSET (0..N)
  OBVIOUS
<1>2. PICK m \in S : \A k \in S : m <= k
  <2> HIDE DEF S
  <2> QED
    BY <1>1, FirstExists
<1>3. m \in 0..N /\ f[m] # g[m]
  BY <1>2
<1>4. m # 0
  BY <1>3 DEF Joins
<1>5. m - 1 \in 0..N /\ ~(m <= m - 1)
  BY <1>3, <1>4
<1>6. f[m - 1] = g[m - 1]
  BY <1>2, <1>5
<1>7. f[m] = f[m - 1] \o s[m] \o <<NL>> /\ g[m] = g[m - 1] \o s[m] \o <<NL>>
  BY <1>3, <1>4 DEF Joins
<1> QED
  BY <1>3, <1>6, <1>7

LEMMA JoinedIs ==
  ASSUME NEW s, NEW g, NEW N \in Nat, N = Len(s), Joins(g, s, N)
  PROVE  Joined(s) = g[N]
<1> DEFINE Is(f) == f = [k \in 0..N |-> IF k = 0 THEN <<>> ELSE f[k - 1] \o s[k] \o <<NL>>]
           h == [k \in 0..N |-> g[k]]
<1>1. Is(h)
  <2>1. ASSUME NEW k \in 0..N
        PROVE  h[k] = IF k = 0 THEN <<>> ELSE h[k - 1] \o s[k] \o <<NL>>
    <3>1. k # 0 => k - 1 \in 0..N
      OBVIOUS
    <3>2. h[k] = g[k] /\ (k # 0 => h[k - 1] = g[k - 1])
      BY <3>1
    <3>3. g[k] = IF k = 0 THEN <<>> ELSE g[k - 1] \o s[k] \o <<NL>>
      BY DEF Joins
    <3> HIDE DEF h
    <3> QED
      BY <3>2, <3>3
  <2>2. h = [k \in 0..N |-> h[k]]
    OBVIOUS
  <2> HIDE DEF h
  <2> QED
    BY <2>1, <2>2
<1>2. PICK f : Is(f) /\ Joined(s) = f[N]
  <2>1. \E f : Is(f)
    <3> HIDE DEF Is, h
    <3> QED
      BY <1>1
  <2>2. Joined(s) = (CHOOSE f : Is(f))[N]
    BY DEF Joined
  <2> HIDE DEF Is
  <2> QED
    BY <2>1, <2>2
<1>3. Joins(f, s, N)
  BY <1>2 DEF Joins
<1>4. f[N] = g[N]
  <2> HIDE DEF Is
  <2> QED
    BY <1>3, JoinIsUnique
<1> QED
  BY <1>2, <1>4

\* The lines that split_lines cuts a text into, each ended by a newline, are the
\* text, with a newline behind it if its last line has none.
LEMMA LinesRestoreText ==
  ASSUME NEW t \in Seq(Chars) PROVE Restores(SplitLines(t), t)
<1> DEFINE s == SplitLines(t)
           N == Len(s)
           n == Cardinality(Newlines(t))
           g == [k \in 0..N |-> Upto(t, k)]
<1>1. N = CountLines(t) /\ N \in Nat
  BY SplitLinesType, CountLinesType
<1>2. ASSUME NEW k \in 0..N
      PROVE  g[k] = IF k = 0 THEN <<>> ELSE g[k - 1] \o s[k] \o <<NL>>
  <2>1. CASE k = 0
    BY <2>1 DEF Upto
  <2>2. CASE k # 0
    <3>1. k \in 1..CountLines(t) /\ k - 1 \in 0..N
      BY <1>1, <2>2
    <3>2. g[k] = Upto(t, k) /\ g[k - 1] = Upto(t, k - 1)
      BY <3>1
    <3>3. Upto(t, k) = Upto(t, k - 1) \o s[k] \o <<NL>>
      BY <3>1, UptoNext
    <3> HIDE DEF g, s
    <3> QED
      BY <2>2, <3>2, <3>3
  <2> QED
    BY <2>1, <2>2
<1>3. Joined(s) = Upto(t, N)
  <2>1. Joined(s) = g[N]
    <3>1. Joins(g, s, N)
      <4> HIDE DEF g, s, N
      <4> QED
        BY <1>2 DEF Joins
    <3>2. N = Len(s)
      OBVIOUS
    <3> HIDE DEF g, s, N
    <3> QED
      BY <1>1, <3>1, <3>2, JoinedIs
  <2>2. N \in 0..N
    BY <1>1
  <2> QED
    BY <2>1, <2>2
<1>4. Upto(t, N) \in {t, Append(t, NL)}
  <2>1. CASE N = 0
    <3>1. t = <<>>
      <4>1. 1 \in Nat \ {0}
        OBVIOUS
      <4>2. n \in Nat
        BY <4>1, LineEndFacts
      <4>3. n = 0 /\ (t = <<>> \/ t[Len(t)] = NL)
        BY <1>1, <2>1, <4>2 DEF CountLines
      <4>4. ASSUME t # <<>> PROVE FALSE
        <5>1. Len(t) \in 1..Len(t)
          BY <4>4, EmptySeq, LenProperties
        <5>2. Len(t) \in Newlines(t)
          BY <4>3, <4>4, <5>1 DEF Newlines
        <5>3. IsFiniteSet(Newlines(t))
          <6>1. Newlines(t) \in SUBSET (1..Len(t)) /\ Len(t) \in Nat
            BY <4>1, LineEndFacts
          <6> QED
            BY <6>1, NumberSet
        <5> QED
          BY <4>3, <5>2, <5>3, FS_EmptySet
      <4> QED
        BY <4>4
    <3> QED
      BY <2>1, <3>1 DEF Upto
  <2>2. CASE N # 0 /\ N > n
    <3>1. ~(N <= n)
      <4>1. 1 \in Nat \ {0}
        OBVIOUS
      <4>2. n \in Nat
        BY <4>1, LineEndFacts
      <4> QED
        BY <1>1, <2>2, <4>2
    <3> QED
      BY <2>2, <3>1, Zenon DEF Upto
  <2>3. CASE N # 0 /\ ~(N > n)
    <3>0. N \in Nat \ {0} /\ n \in Nat /\ Newlines(t) \in SUBSET (1..Len(t)) /\ Len(t) \in Nat
      <4>1. N \in Nat \ {0}
        BY <1>1, <2>3
      <4> QED
        BY <4>1, LineEndFacts
    <3>1. N = n /\ (t = <<>> \/ t[Len(t)] = NL)
      BY <1>1, <2>3, <3>0 DEF CountLines
    <3>2. LineEnd(t, N) \in Newlines(t) /\ Rank(Newlines(t), LineEnd(t, N)) = N
      BY <3>0, <3>1, LineEndFacts
    <3>3. LineEnd(t, N) \in 1..Len(t)
      BY <3>0, <3>2
    <3>4. LineEnd(t, N) = Len(t)
      <4> SUFFICES ASSUME LineEnd(t, N) # Len(t) PROVE FALSE
        OBVIOUS
      <4>1. t # <<>>
        BY <3>3, EmptySeq
      <4>2. Len(t) \in Newlines(t)
        BY <3>0, <3>1, <3>3, <4>1 DEF Newlines
      <4>3. LineEnd(t, N) < Len(t) /\ LineEnd(t, N) \in Int
        BY <3>0, <3>3
      <4>4. Rank(Newlines(t), LineEnd(t, N)) < Rank(Newlines(t), Len(t))
        BY <3>0, <4>2, <4>3, RankGrows
      <4>5. Rank(Newlines(t), Len(t)) \in Nat /\ Rank(Newlines(t), Len(t)) <= n
        BY <3>0, RankBounds
      <4> HIDE DEF N, n
      <4> QED
        BY <3>0, <3>1, <3>2, <4>4, <4>5
    <3>5. Upto(t, N) = SubSeq(t, 1, Len(t))
      <4>1. N # 0 /\ N <= n
        BY <2>3, <3>0, <3>1
      <4> QED
        BY <3>4, <4>1, Zenon DEF Upto
    <3>6. SubSeq(t, 1, Len(t)) = t
      OBVIOUS
    <3> QED
      BY <3>5, <3>6
  <2> QED
    BY <2>1, <2>2, <2>3
<1> QED
  BY <1>3, <1>4 DEF Restores
-----------------------------------------------------------------------------
(* The walk takes every line once, from the last to the first.             *)

\* The steps of the walk that are one of these.
Taken(s, as) == {k \in DOMAIN s : s[k].action \in as}

Old(s) == Taken(s, {" ", "-"})
New(s) == Taken(s, {" ", "+"})

\* The k-th step back through a text of n lines is about this line.
LineOf(n, S, k) == n + 1 - Rank(S, k)

\* The step is about that line of the expected text.
TakesOld(s, k) == s[k].index = LineOf(Len(expLines), Old(s), k)

\* It is about that line of the actual text, or about one that matches it.
TakesNew(s, k) ==
  LET line == LineOf(Len(actLines), New(s), k)
  IN IF s[k].action = "+" THEN s[k].index = line ELSE Equal(s[k].index, line)

\* What is taken are the lines behind r and c, all of them.
Covers(s, r, c) ==
  /\ Cardinality(Old(s)) + r = Len(expLines)
  /\ Cardinality(New(s)) + c = Len(actLines)
  /\ \A k \in Old(s) : TakesOld(s, k)
  /\ \A k \in New(s) : TakesNew(s, k)

\* Step a behind s makes t, of n steps.
Adds(s, a, t, n) == t = Append(s, a) /\ n = Len(s) + 1

TakesMore(s, a, t, n, as) ==
  LET S == Taken(s, as)
      T == Taken(t, as)
  IN /\ T = IF a.action \in as THEN S \cup {n} ELSE S
     /\ Cardinality(S) \in Nat
     /\ a.action \in as => Cardinality(T) = Cardinality(S) + 1
     /\ \A k \in S : Rank(T, k) = Rank(S, k) /\ t[k] = s[k]
     /\ a.action \in as => Rank(T, n) = Cardinality(S) + 1
     /\ t[n] = a

\* What a further step adds to those of its kind.
LEMMA TakenNext ==
  ASSUME NEW s \in Seq(Step), NEW a \in Step, NEW as, NEW t, NEW n, Adds(s, a, t, n)
  PROVE  TakesMore(s, a, t, n, as)
<1> DEFINE S == Taken(s, as)
           T == Taken(t, as)
<1>1. /\ t \in Seq(Step) /\ Len(t) = n /\ Len(s) \in Nat /\ n = Len(s) + 1
      /\ \A k \in 1..Len(s) : t[k] = s[k]
      /\ t[n] = a
  BY AppendProperties, LenProperties DEF Adds
<1>2. DOMAIN s = 1..Len(s) /\ DOMAIN t = 1..n
  BY <1>1, LenProperties
<1>3. S \in SUBSET (1..Len(s))
  BY <1>2 DEF Taken
<1>4. Cardinality(S) \in Nat /\ IsFiniteSet(S)
  BY <1>1, <1>3, NumberSet
<1>5. T = IF a.action \in as THEN S \cup {n} ELSE S
  <2>1. \A k : k \in T <=> k \in 1..n /\ t[k].action \in as
    BY <1>2 DEF Taken
  <2>2. \A k : k \in S <=> k \in 1..Len(s) /\ s[k].action \in as
    BY <1>2 DEF Taken
  <2>3. \A k : k \in 1..n <=> k = n \/ k \in 1..Len(s)
    BY <1>1
  <2> HIDE DEF S, T
  <2>4. \A k : k \in T <=> k \in S \/ (k = n /\ a.action \in as)
    BY <1>1, <2>1, <2>2, <2>3
  <2> QED
    BY <2>4
<1>6. n \notin S
  <2>1. n \notin 1..Len(s)
    BY <1>1
  <2> QED
    BY <1>3, <2>1
<1>7. ASSUME a.action \in as PROVE Cardinality(T) = Cardinality(S) + 1
  <2>1. T = S \cup {n}
    BY <1>5, <1>7
  <2> HIDE DEF S, T
  <2> QED
    BY <1>4, <1>6, <2>1, FS_AddElement
<1>8. ASSUME NEW k \in S PROVE Rank(T, k) = Rank(S, k) /\ t[k] = s[k]
  <2>1. k \in 1..Len(s)
    BY <1>3
  <2>2. ~(n <= k)
    BY <1>1, <2>1
  <2>3. {y \in T : y <= k} = {y \in S : y <= k}
    <3> HIDE DEF S, T
    <3> QED
      BY <1>5, <2>2
  <2> HIDE DEF S, T
  <2> QED
    BY <1>1, <2>1, <2>3 DEF Rank
<1>9. ASSUME a.action \in as PROVE Rank(T, n) = Cardinality(S) + 1
  <2>1. \A y \in S : y <= n
    <3>1. \A y \in 1..Len(s) : y <= n
      BY <1>1
    <3> HIDE DEF S
    <3> QED
      BY <1>3, <3>1
  <2>2. n <= n
    BY <1>1
  <2>3. {y \in T : y <= n} = T
    <3> HIDE DEF S, T
    <3> QED
      BY <1>5, <2>1, <2>2
  <2>4. Cardinality(T) = Cardinality(S) + 1
    BY <1>7, <1>9
  <2> HIDE DEF S, T
  <2> QED
    BY <2>3, <2>4 DEF Rank
<1> HIDE DEF S, T
<1> QED
  BY <1>1, <1>3, <1>4, <1>5, <1>7, <1>8, <1>9 DEF S, T, TakesMore

\* Step a of the walk goes from r, c to u, v.
Goes(a, r, c, u, v) ==
  \/ a.action = " " /\ a.index = r /\ Equal(r, c) /\ u = r - 1 /\ v = c - 1
  \/ a.action = "+" /\ a.index = c /\ u = r /\ v = c - 1
  \/ a.action = "-" /\ a.index = r /\ u = r - 1 /\ v = c

\* It takes the next lines.
LEMMA CoversNext ==
  ASSUME NEW s \in Seq(Step), NEW a \in Step, NEW r \in Nat, NEW c \in Nat, Covers(s, r, c),
         Len(expLines) \in Nat, Len(actLines) \in Nat,
         NEW u, NEW v, Goes(a, r, c, u, v)
  PROVE  Covers(Append(s, a), u, v)
<1> DEFINE t == Append(s, a)
           n == Len(s) + 1
           old == {" ", "-"}
           new == {" ", "+"}
<1> HIDE DEF old, new
<1>0. Adds(s, a, t, n)
  BY DEF Adds
<1> HIDE DEF t, n
<1>1. /\ Old(t) = IF a.action \in old THEN Old(s) \cup {n} ELSE Old(s)
      /\ Cardinality(Old(s)) \in Nat
      /\ a.action \in old => Cardinality(Old(t)) = Cardinality(Old(s)) + 1
      /\ \A k \in Old(s) : Rank(Old(t), k) = Rank(Old(s), k) /\ t[k] = s[k]
      /\ a.action \in old => Rank(Old(t), n) = Cardinality(Old(s)) + 1
      /\ t[n] = a
  <2>1. Old(s) = Taken(s, old) /\ Old(t) = Taken(t, old)
    BY DEF Old, old
  <2>2. TakesMore(s, a, t, n, old)
    BY <1>0, TakenNext
  <2> QED
    BY <2>1, <2>2 DEF TakesMore
<1>2. /\ New(t) = IF a.action \in new THEN New(s) \cup {n} ELSE New(s)
      /\ Cardinality(New(s)) \in Nat
      /\ a.action \in new => Cardinality(New(t)) = Cardinality(New(s)) + 1
      /\ \A k \in New(s) : Rank(New(t), k) = Rank(New(s), k) /\ t[k] = s[k]
      /\ a.action \in new => Rank(New(t), n) = Cardinality(New(s)) + 1
  <2>1. New(s) = Taken(s, new) /\ New(t) = Taken(t, new)
    BY DEF New, new
  <2>2. TakesMore(s, a, t, n, new)
    BY <1>0, TakenNext
  <2> QED
    BY <2>1, <2>2 DEF TakesMore
<1>4. /\ Cardinality(Old(s)) + r = Len(expLines) /\ \A k \in Old(s) : TakesOld(s, k)
      /\ Cardinality(New(s)) + c = Len(actLines) /\ \A k \in New(s) : TakesNew(s, k)
  BY DEF Covers
<1>5. /\ a.action \in old => a.index = r /\ u = r - 1
      /\ ~(a.action \in old) => u = r
      /\ a.action \in new => v = c - 1
      /\ ~(a.action \in new) => v = c
      /\ a.action \in new => IF a.action = "+" THEN a.index = c ELSE Equal(a.index, c)
  BY DEF Goes, old, new
<1>6. Cardinality(Old(t)) + u = Len(expLines)
  <2>1. CASE a.action \in old
    <3>1. Cardinality(Old(t)) = Cardinality(Old(s)) + 1 /\ u = r - 1
      BY <1>1, <1>5, <2>1
    <3>2. Cardinality(Old(s)) \in Nat /\ Cardinality(Old(s)) + r = Len(expLines)
      BY <1>1, <1>4
    <3> QED
      BY <3>1, <3>2
  <2>2. CASE a.action \notin old
    <3>1. Old(t) = Old(s) /\ u = r
      BY <1>1, <1>5, <2>2
    <3> QED
      BY <1>4, <3>1
  <2> QED
    BY <2>1, <2>2
<1>7. Cardinality(New(t)) + v = Len(actLines)
  <2>1. CASE a.action \in new
    <3>1. Cardinality(New(t)) = Cardinality(New(s)) + 1 /\ v = c - 1
      BY <1>2, <1>5, <2>1
    <3>2. Cardinality(New(s)) \in Nat /\ Cardinality(New(s)) + c = Len(actLines)
      BY <1>2, <1>4
    <3> QED
      BY <3>1, <3>2
  <2>2. CASE a.action \notin new
    <3>1. New(t) = New(s) /\ v = c
      BY <1>2, <1>5, <2>2
    <3> QED
      BY <1>4, <3>1
  <2> QED
    BY <2>1, <2>2
<1>8. ASSUME NEW k \in Old(t) PROVE TakesOld(t, k)
  <2>1. CASE k \in Old(s)
    <3>1. TakesOld(s, k) /\ Rank(Old(t), k) = Rank(Old(s), k) /\ t[k] = s[k]
      BY <1>1, <1>4, <2>1
    <3> QED
      BY <3>1 DEF TakesOld, LineOf
  <2>2. CASE k \notin Old(s)
    <3>1. a.action \in old /\ k = n
      BY <1>1, <2>2
    <3>2. Rank(Old(t), k) = Cardinality(Old(s)) + 1 /\ t[k].index = r
      BY <1>1, <1>5, <3>1
    <3>3. r = Len(expLines) + 1 - (Cardinality(Old(s)) + 1)
      <4>1. Cardinality(Old(s)) \in Nat /\ Cardinality(Old(s)) + r = Len(expLines)
        BY <1>1, <1>4
      <4> QED
        BY <4>1
    <3> QED
      BY <3>2, <3>3 DEF TakesOld, LineOf
  <2> QED
    BY <2>1, <2>2
<1>9. ASSUME NEW k \in New(t) PROVE TakesNew(t, k)
  <2>1. CASE k \in New(s)
    <3>1. TakesNew(s, k) /\ Rank(New(t), k) = Rank(New(s), k) /\ t[k] = s[k]
      BY <1>2, <1>4, <2>1
    <3> QED
      BY <3>1 DEF TakesNew, LineOf
  <2>2. CASE k \notin New(s)
    <3>1. a.action \in new /\ k = n
      BY <1>2, <2>2
    <3>2. Rank(New(t), k) = Cardinality(New(s)) + 1 /\ t[k] = a
      BY <1>1, <1>2, <3>1
    <3>3. c = Len(actLines) + 1 - (Cardinality(New(s)) + 1)
      <4>1. Cardinality(New(s)) \in Nat /\ Cardinality(New(s)) + c = Len(actLines)
        BY <1>2, <1>4
      <4> QED
        BY <4>1
    <3>4. LineOf(Len(actLines), New(t), k) = c
      BY <3>2, <3>3 DEF LineOf
    <3> QED
      BY <1>5, <3>1, <3>2, <3>4 DEF TakesNew
  <2> QED
    BY <2>1, <2>2
<1> QED
  BY <1>6, <1>7, <1>8, <1>9 DEF Covers, t

LEMMA CoversNothing ==
  ASSUME SizesInv PROVE Covers(<<>>, Len(expLines), Len(actLines))
<1> DEFINE s == <<>>
<1>1. \A as : Taken(s, as) = {}
  <2>1. DOMAIN s = {}
    BY EmptySeq
  <2> HIDE DEF s
  <2> QED
    BY <2>1 DEF Taken
<1> HIDE DEF s
<1>2. Old(s) = {} /\ New(s) = {}
  BY <1>1 DEF Old, New
<1>3. Cardinality(Old(s)) = 0 /\ Cardinality(New(s)) = 0
  BY <1>2, FS_EmptySet
<1>4. Len(expLines) \in Nat /\ Len(actLines) \in Nat
  BY DEF SizesInv
<1>5. Covers(s, Len(expLines), Len(actLines))
  BY <1>2, <1>3, <1>4 DEF Covers
<1> QED
  BY <1>5 DEF s
\* The lines that are to come are those that the walk has not taken.
WalkedInv ==
  /\ pc = "walk" => Covers(actions, i, j)
  /\ pc \in {"print", "exited"} => Covers(actions, 0, 0)

LEMMA SameCovers ==
  ASSUME UNCHANGED <<expLines, actLines>>, NEW s, NEW r, NEW c, Covers(s, r, c), actions' = s
  PROVE  /\ i' = r /\ j' = c => Covers(actions, i, j)'
         /\ r = 0 /\ c = 0 => Covers(actions, 0, 0)'
<1>1. /\ Cardinality(Old(s)) + r = Len(expLines) /\ Cardinality(New(s)) + c = Len(actLines)
      /\ \A k \in Old(s) : TakesOld(s, k)
      /\ \A k \in New(s) : TakesNew(s, k)
  BY DEF Covers
<1>2. Old(actions)' = Old(s) /\ New(actions)' = New(s)
  BY DEF Old, New, Taken
<1>3. \A k \in Old(s) : TakesOld(actions, k)'
  BY <1>1, <1>2 DEF TakesOld
<1>4. \A k \in New(s) : TakesNew(actions, k)'
  BY <1>1, <1>2 DEF TakesNew, Equal
<1> QED
  BY <1>1, <1>2, <1>3, <1>4 DEF Covers

LEMMA WalkCovers ==
  ASSUME SizesInv, StepsInv, i \in Nat, j \in Nat, Covers(actions, i, j), Walk
  PROVE  Covers(actions, i, j)'
<1>1. /\ actions \in Seq(Step) /\ Len(expLines) \in Nat /\ Len(actLines) \in Nat
      /\ UNCHANGED <<expLines, actLines>>
  BY DEF StepsInv, SizesInv, Walk
<1>2. PICK a \in Step : actions' = Append(actions, a) /\ Goes(a, i, j, i', j')
  <2>1. CASE IsCommon /\ Push(" ", i) /\ i' = i - 1 /\ j' = j - 1
    <3> DEFINE a == [action |-> " ", index |-> i]
    <3>1. a \in Step /\ a.action = " " /\ a.index = i
      BY DEF Step
    <3>2. actions' = Append(actions, a) /\ Equal(i, j)
      BY <2>1 DEF Push, IsCommon
    <3> HIDE DEF a
    <3> QED
      BY <2>1, <3>1, <3>2 DEF Goes
  <2>2. CASE ~IsCommon /\ GoLeft /\ Push("+", j) /\ j' = j - 1 /\ i' = i
    <3> DEFINE a == [action |-> "+", index |-> j]
    <3>1. a \in Step /\ a.action = "+" /\ a.index = j
      BY DEF Step
    <3>2. actions' = Append(actions, a)
      BY <2>2 DEF Push
    <3> HIDE DEF a
    <3> QED
      BY <2>2, <3>1, <3>2 DEF Goes
  <2>3. CASE ~IsCommon /\ ~GoLeft /\ Push("-", i) /\ i' = i - 1 /\ j' = j
    <3> DEFINE a == [action |-> "-", index |-> i]
    <3>1. a \in Step /\ a.action = "-" /\ a.index = i
      BY DEF Step
    <3>2. actions' = Append(actions, a)
      BY <2>3 DEF Push
    <3> HIDE DEF a
    <3> QED
      BY <2>3, <3>1, <3>2 DEF Goes
  <2> QED
    BY <2>1, <2>2, <2>3 DEF Walk
<1>3. Covers(Append(actions, a), i', j')
  BY <1>1, <1>2, CoversNext
<1> QED
  BY <1>1, <1>2, <1>3, SameCovers

LEMMA NextWalked ==
  SizesInv /\ TableInv /\ TypesInv /\ WalkedInv /\ [Next]_vars => WalkedInv'
<1> SUFFICES ASSUME SizesInv, TableInv, TypesInv, WalkedInv, [Next]_vars PROVE WalkedInv'
  OBVIOUS
<1>1. CASE AllocIndices
  <2>1. /\ pc = "indices" /\ pc' = "walk" /\ i' = Len(expLines) /\ j' = Len(actLines)
        /\ UNCHANGED <<expLines, actLines, actions>>
    BY <1>1 DEF AllocIndices
  <2>2. actions' = <<>>
    BY <2>1 DEF TableInv
  <2>3. Covers(actions, i, j)'
    BY <2>1, <2>2, CoversNothing, SameCovers
  <2> QED
    BY <2>1, <2>3 DEF WalkedInv
<1>2. CASE Walk
  <2>1. pc = "walk" /\ pc' = "walk"
    BY <1>2 DEF Walk
  <2>2. Covers(actions, i, j) /\ StepsInv /\ i \in Nat /\ j \in Nat
    BY <2>1 DEF WalkedInv, TypesInv
  <2>3. Covers(actions, i, j)'
    BY <1>2, <2>2, WalkCovers
  <2> QED
    BY <2>1, <2>3 DEF WalkedInv
<1>3. CASE EndWalk \/ PrintLine \/ Exit
  <2>1. /\ pc' \in {"print", "exited"} /\ UNCHANGED <<expLines, actLines, actions>>
        /\ \/ pc = "walk" /\ i = 0 /\ j = 0
           \/ pc = "print"
    BY <1>3 DEF EndWalk, PrintLine, Exit
  <2>2. Covers(actions, 0, 0)
    BY <2>1 DEF WalkedInv
  <2>3. Covers(actions, 0, 0)'
    BY <2>1, <2>2, SameCovers
  <2> QED
    BY <2>1, <2>3 DEF WalkedInv
<1>4. CASE UNCHANGED vars
  <2>1. UNCHANGED <<pc, expLines, actLines, actions, i, j>>
    BY <1>4 DEF vars
  <2>2. pc = "walk" => Covers(actions, i, j)'
    BY <2>1, SameCovers DEF WalkedInv
  <2>3. pc \in {"print", "exited"} => Covers(actions, 0, 0)'
    BY <2>1, SameCovers DEF WalkedInv
  <2> QED
    BY <2>1, <2>2, <2>3 DEF WalkedInv
<1>5. ASSUME Next, ~AllocIndices, ~Walk, ~(EndWalk \/ PrintLine \/ Exit)
      PROVE  pc' \notin {"walk", "print", "exited"}
  BY <1>5 DEF Next, AllocateOther, SplitExpected, SplitActual, AllocTable, TableOverruns,
              FillCell, NextRow, AllocActions
<1> QED
  BY <1>1, <1>2, <1>3, <1>4, <1>5 DEF WalkedInv

-----------------------------------------------------------------------------
(* What is printed are the steps of the walk, from the last to the first.  *)

Shown(a) == [prefix |-> a.action, line |-> Line(a)]

PrintedLine == [prefix : {" ", "+", "-"}, line : Seq(Chars \ {NL})]

PrintInv ==
  /\ pc \notin {"print", "exited"} => printed = <<>>
  /\ pc = "print" => Len(printed) + i = Len(actions)
  /\ pc = "exited" => Len(printed) = Len(actions)
  /\ printed \in Seq(PrintedLine)
  /\ \A k \in 1..Len(printed) : printed[k] = Shown(actions[Len(actions) + 1 - k])

LEMMA ShownType ==
  ASSUME TypesInv, NEW k \in 1..Len(actions) PROVE Shown(actions[k]) \in PrintedLine
<1> DEFINE a == actions[k]
<1>1. a \in Step /\ RightStep(a)
  BY LenProperties, ElementOfSeq DEF TypesInv, StepsInv
<1> HIDE DEF a
<1>2. expLines \in Seq(Seq(Chars \ {NL})) /\ actLines \in Seq(Seq(Chars \ {NL}))
  BY DEF TypesInv, Lines
<1>3. Line(a) \in Seq(Chars \ {NL})
  <2>1. CASE a.action = "+"
    <3>1. a.index \in 1..Len(actLines)
      BY <1>1, <2>1 DEF RightStep
    <3>2. Line(a) = actLines[a.index]
      BY <2>1 DEF Line
    <3> QED
      BY <1>2, <3>1, <3>2, ElementOfSeq
  <2>2. CASE a.action # "+"
    <3>1. a.index \in 1..Len(expLines)
      BY <1>1, <2>2 DEF RightStep
    <3>2. Line(a) = expLines[a.index]
      BY <2>2 DEF Line
    <3> QED
      BY <1>2, <3>1, <3>2, ElementOfSeq
  <2> QED
    BY <2>1, <2>2
<1>4. Shown(a) \in PrintedLine
  BY <1>1, <1>3 DEF Shown, PrintedLine, Step
<1> QED
  BY <1>4 DEF a

\* Nothing is printed.
LEMMA SamePrinted ==
  ASSUME PrintInv, UNCHANGED <<printed, actions, expLines, actLines>>,
         pc' \notin {"print", "exited"} => printed = <<>>,
         pc' = "print" => Len(printed) + i' = Len(actions),
         pc' = "exited" => Len(printed) = Len(actions)
  PROVE  PrintInv'
<1>1. \A a : Shown(a)' = Shown(a)
  BY DEF Shown, Line
<1>2. \A k \in 1..Len(printed) : printed[k] = Shown(actions[Len(actions) + 1 - k])'
  BY DEF PrintInv, Shown, Line
<1> QED
  BY <1>2 DEF PrintInv

LEMMA PrintsNext ==
  ASSUME TypesInv, PrintInv, PrintLine PROVE PrintInv'
<1> DEFINE L == Len(actions)
           n == Len(printed) + 1
           e == Shown(actions[i])
<1>1. /\ pc = "print" /\ pc' = "print" /\ i > 0 /\ i' = i - 1
      /\ printed' = Append(printed, e)
      /\ UNCHANGED <<actions, expLines, actLines>>
  BY DEF PrintLine, Shown
<1>2. i \in Nat /\ L \in Nat /\ Len(printed) \in Nat
  BY LenProperties DEF TypesInv, StepsInv, PrintInv
<1>3. Len(printed) + i = L /\ printed \in Seq(PrintedLine)
  BY <1>1 DEF PrintInv
<1>4. i \in 1..L /\ L + 1 - n = i
  BY <1>1, <1>2, <1>3
<1>5. e \in PrintedLine
  BY <1>4, ShownType
<1> HIDE DEF e
<1>6. /\ printed' \in Seq(PrintedLine) /\ Len(printed') = n
      /\ \A k \in 1..Len(printed) : printed'[k] = printed[k]
      /\ printed'[n] = e
  BY <1>1, <1>3, <1>5, AppendProperties
<1>7. ASSUME NEW k \in 1..n PROVE printed'[k] = Shown(actions[L + 1 - k])
  <2>1. CASE k = n
    BY <1>4, <1>6, <2>1 DEF e
  <2>2. CASE k # n
    <3>1. k \in 1..Len(printed)
      BY <1>2, <2>2
    <3> QED
      BY <1>6, <3>1 DEF PrintInv
  <2> QED
    BY <2>1, <2>2
<1>8. \A k \in 1..Len(printed') : printed'[k] = Shown(actions[Len(actions) + 1 - k])'
  BY <1>1, <1>6, <1>7 DEF Shown, Line
<1>9. Len(printed') + i' = Len(actions')
  BY <1>1, <1>2, <1>3, <1>6
<1> QED
  BY <1>1, <1>6, <1>8, <1>9 DEF PrintInv

LEMMA NextPrinted == TypesInv /\ PrintInv /\ [Next]_vars => PrintInv'
<1> SUFFICES ASSUME TypesInv, PrintInv, [Next]_vars PROVE PrintInv'
  OBVIOUS
<1>1. CASE PrintLine
  BY <1>1, PrintsNext
<1>2. CASE EndWalk
  <2>1. /\ pc = "walk" /\ pc' = "print" /\ i' = Len(actions)
        /\ UNCHANGED <<printed, actions, expLines, actLines>>
    BY <1>2 DEF EndWalk
  <2>2. printed = <<>>
    BY <2>1 DEF PrintInv
  <2>3. Len(printed) + i' = Len(actions)
    <3>1. Len(printed) = 0 /\ Len(actions) \in Nat
      BY <2>2, EmptySeq, LenProperties DEF TypesInv, StepsInv
    <3> QED
      BY <2>1, <3>1
  <2> QED
    BY <2>1, <2>3, SamePrinted
<1>3. CASE Exit
  <2>1. /\ pc = "print" /\ pc' = "exited" /\ i = 0
        /\ UNCHANGED <<printed, actions, expLines, actLines>>
    BY <1>3 DEF Exit
  <2>2. Len(printed) = Len(actions)
    <3>1. Len(printed) \in Nat /\ Len(printed) + i = Len(actions)
      BY <2>1, LenProperties DEF PrintInv
    <3> QED
      BY <2>1, <3>1
  <2> QED
    BY <2>1, <2>2, SamePrinted
<1>4. CASE UNCHANGED vars
  <2>1. UNCHANGED <<pc, i, printed, actions, expLines, actLines>>
    BY <1>4 DEF vars
  <2> QED
    BY <2>1, SamePrinted DEF PrintInv
<1>5. ASSUME Next, ~PrintLine, ~EndWalk, ~Exit PROVE PrintInv'
  <2>1. pc \notin {"print", "exited"} /\ pc' \notin {"print", "exited"} /\ printed' = printed
    BY <1>5 DEF Next, AllocateOther, SplitExpected, SplitActual, AllocTable, TableOverruns,
                FillCell, NextRow, AllocActions, AllocIndices, Walk
  <2>2. printed' = <<>>
    BY <2>1 DEF PrintInv
  <2>3. printed' \in Seq(PrintedLine) /\ Len(printed') = 0 /\ 1..0 = {}
    BY <2>2, EmptySeq
  <2> QED
    BY <2>1, <2>2, <2>3 DEF PrintInv
<1> QED
  BY <1>1, <1>2, <1>3, <1>4, <1>5
-----------------------------------------------------------------------------
(* Read from behind, the k-th of a set is the k-th but for those behind.   *)

Mirror(n, S) == {k \in 1..n : n + 1 - k \in S}

LEMMA MirrorCardinality ==
  ASSUME NEW n \in Nat, NEW S \in SUBSET (1..n)
  PROVE  Cardinality(Mirror(n, S)) = Cardinality(S)
<1> DEFINE M == Mirror(n, S)
           f == [k \in M |-> n + 1 - k]
<1>1. \A k : k \in M <=> k \in 1..n /\ n + 1 - k \in S
  BY DEF Mirror
<1>2. \A k \in M : k \in Int
  BY <1>1
<1>3. f \in [M -> S]
  BY <1>1
<1>4. \A x, y \in M : f[x] = f[y] => x = y
  <2> SUFFICES ASSUME NEW x \in M, NEW y \in M, f[x] = f[y] PROVE x = y
    OBVIOUS
  <2>1. n + 1 - x = n + 1 - y
    OBVIOUS
  <2> QED
    BY <1>2, <2>1
<1>5. ASSUME NEW s \in S PROVE \E x \in M : f[x] = s
  <2>1. n + 1 - s \in 1..n /\ n + 1 - (n + 1 - s) = s
    OBVIOUS
  <2>2. n + 1 - s \in M
    BY <1>1, <2>1
  <2>3. f[n + 1 - s] = s
    BY <2>1, <2>2
  <2> HIDE DEF f, M
  <2> QED
    BY <2>2, <2>3
<1> HIDE DEF f, M
<1>6. f \in Bijection(M, S)
  BY <1>3, <1>4, <1>5 DEF Bijection, Injection, Surjection, IsInjective
<1>7. ExistsBijection(M, S)
  BY <1>6 DEF ExistsBijection
<1>8. IsFiniteSet(M)
  <2>1. M \in SUBSET (1..n)
    BY <1>1
  <2> QED
    BY <2>1, NumberSet
<1> QED
  BY <1>7, <1>8, FS_Bijection DEF M

LEMMA MirrorRank ==
  ASSUME NEW n \in Nat, NEW S \in SUBSET (1..n), NEW k \in Mirror(n, S)
  PROVE  Rank(Mirror(n, S), k) = LineOf(Cardinality(S), S, n + 1 - k)
<1> DEFINE M == Mirror(n, S)
           p == n + 1 - k
           A == {x \in S : x <= p}
           B == {x \in S : x >= p}
<1>0. k \in 1..n /\ p \in S /\ p \in 1..n
  BY DEF Mirror
<1>1. \A x \in S : x \in 1..n
  OBVIOUS
<1>2. {y \in M : y <= k} = Mirror(n, B)
  <2>1. \A y : y \in M <=> y \in 1..n /\ n + 1 - y \in S
    BY DEF Mirror
  <2>2. \A y : y \in Mirror(n, B) <=> y \in 1..n /\ n + 1 - y \in B
    BY DEF Mirror
  <2>3. \A y \in 1..n : y <= k <=> n + 1 - y >= p
    BY <1>0
  <2>4. \A x : x \in B <=> x \in S /\ x >= p
    OBVIOUS
  <2> HIDE DEF M, B, p
  <2>5. \A y : y \in Mirror(n, B) <=> y \in M /\ y <= k
    BY <2>1, <2>2, <2>3, <2>4
  <2> QED
    BY <2>5
<1>3. A \in SUBSET (1..n) /\ B \in SUBSET (1..n)
  OBVIOUS
<1>4. A \cup B = S /\ A \cap B = {p}
  <2>1. \A x : x \in A <=> x \in S /\ x <= p
    OBVIOUS
  <2>2. \A x : x \in B <=> x \in S /\ x >= p
    OBVIOUS
  <2>3. \A x \in S : (x <= p \/ x >= p) /\ (x <= p /\ x >= p <=> x = p)
    BY <1>0, <1>1
  <2>4. p \in S
    BY <1>0
  <2> HIDE DEF A, B, p
  <2>5. \A x : x \in A \cup B <=> x \in S
    BY <2>1, <2>2, <2>3
  <2>6. \A x : x \in A \cap B <=> x = p
    BY <2>1, <2>2, <2>3, <2>4
  <2> QED
    BY <2>5, <2>6
<1>5. Rank(M, k) = Cardinality(Mirror(n, B)) /\ Rank(S, p) = Cardinality(A)
  BY <1>2 DEF Rank
<1> HIDE DEF M, A, B, p
<1>6. Rank(M, k) = Cardinality(B)
  BY <1>3, <1>5, MirrorCardinality
<1>7. /\ IsFiniteSet(A) /\ Cardinality(A) \in Nat
      /\ IsFiniteSet(B) /\ Cardinality(B) \in Nat
  BY <1>3, NumberSet
<1>8. Cardinality(A \cup B) = Cardinality(A) + Cardinality(B) - Cardinality(A \cap B)
  BY <1>7, FS_Union
<1>9. Cardinality(S) = Cardinality(A) + Cardinality(B) - 1
  BY <1>4, <1>8, FS_Singleton
<1>10. Cardinality(B) = Cardinality(S) + 1 - Cardinality(A)
  BY <1>7, <1>9
<1> QED
  BY <1>5, <1>6, <1>10 DEF LineOf, M, p

-----------------------------------------------------------------------------
(* The whole diff.                                                         *)

\* The lines are those of the texts.
LinesInv ==
  /\ pc # "before" => expLines = SplitLines(expected)
  /\ pc \notin {"before", "split actual"} => actLines = SplitLines(actual)

LEMMA NextLines == LinesInv /\ [Next]_vars => LinesInv'
<1> SUFFICES ASSUME LinesInv, [Next]_vars PROVE LinesInv'
  OBVIOUS
<1>1. CASE SplitExpected
  BY <1>1 DEF SplitExpected, LinesInv, textVars
<1>2. CASE SplitActual
  <2>1. /\ pc = "split actual" /\ actLines' = SplitLines(actual)
        /\ UNCHANGED <<expected, actual, expLines>>
    BY <1>2 DEF SplitActual, textVars
  <2> QED
    BY <2>1 DEF LinesInv
<1>3. ASSUME ~SplitExpected, ~SplitActual
      PROVE  /\ UNCHANGED <<expected, actual, expLines, actLines>>
             /\ pc = "before" => pc' = "before"
             /\ pc = "split actual" => pc' = "split actual"
  BY <1>3 DEF Next, vars, textVars, AllocateOther, AllocTable, TableOverruns, FillCell, NextRow,
              AllocActions, AllocIndices, Walk, EndWalk, PrintLine, Exit
<1>4. CASE ~SplitExpected /\ ~SplitActual
  BY <1>3, <1>4 DEF LinesInv
<1> QED
  BY <1>1, <1>2, <1>4

LEMMA ShownFields == \A a : Shown(a).prefix = a.action /\ Shown(a).line = Line(a)
  BY DEF Shown

\* The lines of the diff that begin with one of these are the steps of the walk
\* that are one of these, read from behind.
LEMMA MarkedAreTaken ==
  ASSUME TypesInv, PrintInv, pc = "exited", NEW as
  PROVE  /\ Taken(actions, as) \in SUBSET (1..Len(actions)) /\ Len(actions) \in Nat
         /\ Marked(as) = Mirror(Len(actions), Taken(actions, as))
         /\ \A k \in Marked(as) : printed[k] = Shown(actions[Len(actions) + 1 - k])
<1> DEFINE L == Len(actions)
<1>1. L \in Nat /\ DOMAIN actions = 1..L
  BY LenProperties DEF TypesInv, StepsInv
<1>2. Len(printed) = L /\ DOMAIN printed = 1..L
  BY LenProperties DEF PrintInv
<1>3. \A k \in 1..L : printed[k] = Shown(actions[L + 1 - k])
  BY <1>2 DEF PrintInv
<1>4. \A k \in 1..L : printed[k].prefix = actions[L + 1 - k].action
  <2> HIDE DEF L
  <2> QED
    BY <1>3, ShownFields
<1>5. \A k : k \in Marked(as) <=> k \in 1..L /\ actions[L + 1 - k].action \in as
  BY <1>2, <1>4 DEF Marked
<1>6. \A k \in 1..L : L + 1 - k \in 1..L
  BY <1>1
<1>7. \A k : k \in Taken(actions, as) <=> k \in 1..L /\ actions[k].action \in as
  BY <1>1 DEF Taken
<1> HIDE DEF L
<1>8. \A k : k \in Marked(as) <=> k \in Mirror(L, Taken(actions, as))
  BY <1>5, <1>6, <1>7 DEF Mirror
<1>9. Marked(as) = Mirror(L, Taken(actions, as)) /\ Taken(actions, as) \subseteq 1..L
  BY <1>7, <1>8
<1>10. \A k \in Marked(as) : printed[k] = Shown(actions[L + 1 - k])
  BY <1>3, <1>5
<1> QED
  BY <1>1, <1>9, <1>10 DEF L

LEMMA PrintedIsWhole ==
  ASSUME SizesInv, TypesInv, WalkedInv, PrintInv, LinesInv PROVE DiffIsWhole
<1> SUFFICES ASSUME pc = "exited" PROVE DiffIsWhole
  BY DEF DiffIsWhole
<1> DEFINE L == Len(actions)
           old == Marked({" ", "-"})
           new == Marked({" ", "+"})
<1>1. Restores(expLines, expected) /\ Restores(actLines, actual)
  BY LinesRestoreText DEF LinesInv, SizesInv
<1>2. /\ Old(actions) \in SUBSET (1..L) /\ L \in Nat
      /\ old = Mirror(L, Old(actions))
      /\ \A k \in old : printed[k] = Shown(actions[L + 1 - k])
  BY MarkedAreTaken DEF Old
<1>3. /\ New(actions) \in SUBSET (1..L)
      /\ new = Mirror(L, New(actions))
      /\ \A k \in new : printed[k] = Shown(actions[L + 1 - k])
  BY MarkedAreTaken DEF New
<1>4. /\ Cardinality(Old(actions)) + 0 = Len(expLines)
      /\ Cardinality(New(actions)) + 0 = Len(actLines)
      /\ \A k \in Old(actions) : TakesOld(actions, k)
      /\ \A k \in New(actions) : TakesNew(actions, k)
  BY DEF WalkedInv, Covers
<1>5. Cardinality(Old(actions)) = Len(expLines) /\ Cardinality(New(actions)) = Len(actLines)
  <2>1. Cardinality(Old(actions)) \in Nat /\ Cardinality(New(actions)) \in Nat
    BY <1>2, <1>3, NumberSet
  <2> QED
    BY <1>4, <2>1
<1> HIDE DEF L, old, new
<1>6. Cardinality(old) = Len(expLines) /\ Cardinality(new) = Len(actLines)
  BY <1>2, <1>3, <1>5, MirrorCardinality
<1>7. ASSUME NEW k \in old PROVE printed[k].line = expLines[Rank(old, k)]
  <2> DEFINE a == actions[L + 1 - k]
  <2>1. L + 1 - k \in Old(actions)
    BY <1>2 DEF Mirror
  <2>2. a.action # "+"
    BY <2>1 DEF Old, Taken
  <2>3. a.index = Rank(old, k)
    <3>1. a.index = LineOf(Len(expLines), Old(actions), L + 1 - k)
      BY <1>4, <2>1 DEF TakesOld
    <3>2. Rank(old, k) = LineOf(Len(expLines), Old(actions), L + 1 - k)
      BY <1>2, <1>5, MirrorRank
    <3> QED
      BY <3>1, <3>2
  <2>4. printed[k].line = Line(a)
    <3>1. printed[k] = Shown(a)
      BY <1>2
    <3> HIDE DEF a
    <3> QED
      BY <3>1, ShownFields
  <2> HIDE DEF a
  <2> QED
    BY <2>2, <2>3, <2>4 DEF Line
<1>8. ASSUME NEW k \in new
      PROVE  IF printed[k].prefix = "+" THEN printed[k].line = actLines[Rank(new, k)]
             ELSE LinesMatch(printed[k].line, actLines[Rank(new, k)])
  <2> DEFINE a == actions[L + 1 - k]
             x == Rank(new, k)
  <2>1. L + 1 - k \in New(actions)
    BY <1>3 DEF Mirror
  <2>2. x = LineOf(Len(actLines), New(actions), L + 1 - k)
    BY <1>2, <1>3, <1>5, MirrorRank
  <2>3. IF a.action = "+" THEN a.index = x ELSE Equal(a.index, x)
    BY <1>4, <2>1, <2>2 DEF TakesNew
  <2>4. printed[k].line = Line(a) /\ printed[k].prefix = a.action
    <3>1. printed[k] = Shown(a)
      BY <1>3
    <3> HIDE DEF a
    <3> QED
      BY <3>1, ShownFields
  <2> HIDE DEF a, x
  <2>5. CASE a.action = "+"
    <3>1. a.index = x /\ Line(a) = actLines[a.index]
      BY <2>3, <2>5 DEF Line
    <3> QED
      BY <2>4, <2>5, <3>1 DEF x
  <2>6. CASE a.action # "+"
    <3>1. LinesMatch(expLines[a.index], actLines[x]) /\ Line(a) = expLines[a.index]
      BY <2>3, <2>6 DEF Line, Equal
    <3> QED
      BY <2>4, <2>6, <3>1 DEF x
  <2> QED
    BY <2>5, <2>6
<1> QED
  BY <1>1, <1>6, <1>7, <1>8 DEF DiffIsWhole, old, new

\* The diff can be read back: split_lines loses nothing of a text, the walk takes
\* every line of both texts once and in order, whatever matches what, and what is
\* printed are its steps from the last to the first.
THEOREM Whole == Spec => []DiffIsWhole
<1>1. Init => Inv /\ TableInv /\ TypesInv /\ WalkedInv /\ PrintInv /\ LinesInv
  <2> SUFFICES ASSUME Init PROVE Inv /\ TableInv /\ TypesInv /\ WalkedInv /\ PrintInv /\ LinesInv
    OBVIOUS
  <2>1. pc = "before" /\ printed = <<>>
    BY DEF Init
  <2>2. PrintInv
    <3>1. printed \in Seq(PrintedLine) /\ Len(printed) = 0 /\ 1..0 = {}
      BY <2>1, EmptySeq
    <3> QED
      BY <2>1, <3>1 DEF PrintInv
  <2> QED
    BY <2>1, <2>2, InitInv, InitTypes DEF Init, TableInv, WalkedInv, LinesInv
<1>2. Inv /\ TableInv /\ TypesInv /\ WalkedInv /\ PrintInv /\ LinesInv /\ [Next]_vars
        => (Inv /\ TableInv /\ TypesInv /\ WalkedInv /\ PrintInv /\ LinesInv)'
  BY NextInv, NextTableInv, NextTypes, NextWalked, NextPrinted, NextLines DEF Inv
<1>3. Inv /\ TypesInv /\ WalkedInv /\ PrintInv /\ LinesInv => DiffIsWhole
  BY PrintedIsWhole DEF Inv
<1> QED
  BY <1>1, <1>2, <1>3, PTL DEF Spec
=============================================================================

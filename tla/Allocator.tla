------------------------------ MODULE Allocator ------------------------------
(***************************************************************************)
(* The memory pool (allocator.c): nearly everything jcunit keeps is cut    *)
(* from a few blobs of one size, the first blob that has room being taken. *)
(* Nothing is given back before the end of the process.                    *)
(*                                                                         *)
(* An address is a blob and an offset in it.  What the memory holds is     *)
(* left to the modules that allocate it.                                   *)
(***************************************************************************)
EXTENDS Integers, Sequences

CONSTANTS
  BlobSize,     \* DEFAULT_MEMORY_BLOB_SIZE: capacity of every blob
  Alignment,    \* DEFAULT_MEMORY_BLOB_ALIGNMENT
  ListCapacity  \* DEFAULT_MEMORY_BLOB_CAPACITY: blobs the first list can hold

ASSUME AllocatorAssumption ==
  /\ BlobSize \in Nat
  /\ Alignment \in Nat \ {0}
  /\ ListCapacity \in Nat \ {0}

VARIABLES
  used,      \* bytes used of each blob
  capacity,  \* blobs the list can hold
  blocks     \* history: what was allocated, and where

poolVars == <<used, capacity, blocks>>

\* memory_blob_pool_init
PoolInit == used = <<>> /\ capacity = ListCapacity /\ blocks = <<>>

\* The mask of align_up, for an alignment that is a power of two.
AlignUp(n) == ((n + Alignment - 1) \div Alignment) * Alignment

AnyRoom(b, size) == AlignUp(used[b]) < BlobSize   \* mutant: the size is not looked at

Fits(b, size) == AlignUp(used[b]) + AlignUp(size) <= BlobSize

\* The block is cut from blob b, which may be a new one.
Cut(b, offset, size) ==
  /\ used' = [c \in 1..(IF b > Len(used) THEN b ELSE Len(used)) |->
                IF c = b THEN offset + AlignUp(size) ELSE used[c]]
  /\ blocks' = Append(blocks, [blob |-> b, offset |-> offset, size |-> size])

InOldBlob(b, size) ==
  /\ Fits(b, size)
  /\ \A c \in 1..(b - 1) : ~Fits(c, size)
  /\ Cut(b, AlignUp(used[b]), size)
  /\ UNCHANGED capacity

\* A new blob has the size of all blobs, whatever was asked for.
InNewBlob(size) ==
  /\ \A c \in 1..Len(used) : ~Fits(c, size)
  /\ capacity' = IF Len(used) >= capacity THEN capacity * 2 ELSE capacity
  /\ Cut(Len(used) + 1, 0, size)

\* memory_blob_pool_alloc
Alloc(size) == (\E b \in 1..Len(used) : InOldBlob(b, size)) \/ InNewBlob(size)

\* memory_blob_pool_free
Destroy == used' = <<>> /\ blocks' = <<>> /\ capacity' = capacity
-----------------------------------------------------------------------------
Block == [blob : Nat \ {0}, offset : Nat, size : Nat]

PoolTypeOK ==
  /\ used \in Seq(Nat)
  /\ capacity \in Nat \ {0} /\ Len(used) <= capacity
  /\ blocks \in Seq(Block)

\* A block that no blob can hold.
TooLarge(x) == AlignUp(x.size) > BlobSize

Within(x) == x.offset + x.size <= BlobSize

Apart(x, y) ==
  \/ x.blob # y.blob
  \/ x.offset + x.size <= y.offset
  \/ y.offset + y.size <= x.offset

Aligned(n) == \E m \in 0..n : n = m * Alignment

\* Nobody's memory is anybody else's: any two blocks lie apart, and a block lies
\* within its blob, where it can hold data of any type.  Only a block larger than
\* a blob may leave its blob, as a new blob is not made larger for it; then no
\* other block is in that blob.
BlocksApart ==
  \A k \in DOMAIN blocks :
    /\ Aligned(blocks[k].offset)
    /\ Within(blocks[k]) \/ TooLarge(blocks[k])
    /\ \A l \in DOMAIN blocks \ {k} :
         /\ Apart(blocks[k], blocks[l])
         /\ TooLarge(blocks[k]) => blocks[l].blob # blocks[k].blob
=============================================================================

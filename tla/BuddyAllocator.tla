-------------------------- MODULE BuddyAllocator --------------------------
(***************************************************************************)
(* The kernel's physical page allocator                                    *)
(* (src/src/kernel/BuddyAllocator.cpp): per memory region a free list for  *)
(* each order and a byte per page, page_order, that says how the block     *)
(* starting there is used.  The byte of a page that is swallowed by a      *)
(* merge or handed out inside a larger block is not reset, so page_order   *)
(* is full of stale entries; the properties below say why they are         *)
(* harmless.                                                               *)
(*                                                                         *)
(* malloc and free run under a spinlock with interrupts off: each is one   *)
(* step.  A free list is a set; taking its first block is taking any.      *)
(***************************************************************************)
EXTENDS Integers, FiniteSets, FiniteSetsExt

CONSTANTS
    NumRegions,     \* regions are tried in order 1 .. NumRegions
    TotalPages,     \* MemoryRegion::total_pages of each region
    MetadataPages,  \* pages of each region taken by page_order
    MaxOrder,       \* MAX_ORDER
    PageSize,       \* PAGE_SIZE
    SizeMod,        \* 2^32: the width of size
    Sizes           \* the sizes requested

Region == 1 .. NumRegions

AllocBit == 128
NoEntry == 255

ASSUME BuddyAssumption ==
    \* an order, with or without AllocBit, is a byte other than NoEntry
    /\ NumRegions \in Nat \ {0} /\ MaxOrder \in 0 .. (NoEntry - 1 - AllocBit)
    /\ PageSize \in Nat \ {0} /\ SizeMod \in Nat
    /\ \A r \in Region : /\ TotalPages[r] \in Nat
                         /\ MetadataPages[r] \in 1 .. (TotalPages[r] - 1)
    \* no caller asks for a size whose rounding up to pages overflows
    /\ Sizes \subseteq 0 .. (SizeMod - PageSize)

(* What 1 << order is, for the proofs: they know nothing of powers.        *)
ASSUME PowersOfTwo == 2^0 = 1 /\ \A n \in 0 .. MaxOrder : 2^(n + 1) = 2 * 2^n

VARIABLES
    freeLists,      \* free_lists: region -> order -> first pages of free blocks
    pageOrder,      \* page_order: region -> page -> byte
    freeMemory      \* free_memory

vars == <<freeLists, pageOrder, freeMemory>>

Order == 0 .. MaxOrder
Pages(r) == 0 .. (TotalPages[r] - 1)

-----------------------------------------------------------------------------
(* init carves each region into the largest aligned blocks that fit.  The  *)
(* greedy loop reaches page p exactly when the largest block containing it *)
(* that is aligned and lies within the usable pages starts there.          *)
Fits(r, p, o) == /\ p % 2^o = 0
                 /\ MetadataPages[r] <= p /\ p + 2^o <= TotalPages[r]

BlockStart(p, o) == p - (p % 2^o)

InitOrder(r, p) == Max({o \in Order : Fits(r, BlockStart(p, o), o)})

InitHeads(r, o) == {p \in MetadataPages[r] .. (TotalPages[r] - 1) :
                        InitOrder(r, p) = o /\ p % 2^o = 0}

Init ==
    /\ freeLists = [r \in Region |-> [o \in Order |-> InitHeads(r, o)]]
    /\ pageOrder = [r \in Region |-> [p \in Pages(r) |->
                      IF \E o \in Order : p \in InitHeads(r, o)
                      THEN InitOrder(r, p) ELSE NoEntry]]
    /\ freeMemory = PageSize *
            MapThenSumSet(LAMBDA r : TotalPages[r] - MetadataPages[r], Region)

-----------------------------------------------------------------------------
PagesNeeded(size) == ((size + PageSize - 1) % SizeMod) \div PageSize

OrderFor(size) == Min({o \in 0 .. (MaxOrder + 1) : 2^o >= PagesNeeded(size)} \cup {MaxOrder + 1})

CanServe(r, order) == \E c \in order .. MaxOrder : freeLists[r][c] # {}

(* The block at page of order c is taken and halved down to order, the     *)
(* upper half of every split going to its list and its byte set by         *)
(* pushFreeBlock.                                                          *)

SplitLists(r, order, c, page) ==
    [o \in Order |-> IF o = c THEN freeLists[r][o] \ {page}
                     ELSE IF o \in order .. (c - 1) THEN freeLists[r][o] \cup {page + 2^o}
                     ELSE freeLists[r][o]]

SplitBytes(r, order, c, page) ==
    [p \in Pages(r) |->
        IF p = page THEN order + AllocBit
        ELSE IF \E o \in order .. (c - 1) : p = page + 2^o
             THEN CHOOSE o \in order .. (c - 1) : p = page + 2^o
             ELSE pageOrder[r][p]]

(* malloc: the first region that can serve the order, its smallest         *)
(* sufficient block.  Size 0 and orders nobody can serve return null.      *)
malloc(size) ==
    LET order == OrderFor(size)
    IN /\ size # 0 /\ order <= MaxOrder
       /\ \E r \in Region :
            /\ CanServe(r, order)
            /\ \A q \in 1 .. (r - 1) : ~CanServe(q, order)
            /\ LET c == Min({o \in order .. MaxOrder : freeLists[r][o] # {}})
               IN \E page \in freeLists[r][c] :
                    /\ freeLists' = [freeLists EXCEPT ![r] = SplitLists(r, order, c, page)]
                    /\ pageOrder' = [pageOrder EXCEPT ![r] = SplitBytes(r, order, c, page)]
       /\ freeMemory' = freeMemory - 2^order * PageSize

Buddy(page, order) ==       \* page ^ (1 << order), for an aligned page
    IF page % 2^(order + 1) = 0 THEN page + 2^order ELSE page - 2^order

(* Mutant: a merge does not compare the buddy's order. *)
MergeableAnyOrder(r, page, order) ==
    LET buddy == Buddy(BlockStart(page, order), order)
    IN order < MaxOrder /\ buddy < TotalPages[r] /\ pageOrder[r][buddy] \in Order

(* Mutant: the largest order is never reached. *)
MergeableShort(r, page, order) ==
    LET buddy == Buddy(BlockStart(page, order), order)
    IN order < MaxOrder - 1 /\ buddy < TotalPages[r] /\ pageOrder[r][buddy] = order

(* One turn of the merge loop: the block of this order that page has grown *)
(* into has a buddy whose byte says free and of the same order.            *)
Mergeable(r, page, order) ==
    LET buddy == Buddy(BlockStart(page, order), order)
    IN order < MaxOrder /\ buddy < TotalPages[r] /\ pageOrder[r][buddy] = order

Credit(order, top) == freeMemory + 2^order * PageSize

(* free: a pointer whose page does not start an allocated block is ignored; *)
(* otherwise merge upwards while the buddy is free, unlinking each buddy.  *)
free(r, page) ==
    /\ pageOrder[r][page] # NoEntry
    /\ pageOrder[r][page] >= AllocBit
    /\ LET order == pageOrder[r][page] - AllocBit
           top   == Min({o \in order .. MaxOrder : ~Mergeable(r, page, o)})
           start == BlockStart(page, top)
       IN /\ freeLists' = [freeLists EXCEPT ![r] = [o \in Order |->
                IF o = top THEN freeLists[r][o] \cup {start}
                ELSE IF o \in order .. (top - 1)
                     THEN freeLists[r][o] \ {Buddy(BlockStart(page, o), o)}
                     ELSE freeLists[r][o]]]
          /\ pageOrder' = [pageOrder EXCEPT ![r] =
                [[@ EXCEPT ![page] = order] EXCEPT ![start] = top]]
          /\ freeMemory' = Credit(order, top)

Next == \/ \E size \in Sizes : malloc(size)
        \/ \E r \in Region : \E page \in Pages(r) : free(r, page)

Spec == Init /\ [][Next]_vars

-----------------------------------------------------------------------------
(* Properties *)

(* Blocks as <<first page, order>>. *)
FreeBlocks(r) == UNION {freeLists[r][o] \X {o} : o \in Order}
AllocBlocks(r) == {<<p, pageOrder[r][p] - AllocBit>> :
                      p \in {q \in Pages(r) : pageOrder[r][q] \in AllocBit .. (NoEntry - 1)}}
Covers(b, p) == b[1] <= p /\ p < b[1] + 2^b[2]

(* However blocks are split, merged and left with stale bytes, every       *)
(* usable page of a region is in exactly one block, free or handed out,    *)
(* and the metadata pages are in none: nothing is handed out twice and     *)
(* nothing leaks.                                                          *)
Partition ==
    \A r \in Region : \A p \in Pages(r) :
        Cardinality({b \in FreeBlocks(r) \cup AllocBlocks(r) : Covers(b, p)})
            = IF p < MetadataPages[r] THEN 0 ELSE 1

(* Memory is as unfragmented as it can be: two buddies are never both free. *)
FullyCoalesced ==
    \A r \in Region, o \in 0 .. (MaxOrder - 1) : \A p \in freeLists[r][o] :
        p % 2^(o + 1) = 0 => p + 2^o \notin freeLists[r][o]

(* Blocks handed out, as runs of pages.                                    *)
Owned == UNION {{<<r, b[1], 2^b[2]>> : b \in AllocBlocks(r)} : r \in Region}

(* The buddy allocator implements the page allocator the kernel expects:   *)
(* runs handed out are disjoint, and freeing a pointer returns exactly its *)
(* run; a pointer into the middle of one does nothing.                     *)
PageAlloc == INSTANCE PageAllocator WITH owned <- Owned
PageAllocSpec == PageAlloc!Spec
=============================================================================

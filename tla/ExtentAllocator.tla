-------------------------- MODULE ExtentAllocator --------------------------
(***************************************************************************)
(* The block allocator of TemrixFs                                         *)
(* (programs/include/FileSystem/TemrixFs/TrxFsAllocator.hpp with its       *)
(* FreeSpaceIndex): best fit over free extents, allocation inside block    *)
(* groups, descriptors that list the extents of a file directly and then   *)
(* through three levels of index blocks, and the table of free extents,    *)
(* which grows by allocating from itself.                                  *)
(*                                                                         *)
(* The operators are functions from volumes to volumes.  A volume v is     *)
(*   v.free         the free extents of FreeSpaceIndex                     *)
(*   v.extentCount  table.extentCount, a cached and at times stale count   *)
(*   v.sectors      table.metadataSectors                                  *)
(*   v.metadata     table.metadata, the descriptor of those sectors        *)
(*   v.disk         what is on the disk; index blocks are only there       *)
(*   v.past         every disk there has been since the call began: where  *)
(*                  a crash can leave it                                   *)
(* The two red-black trees of FreeSpaceIndex are the set they order.       *)
(***************************************************************************)
EXTENDS Integers, FiniteSets, SequencesExt

CONSTANTS
    NumBlocks,          \* blocks of the partition handed to the allocator
    GroupSize,          \* TEMRIXFS_BLOCKS_PER_GROUP
    DirectMax,          \* TEMRIXFS_META_DIRECT_EXTENTS
    ExtentsPerBlock,    \* extentsPerBlock()
    LbasPerBlock,       \* lbasPerBlock()
    EntriesPerSector,   \* capacityForSectors(1)
    MaxFree             \* TEMRIXFS_MAX_FREE_EXTENTS

ASSUME ExtentAssumption ==
    /\ {NumBlocks, GroupSize, DirectMax, ExtentsPerBlock, LbasPerBlock, MaxFree} \subseteq Nat \ {0}
    \* an extent is 16 bytes and a sector at least 512: one more sector of the
    \* table always fits into the space its entries stand for
    /\ EntriesPerSector \in Nat /\ EntriesPerSector >= 2

Block == 1 .. NumBlocks
Extent == [start : Nat, count : Nat]
Ext(s, c) == [start |-> s, count |-> c]
Hole == Ext(0, 0)                       \* Extent{0, 0}, the invalid one
BlocksOf(e) == e.start .. (e.start + e.count - 1)
Entries(raw) == FoldLeft(LAMBDA s, e : IF e = Hole THEN s ELSE Append(s, e), <<>>, raw)
NoDescriptor == [direct |-> <<>>, level |-> <<Hole, Hole, Hole>>]

Groups == (NumBlocks + GroupSize - 1) \div GroupSize
GroupOf(lba) == (lba - 1) \div GroupSize
GroupBlocks(g) == {b \in Block : GroupOf(b) = g}

-----------------------------------------------------------------------------
(* FreeSpaceIndex::findBestFit: the smallest extent that is large enough,  *)
(* the leftmost of equal ones; findLargest is the other end of that order. *)
Smaller(e, f) == e.count < f.count \/ (e.count = f.count /\ e.start < f.start)
Smallest(S) == CHOOSE e \in S : \A f \in S \ {e} : Smaller(e, f)
Largest(S) == CHOOSE e \in S : \A f \in S \ {e} : Smaller(f, e)

WithFree(v, F) == [v EXCEPT !.free = F, !.extentCount = Cardinality(F)]
Recount(v) == WithFree(v, v.free)

(* Mutant: the extent the blocks are taken from is left as it was.         *)
TakeFrontOnly(v, e, n) == [got |-> Ext(e.start, n), vol |-> WithFree(v, v.free)]

(* The first n blocks of the free extent e are taken.                      *)
TakeFront(v, e, n) ==
    [got |-> Ext(e.start, n),
     vol |-> WithFree(v, (v.free \ {e}) \cup
                (IF e.count = n THEN {} ELSE {Ext(e.start + n, e.count - n)}))]

Nothing(v) == [got |-> Hole, vol |-> v]
Fitting(v, n) == {e \in v.free : e.count >= n}

allocate(v, n) ==
    IF Fitting(v, n) = {} THEN Nothing(v) ELSE TakeFront(v, Smallest(Fitting(v, n)), n)

allocateBestFit(v, n) ==
    IF Fitting(v, n) # {} THEN allocate(v, n)
    ELSE IF v.free = {} THEN Nothing(v)
    ELSE TakeFront(v, Largest(v.free), Largest(v.free).count)

-----------------------------------------------------------------------------
(* Index blocks are written through to the disk.  An address in one, and   *)
(* l1Lba to l3Lba of a descriptor, is written as the extent of that one    *)
(* block, and Hole is address 0.                                           *)
Put(v, d) == [v EXCEPT !.disk = d, !.past = @ \cup {d}]
WriteIndex(v, blk, raw) == Put(v, [v.disk EXCEPT !.index[blk.start] = raw])

(* A sequence as a tuple: TLC compares an updated function constructor with *)
(* a tuple by the values it had before the update.                         *)
AsTuple(f) == <<>> \o f

ZeroBlock(level) ==
    AsTuple([i \in 1 .. (IF level = 1 THEN ExtentsPerBlock ELSE LbasPerBlock) |-> Hole])

RECURSIVE insertLevel(_, _, _, _), insertBelow(_, _, _, _, _, _)

(* insertLevel: chunk goes into the first hole under the index block blk,  *)
(* which is allocated if there is none.  On failure a block allocated on   *)
(* the way stays allocated.                                                *)
Zeroed(a, level) ==
    IF a.got = Hole THEN a ELSE [a EXCEPT !.vol = WriteIndex(@, a.got, ZeroBlock(level))]

IndexBlock(v, blk, level) ==
    IF blk # Hole THEN [got |-> blk, vol |-> v] ELSE Zeroed(allocate(v, 1), level)

FillHole(at, chunk, raw, holes) ==
    [ok |-> holes # {}, blk |-> at.got,
     vol |-> IF holes = {} THEN at.vol
             ELSE WriteIndex(at.vol, at.got, [raw EXCEPT ![Min(holes)] = chunk])]

InsertInto(at, level, chunk, raw) ==
    IF level > 1 THEN insertBelow(at.vol, at.got, level, chunk, raw, 1)
    ELSE FillHole(at, chunk, raw, {i \in DOMAIN raw : raw[i] = Hole})

InsertIfGot(at, level, chunk) ==
    IF at.got = Hole THEN [ok |-> FALSE, vol |-> at.vol, blk |-> Hole]
    ELSE InsertInto(at, level, chunk, at.vol.disk.index[at.got.start])

insertLevel(v, blk, level, chunk) == InsertIfGot(IndexBlock(v, blk, level), level, chunk)

(* The children are tried in turn; r is what child i made of it.           *)
InsertedBelow(r, b, level, chunk, raw, i) ==
    IF ~r.ok THEN insertBelow(r.vol, b, level, chunk, [raw EXCEPT ![i] = r.blk], i + 1)
    ELSE [ok |-> TRUE, blk |-> b,
          vol |-> IF r.blk = raw[i] THEN r.vol
                  ELSE WriteIndex(r.vol, b, [raw EXCEPT ![i] = r.blk])]

insertBelow(v, b, level, chunk, raw, i) ==
    IF i > Len(raw) THEN [ok |-> FALSE, vol |-> v, blk |-> b]
    ELSE InsertedBelow(insertLevel(v, raw[i], level - 1, chunk), b, level, chunk, raw, i)

(* appendExtentToDescriptor: the direct slots, then each level in turn.    *)
Appended(r, desc, k) == [ok |-> r.ok, vol |-> r.vol, desc |-> [desc EXCEPT !.level[k] = r.blk]]

AppendAt(v, desc, k, chunk) == Appended(insertLevel(v, desc.level[k], k, chunk), desc, k)

appendExtentToDescriptor(v, desc, chunk) ==
    IF Len(desc.direct) < DirectMax
    THEN [ok |-> TRUE, vol |-> v, desc |-> [desc EXCEPT !.direct = Append(@, chunk)]]
    ELSE FoldLeft(LAMBDA r, k : IF r.ok THEN r ELSE AppendAt(r.vol, r.desc, k, chunk),
                  [ok |-> FALSE, vol |-> v, desc |-> desc], <<1, 2, 3>>)

-----------------------------------------------------------------------------
RECURSIVE free(_, _), growDescriptor(_, _, _)

(* growMetadata doubles the table; what a failed growth obtained stays in  *)
(* the descriptor.                                                         *)
Capacity(v) == v.sectors * EntriesPerSector

MetadataGrown(r) == [r.vol EXCEPT !.metadata = r.desc, !.sectors = IF r.ok THEN 2 * @ ELSE @]

growMetadata(v) == MetadataGrown(growDescriptor(v, v.metadata, v.sectors))

AddExtent(v, e) == IF Cardinality(v.free) >= MaxFree THEN v ELSE [v EXCEPT !.free = @ \cup {e}]

(* Mutant: the table is never made larger.                                 *)
InsertInTable(v, e) == AddExtent(v, e)

insertFreeExtent(v, e) ==
    AddExtent(IF v.extentCount >= Capacity(v) THEN growMetadata(v) ELSE v, e)

(* free: the extent is merged with the free ones that touch it.            *)
Touching(v, e) == {f \in v.free : f.start + f.count = e.start \/ f.start = e.start + e.count}

Merged(E) == Ext(Min({e.start : e \in E}), MapThenSumSet(LAMBDA e : e.count, E))

Merge(v, e, near) ==
    IF near = {} THEN insertFreeExtent(v, e)
    ELSE [v EXCEPT !.free = (@ \ near) \cup {Merged(near \cup {e})}]

free(v, e) == IF e.count = 0 THEN v ELSE Recount(Merge(v, e, Touching(v, e)))

(* growDescriptor: as many extents as it takes.                            *)
Failed(v, desc) == [ok |-> FALSE, vol |-> v, desc |-> desc]

GrowOn(r, chunk, n) ==
    IF r.ok THEN growDescriptor(r.vol, r.desc, n - chunk.count)
    ELSE Failed(free(r.vol, chunk), r.desc)

GrowWith(a, desc, n) ==
    IF a.got = Hole THEN Failed(a.vol, desc)
    ELSE GrowOn(appendExtentToDescriptor(a.vol, desc, a.got), a.got, n)

growDescriptor(v, desc, n) ==
    IF n = 0 THEN [ok |-> TRUE, vol |-> v, desc |-> desc]
    ELSE GrowWith(allocateBestFit(v, n), desc, n)

-----------------------------------------------------------------------------
(* findCandidateInRange: the part of each free extent inside the group; the *)
(* smallest that is large enough, else, if parts will do, the largest; of  *)
(* equal ones the leftmost.                                                *)
Candidates(v, g) ==
    LET part(e) == BlocksOf(e) \cap GroupBlocks(g)
    IN  {[node |-> e, start |-> Min(part(e)), count |-> Cardinality(part(e))] :
            e \in {f \in v.free : part(f) # {}}}

LargestPart(C) == CHOOSE c \in C : \A d \in C : d.count < c.count
                                        \/ (d.count = c.count /\ c.start <= d.start)

NoCandidate == [node |-> Hole, start |-> 0, count |-> 0]

Chosen(C, exact, allowPartial) ==
    IF exact # {} THEN Smallest(exact)
    ELSE IF allowPartial /\ C # {} THEN LargestPart(C) ELSE NoCandidate

ChosenOf(C, n, allowPartial) == Chosen(C, {c \in C : c.count >= n}, allowPartial)

findCandidateInRange(v, n, g, allowPartial) == ChosenOf(Candidates(v, g), n, allowPartial)

(* takeFromChosen: the extent is taken out and what is left of it on both  *)
(* sides put back, while extentCount still counts it.                      *)
PutBack(v, e) == IF e.count = 0 THEN v ELSE insertFreeExtent(v, e)
LeftOf(c) == Ext(c.node.start, c.start - c.node.start)
RightOf(c, n) == Ext(c.start + n, c.node.start + c.node.count - c.start - n)

(* Mutant: what is left on the right is not put back.                      *)
TakeDroppingRight(v, c, n) ==
    [got |-> Ext(c.start, n),
     vol |-> Recount(PutBack([v EXCEPT !.free = @ \ {c.node}], LeftOf(c)))]

takeFromChosen(v, c, n) ==
    [got |-> Ext(c.start, n),
     vol |-> Recount(FoldLeft(PutBack, [v EXCEPT !.free = @ \ {c.node}],
                              <<LeftOf(c), RightOf(c, n)>>))]

(* The groups are tried from the preferred one on, around.                 *)
FirstHit(v, n, preferred, allowPartial) ==
    FoldLeft(LAMBDA hit, i : IF hit # NoCandidate THEN hit
                             ELSE findCandidateInRange(v, n, (preferred + i) % Groups, allowPartial),
             NoCandidate, [i \in 1 .. Groups |-> i - 1])

TakeHit(v, n, hit) ==
    IF hit = NoCandidate THEN Nothing(v) ELSE takeFromChosen(v, hit, Min({n, hit.count}))

InFirstGroup(v, n, preferred, allowPartial) ==
    TakeHit(v, n, FirstHit(v, n, preferred, allowPartial))

allocateInGroup(v, n, preferred) == InFirstGroup(v, n, preferred, FALSE)

RECURSIVE growDescriptorInGroups(_, _, _, _)

GrowOnInGroups(r, chunk, n, preferred) ==
    IF r.ok THEN growDescriptorInGroups(r.vol, r.desc, n - chunk.count, preferred)
    ELSE Failed(free(r.vol, chunk), r.desc)

GrowWithInGroups(a, desc, n, preferred) ==
    IF a.got = Hole THEN Failed(a.vol, desc)
    ELSE GrowOnInGroups(appendExtentToDescriptor(a.vol, desc, a.got), a.got, n, preferred)

growDescriptorInGroups(v, desc, n, preferred) ==
    IF n = 0 THEN [ok |-> TRUE, vol |-> v, desc |-> desc]
    ELSE GrowWithInGroups(InFirstGroup(v, n, preferred, TRUE), desc, n, preferred)

-----------------------------------------------------------------------------
(* shrinkDescriptor walks the extents in file order with a budget of       *)
(* blocks to keep; the extent that straddles it is cut, those after it are *)
(* freed, and so is every index block left without an entry.               *)
Walk(v, budget) == [vol |-> v, kept |-> <<>>, budget |-> budget]

KeepExtent(s, e) ==
    LET n == Min({e.count, s.budget})
    IN  [vol |-> free(s.vol, Ext(e.start + n, e.count - n)),
         kept |-> Append(s.kept, IF n = 0 THEN Hole ELSE Ext(e.start, n)),
         budget |-> s.budget - n]

RECURSIVE shrinkLevel(_, _, _, _)

KeptChild(r, kept, blk) ==
    [vol |-> IF r.live THEN r.vol ELSE free(r.vol, blk),
     kept |-> Append(kept, IF r.live THEN blk ELSE Hole), budget |-> r.budget]

KeepChild(s, blk, level) ==
    IF blk = Hole THEN [s EXCEPT !.kept = Append(@, Hole)]
    ELSE KeptChild(shrinkLevel(s.vol, blk, level, s.budget), s.kept, blk)

Shrunk(s, blk, level, raw) ==
    [vol |-> IF s.kept = raw THEN s.vol ELSE WriteIndex(s.vol, blk, s.kept),
     live |-> s.kept # ZeroBlock(level), budget |-> s.budget]

ShrinkEntries(v, level, budget, raw) ==
    FoldLeft(LAMBDA s, e : IF level = 1 THEN KeepExtent(s, e) ELSE KeepChild(s, e, level - 1),
             Walk(v, budget), raw)

ShrinkIndex(v, blk, level, budget, raw) ==
    Shrunk(ShrinkEntries(v, level, budget, raw), blk, level, raw)

shrinkLevel(v, blk, level, budget) ==
    ShrinkIndex(v, blk, level, budget, v.disk.index[blk.start])

(* Mutant: the deepest level is given the budget first.                    *)
ShrinkDeepestFirst(d, desc) ==
    LET s == FoldLeft(LAMBDA w, k : KeepChild(w, desc.level[k], k), Walk(d.vol, d.budget), <<3, 2, 1>>)
    IN  [s EXCEPT !.kept = Reverse(@)]

ShrinkLevels(d, desc) ==
    FoldLeft(LAMBDA s, k : KeepChild(s, desc.level[k], k), Walk(d.vol, d.budget), <<1, 2, 3>>)

Shortened(d, l) == [vol |-> l.vol, desc |-> [direct |-> Entries(d.kept), level |-> l.kept]]
ShortenedBy(d, desc) == Shortened(d, ShrinkLevels(d, desc))

shrinkDescriptor(v, desc, n) == ShortenedBy(FoldLeft(KeepExtent, Walk(v, n), desc.direct), desc)

(* freeDescriptor frees everything and writes no index block.              *)
RECURSIVE freeLevel(_, _, _)

freeLevel(v, blk, level) ==
    LET below == FoldLeft(LAMBDA w, e : IF level = 1 THEN free(w, e) ELSE freeLevel(w, e, level - 1),
                          v, v.disk.index[blk.start])
    IN  IF blk = Hole THEN v ELSE free(below, blk)

freeDescriptor(v, desc) ==
    FoldLeft(LAMBDA w, k : freeLevel(w, desc.level[k], k), FoldLeft(free, v, desc.direct), <<1, 2, 3>>)

-----------------------------------------------------------------------------
(* enumerateDescriptor: the extents in file order; and the index blocks    *)
(* they are found through.                                                 *)
RECURSIVE collectLevel(_, _, _), IndexBelow(_, _, _)

collectLevel(index, blk, level) ==
    IF blk = Hole THEN <<>>
    ELSE IF level = 1 THEN Entries(index[blk.start])
    ELSE FoldLeft(LAMBDA s, c : s \o collectLevel(index, c, level - 1), <<>>, index[blk.start])

enumerateDescriptor(index, desc) ==
    FoldLeft(LAMBDA s, k : s \o collectLevel(index, desc.level[k], k), desc.direct, <<1, 2, 3>>)

IndexBelow(index, blk, level) ==
    IF blk = Hole THEN <<>>
    ELSE IF level = 1 THEN <<blk>>
    ELSE FoldLeft(LAMBDA s, c : s \o IndexBelow(index, c, level - 1), <<blk>>, index[blk.start])

IndexBlocks(index, desc) ==
    FoldLeft(LAMBDA s, k : s \o IndexBelow(index, desc.level[k], k), <<>>, <<1, 2, 3>>)

TotalBlocks(extents) == FoldLeft(LAMBDA n, e : n + e.count, 0, extents)
=============================================================================

------------------------------ MODULE TemrixFs ------------------------------
(***************************************************************************)
(* Files of TemrixFs over its allocator: create, write, truncate and       *)
(* remove as the sequences of disk writes they are, and a crash between    *)
(* any two of them (programs/include/FileSystem/TemrixFs: TreeApi,         *)
(* FileApi, NodeAlloc, DirectoryOps, FileIoInternal, SuperblockInit).      *)
(*                                                                         *)
(* Every request looks its file up on the disk again, so what survives a   *)
(* call in memory is the allocator alone.  The server is one task: calls   *)
(* do not overlap.  A write is one sector, sectors are written in the      *)
(* order the code writes them, and each is there or not after a crash.     *)
(*                                                                         *)
(* Files are the entries of the root directory, whose own header and data  *)
(* lie outside Block; dirAddEntry may find no room for an entry, which is  *)
(* the choice dirFits.  Sizes and offsets are blocks; file contents are    *)
(* left out.  When a remount, after a crash or a clean reboot, finds a     *)
(* block with two owners the model stops: what follows depends on the      *)
(* bytes that overwrite each other.                                        *)
(***************************************************************************)
EXTENDS ExtentAllocator

CONSTANTS
    File,
    MaxExtents,     \* TEMRIXFS_MAX_METADATA_EXTENTS, all that is seen of a file
    MaxLen,         \* bound on the model: the largest size asked for
    MaxCrashes      \* bound on the model: calls cut off in one behaviour

VARIABLES
    alloc,          \* the allocator in memory: free, extentCount, sectors, metadata
    disk,           \* table and entries, dirent and header of each file, index blocks
    shared,         \* the last remount found a block with two owners
    torn,           \* history: index blocks of a growth that failed are on the disk, the
                    \* allocator's state that goes with them is not
    last,           \* how the last call ended: "done", "full", or the call cut off
    crashes         \* calls cut off so far

vars == <<alloc, disk, shared, torn, last, crashes>>

-----------------------------------------------------------------------------
(* formatFresh: one sector of table, everything after it free.             *)
FreshMetadata == [NoDescriptor EXCEPT !.direct = <<Ext(1, 1)>>]
FreshFree == {Ext(2, NumBlocks - 1)}
EmptyHeader == [size |-> 0, data |-> NoDescriptor]

Sorted(F) == [i \in 1 .. Cardinality(F) |->
                CHOOSE e \in F : Cardinality({f \in F : f.start < e.start}) = i - 1]

(* serializeEntries: sector i of the table, in offset order, zero-filled.  *)
Sector(F, i) ==
    AsTuple([k \in 1 .. EntriesPerSector |->
                LET n == (i - 1) * EntriesPerSector + k
                IN  IF n <= Cardinality(F) THEN Sorted(F)[n] ELSE Hole])

Init ==
    /\ alloc = [free |-> FreshFree, extentCount |-> 1, sectors |-> 1, metadata |-> FreshMetadata]
    /\ disk = [table |-> [extentCount |-> 1, sectors |-> 1, metadata |-> FreshMetadata],
               entries |-> <<Sector(FreshFree, 1)>>,
               dirent |-> [f \in File |-> 0],
               header |-> [f \in File |-> EmptyHeader],
               index |-> AsTuple([b \in Block |-> <<>>])]
    /\ shared = FALSE
    /\ torn = FALSE
    /\ last = "done"
    /\ crashes = 0

Volume == [free |-> alloc.free, extentCount |-> alloc.extentCount, sectors |-> alloc.sectors,
           metadata |-> alloc.metadata, disk |-> disk, past |-> {disk}]

-----------------------------------------------------------------------------
(* persistAllocatorState: the table's header, then its sectors in order.   *)
WriteTable(v) == Put(v, [v.disk EXCEPT !.table = [extentCount |-> v.extentCount,
                                                  sectors |-> v.sectors,
                                                  metadata |-> v.metadata]])

WriteEntries(v, i) ==
    Put(v, [v.disk EXCEPT !.entries = IF i > Len(@) THEN Append(@, Sector(v.free, i))
                                      ELSE [@ EXCEPT ![i] = Sector(v.free, i)]])

persistAllocatorState(v) ==
    FoldLeft(WriteEntries, WriteTable(v), [i \in 1 .. v.sectors |-> i])

writeFileHeader(v, f, h) == Put(v, [v.disk EXCEPT !.header[f] = h])
WriteDirent(v, f, lba) == Put(v, [v.disk EXCEPT !.dirent[f] = lba])

(* createRegularFile: header block, header, allocator, directory entry.    *)
createRegularFile(f, dirFits) ==
    LET a == allocateInGroup(Volume, 1, 0)
        node == persistAllocatorState(writeFileHeader(a.vol, f, EmptyHeader))
    IN  IF a.got = Hole THEN Volume
        ELSE IF dirFits THEN WriteDirent(node, f, a.got.start)
        ELSE persistAllocatorState(free(node, a.got))

(* writeFileNode: grow, allocator, data, header.  A growth that fails half- *)
(* way returns with what it obtained and writes neither allocator nor      *)
(* header; ioFile fails on blocks beyond the extents it lists, and the     *)
(* header is not written then.                                             *)
Listed(extents) == SubSeq(extents, 1, Min({Len(extents), MaxExtents}))

descriptorBlockCount(d, desc) == TotalBlocks(Listed(enumerateDescriptor(d.index, desc)))
Blocks(f) == descriptorBlockCount(disk, disk.header[f].data)

Grown(f, n) ==
    IF n <= Blocks(f) THEN [ok |-> TRUE, vol |-> Volume, desc |-> disk.header[f].data]
    ELSE growDescriptorInGroups(Volume, disk.header[f].data, n - Blocks(f), GroupOf(disk.dirent[f]))

ioFile(g, n) == g.ok /\ n <= descriptorBlockCount(g.vol.disk, g.desc)

(* Mutant: the header first, the allocator after it.                       *)
WriteHeaderFirst(f, n) ==
    LET g == Grown(f, n)
        size == IF n > disk.header[f].size THEN n ELSE disk.header[f].size
        v == IF ioFile(g, n) THEN writeFileHeader(g.vol, f, [size |-> size, data |-> g.desc]) ELSE g.vol
    IN  IF g.ok /\ n > Blocks(f) THEN persistAllocatorState(v) ELSE v

(* Mutant: the allocator is not saved.                                     *)
WriteUnsaved(f, n) ==
    LET g == Grown(f, n)
        size == IF n > disk.header[f].size THEN n ELSE disk.header[f].size
    IN  IF ioFile(g, n) THEN writeFileHeader(g.vol, f, [size |-> size, data |-> g.desc]) ELSE g.vol

writeFileNode(f, n) ==
    LET g == Grown(f, n)
        size == IF n > disk.header[f].size THEN n ELSE disk.header[f].size
        v == IF g.ok /\ n > Blocks(f) THEN persistAllocatorState(g.vol) ELSE g.vol
    IN  IF ioFile(g, n) THEN writeFileHeader(v, f, [size |-> size, data |-> g.desc]) ELSE v

(* truncateFileNode: a larger size is only noted.                          *)
truncateFileNode(f, n) ==
    LET s == shrinkDescriptor(Volume, disk.header[f].data, n)
    IN  IF n >= disk.header[f].size
        THEN writeFileHeader(Volume, f, [disk.header[f] EXCEPT !.size = n])
        ELSE writeFileHeader(persistAllocatorState(s.vol), f, [size |-> n, data |-> s.desc])

(* remove: freeFileNode, then the directory entry; a header that no entry  *)
(* names is never read, and goes with it.                                  *)
ClearDirent(v, f) == Put(v, [v.disk EXCEPT !.dirent[f] = 0, !.header[f] = EmptyHeader])

remove(f) ==
    LET v == free(freeDescriptor(Volume, disk.header[f].data), Ext(disk.dirent[f], 1))
    IN  ClearDirent(persistAllocatorState(v), f)

-----------------------------------------------------------------------------
(* bindAllocatorFromDisk, loadEntries: the first extentCount entries of the *)
(* sectors the table's header counts.                                      *)
Stored(d) == LET all == FlattenSeq(d.entries)
             IN  SubSeq(all, 1, Min({d.table.extentCount, MaxFree, Len(all)}))
Loaded(d) == Entries(Stored(d))

bindAllocatorFromDisk(d) ==
    [free |-> ToSet(Loaded(d)), extentCount |-> Len(Loaded(d)),
     sectors |-> d.table.sectors, metadata |-> d.table.metadata]

(* Everything that owns blocks on disk d, with the free extents F and the  *)
(* table's descriptor md: a block is shared if they count more blocks than *)
(* they cover.                                                             *)
Live(d) == {f \in File : d.dirent[f] # 0}

FileOwns(d, f) == <<Ext(d.dirent[f], 1)>> \o IndexBlocks(d.index, d.header[f].data)
                      \o enumerateDescriptor(d.index, d.header[f].data)

TableOwns(d, md) == IndexBlocks(d.index, md) \o enumerateDescriptor(d.index, md)

Covered(extents) == UNION {BlocksOf(extents[i]) : i \in DOMAIN extents}

Owned(d, md) == Covered(TableOwns(d, md)) \cup UNION {Covered(FileOwns(d, f)) : f \in Live(d)}

AnyShared(free_, d, md) ==
    TotalBlocks(free_) + TotalBlocks(TableOwns(d, md))
        + MapThenSumSet(LAMBDA f : TotalBlocks(FileOwns(d, f)), Live(d))
    # Cardinality(Covered(free_) \cup Owned(d, md))

(* A sector of the table that was never written holds any bytes.           *)
Garbage(d) == d.table.sectors > Len(d.entries) /\ d.table.extentCount > Len(d.entries) * EntriesPerSector

Exposed(d) == Garbage(d) \/ AnyShared(Loaded(d), d, d.table.metadata)

(* What an index block holds that nothing refers to is never read.         *)
Settled(d, md) ==
    LET refs == TableOwns(d, md) \o TableOwns(d, d.table.metadata)
        used == Covered(refs) \cup UNION {Covered(FileOwns(d, f)) : f \in Live(d)}
    IN  [d EXCEPT !.index = AsTuple([b \in Block |-> IF b \in used THEN @[b] ELSE <<>>])]

-----------------------------------------------------------------------------
(* A write that returns "full" may have written index blocks; any later    *)
(* call that saves the allocator makes up for it.                          *)
Tears(v, end) == torn \/ (end = "full" /\ v.disk.index # disk.index)
Saves(v) == bindAllocatorFromDisk(v.disk).free = v.free

Return(v, end) ==
    /\ alloc' = [free |-> v.free, extentCount |-> v.extentCount,
                 sectors |-> v.sectors, metadata |-> v.metadata]
    /\ disk' = Settled(v.disk, v.metadata)
    /\ torn' = (Tears(v, end) /\ ~Saves(v))
    /\ last' = end
    /\ UNCHANGED <<shared, crashes>>

Remount(call, d) ==
    /\ alloc' = bindAllocatorFromDisk(d)
    /\ disk' = Settled(d, d.table.metadata)
    /\ shared' = Exposed(d)
    /\ torn' = FALSE
    /\ last' = call

(* A call runs to its end or is cut off after some of its writes.          *)
Call(call, v, ok) ==
    \/ Return(v, IF ok THEN "done" ELSE "full")
    \/ /\ crashes < MaxCrashes
       /\ \E d \in v.past \ {disk} : Remount(call, d)
       /\ crashes' = crashes + 1

Mounted == ~shared
Exists(f) == disk.dirent[f] # 0

Create(f) ==
    /\ Mounted /\ ~Exists(f)
    /\ \E dirFits \in BOOLEAN :
          Call("create", createRegularFile(f, dirFits),
               dirFits /\ allocateInGroup(Volume, 1, 0).got # Hole)

Write(f, n) == Mounted /\ Exists(f) /\ Call("write", writeFileNode(f, n), ioFile(Grown(f, n), n))

Truncate(f, n) == Mounted /\ Exists(f) /\ Call("truncate", truncateFileNode(f, n), TRUE)

Delete(f) == Mounted /\ Exists(f) /\ Call("remove", remove(f), TRUE)

(* The machine is switched off between two calls; nothing is saved then.   *)
Reboot == Mounted /\ Remount("reboot", disk) /\ UNCHANGED crashes

Next ==
    \/ \E f \in File : Create(f) \/ Delete(f)
    \/ \E f \in File, n \in 1 .. MaxLen : Write(f, n)
    \/ \E f \in File, n \in 0 .. MaxLen : Truncate(f, n)
    \/ Reboot
    \/ ~Mounted /\ UNCHANGED vars

Spec == Init /\ [][Next]_vars

-----------------------------------------------------------------------------
(* While the volume is mounted no block is free and owned, owned twice, or *)
(* in two free extents at once: through growth into index blocks, growth   *)
(* that fails half-way, shrinking, coalescing, a table that grows while    *)
(* blocks are taken, and remounts.  Nor does the disk say so: switched off *)
(* between any two calls the volume comes back sound, but for one case.  A *)
(* growth that fails has written its index blocks through and returns      *)
(* without persistAllocatorState; until some call saves it, blocks that a  *)
(* file refers to are free on the disk.  (What a crash inside a call       *)
(* may leave is CrashSafeGrowth's to say.)                                 *)
NoSharedBlock ==
    Mounted => /\ ~AnyShared(Sorted(alloc.free), disk, alloc.metadata)
               /\ ~torn => ~Exposed(disk)

(* Blocks leave the allocator for good only in a write that found no room, *)
(* or in a crash: every other call frees or hands over all it took, the    *)
(* table's own growth included.  (Free extents do not touch, so a volume   *)
(* under twice MaxFree blocks has room for all in FreeSpaceIndex; on a     *)
(* larger one insertFreeExtent drops what it finds no node for.)           *)
Reachable(a, d) == Covered(Sorted(a.free)) \cup Owned(d, a.metadata)

BlocksLostOnlyWhenFull ==
    [][last' = "done" /\ NumBlocks < 2 * MaxFree =>
          Reachable(alloc, disk) \subseteq Reachable(alloc', disk')]_vars

(* A call that succeeded and changed what is free has it on the disk when  *)
(* it returns: a remount finds every free extent, so the extents that      *)
(* insertFreeExtent adds never exceed the sectors of the table.            *)
FreeSpaceIsSaved ==
    [][last' = "done" /\ alloc'.free # alloc.free =>
          bindAllocatorFromDisk(disk').free = alloc'.free]_vars

(* The places for extents of a file in file order, the empty ones too.     *)
RECURSIVE Slots(_, _, _)

Slots(index, blk, level) ==
    IF blk = Hole \/ level = 0 THEN <<blk>>
    ELSE FoldLeft(LAMBDA s, c : s \o Slots(index, c, level - 1), <<>>, index[blk.start])

Gapless(d, f) ==
    LET h == d.header[f].data
        slots == FoldLeft(LAMBDA s, k : s \o Slots(d.index, h.level[k], k), h.direct, <<1, 2, 3>>)
    IN  \A i \in 2 .. Len(slots) : slots[i] # Hole => slots[i - 1] # Hole

(* A call on one file leaves the blocks of the others alone and in order; a *)
(* write extends the file's blocks at the end and a truncation keeps a     *)
(* prefix: no block of contents moves to another offset.  The exception is *)
(* a truncation that a crash cuts off: when it has cut an extent in one    *)
(* index block and not yet freed those of the next level, they move down,  *)
(* and an index block it left without an entry is a gap later writes fill. *)
FileBlocks(d, f) ==
    FoldLeft(LAMBDA s, e : s \o [i \in 1 .. e.count |-> e.start + i - 1], <<>>,
             enumerateDescriptor(d.index, d.header[f].data))

InPlace(old, new) == \A i \in DOMAIN old \cap DOMAIN new : old[i] = new[i]

ContentsStayInPlace ==
    [][\A f \in Live(disk) :
          Mounted' /\ f \in Live(disk') /\ Gapless(disk, f) /\ last' # "truncate"
          => LET old == FileBlocks(disk, f)
                 new == FileBlocks(disk', f)
             IN  /\ InPlace(old, new)
                 /\ Len(new) < Len(old) => disk'.header[f].size < disk.header[f].size]_vars

(* A remount finds a shared block only after a crash while blocks were     *)
(* being freed, or in a call whose writes are spread over several sectors  *)
(* (index blocks, or a table of more than one sector), or when the         *)
(* machine went off with a growth torn.  Creating a file and growing it    *)
(* within its header can be cut off anywhere: the header is written after  *)
(* the allocator's state.                                                  *)
Spread(d) == \/ d.table.sectors > 1
             \/ \E f \in Live(d) : IndexBlocks(d.index, d.header[f].data) # <<>>

CrashSafeGrowth ==
    [][Mounted /\ ~Mounted' =>
          \/ last' \in {"truncate", "remove"}
          \/ last' \in {"create", "write"} /\ (Spread(disk) \/ Spread(disk'))
          \/ last' = "reboot" /\ torn]_vars
=============================================================================

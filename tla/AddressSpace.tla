---------------------------- MODULE AddressSpace ----------------------------
(***************************************************************************)
(* Memory of user tasks: the VMM that records what each task has mapped    *)
(* (src/src/kernel/vmm.cpp), the table of shared regions and the memory    *)
(* system calls (src/src/kernel/Syscall/syscall.cpp), spawn's maps and the *)
(* destruction of a dead task's address space (src/src/kernel/task.cpp).   *)
(*                                                                         *)
(* Physical memory is what PageAllocator promises: runs of frames, freed   *)
(* by their first frame, any other pointer ignored.  A system call runs to *)
(* its end before the next, but it is a sequence of allocations and page   *)
(* table updates with a rollback at every failure: the operators below     *)
(* transform a memory [owned, pt] and the handlers compose them in the     *)
(* order of the code.  Frames that hold page tables are left out.          *)
(*                                                                         *)
(* The kernel takes much on trust: it destroys a region whatever maps it,  *)
(* it unmaps what it is told to, it keeps the caller's flags, and it asks  *)
(* the allocator for the low 32 bits of a size.  All of this is modelled.  *)
(* The history variables at the end of VARIABLES, which no call reads,     *)
(* remember what such calls leave behind, so that the properties can say   *)
(* exactly what is safe from whom.                                         *)
(***************************************************************************)
EXTENDS Integers, FiniteSets, FiniteSetsExt, Sequences, SequencesExt

CONSTANTS
    Task,           \* tasks, each with its own pid
    None,
    NumFrames,      \* physical frames of RAM
    NumAddrs,       \* virtual pages of a task: 1 .. NumAddrs
    KernelData,     \* the page tracked for the kernel's shared data
    Device,         \* any page outside RAM: of a device's BAR, or past the end of memory
    Reserved,       \* RESERVED_MEMORY, in frames
    Width,          \* frames in 4 GB, what a 32-bit size can count
    PerPage,        \* addresses in a page: the array of a region's frames
    MaxMmap,        \* MAX_MMAP_SIZE, in pages
    BarPages,       \* pages of a BAR
    Places,         \* bound on the model: <<first page, pages>> of the requests
    MaxRegions      \* bound on the model: the length of s_shared

ASSUME AddressSpaceAssumption ==
    /\ None \notin Task
    /\ NumFrames \in Nat /\ NumAddrs \in Nat /\ Reserved \in Nat
    /\ MaxMmap \in Nat /\ MaxRegions \in Nat /\ Width \in Nat \ {0} /\ PerPage \in Nat \ {0}
    /\ BarPages \subseteq Nat \ {0} /\ Places \subseteq (1 .. NumAddrs) \X Nat
    /\ KernelData \in 1 .. NumAddrs
    /\ Device \notin 0 .. (NumFrames - 1) /\ None \notin (0 .. (NumFrames - 1)) \cup {Device}

VARIABLES
    owned,      \* runs the allocator has handed out: <<first frame, frames>>
    pt,         \* page table of each task: page -> frame or None
    vmas,       \* m_vmas of each task
    regions,    \* s_shared
    alive,      \* tasks that exist
    (* History *)
    stale,      \* <<task, page>> still mapping a region that has been destroyed
    left,       \* runs that the end of a task has left behind
    careless    \* tasks that have asked what the kernel does not check

vars == <<owned, pt, vmas, regions, alive, stale, left, careless>>

Frame == 0 .. (NumFrames - 1)
Addr == 1 .. NumAddrs
Span(v, n) == v .. (v + n - 1)

(* What a mapping is of, and whether its flags hold VM_MMIO or VM_SHARED:  *)
(* they do for devices and regions, and wherever the caller put them.      *)
Kind == {"private", "mmio", "shared"}
VMA == [start : Addr, len : Nat \ {0}, kind : Kind, kept : BOOLEAN]
Covers(a, vma) == a \in Span(vma.start, vma.len)
IsPrivate(vma) == vma.kind = "private"

EmptyRegion == [used |-> FALSE, owner |-> None, frames |-> <<>>, array |-> None]

-----------------------------------------------------------------------------
(* Memory transformers *)

Memory == [owned |-> owned, pt |-> pt]
Becomes(m) == owned' = m.owned /\ pt' = m.pt

RunFrames(run) == Span(run[1], run[2])
Unowned(own) == Frame \ UNION {RunFrames(run) : run \in own}

Take(m, frames) == [m EXCEPT !.owned = @ \cup {<<f, 1>> : f \in frames}]
TakeRun(m, run) == [m EXCEPT !.owned = @ \cup {run}]
Release(m, frames) == [m EXCEPT !.owned = {run \in @ : run[1] \notin frames}]

MapPages(m, t, v, frames) ==
    [m EXCEPT !.pt[t] = [a \in Addr |-> IF a \in Span(v, Len(frames))
                                        THEN frames[a - v + 1] ELSE @[a]]]

unmapPages(m, t, v, n, freePhys) ==
    LET mapped == {m.pt[t][a] : a \in Span(v, n) \cap Addr} \ {None}
        cleared == [m EXCEPT !.pt[t] = [a \in Addr |-> IF a \in Span(v, n) THEN None ELSE @[a]]]
    IN IF freePhys THEN Release(cleared, mapped) ELSE cleared

(* Mutant: the last page of the other range is not looked at. *)
OverlapsShort(t, v, n) ==
    \E vma \in vmas[t] : v < vma.start + vma.len - 1 /\ v + n > vma.start

Overlaps(t, v, n) ==
    \E vma \in vmas[t] : v < vma.start + vma.len /\ v + n > vma.start

NewVma(v, n, kind, kept) == [start |-> v, len |-> n, kind |-> kind, kept |-> kept]
Track(t, v, n, kind, kept) ==
    vmas' = [vmas EXCEPT ![t] = @ \cup {NewVma(v, n, kind, kept)}]

Untrack(t, v) == vmas' = [vmas EXCEPT ![t] = {vma \in @ : vma.start # v}]

(* The order in which the allocator returns frames is immaterial.          *)
AsSeq(frames) == SetToSeq(frames)
Fill(pages, frames) == CHOOSE f \in Bijection(pages, frames) : TRUE

-----------------------------------------------------------------------------
(* Private memory and devices *)

(* The rollback of allocAt, page by page over those mapped so far.         *)
AllocFailed(m, t, v, n) == unmapPages(m, t, v, n, TRUE)

syscallMmap(t, v, n, kept) ==
    /\ n <= MaxMmap
    /\ ~Overlaps(t, v, n)
    /\ IF Cardinality(Unowned(owned)) >= n
       THEN \E frames \in kSubset(n, Unowned(owned)) :
              /\ Becomes(MapPages(Take(Memory, frames), t, v, AsSeq(frames)))
              /\ Track(t, v, n, "private", kept)
       ELSE LET frames == Unowned(owned)
                m == MapPages(Take(Memory, frames), t, v, AsSeq(frames))
            IN /\ Becomes(AllocFailed(m, t, v, Cardinality(frames)))
               /\ UNCHANGED vmas
    /\ UNCHANGED <<regions, alive>>

syscallMunmap(t, v, n) ==
    /\ Becomes(unmapPages(Memory, t, v, n, TRUE))
    /\ Untrack(t, v)
    /\ UNCHANGED <<regions, alive>>

(* The allocator takes a size of 32 bits and hands out the least power of  *)
(* two of pages that is enough, nothing for a size of zero.                *)
Narrowed(n) == IF n < Width THEN n ELSE n % Width
Rounded(n) == {size \in n .. (2 * n - 1) : \E k \in 0 .. n : size = 2^k}

(* One contiguous run, of which as many frames are mapped as were asked    *)
(* for: from 4 GB on more than it has, whoever owns them and RAM or not.   *)
Following(first, n) ==
    [i \in 1 .. n |-> IF first + i - 1 \in Frame THEN first + i - 1 ELSE Device]

syscallAllocDma(t, v, n, kept) ==
    /\ ~Overlaps(t, v, n)
    /\ \E first \in Frame, size \in Rounded(Narrowed(n)) :
         /\ RunFrames(<<first, size>>) \subseteq Unowned(owned)
         /\ Becomes(MapPages(TakeRun(Memory, <<first, size>>), t, v, Following(first, n)))
    /\ Track(t, v, n, "private", kept)
    /\ UNCHANGED <<regions, alive>>

syscallMapBar(t, v, n) ==
    /\ n \in BarPages
    /\ ~Overlaps(t, v, n)
    /\ Becomes(MapPages(Memory, t, v, [i \in 1 .. n |-> Device]))
    /\ Track(t, v, n, "mmio", TRUE)
    /\ UNCHANGED <<regions, alive>>

syscallUnmapBar(t, v, n) ==
    /\ Becomes(unmapPages(Memory, t, v, n, FALSE))
    /\ Untrack(t, v)
    /\ UNCHANGED <<regions, alive>>

-----------------------------------------------------------------------------
(* Shared regions *)

SharedSlot ==
    IF \E h \in DOMAIN regions : ~regions[h].used
    THEN Min({h \in DOMAIN regions : ~regions[h].used})
    ELSE Len(regions) + 1

SetRegion(h, r) ==
    regions' = IF h > Len(regions) THEN Append(regions, r) ELSE [regions EXCEPT ![h] = r]

(* The free memory is taken as 32 bits.                                    *)
hasMemory(frames) == Cardinality(Unowned(owned)) % Width >= frames + Reserved

(* Mutant: the array of page addresses is not freed. *)
FreeRegionKeepArray(m, r) == Release(m, Range(r.frames))

FreeRegion(m, r) == Release(m, Range(r.frames) \cup {r.array})

ArrayPages(n) == (n + PerPage - 1) \div PerPage

(* The array of addresses is allocated, then the frames, then they are     *)
(* mapped into the owner, then the result is copied out; canWrite is       *)
(* whether that copy succeeds.  A failure undoes the steps before it, but  *)
(* for the entry of s_shared, which stays unused.  An array of several     *)
(* pages may find no block of them, and be rounded up to where too few     *)
(* frames are left.                                                        *)
syscallCreateShared(t, v, n, canWrite) ==
    /\ hasMemory(n + ArrayPages(n))
    /\ SharedSlot <= MaxRegions
    /\ \/ /\ ArrayPages(n) > 1
          /\ SetRegion(SharedSlot, EmptyRegion)
          /\ UNCHANGED <<owned, pt, vmas>>
       \/ \E array \in Frame, size \in Rounded(ArrayPages(n)) :
            LET rest == Unowned(owned) \ RunFrames(<<array, size>>)
            IN /\ RunFrames(<<array, size>>) \subseteq Unowned(owned)
               /\ \E frames \in kSubset(Min({n, Cardinality(rest)}), rest) :
                    LET r == [used |-> TRUE, owner |-> t, frames |-> AsSeq(frames), array |-> array]
                        taken  == Take(TakeRun(Memory, <<array, size>>), frames)
                        mapped == MapPages(taken, t, v, r.frames)
                    IN IF Cardinality(frames) < n \/ Overlaps(t, v, n)
                       THEN /\ Becomes(FreeRegion(taken, r))
                            /\ SetRegion(SharedSlot, EmptyRegion)
                            /\ UNCHANGED vmas
                       ELSE IF ~canWrite
                       THEN /\ Becomes(FreeRegion(unmapPages(mapped, t, v, n, FALSE), r))
                            /\ SetRegion(SharedSlot, EmptyRegion)
                            /\ UNCHANGED vmas
                       ELSE /\ Becomes(mapped)
                            /\ SetRegion(SharedSlot, r)
                            /\ Track(t, v, n, "shared", TRUE)
    /\ UNCHANGED alive

(* Any task that knows the handle may map the region; a failed copy of the *)
(* result unmaps it again.                                                 *)
syscallMapShared(t, v, h, canWrite) ==
    /\ regions[h].used
    /\ ~Overlaps(t, v, Len(regions[h].frames))
    /\ LET mapped == MapPages(Memory, t, v, regions[h].frames)
       IN IF canWrite
          THEN Becomes(mapped) /\ Track(t, v, Len(regions[h].frames), "shared", TRUE)
          ELSE /\ Becomes(unmapPages(mapped, t, v, Len(regions[h].frames), FALSE))
               /\ UNCHANGED vmas
    /\ UNCHANGED <<regions, alive>>

(* Mutant: unmapping frees the frames. *)
syscallUnmapSharedFree(t, v, n) ==
    /\ Becomes(unmapPages(Memory, t, v, n, TRUE))
    /\ Untrack(t, v)
    /\ UNCHANGED <<regions, alive>>

syscallUnmapShared(t, v, n) ==
    /\ Becomes(unmapPages(Memory, t, v, n, FALSE))
    /\ Untrack(t, v)
    /\ UNCHANGED <<regions, alive>>

(* Only the owner may, and whatever still maps the region.                 *)
syscallDestroyShared(t, h) ==
    /\ regions[h].used /\ regions[h].owner = t
    /\ Becomes(FreeRegion(Memory, regions[h]))
    /\ regions' = [regions EXCEPT ![h] = EmptyRegion]
    /\ UNCHANGED <<vmas, alive>>

-----------------------------------------------------------------------------
(* Tasks *)

(* Mutant: shared mappings are freed with the task. *)
DestroyedVmasAll(set) == {vma \in set : vma.kind = "shared" \/ ~vma.kept}

DestroyedVmas(set) == {vma \in set : ~vma.kept}

PagesOf(set) == UNION {Span(vma.start, vma.len) : vma \in set}

(* Task::destroy: destroyAll frees the frames of every mapping but those   *)
(* with VM_MMIO or VM_SHARED in their flags, then the page table goes.     *)
(* Regions the task owns stay.                                             *)
Destroyed(m, t, set) ==
    [Release(m, {m.pt[t][a] : a \in PagesOf(DestroyedVmas(set))} \ {None})
        EXCEPT !.pt[t] = [a \in Addr |-> None]]

Exit(t) ==
    /\ Becomes(Destroyed(Memory, t, vmas[t]))
    /\ vmas' = [vmas EXCEPT ![t] = {}]
    /\ alive' = alive \ {t}
    /\ UNCHANGED regions

KernelVma == NewVma(KernelData, 1, "mmio", TRUE)

(* spawn with the maps <<v1, n1>>, <<v2, n2>>, which validateMaps has found *)
(* disjoint.  createUserShell has mapped the kernel's data page, so a map  *)
(* over it fails, after those before it were made; copies is whether       *)
(* executeCopies, finalizeUser and addTask succeed.  A failure destroys    *)
(* the child.  Of the flags of these maps maskMapFlags lets neither        *)
(* VM_MMIO nor VM_SHARED through.                                          *)
syscallSpawn(child, maps, copies) ==
    LET overlaps(i) == KernelData \in Span(maps[i][1], maps[i][2])
        done   == {i \in DOMAIN maps : \A j \in 1 .. i : ~overlaps(j)}
        pages  == UNION {Span(maps[i][1], maps[i][2]) : i \in done}
        set    == {KernelVma} \cup {NewVma(maps[i][1], maps[i][2], "private", FALSE) : i \in done}
        shell  == MapPages(Memory, child, KernelData, <<Device>>)
    IN /\ maps[1][2] + maps[2][2] <= MaxMmap
       /\ hasMemory(maps[1][2] + maps[2][2])
       /\ \E frames \in kSubset(Cardinality(pages), Unowned(owned)) :
            LET m == [Take(shell, frames) EXCEPT !.pt[child] =
                        [a \in Addr |-> IF a \in pages THEN Fill(pages, frames)[a] ELSE @[a]]]
            IN IF done = DOMAIN maps /\ copies
               THEN /\ Becomes(m)
                    /\ vmas' = [vmas EXCEPT ![child] = set]
                    /\ alive' = alive \cup {child}
               ELSE /\ Becomes(Destroyed(m, child, set))
                    /\ UNCHANGED <<vmas, alive>>
       /\ UNCHANGED regions

-----------------------------------------------------------------------------
(* The calls programs make, and the history of them.  Addresses are page   *)
(* numbers of user space: the unmapping calls also take an unaligned       *)
(* address, and unmapBar one of the kernel's, which are left out.  So are  *)
(* requests for 2^52 pages and more, whose products wrap: createShared     *)
(* then writes past its array, and unmapShared does what a smaller count   *)
(* does.                                                                   *)

InUserSpace(v, n) == Span(v, n) \subseteq Addr
Fits(v, n) == <<v, n>> \in Places /\ InUserSpace(v, n)
Start == {place[1] : place \in Places}
Size == {place[2] : place \in Places} \ {0}

(* Stale pages are so until they are unmapped.                             *)
Remember(new) == stale' = {s \in stale \cup new : pt'[s[1]][s[2]] # None}

Blame(t, fault) == careless' = IF fault THEN careless \cup {t} ELSE careless

Init ==
    \E root \in Task :
        /\ owned = {}
        /\ pt = [t \in Task |-> [a \in Addr |->
                    IF t = root /\ a = KernelData THEN Device ELSE None]]
        /\ vmas = [t \in Task |-> IF t = root THEN {KernelVma} ELSE {}]
        /\ regions = <<>>
        /\ alive = {root}
        /\ stale = {} /\ left = {} /\ careless = {}

MapCall(t) ==
    /\ \E v \in Start, n \in Size :
        /\ Fits(v, n)
        /\ \/ \E kept \in BOOLEAN : syscallMmap(t, v, n, kept)
           \/ syscallMapBar(t, v, n)
           \/ \E canWrite \in BOOLEAN : syscallCreateShared(t, v, n, canWrite)
    /\ UNCHANGED <<stale, left, careless>>

(* Careless is a request of 4 GB or more.                                  *)
DmaCall(t) ==
    /\ \E v \in Start, n \in Size, kept \in BOOLEAN :
        /\ Fits(v, n)
        /\ syscallAllocDma(t, v, n, kept)
        /\ Blame(t, n >= Width)
    /\ UNCHANGED <<stale, left>>

(* Any pages may be given back, by any call.  Careful is to give back one  *)
(* mapping whole, private memory by munmap and nothing else by it; and a   *)
(* call that finds nothing does no harm.                                   *)
Whole(t, v, n, private) ==
    \E vma \in vmas[t] : vma.start = v /\ vma.len = n /\ IsPrivate(vma) = private

Nothing(t, v, n) ==
    \A vma \in vmas[t] : vma.start # v /\ Span(v, n) \cap Span(vma.start, vma.len) = {}

Careful(t, v, n, private) == Whole(t, v, n, private) \/ Nothing(t, v, n)

UnmapCall(t) ==
    /\ \E v \in Start, n \in Size \cup {0} :
        /\ Fits(v, n)
        /\ \/ syscallMunmap(t, v, n) /\ Blame(t, ~Careful(t, v, n, TRUE))
           \/ n > 0 /\ syscallUnmapBar(t, v, n) /\ Blame(t, ~Careful(t, v, n, FALSE))
           \/ syscallUnmapShared(t, v, n) /\ Blame(t, ~Careful(t, v, n, FALSE))
    /\ Remember({})
    /\ UNCHANGED left

(* The pages that map a region when it is destroyed are stale from then on. *)
MappedPages(h) == {s \in Task \X Addr : pt[s[1]][s[2]] \in Range(regions[h].frames)}

RegionCall(t) ==
    /\ \E h \in DOMAIN regions :
        \/ /\ \E v \in Start, canWrite \in BOOLEAN :
                 Fits(v, Len(regions[h].frames)) /\ syscallMapShared(t, v, h, canWrite)
           /\ UNCHANGED stale
        \/ syscallDestroyShared(t, h) /\ Remember(MappedPages(h))
    /\ UNCHANGED <<left, careless>>

(* Pids are never used again: a name can only stand for a new task when    *)
(* no region carries it.                                                   *)
SpawnCall(t) ==
    /\ \E child \in Task \ alive, v1, v2 \in Start, n1, n2 \in Size, copies \in BOOLEAN :
        /\ \A h \in DOMAIN regions : regions[h].owner # child
        /\ Fits(v1, n1) /\ Fits(v2, n2)
        /\ Span(v1, n1) \cap Span(v2, n2) = {}
        /\ syscallSpawn(child, <<<<v1, n1>>, <<v2, n2>>>>, copies)
    /\ UNCHANGED <<stale, left, careless>>

(* What destroyAll skips of a task's own memory is left behind.            *)
Skipped(t) == {vma \in vmas[t] : IsPrivate(vma) /\ vma.kept}

ExitCall(t) ==
    /\ Exit(t)
    /\ left' = left \cup {run \in owned : run[1] \in {pt[t][a] : a \in PagesOf(Skipped(t))}}
    /\ Remember({})
    /\ UNCHANGED careless

Next ==
    \E t \in alive :
        \/ MapCall(t) \/ DmaCall(t) \/ UnmapCall(t) \/ RegionCall(t)
        \/ SpawnCall(t) \/ ExitCall(t)

Spec == Init /\ [][Next]_vars

-----------------------------------------------------------------------------
(* Properties *)

(* The record and the page table agree: a page is mapped exactly when one  *)
(* VMA of the task covers it, so that destruction finds every mapping and  *)
(* the overlap check can be believed.  A careless task spoils its own      *)
(* record only: the others can rely on theirs whatever it does.            *)
TablesMatchVmas ==
    \A t \in Task \ careless :
        /\ \A a \in Addr : pt[t][a] # None <=> \E vma \in vmas[t] : Covers(a, vma)
        /\ \A w, x \in vmas[t] : w # x => Span(w.start, w.len) \cap Span(x.start, x.len) = {}

(* While no task has been careless, a page table maps a frame that has     *)
(* gone back to the allocator only where it mapped a region when the owner *)
(* destroyed that (syscallDestroyShared looks for no mappings).  Nothing   *)
(* else leaves such a page: no rollback, munmap or exit, flags and regions *)
(* mapped by others notwithstanding.  A DMA request of 4 GB and an unmap   *)
(* call for other pages than were mapped can, hence the condition.         *)
NoDanglingMapping ==
    careless = {} =>
        \A t \in Task : \A a \in Addr : pt[t][a] \in Unowned(owned) => <<t, a>> \in stale

(* Memory is shared only through shared regions: while no task has been    *)
(* careless, a frame of a private mapping belongs to no region and is      *)
(* mapped nowhere else, but at stale pages of a region it was part of.     *)
PrivateMemory ==
    careless = {} =>
        \A t \in Task : \A vma \in {w \in vmas[t] : IsPrivate(w)} : \A a \in Span(vma.start, vma.len) :
            /\ \A u \in Task : \A b \in Addr :
                  pt[u][b] = pt[t][a] => <<u, b>> = <<t, a>> \/ <<u, b>> \in stale
            /\ \A h \in DOMAIN regions :
                  pt[t][a] \notin Range(regions[h].frames) \cup {regions[h].array}

(* While no task has been careless, every run handed out starts at a frame *)
(* of a private mapping of a living task, or belongs to a region in use,   *)
(* rollbacks and exits included.  The exception is what a task mapped with *)
(* VM_MMIO or VM_SHARED among its own flags and had not unmapped when it   *)
(* ended: destroyAll skips it, and nothing ever gives it back.  (Nor does  *)
(* anything give back a region whose owner has ended: it stays in use.)    *)
NoFrameLost ==
    careless = {} =>
        /\ left \subseteq owned
        /\ \A run \in owned \ left :
              \/ \E t \in alive : \E vma \in vmas[t] : IsPrivate(vma) /\ run[1] \in
                    {pt[t][a] : a \in Span(vma.start, vma.len)}
              \/ \E h \in DOMAIN regions : regions[h].used /\
                    run[1] \in Range(regions[h].frames) \cup {regions[h].array}

=============================================================================

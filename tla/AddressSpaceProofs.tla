------------------------ MODULE AddressSpaceProofs -------------------------
(***************************************************************************)
(* Proofs about AddressSpace, for any number of tasks, frames, pages and   *)
(* regions.                                                                *)
(*                                                                         *)
(* That a task's record matches its page table needs nothing but the       *)
(* task's own care: Base says so, and every call of every task keeps it.   *)
(* The other three properties hold only together, and only while nobody    *)
(* has been careless: a page table cannot dangle because every page is     *)
(* backed, which survives the release of another mapping because private   *)
(* frames are mapped once.  Inv is their conjunction with what backs each  *)
(* kind of mapping.  Both are stated of a memory given by its parts, not   *)
(* of the variables, so that a system call that does several things can be *)
(* followed through the memories in between.                               *)
(***************************************************************************)
EXTENDS AddressSpace, TLAPS, FiniteSetTheorems

Entry == Frame \cup {Device, None}
Extent(w) == Span(w.start, w.len)
Mapping == {w \in VMA : Extent(w) \subseteq Addr /\ (IsPrivate(w) \/ w.kept)}
Region == [used : BOOLEAN, owner : Task \cup {None}, frames : Seq(Frame), array : Frame \cup {None}]

Types(p, vm, rg, al, ca) ==
    /\ p \in [Task -> [Addr -> Entry]]
    /\ vm \in [Task -> SUBSET Mapping]
    /\ rg \in Seq(Region) /\ \A h \in DOMAIN rg : rg[h].used => rg[h].frames # <<>>
    /\ al \subseteq Task /\ ca \subseteq Task

(* A page is mapped exactly when a VMA covers it, and then one does.       *)
Matches(row, set) ==
    /\ \A w, x \in set : \A a \in Addr : a \in Extent(w) /\ a \in Extent(x) => w = x
    /\ \A a \in Addr : row[a] # None <=> \E w \in set : a \in Extent(w)
Tables(p, vm, ca) == \A t \in Task \ ca : Matches(p[t], vm[t])

Gone(p, vm, al) == \A t \in Task \ al : vm[t] = {} /\ \A a \in Addr : p[t][a] = None

(* What holds whatever tasks have done.                                    *)
Base(p, vm, rg, al, ca) == Types(p, vm, rg, al, ca) /\ Tables(p, vm, ca) /\ Gone(p, vm, al)

(* What the allocator has handed out are disjoint runs of frames.          *)
IsRun(r) == r = <<r[1], r[2]>> /\ r[1] \in RunFrames(r) /\ RunFrames(r) \subseteq Frame
Disjoint(R) == \A r, s \in R : RunFrames(r) \cap RunFrames(s) # {} => r = s
Runs(ow) == (\A r \in ow : IsRun(r)) /\ Disjoint(ow)

(* A region in use owns its frames and the array of their addresses; what  *)
(* is not in use is empty.                                                 *)
RegionFrames(r) == Range(r.frames) \cup {r.array}
Owns(ow, r) ==
    /\ r.array \notin Range(r.frames)
    /\ \A f \in RegionFrames(r) : \E x \in ow : x[1] = f

Regions(ow, rg) ==
    /\ \A h \in DOMAIN rg : IF rg[h].used THEN Owns(ow, rg[h]) ELSE rg[h] = EmptyRegion
    /\ \A h, k \in DOMAIN rg :
          rg[h].used /\ h # k => RegionFrames(rg[h]) \cap RegionFrames(rg[k]) = {}

(* What backs a page: a private one lies in a run that starts at a page of *)
(* the same mapping, a shared one in a region in use unless it is stale.   *)
BackedBy(ow, rg, st, p, t, w) ==
    \A a \in Extent(w) :
        /\ IsPrivate(w) => \E r \in ow : \E b \in Extent(w) :
              r[1] = p[t][b] /\ p[t][a] \in RunFrames(r)
        /\ w.kind = "mmio" => p[t][a] = Device
        /\ w.kind = "shared" =>
              <<t, a>> \in st \/ \E h \in DOMAIN rg : rg[h].used /\ p[t][a] \in Range(rg[h].frames)
Backed(ow, p, vm, rg, st) == \A t \in Task : \A w \in vm[t] : BackedBy(ow, rg, st, p, t, w)

(* Stale pages belong to mappings of regions.                              *)
Stale(vm, st) ==
    \A s \in st : s \in Task \X Addr /\ \E w \in vm[s[1]] : w.kind = "shared" /\ s[2] \in Extent(w)

(* A private page's frame is mapped nowhere else, but at stale pages, and  *)
(* belongs to no region.                                                   *)
ApartAt(p, rg, st, t, a) ==
    /\ \A u \in Task : \A b \in Addr : p[u][b] = p[t][a] => (u = t /\ b = a) \/ <<u, b>> \in st
    /\ \A h \in DOMAIN rg : p[t][a] \notin RegionFrames(rg[h])
Apart(p, vm, rg, st) ==
    \A t \in Task : \A w \in vm[t] : IsPrivate(w) => \A a \in Extent(w) : ApartAt(p, rg, st, t, a)

(* Every run can still be freed, or is one that was left behind; what was  *)
(* left behind nobody has.                                                 *)
Starts(p, vm, r) == \E t \in Task : \E w \in vm[t] : IsPrivate(w) /\ \E a \in Extent(w) : r[1] = p[t][a]
InRegion(rg, r) == \E h \in DOMAIN rg : rg[h].used /\ r[1] \in RegionFrames(rg[h])
Reachable(ow, p, vm, rg, lf) == \A r \in ow \ lf : Starts(p, vm, r) \/ InRegion(rg, r)
Left(ow, p, vm, rg, lf) == \A r \in lf : r \in ow /\ ~Starts(p, vm, r) /\ ~InRegion(rg, r)

Inv(ow, p, vm, rg, al, st, lf) ==
    /\ Base(p, vm, rg, al, {})
    /\ Runs(ow) /\ Regions(ow, rg)
    /\ Backed(ow, p, vm, rg, st) /\ Stale(vm, st) /\ Apart(p, vm, rg, st)
    /\ Reachable(ow, p, vm, rg, lf) /\ Left(ow, p, vm, rg, lf)

Sound(ow, p, vm, rg, al, st, lf, ca) ==
    /\ Base(p, vm, rg, al, ca)
    /\ ca = {} => Inv(ow, p, vm, rg, al, st, lf)

IInv == Sound(owned, pt, vmas, regions, alive, stale, left, careless)

-----------------------------------------------------------------------------
(* The operators the calls are built from.                                 *)

(* Frames are neither the device's nor None, and there are finitely many.  *)
LEMMA FrameFacts ==
    /\ None \notin Frame /\ Device \notin Frame /\ None # Device
    /\ Frame \subseteq Nat /\ Addr \subseteq Nat
    /\ IsFiniteSet(Frame) /\ IsFiniteSet(Addr)
BY AddressSpaceAssumption, FS_Interval DEF Frame, Addr

(* AsSeq enumerates its argument.                                          *)
LEMMA AsSeqIs ==
    ASSUME NEW F \in SUBSET Frame
    PROVE  /\ Cardinality(F) \in Nat
           /\ AsSeq(F) \in [1 .. Cardinality(F) -> F]
           /\ AsSeq(F) \in Seq(Frame) /\ Len(AsSeq(F)) = Cardinality(F)
           /\ \A i, j \in 1 .. Cardinality(F) : AsSeq(F)[i] = AsSeq(F)[j] => i = j
           /\ \A f \in F : \E i \in 1 .. Cardinality(F) : AsSeq(F)[i] = f
           /\ Range(AsSeq(F)) = F
<1> DEFINE n == Cardinality(F)
<1>1. IsFiniteSet(F) /\ n \in Nat /\ ExistsBijection(1 .. n, F)
  BY FrameFacts, FS_Subset, FS_CardinalityType
<1>2. PICK g \in [1 .. n -> F] : IsInjective(g)
  BY <1>1 DEF ExistsBijection, Bijection, Injection
<1>3. AsSeq(F) \in [1 .. n -> F] /\ IsInjective(AsSeq(F))
  BY <1>2 DEF AsSeq, SetToSeq
<1>4. AsSeq(F) \in Injection(1 .. n, F)
  BY <1>3 DEF Injection
<1>5. IsFiniteSet(1 .. n) /\ Cardinality(1 .. n) = n
  BY <1>1, FS_Interval
<1>6. AsSeq(F) \in Surjection(1 .. n, F)
  BY <1>1, <1>4, <1>5, FS_Injection
<1>7. \A f \in F : \E i \in 1 .. n : AsSeq(F)[i] = f
  BY <1>6 DEF Surjection
<1>8. \A i, j \in 1 .. n : AsSeq(F)[i] = AsSeq(F)[j] => i = j
  BY <1>3 DEF IsInjective
<1>9. AsSeq(F) \in Seq(Frame) /\ Len(AsSeq(F)) = n
  BY <1>1, <1>3
<1>10. Range(AsSeq(F)) = F
  BY <1>3, <1>7 DEF Range
<1> QED
  BY <1>1, <1>3, <1>7, <1>8, <1>9, <1>10

(* Fill gives every page a frame, and every frame to one page.             *)
LEMMA FillIs ==
    ASSUME NEW P \in SUBSET Addr, NEW F \in SUBSET Frame, Cardinality(P) = Cardinality(F)
    PROVE  /\ Fill(P, F) \in [P -> F]
           /\ \A a, b \in P : Fill(P, F)[a] = Fill(P, F)[b] => a = b
           /\ \A f \in F : \E a \in P : Fill(P, F)[a] = f
<1>1. IsFiniteSet(P) /\ IsFiniteSet(F)
  BY FrameFacts, FS_Subset
<1>2. Bijection(P, F) # {}
  BY <1>1, FS_SameCardinalityBij DEF ExistsBijection
<1>3. Fill(P, F) \in Bijection(P, F)
  BY <1>2 DEF Fill
<1> QED
  BY <1>3 DEF Bijection, Injection, Surjection, IsInjective

-----------------------------------------------------------------------------
(* What every call does to a memory, in terms of pages.                    *)

Onto(p, t, P, f) == [p EXCEPT ![t] = [a \in Addr |-> IF a \in P THEN f[a] ELSE p[t][a]]]
Off(p, t, P) == [p EXCEPT ![t] = [a \in Addr |-> IF a \in P THEN None ELSE p[t][a]]]
With(vm, t, w) == [vm EXCEPT ![t] = @ \cup {w}]
Without(vm, t, D) == [vm EXCEPT ![t] = @ \ D]
Extents(D) == UNION {Extent(w) : w \in D}
Vacant(vm, t, P) == \A x \in vm[t] : Extent(x) \cap P = {}

(* What unmapping does to each page.                                       *)
LEMMA OffIs ==
    ASSUME NEW p \in [Task -> [Addr -> Entry]], NEW t \in Task, NEW P
    PROVE  /\ Off(p, t, P) \in [Task -> [Addr -> Entry]]
           /\ \A u \in Task \ {t} : Off(p, t, P)[u] = p[u]
           /\ \A a \in Addr : Off(p, t, P)[t][a] = IF a \in P THEN None ELSE p[t][a]
BY DEF Off, Entry

(* A mapping over free pages keeps record and page table together.         *)
LEMMA BaseMap ==
    ASSUME NEW p, NEW vm, NEW rg, NEW al, NEW ca, Base(p, vm, rg, al, ca),
           NEW t \in al, NEW w \in Mapping, Vacant(vm, t, Extent(w)),
           NEW f \in [Extent(w) -> Frame \cup {Device}]
    PROVE  Base(Onto(p, t, Extent(w), f), With(vm, t, w), rg, al, ca)
<1> DEFINE q == Onto(p, t, Extent(w), f)
           m == With(vm, t, w)
<1>1. t \in Task /\ Extent(w) \in SUBSET Addr /\ \A a \in Extent(w) : f[a] \in Entry /\ f[a] # None
  BY FrameFacts DEF Base, Types, Mapping, Entry
<1>0. p \in [Task -> [Addr -> Entry]]
  BY DEF Base, Types
<1>2. /\ q \in [Task -> [Addr -> Entry]]
      /\ \A u \in Task \ {t} : q[u] = p[u]
      /\ \A a \in Addr : q[t][a] = IF a \in Extent(w) THEN f[a] ELSE p[t][a]
  BY <1>0, <1>1 DEF Onto
<1>3. /\ m \in [Task -> SUBSET Mapping]
      /\ m[t] = vm[t] \cup {w} /\ \A u \in Task \ {t} : m[u] = vm[u]
  BY <1>1 DEF Base, Types, With
<1> HIDE DEF q, m
<1>4. Types(q, m, rg, al, ca)
  BY <1>2, <1>3 DEF Base, Types
<1>5. Gone(q, m, al)
  BY <1>2, <1>3 DEF Base, Gone
<1>6. ASSUME t \notin ca PROVE Matches(q[t], m[t])
  <2>1. Matches(p[t], vm[t])
    BY <1>1, <1>6 DEF Base, Tables
  <2> QED
    BY <1>1, <1>2, <1>3, <2>1 DEF Matches, Vacant
<1>7. Tables(q, m, ca)
  BY <1>2, <1>3, <1>6 DEF Base, Tables
<1> QED
  BY <1>4, <1>5, <1>7 DEF Base, q, m

(* So does giving up mappings with their pages.                            *)
LEMMA BaseDrop ==
    ASSUME NEW p, NEW vm, NEW rg, NEW al, NEW ca, Base(p, vm, rg, al, ca),
           NEW t \in Task, NEW D \in SUBSET vm[t]
    PROVE  Base(Off(p, t, Extents(D)), Without(vm, t, D), rg, al, ca)
<1> DEFINE q == Off(p, t, Extents(D))
           m == Without(vm, t, D)
<1>1. /\ q \in [Task -> [Addr -> Entry]]
      /\ \A u \in Task \ {t} : q[u] = p[u]
      /\ \A a \in Addr : q[t][a] = IF a \in Extents(D) THEN None ELSE p[t][a]
  BY OffIs DEF Base, Types
<1>2. /\ m \in [Task -> SUBSET Mapping]
      /\ m[t] = vm[t] \ D /\ \A u \in Task \ {t} : m[u] = vm[u]
  BY DEF Base, Types, Without
<1> HIDE DEF q, m
<1>3. Types(q, m, rg, al, ca) /\ Gone(q, m, al)
  BY <1>1, <1>2 DEF Base, Types, Gone
<1>4. ASSUME t \notin ca PROVE Matches(q[t], m[t])
  <2>1. Matches(p[t], vm[t])
    BY <1>4 DEF Base, Tables
  <2>2. \A a \in Addr : a \in Extents(D) <=> \E w \in D : a \in Extent(w)
    BY DEF Extents
  <2> QED
    BY <1>1, <1>2, <2>1, <2>2 DEF Matches
<1>5. Tables(q, m, ca)
  BY <1>1, <1>2, <1>4 DEF Base, Tables
<1> QED
  BY <1>3, <1>5 DEF Base, q, m

(* Unmapping pages no VMA covers is harmless, and does nothing to a task   *)
(* that has been careful.                                                  *)
LEMMA BaseOff ==
    ASSUME NEW p, NEW vm, NEW rg, NEW al, NEW ca, Base(p, vm, rg, al, ca),
           NEW t \in Task, NEW P, Vacant(vm, t, P)
    PROVE  /\ Base(Off(p, t, P), vm, rg, al, ca)
           /\ t \notin ca => Off(p, t, P) = p
<1>1. p \in [Task -> [Addr -> Entry]]
  BY DEF Base, Types
<1>2. ASSUME t \notin ca PROVE Off(p, t, P) = p
  <2>1. \A a \in Addr : a \in P => p[t][a] = None
    BY <1>2 DEF Base, Tables, Matches, Vacant
  <2>2. [a \in Addr |-> IF a \in P THEN None ELSE p[t][a]] = p[t]
    BY <1>1, <2>1
  <2> QED
    BY <1>1, <2>2 DEF Off
<1>3. /\ Off(p, t, P) \in [Task -> [Addr -> Entry]]
      /\ \A u \in Task \ {t} : Off(p, t, P)[u] = p[u]
      /\ \A a \in Addr : Off(p, t, P)[t][a] = IF a \in P THEN None ELSE p[t][a]
  BY <1>1, OffIs
<1>4. Types(Off(p, t, P), vm, rg, al, ca) /\ Gone(Off(p, t, P), vm, al)
  BY <1>3 DEF Base, Types, Gone
<1>5. Tables(Off(p, t, P), vm, ca)
  BY <1>2, <1>3 DEF Base, Tables
<1> QED
  BY <1>2, <1>4, <1>5 DEF Base

(* What a private page is.                                                 *)
PrivatePages(ow, p, vm, st) ==
    \A t \in Task : \A w \in vm[t] : IsPrivate(w) => \A a \in Extent(w) :
        /\ a \in Addr /\ p[t][a] \in Frame /\ p[t][a] \notin Unowned(ow)
        /\ <<t, a>> \notin st

LEMMA PrivatePage ==
    ASSUME NEW ow, NEW p, NEW vm, NEW rg, NEW al, NEW st, NEW lf, Inv(ow, p, vm, rg, al, st, lf)
    PROVE  PrivatePages(ow, p, vm, st)
<1> SUFFICES ASSUME NEW t \in Task, NEW w \in vm[t], IsPrivate(w), NEW a \in Extent(w)
             PROVE  /\ a \in Addr /\ p[t][a] \in Frame /\ p[t][a] \notin Unowned(ow)
                    /\ <<t, a>> \notin st
  BY DEF PrivatePages
<1>1. a \in Addr
  BY DEF Inv, Base, Types, Mapping
<1>2. PICK r \in ow : p[t][a] \in RunFrames(r)
  BY DEF Inv, Backed, BackedBy
<1>3. p[t][a] \in Frame /\ p[t][a] \notin Unowned(ow)
  BY <1>2 DEF Inv, Runs, IsRun, Unowned
<1>4. <<t, a>> \notin st
  <2> SUFFICES ASSUME NEW y \in vm[t], y.kind = "shared", a \in Extent(y) PROVE FALSE
    BY DEF Inv, Stale
  <2>1. y = w
    BY <1>1 DEF Inv, Base, Tables, Matches
  <2> QED
    BY <2>1 DEF IsPrivate
<1> QED
  BY <1>1, <1>3, <1>4

(* No two private pages map the same frame.                                *)
MappedOnce(p, vm) ==
    \A t, u \in Task : \A w \in vm[t] : \A x \in vm[u] : IsPrivate(w) /\ IsPrivate(x) =>
        \A a \in Extent(w) : \A b \in Extent(x) :
            p[u][b] = p[t][a] => u = t /\ b = a /\ x = w

LEMMA PrivateOnce ==
    ASSUME NEW ow, NEW p, NEW vm, NEW rg, NEW al, NEW st, NEW lf, Inv(ow, p, vm, rg, al, st, lf)
    PROVE  MappedOnce(p, vm)
<1> SUFFICES ASSUME NEW t \in Task, NEW w \in vm[t], IsPrivate(w), NEW a \in Extent(w),
                    NEW u \in Task, NEW x \in vm[u], IsPrivate(x), NEW b \in Extent(x),
                    p[u][b] = p[t][a]
             PROVE  u = t /\ b = a /\ x = w
  BY DEF MappedOnce
<1>0. PrivatePages(ow, p, vm, st)
  BY PrivatePage
<1>1. a \in Addr /\ b \in Addr /\ <<u, b>> \notin st
  BY <1>0 DEF PrivatePages
<1>2. u = t /\ b = a
  BY <1>1 DEF Inv, Apart, ApartAt
<1> QED
  BY <1>1, <1>2 DEF Inv, Base, Tables, Matches

(* Frames of a region in use are not free.                                 *)
LEMMA RegionsAreOwned ==
    ASSUME NEW ow, NEW rg, Runs(ow), Regions(ow, rg),
           NEW h \in DOMAIN rg, NEW f \in RegionFrames(rg[h])
    PROVE  f \notin Unowned(ow)
<1>1. CASE rg[h].used
  <2>1. PICK x \in ow : x[1] = f
    BY <1>1 DEF Regions, Owns
  <2>2. f \in RunFrames(x)
    BY <2>1 DEF Runs, IsRun
  <2> QED
    BY <2>1, <2>2 DEF Unowned
<1>2. CASE ~rg[h].used
  BY <1>2, FrameFacts DEF Regions, EmptyRegion, RegionFrames, Range, Unowned
<1> QED
  BY <1>1, <1>2

(* No page but a stale one maps a frame the allocator may hand out.        *)
OnlyStale(ow, p, st) == \A t \in Task : \A a \in Addr : p[t][a] \in Unowned(ow) => <<t, a>> \in st

LEMMA NotDangling ==
    ASSUME NEW ow, NEW p, NEW vm, NEW rg, NEW al, NEW st, NEW lf, Inv(ow, p, vm, rg, al, st, lf)
    PROVE  OnlyStale(ow, p, st)
<1> SUFFICES ASSUME NEW t \in Task, NEW a \in Addr, p[t][a] \in Unowned(ow)
             PROVE  <<t, a>> \in st
  BY DEF OnlyStale
<1>1. p[t][a] \in Frame /\ p[t][a] # None /\ p[t][a] # Device
  BY FrameFacts DEF Unowned
<1>2. PICK w \in vm[t] : a \in Extent(w)
  BY <1>1 DEF Inv, Base, Tables, Matches
<1>3. w.kind \in Kind /\ BackedBy(ow, rg, st, p, t, w)
  BY DEF Inv, Base, Types, Mapping, VMA, Backed
<1>4. ~IsPrivate(w)
  BY <1>2, PrivatePage DEF PrivatePages
<1>5. w.kind # "mmio"
  BY <1>1, <1>2, <1>3 DEF BackedBy
<1>6. \A h \in DOMAIN rg : p[t][a] \notin Range(rg[h].frames)
  BY RegionsAreOwned DEF Inv, RegionFrames
<1> QED
  BY <1>2, <1>3, <1>4, <1>5, <1>6 DEF BackedBy, Kind, IsPrivate

(* Private memory: new runs that nothing maps yet, each with its start and *)
(* every page of the mapping in one of them.                               *)
LEMMA MapPrivate ==
    ASSUME NEW ow, NEW p, NEW vm, NEW rg, NEW al, NEW st, NEW lf, NEW ca,
           Sound(ow, p, vm, rg, al, st, lf, ca),
           NEW t \in al, NEW w \in Mapping, IsPrivate(w), Vacant(vm, t, Extent(w)),
           NEW f \in [Extent(w) -> Frame],
           \A a, b \in Extent(w) : f[a] = f[b] => a = b,
           NEW fresh, Disjoint(fresh),
           \A r \in fresh : IsRun(r) /\ RunFrames(r) \subseteq Unowned(ow),
           \A r \in fresh : \E a \in Extent(w) : f[a] = r[1],
           \A a \in Extent(w) : \E r \in fresh : f[a] \in RunFrames(r)
    PROVE  Sound(ow \cup fresh, Onto(p, t, Extent(w), f), With(vm, t, w), rg, al, st, lf, ca)
<1> DEFINE q == Onto(p, t, Extent(w), f)
           m == With(vm, t, w)
<1>1. \A c : Base(p, vm, rg, al, c) => Base(q, m, rg, al, c)
  <2>1. f \in [Extent(w) -> Frame \cup {Device}]
    OBVIOUS
  <2> QED
    BY <2>1, BaseMap
<1> SUFFICES ASSUME Inv(ow, p, vm, rg, al, st, lf) PROVE Inv(ow \cup fresh, q, m, rg, al, st, lf)
  BY <1>1 DEF Sound
<1>0. PrivatePages(ow, p, vm, st)
  BY PrivatePage
<1>00. OnlyStale(ow, p, st)
  BY NotDangling
<1>2. t \in Task /\ Extent(w) \subseteq Addr /\ p \in [Task -> [Addr -> Entry]]
  BY DEF Inv, Base, Types, Mapping
<1>3. m[t] = vm[t] \cup {w} /\ \A u \in Task \ {t} : m[u] = vm[u]
  BY <1>2 DEF Inv, Base, Types, With
<1>4. /\ \A u \in Task \ {t} : q[u] = p[u]
      /\ \A a \in Addr : q[t][a] = IF a \in Extent(w) THEN f[a] ELSE p[t][a]
  BY <1>2 DEF Onto
<1>5. \A u \in Task : \A x \in vm[u] : Extent(x) \subseteq Addr
  BY DEF Inv, Base, Types, Mapping
<1> HIDE DEF q, m
<1>6. ASSUME NEW u \in Task, NEW x \in vm[u] PROVE x \in m[u] /\ \A a \in Extent(x) : q[u][a] = p[u][a]
  BY <1>2, <1>3, <1>4, <1>5 DEF Vacant
<1>7. \A a \in Extent(w) : q[t][a] = f[a] /\ f[a] \in Unowned(ow) /\ f[a] \in Frame
  BY <1>2, <1>4
<1>8. \A u \in Task : \A b \in Addr : q[u][b] = p[u][b] \/ (u = t /\ b \in Extent(w))
  BY <1>2, <1>4
<1>9. \A u \in Task : \A x \in m[u] : x \in vm[u] \/ (u = t /\ x = w)
  BY <1>2, <1>3
<1>10. Runs(ow \cup fresh)
  <2>1. \A r \in ow : \A x \in fresh : RunFrames(r) \cap RunFrames(x) = {}
    BY DEF Unowned
  <2> QED
    BY <2>1 DEF Inv, Runs, Disjoint
<1>11. Regions(ow \cup fresh, rg)
  BY DEF Inv, Regions, Owns
<1>12. Backed(ow \cup fresh, q, m, rg, st)
  <2>1. BackedBy(ow \cup fresh, rg, st, q, t, w)
    BY <1>7 DEF BackedBy, IsPrivate
  <2>2. ASSUME NEW u \in Task, NEW x \in vm[u]
        PROVE  BackedBy(ow \cup fresh, rg, st, q, u, x)
    BY <1>6 DEF Inv, Backed, BackedBy
  <2> QED
    BY <1>9, <2>1, <2>2 DEF Backed
<1>13. Stale(m, st)
  BY <1>6 DEF Inv, Stale
<1>14. Apart(q, m, rg, st)
  <2>1. ASSUME NEW a \in Extent(w) PROVE ApartAt(q, rg, st, t, a)
    <3>1. ASSUME NEW u \in Task, NEW b \in Addr, q[u][b] = q[t][a]
          PROVE  (u = t /\ b = a) \/ <<u, b>> \in st
      <4>1. CASE u = t /\ b \in Extent(w)
        BY <1>7, <3>1, <4>1
      <4>2. CASE q[u][b] = p[u][b]
        BY <1>00, <1>7, <3>1, <4>2 DEF OnlyStale
      <4> QED
        BY <1>8, <4>1, <4>2
    <3>2. \A h \in DOMAIN rg : q[t][a] \notin RegionFrames(rg[h])
      BY <1>7, RegionsAreOwned DEF Inv
    <3> QED
      BY <3>1, <3>2 DEF ApartAt
  <2>2. ASSUME NEW s \in Task, NEW x \in vm[s], IsPrivate(x), NEW a \in Extent(x)
        PROVE  ApartAt(q, rg, st, s, a)
    <3>1. q[s][a] = p[s][a]
      BY <1>6
    <3>2. ApartAt(p, rg, st, s, a)
      BY <2>2 DEF Inv, Apart
    <3>3. IsPrivate(x)
      BY <2>2
    <3>4. p[s][a] \notin Unowned(ow)
      BY <1>0, <3>3 DEF PrivatePages
    <3> QED
      BY <1>7, <1>8, <3>1, <3>2, <3>4 DEF ApartAt
  <2> QED
    BY <1>9, <2>1, <2>2 DEF Apart
<1>15. \A r : Starts(p, vm, r) => Starts(q, m, r)
  BY <1>6 DEF Starts
<1>16. Reachable(ow \cup fresh, q, m, rg, lf)
  <2>1. \A r \in fresh : Starts(q, m, r)
    BY <1>2, <1>3, <1>7 DEF Starts
  <2> QED
    BY <1>15, <2>1 DEF Inv, Reachable
<1>17. Left(ow \cup fresh, q, m, rg, lf)
  <2> SUFFICES ASSUME NEW r \in lf, Starts(q, m, r) PROVE FALSE
    BY DEF Inv, Left
  <2>1. r \in ow /\ ~Starts(p, vm, r) /\ r[1] \notin Unowned(ow)
    BY DEF Inv, Left, Runs, IsRun, Unowned
  <2>2. PICK u \in Task : \E x \in m[u] : IsPrivate(x) /\ \E a \in Extent(x) : r[1] = q[u][a]
    BY DEF Starts
  <2>3. PICK x \in m[u] : IsPrivate(x) /\ \E a \in Extent(x) : r[1] = q[u][a]
    BY <2>2
  <2>4. x \notin vm[u]
    BY <1>6, <2>1, <2>3 DEF Starts
  <2> QED
    BY <1>7, <1>9, <2>1, <2>3, <2>4
<1> QED
  BY <1>1, <1>10, <1>11, <1>12, <1>13, <1>14, <1>16, <1>17 DEF Inv

(* A device or a region in use: nothing is taken from the allocator.       *)
LEMMA MapForeign ==
    ASSUME NEW ow, NEW p, NEW vm, NEW rg, NEW al, NEW st, NEW lf, NEW ca,
           Sound(ow, p, vm, rg, al, st, lf, ca),
           NEW t \in al, NEW w \in Mapping, Vacant(vm, t, Extent(w)),
           NEW f \in [Extent(w) -> Frame \cup {Device}],
           \/ w.kind = "mmio" /\ \A a \in Extent(w) : f[a] = Device
           \/ /\ w.kind = "shared"
              /\ \E h \in DOMAIN rg : rg[h].used /\ \A a \in Extent(w) : f[a] \in Range(rg[h].frames)
    PROVE  Sound(ow, Onto(p, t, Extent(w), f), With(vm, t, w), rg, al, st, lf, ca)
<1> DEFINE q == Onto(p, t, Extent(w), f)
           m == With(vm, t, w)
<1>1. \A c : Base(p, vm, rg, al, c) => Base(q, m, rg, al, c)
  BY BaseMap
<1> SUFFICES ASSUME Inv(ow, p, vm, rg, al, st, lf) PROVE Inv(ow, q, m, rg, al, st, lf)
  BY <1>1 DEF Sound
<1>0. PrivatePages(ow, p, vm, st)
  BY PrivatePage
<1>2. t \in Task /\ Extent(w) \subseteq Addr /\ p \in [Task -> [Addr -> Entry]]
  BY DEF Inv, Base, Types, Mapping
<1>3. m[t] = vm[t] \cup {w} /\ \A u \in Task \ {t} : m[u] = vm[u]
  BY <1>2 DEF Inv, Base, Types, With
<1>4. /\ \A u \in Task \ {t} : q[u] = p[u]
      /\ \A a \in Addr : q[t][a] = IF a \in Extent(w) THEN f[a] ELSE p[t][a]
  BY <1>2 DEF Onto
<1>5. \A u \in Task : \A x \in vm[u] : Extent(x) \subseteq Addr
  BY DEF Inv, Base, Types, Mapping
<1> HIDE DEF q, m
<1>6. ASSUME NEW u \in Task, NEW x \in vm[u] PROVE x \in m[u] /\ \A a \in Extent(x) : q[u][a] = p[u][a]
  BY <1>2, <1>3, <1>4, <1>5 DEF Vacant
<1>7. \A a \in Extent(w) : q[t][a] = f[a]
  BY <1>2, <1>4
<1>8. \A u \in Task : \A b \in Addr : q[u][b] = p[u][b] \/ (u = t /\ b \in Extent(w))
  BY <1>2, <1>4
<1>9. \A u \in Task : \A x \in m[u] : x \in vm[u] \/ (u = t /\ x = w)
  BY <1>2, <1>3
<1>10. ~IsPrivate(w)
  BY DEF IsPrivate
<1>11. Backed(ow, q, m, rg, st)
  <2>1. BackedBy(ow, rg, st, q, t, w)
    BY <1>7, <1>10 DEF BackedBy
  <2>2. ASSUME NEW u \in Task, NEW x \in vm[u]
        PROVE  BackedBy(ow, rg, st, q, u, x)
    BY <1>6 DEF Inv, Backed, BackedBy
  <2> QED
    BY <1>9, <2>1, <2>2 DEF Backed
<1>12. Stale(m, st)
  BY <1>6 DEF Inv, Stale
<1>13. Apart(q, m, rg, st)
  <2> SUFFICES ASSUME NEW s \in Task, NEW x \in vm[s], IsPrivate(x), NEW a \in Extent(x)
               PROVE  ApartAt(q, rg, st, s, a)
    BY <1>9, <1>10 DEF Apart
  <2>1. q[s][a] = p[s][a] /\ p[s][a] # Device
    BY <1>0, <1>6, FrameFacts DEF PrivatePages
  <2>2. ApartAt(p, rg, st, s, a)
    BY DEF Inv, Apart
  <2>3. \A b \in Extent(w) : f[b] # p[s][a]
    BY <2>1, <2>2 DEF RegionFrames, ApartAt
  <2> QED
    BY <1>7, <1>8, <2>1, <2>2, <2>3 DEF ApartAt
<1>14. \A r : Starts(q, m, r) <=> Starts(p, vm, r)
  BY <1>6, <1>9, <1>10 DEF Starts
<1>15. Reachable(ow, q, m, rg, lf) /\ Left(ow, q, m, rg, lf)
  BY <1>14 DEF Inv, Reachable, Left
<1> QED
  BY <1>1, <1>11, <1>12, <1>13, <1>15 DEF Inv

(* Mappings given up together: their pages are cleared, and the runs that  *)
(* start at a private one go back to the allocator, but for those the task *)
(* leaves behind with the mappings L.                                      *)
Outside(st, t, P) == {s \in st : ~(s[1] = t /\ s[2] \in P)}
Spared(ow, p, t, D) == {r \in ow : \A w \in D : IsPrivate(w) => \A a \in Extent(w) : r[1] # p[t][a]}
StartsIn(ow, p, t, L) == {r \in ow : \E w \in L : \E a \in Extent(w) : r[1] = p[t][a]}

LEMMA DropMappings ==
    ASSUME NEW ow, NEW p, NEW vm, NEW rg, NEW al, NEW st, NEW lf, Inv(ow, p, vm, rg, al, st, lf),
           NEW t \in Task, NEW D \in SUBSET vm[t], NEW L \in SUBSET D, \A w \in L : IsPrivate(w)
    PROVE  Inv(Spared(ow, p, t, D \ L), Off(p, t, Extents(D)), Without(vm, t, D), rg, al,
               Outside(st, t, Extents(D)), lf \cup StartsIn(ow, p, t, L))
<1> SUFFICES ASSUME NEW rest \in SUBSET ow,
                    \A r \in ow : r \in rest <=>
                        \A w \in D \ L : IsPrivate(w) => \A a \in Extent(w) : r[1] # p[t][a],
                    NEW lost,
                    \A r : r \in lost <=> r \in ow /\ \E w \in L : \E a \in Extent(w) : r[1] = p[t][a]
             PROVE  Inv(rest, Off(p, t, Extents(D)), Without(vm, t, D), rg, al,
                        Outside(st, t, Extents(D)), lf \cup lost)
  BY DEF Spared, StartsIn
<1> DEFINE q == Off(p, t, Extents(D))
           m == Without(vm, t, D)
           s2 == Outside(st, t, Extents(D))
<1>0. PrivatePages(ow, p, vm, st)
  BY PrivatePage
<1>00. MappedOnce(p, vm)
  BY PrivateOnce
<1>1. Base(q, m, rg, al, {})
  BY BaseDrop DEF Inv
<1>2. p \in [Task -> [Addr -> Entry]] /\ vm \in [Task -> SUBSET Mapping]
  BY DEF Inv, Base, Types
<1>3. m[t] = vm[t] \ D /\ \A u \in Task \ {t} : m[u] = vm[u]
  BY <1>2 DEF Without
<1>4. /\ \A u \in Task \ {t} : q[u] = p[u]
      /\ \A a \in Addr : q[t][a] = IF a \in Extents(D) THEN None ELSE p[t][a]
  BY <1>2, OffIs
<1>5. \A u \in Task : \A x \in vm[u] : Extent(x) \subseteq Addr
  BY <1>2 DEF Mapping
<1>6. \A x \in m[t] : Extent(x) \cap Extents(D) = {}
  <2> SUFFICES ASSUME NEW x \in m[t], NEW w \in D, NEW a \in Extent(x) \cap Extent(w)
               PROVE  FALSE
    BY DEF Extents
  <2>1. a \in Addr /\ x \in vm[t] /\ x \notin D /\ w \in vm[t]
    BY <1>3, <1>5
  <2> QED
    BY <2>1 DEF Inv, Base, Tables, Matches
<1> HIDE DEF q, m
<1>7. ASSUME NEW u \in Task, NEW x \in m[u] PROVE x \in vm[u] /\ \A a \in Extent(x) : q[u][a] = p[u][a]
  BY <1>3, <1>4, <1>5, <1>6
<1>8. \A u \in Task : \A b \in Addr : q[u][b] = p[u][b] \/ q[u][b] = None
  BY <1>4
<1>9. Runs(rest)
  BY DEF Inv, Runs, Disjoint
<1>10. ASSUME NEW w \in D, IsPrivate(w), NEW a \in Extent(w)
       PROVE  \A h \in DOMAIN rg : p[t][a] \notin RegionFrames(rg[h])
  BY <1>10 DEF Inv, Apart, ApartAt
<1>11. Regions(rest, rg)
  <2> SUFFICES ASSUME NEW h \in DOMAIN rg, rg[h].used, NEW f \in RegionFrames(rg[h])
               PROVE  \E x \in rest : x[1] = f
    BY DEF Inv, Regions, Owns
  <2>1. PICK x \in ow : x[1] = f
    BY DEF Inv, Regions, Owns
  <2>2. x \in rest
    BY <1>10, <2>1
  <2> QED
    BY <2>1, <2>2
<1>12. ASSUME NEW u \in Task, NEW x \in vm[u], IsPrivate(x), ~(u = t /\ x \in D \ L),
              NEW b \in Extent(x), NEW r \in ow, r[1] = p[u][b]
       PROVE  r \in rest
  <2> SUFFICES ASSUME NEW w \in D \ L, IsPrivate(w), NEW a \in Extent(w), r[1] = p[t][a] PROVE FALSE
    OBVIOUS
  <2>0. w \in vm[t] /\ p[u][b] = p[t][a] /\ IsPrivate(w) /\ IsPrivate(x)
    BY <1>12
  <2>1. u = t /\ x = w
    BY <1>00, <2>0 DEF MappedOnce
  <2> QED
    BY <1>12, <2>1
<1>13. ASSUME NEW u \in Task, NEW b, <<u, b>> \in st, NEW x \in m[u], b \in Extent(x)
       PROVE  <<u, b>> \in s2
  BY <1>6, <1>13 DEF Outside
<1>14. Backed(rest, q, m, rg, s2)
  <2> SUFFICES ASSUME NEW u \in Task, NEW x \in m[u] PROVE BackedBy(rest, rg, s2, q, u, x)
    BY DEF Backed
  <2>1. x \in vm[u] /\ BackedBy(ow, rg, st, p, u, x) /\ ~(u = t /\ x \in D)
    BY <1>3, <1>7 DEF Inv, Backed
  <2>2. ASSUME IsPrivate(x), NEW b \in Extent(x), NEW r \in ow, r[1] = p[u][b] PROVE r \in rest
    BY <1>12, <2>1, <2>2
  <2> QED
    BY <1>7, <1>13, <2>1, <2>2 DEF BackedBy
<1>15. Stale(m, s2)
  <2> SUFFICES ASSUME NEW s \in s2
               PROVE  s \in Task \X Addr /\ \E w \in m[s[1]] : w.kind = "shared" /\ s[2] \in Extent(w)
    BY DEF Stale
  <2>1. s \in st /\ ~(s[1] = t /\ s[2] \in Extents(D))
    BY DEF Outside
  <2>2. s \in Task \X Addr
    BY <2>1 DEF Inv, Stale
  <2>3. PICK w \in vm[s[1]] : w.kind = "shared" /\ s[2] \in Extent(w)
    BY <2>1 DEF Inv, Stale
  <2>4. ~(s[1] = t /\ w \in D)
    BY <2>1, <2>3 DEF Extents
  <2>5. s[1] \in Task
    BY <2>2
  <2> QED
    BY <1>3, <2>2, <2>3, <2>4, <2>5
<1>16. Apart(q, m, rg, s2)
  <2> SUFFICES ASSUME NEW s \in Task, NEW x \in m[s], IsPrivate(x), NEW a \in Extent(x)
               PROVE  ApartAt(q, rg, s2, s, a)
    BY DEF Apart
  <2>1. x \in vm[s] /\ q[s][a] = p[s][a]
    BY <1>7
  <2>5. p[s][a] \in Frame
    BY <1>0, <2>1 DEF PrivatePages
  <2>3. p[s][a] # None
    BY <2>5, FrameFacts
  <2>4. ApartAt(p, rg, st, s, a)
    BY <2>1 DEF Inv, Apart
  <2>2. ASSUME NEW u \in Task, NEW b \in Addr, q[u][b] = q[s][a]
        PROVE  (u = s /\ b = a) \/ <<u, b>> \in s2
    <3>1. p[u][b] = p[s][a] /\ ~(u = t /\ b \in Extents(D))
      BY <1>4, <1>8, <2>1, <2>2, <2>3
    <3>2. (u = s /\ b = a) \/ <<u, b>> \in st
      BY <2>4, <3>1 DEF ApartAt
    <3> QED
      BY <3>1, <3>2 DEF Outside
  <2> QED
    BY <2>1, <2>2, <2>4 DEF ApartAt
<1>17. \A r : Starts(q, m, r) => Starts(p, vm, r)
  BY <1>7 DEF Starts
<1>18. Reachable(rest, q, m, rg, lf \cup lost)
  <2> SUFFICES ASSUME NEW r \in rest, r \notin lost, Starts(p, vm, r) PROVE Starts(q, m, r)
    BY DEF Inv, Reachable
  <2>1. PICK u \in Task : \E x \in vm[u] : IsPrivate(x) /\ \E a \in Extent(x) : r[1] = p[u][a]
    BY DEF Starts
  <2>2. PICK x \in vm[u] : IsPrivate(x) /\ \E a \in Extent(x) : r[1] = p[u][a]
    BY <2>1
  <2>3. ~(u = t /\ x \in D)
    BY <2>2
  <2>4. x \in m[u]
    BY <1>3, <2>3
  <2> QED
    BY <1>7, <2>2, <2>4 DEF Starts
<1>19. Left(rest, q, m, rg, lf \cup lost)
  <2>1. ASSUME NEW r \in lf PROVE r \in rest /\ ~Starts(q, m, r) /\ ~InRegion(rg, r)
    <3>1. r \in ow /\ ~Starts(p, vm, r) /\ ~InRegion(rg, r)
      BY DEF Inv, Left
    <3>2. r \in rest
      BY <3>1 DEF Starts
    <3> QED
      BY <1>17, <3>1, <3>2
  <2>2. ASSUME NEW r \in lost PROVE r \in rest /\ ~Starts(q, m, r) /\ ~InRegion(rg, r)
    <3>1. r \in ow /\ \E w \in L : \E a \in Extent(w) : r[1] = p[t][a]
      OBVIOUS
    <3>2. PICK w \in L : \E a \in Extent(w) : r[1] = p[t][a]
      BY <3>1
    <3>3. PICK a \in Extent(w) : r[1] = p[t][a]
      BY <3>2
    <3>4. w \in vm[t] /\ IsPrivate(w) /\ w \in D
      OBVIOUS
    <3>5. r \in rest
      BY <1>12, <3>1, <3>3, <3>4
    <3>6. ~InRegion(rg, r)
      BY <1>10, <3>3, <3>4 DEF InRegion
    <3>7. ASSUME NEW u \in Task, NEW x \in m[u], IsPrivate(x), NEW b \in Extent(x), r[1] = q[u][b]
          PROVE  FALSE
      <4>1. x \in vm[u] /\ p[u][b] = p[t][a]
        BY <1>7, <3>3, <3>7
      <4>2. u = t /\ x = w
        BY <1>00, <3>4, <3>7, <4>1 DEF MappedOnce
      <4> QED
        BY <1>3, <3>4, <3>7, <4>2
    <3> QED
      BY <3>5, <3>6, <3>7 DEF Starts
  <2> QED
    BY <2>1, <2>2 DEF Left
<1> QED
  BY <1>1, <1>9, <1>11, <1>14, <1>15, <1>16, <1>18, <1>19 DEF Inv, q, m

(* A run of one frame.                                                     *)
LEMMA SingleRun ==
    ASSUME NEW f \in Frame
    PROVE  RunFrames(<<f, 1>>) = {f} /\ IsRun(<<f, 1>>)
<1>1. f \in Int /\ f .. (f + 1 - 1) = {f}
  BY FrameFacts
<1>2. RunFrames(<<f, 1>>) = {f}
  BY <1>1 DEF RunFrames, Span
<1> QED
  BY <1>2 DEF IsRun

(* The table of shared regions.                                            *)
Put(rg, h, r) == IF h > Len(rg) THEN Append(rg, r) ELSE [rg EXCEPT ![h] = r]

IsPut(rg, h, r, s) ==
    /\ s \in Seq(Region)
    /\ DOMAIN s = DOMAIN rg \cup {h}
    /\ s[h] = r
    /\ \A k \in DOMAIN rg \ {h} : s[k] = rg[k]

LEMMA PutIs ==
    ASSUME NEW rg \in Seq(Region), NEW r \in Region, NEW h \in 1 .. (Len(rg) + 1)
    PROVE  IsPut(rg, h, r, Put(rg, h, r))
<1>0. Len(rg) \in Nat /\ DOMAIN rg = 1 .. Len(rg) /\ h \in Int
  OBVIOUS
<1>1. CASE h > Len(rg)
  <2>1. h = Len(rg) + 1 /\ Put(rg, h, r) = Append(rg, r)
    BY <1>0, <1>1 DEF Put
  <2>2. /\ Append(rg, r) \in Seq(Region)
        /\ Len(Append(rg, r)) = Len(rg) + 1
        /\ Append(rg, r)[Len(rg) + 1] = r
        /\ \A k \in 1 .. Len(rg) : Append(rg, r)[k] = rg[k]
    OBVIOUS
  <2>3. DOMAIN Append(rg, r) = 1 .. (Len(rg) + 1)
    BY <2>2
  <2>4. 1 .. (Len(rg) + 1) = (1 .. Len(rg)) \cup {Len(rg) + 1}
    BY <1>0
  <2> QED
    BY <1>0, <2>1, <2>2, <2>3, <2>4 DEF IsPut
<1>2. CASE ~(h > Len(rg))
  <2>1. h \in 1 .. Len(rg) /\ Put(rg, h, r) = [rg EXCEPT ![h] = r]
    BY <1>0, <1>2 DEF Put
  <2> QED
    BY <1>0, <2>1 DEF IsPut
<1> QED
  BY <1>1, <1>2


(* An entry of the table is no matter of the tasks.                        *)
LEMMA BasePut ==
    ASSUME NEW p, NEW vm, NEW rg, NEW al, NEW ca, Base(p, vm, rg, al, ca),
           NEW h \in 1 .. (Len(rg) + 1), NEW r \in Region, r.used => r.frames # <<>>
    PROVE  /\ IsPut(rg, h, r, Put(rg, h, r))
           /\ Base(p, vm, Put(rg, h, r), al, ca)
<1>1. rg \in Seq(Region)
  BY DEF Base, Types
<1>2. IsPut(rg, h, r, Put(rg, h, r))
  BY <1>1, PutIs
<1>3. \A k \in DOMAIN Put(rg, h, r) : Put(rg, h, r)[k].used => Put(rg, h, r)[k].frames # <<>>
  BY <1>2 DEF IsPut, Base, Types
<1>4. Types(p, vm, Put(rg, h, r), al, ca)
  BY <1>2, <1>3 DEF IsPut, Base, Types
<1> QED
  BY <1>2, <1>4 DEF Base

(* A region is made of runs nobody has.                                    *)
LEMMA AddRegion ==
    ASSUME NEW ow, NEW p, NEW vm, NEW rg, NEW al, NEW st, NEW lf, NEW ca,
           Sound(ow, p, vm, rg, al, st, lf, ca),
           NEW h \in 1 .. (Len(rg) + 1), h \in DOMAIN rg => ~rg[h].used,
           NEW r \in Region, r.used, r.frames # <<>>, r.array \notin Range(r.frames),
           NEW fresh, Disjoint(fresh),
           \A x \in fresh : IsRun(x) /\ RunFrames(x) \subseteq Unowned(ow) /\ x[1] \in RegionFrames(r),
           \A f \in RegionFrames(r) : f \in Unowned(ow) /\ \E x \in fresh : x[1] = f
    PROVE  Sound(ow \cup fresh, p, vm, Put(rg, h, r), al, st, lf, ca)
<1> DEFINE s == Put(rg, h, r)
<1>1. IsPut(rg, h, r, s)
  BY BasePut DEF Sound
<1>2. \A c : Base(p, vm, rg, al, c) => Base(p, vm, s, al, c)
  BY BasePut
<1> HIDE DEF s
<1> SUFFICES ASSUME Inv(ow, p, vm, rg, al, st, lf) PROVE Inv(ow \cup fresh, p, vm, s, al, st, lf)
  BY <1>2 DEF Sound, s
<1>3. /\ DOMAIN s = DOMAIN rg \cup {h}
      /\ s[h] = r /\ \A k \in DOMAIN rg \ {h} : s[k] = rg[k]
      /\ \A k \in DOMAIN rg : rg[k].used => s[k] = rg[k]
  BY <1>1 DEF IsPut
<1>4. Runs(ow \cup fresh)
  <2>1. \A x \in ow, y \in fresh : RunFrames(x) \cap RunFrames(y) = {}
    BY DEF Unowned
  <2> QED
    BY <2>1 DEF Inv, Runs, Disjoint
<1>5. Regions(ow \cup fresh, s)
  <2>1. ASSUME NEW k \in DOMAIN rg \ {h}
        PROVE  RegionFrames(rg[k]) \cap RegionFrames(r) = {}
    BY RegionsAreOwned DEF Inv
  <2>2. Owns(ow \cup fresh, r)
    BY DEF Owns
  <2>3. \A k \in DOMAIN rg : rg[k].used => Owns(ow \cup fresh, rg[k])
    BY DEF Inv, Regions, Owns
  <2>4. \A k \in DOMAIN s : IF s[k].used THEN Owns(ow \cup fresh, s[k]) ELSE s[k] = EmptyRegion
    BY <1>3, <2>2, <2>3 DEF Inv, Regions
  <2>5. ASSUME NEW j \in DOMAIN s, NEW k \in DOMAIN s, s[j].used, j # k
        PROVE  RegionFrames(s[j]) \cap RegionFrames(s[k]) = {}
    <3>1. CASE j = h
      BY <1>3, <2>1, <2>5, <3>1
    <3>2. CASE k = h
      BY <1>3, <2>1, <2>5, <3>2
    <3>3. CASE j # h /\ k # h
      BY <1>3, <2>5, <3>3 DEF Inv, Regions
    <3> QED
      BY <3>1, <3>2, <3>3
  <2> QED
    BY <2>4, <2>5 DEF Regions
<1>6. Backed(ow \cup fresh, p, vm, s, st)
  <2> SUFFICES ASSUME NEW u \in Task, NEW x \in vm[u] PROVE BackedBy(ow \cup fresh, s, st, p, u, x)
    BY DEF Backed
  <2>1. BackedBy(ow, rg, st, p, u, x)
    BY DEF Inv, Backed
  <2> QED
    BY <1>3, <2>1 DEF BackedBy
<1>7. Apart(p, vm, s, st)
  <2> SUFFICES ASSUME NEW u \in Task, NEW x \in vm[u], IsPrivate(x), NEW a \in Extent(x)
               PROVE  ApartAt(p, s, st, u, a)
    BY DEF Apart
  <2>1. ApartAt(p, rg, st, u, a)
    BY DEF Inv, Apart
  <2>2. PrivatePages(ow, p, vm, st)
    BY PrivatePage
  <2>3. p[u][a] \notin Unowned(ow)
    BY <2>2 DEF PrivatePages
  <2>4. p[u][a] \notin RegionFrames(r)
    BY <2>3
  <2> QED
    BY <1>3, <2>1, <2>4 DEF ApartAt
<1>8. \A x : InRegion(rg, x) => InRegion(s, x)
  BY <1>3 DEF InRegion
<1>9. Reachable(ow \cup fresh, p, vm, s, lf)
  <2>1. \A x \in fresh : InRegion(s, x)
    BY <1>3 DEF InRegion
  <2> QED
    BY <1>8, <2>1 DEF Inv, Reachable
<1>10. Left(ow \cup fresh, p, vm, s, lf)
  <2> SUFFICES ASSUME NEW x \in lf, NEW k \in DOMAIN s, s[k].used, x[1] \in RegionFrames(s[k])
               PROVE  FALSE
    BY DEF Inv, Left, InRegion
  <2>1. x \in ow /\ ~InRegion(rg, x)
    BY DEF Inv, Left
  <2>2. x[1] \notin Unowned(ow)
    BY <2>1 DEF Inv, Runs, IsRun, Unowned
  <2>3. k # h
    BY <1>3, <2>2
  <2> QED
    BY <1>3, <2>1, <2>3 DEF InRegion
<1>11. Base(p, vm, s, al, {})
  BY <1>2 DEF Inv
<1> QED
  BY <1>4, <1>5, <1>6, <1>7, <1>9, <1>10, <1>11 DEF Inv

(* An entry that is in use no longer, or was not, is left empty.  Whatever *)
(* maps a region that is destroyed maps stale pages from then on.          *)
LEMMA EmptyIs ==
    /\ EmptyRegion \in Region /\ ~EmptyRegion.used
    /\ RegionFrames(EmptyRegion) = {None}
BY DEF EmptyRegion, Region, RegionFrames, Range

LEMMA DropRegion ==
    ASSUME NEW ow, NEW p, NEW vm, NEW rg, NEW al, NEW st, NEW lf, NEW ca,
           Sound(ow, p, vm, rg, al, st, lf, ca),
           NEW h \in 1 .. (Len(rg) + 1),
           NEW rest, NEW st2,
           ca = {} =>
              /\ rest \in SUBSET ow /\ st \subseteq st2
              /\ IF h \in DOMAIN rg /\ rg[h].used
                 THEN /\ \A r \in ow : r \in rest <=> r[1] \notin RegionFrames(rg[h])
                      /\ \A s \in st2 \ st : s \in Task \X Addr /\ p[s[1]][s[2]] \in Range(rg[h].frames)
                      /\ \A u \in Task : \A a \in Addr : p[u][a] \in Range(rg[h].frames) => <<u, a>> \in st2
                 ELSE rest = ow /\ st2 = st
    PROVE  Sound(rest, p, vm, Put(rg, h, EmptyRegion), al, st2, lf, ca)
<1> DEFINE s == Put(rg, h, EmptyRegion)
<1>1. IsPut(rg, h, EmptyRegion, s)
  BY BasePut, EmptyIs DEF Sound
<1>2. \A c : Base(p, vm, rg, al, c) => Base(p, vm, s, al, c)
  BY BasePut, EmptyIs
<1> HIDE DEF s
<1> SUFFICES ASSUME ca = {}, Inv(ow, p, vm, rg, al, st, lf) PROVE Inv(rest, p, vm, s, al, st2, lf)
  BY <1>2 DEF Sound, s
<1>3. /\ DOMAIN s = DOMAIN rg \cup {h} /\ s[h] = EmptyRegion
      /\ \A k \in DOMAIN rg \ {h} : s[k] = rg[k]
  BY <1>1 DEF IsPut
<1>4. rest \in SUBSET ow /\ st \subseteq st2
  OBVIOUS
<1> DEFINE G == IF h \in DOMAIN rg /\ rg[h].used THEN RegionFrames(rg[h]) ELSE {}
<1>5. \A r \in ow : r \in rest <=> r[1] \notin G
  OBVIOUS
<1>6. \A k \in DOMAIN rg \ {h} : rg[k].used => RegionFrames(rg[k]) \cap G = {}
  BY DEF Inv, Regions
<1>7. \A u \in Task : \A x \in vm[u] : IsPrivate(x) => \A a \in Extent(x) : p[u][a] \notin G
  BY DEF Inv, Apart, ApartAt
<1>8. \A u \in Task : \A a \in Addr : h \in DOMAIN rg /\ rg[h].used /\ p[u][a] \in Range(rg[h].frames) => <<u, a>> \in st2
  OBVIOUS
<1>9. \A z \in st2 \ st : z \in Task \X Addr /\ \E w \in vm[z[1]] : w.kind = "shared" /\ z[2] \in Extent(w)
  <2> SUFFICES ASSUME NEW z \in st2 \ st, h \in DOMAIN rg, rg[h].used,
                      z \in Task \X Addr, p[z[1]][z[2]] \in Range(rg[h].frames)
               PROVE  \E w \in vm[z[1]] : w.kind = "shared" /\ z[2] \in Extent(w)
    OBVIOUS
  <2> DEFINE u == z[1]
             a == z[2]
  <2>1. u \in Task /\ a \in Addr
    OBVIOUS
  <2> HIDE DEF u, a
  <2>2. p[u][a] \in Range(rg[h].frames) /\ p[u][a] \in Frame
    <3>1. rg[h] \in Region
      BY DEF Inv, Base, Types
    <3>2. Range(rg[h].frames) \subseteq Frame
      BY <3>1 DEF Region, Range
    <3> QED
      BY <3>2 DEF u, a
  <2>3. PICK w \in vm[u] : a \in Extent(w)
    BY <2>1, <2>2, FrameFacts DEF Inv, Base, Tables, Matches
  <2>4. w.kind \in Kind /\ BackedBy(ow, rg, st, p, u, w)
    BY <2>1 DEF Inv, Base, Types, Mapping, VMA, Backed
  <2>5. w.kind # "mmio"
    BY <2>2, <2>3, <2>4, FrameFacts DEF BackedBy
  <2>6. ~IsPrivate(w)
    BY <1>7, <2>1, <2>2, <2>3 DEF RegionFrames
  <2> QED
    BY <2>3, <2>4, <2>5, <2>6 DEF Kind, IsPrivate, u, a
<1> HIDE DEF G
<1>10. Runs(rest)
  BY <1>4 DEF Inv, Runs, Disjoint
<1>11. Regions(rest, s)
  <2>1. ASSUME NEW k \in DOMAIN rg \ {h}, rg[k].used PROVE Owns(rest, rg[k])
    <3>1. Owns(ow, rg[k])
      BY <2>1 DEF Inv, Regions
    <3> QED
      BY <1>5, <1>6, <2>1, <3>1 DEF Owns
  <2>2. \A k \in DOMAIN s : IF s[k].used THEN Owns(rest, s[k]) ELSE s[k] = EmptyRegion
    BY <1>3, <2>1, EmptyIs DEF Inv, Regions
  <2>3. ASSUME NEW j \in DOMAIN s, NEW k \in DOMAIN s, s[j].used, j # k
        PROVE  RegionFrames(s[j]) \cap RegionFrames(s[k]) = {}
    <3>1. j \in DOMAIN rg /\ j # h /\ s[j] = rg[j] /\ rg[j].used
      BY <1>3, <2>3, EmptyIs
    <3>2. CASE k = h
      <4>1. Owns(ow, rg[j])
        BY <3>1 DEF Inv, Regions
      <4>2. None \notin RegionFrames(rg[j])
        BY <4>1, FrameFacts DEF Owns, Inv, Runs, IsRun
      <4> QED
        BY <1>3, <3>1, <3>2, <4>2, EmptyIs
    <3>3. CASE k # h
      BY <1>3, <2>3, <3>1, <3>3 DEF Inv, Regions
    <3> QED
      BY <3>2, <3>3
  <2> QED
    BY <2>2, <2>3 DEF Regions
<1>12. Backed(rest, p, vm, s, st2)
  <2> SUFFICES ASSUME NEW u \in Task, NEW x \in vm[u], NEW a \in Extent(x)
               PROVE  /\ IsPrivate(x) => \E r \in rest : \E b \in Extent(x) :
                                            r[1] = p[u][b] /\ p[u][a] \in RunFrames(r)
                      /\ x.kind = "mmio" => p[u][a] = Device
                      /\ x.kind = "shared" =>
                            \/ <<u, a>> \in st2
                            \/ \E k \in DOMAIN s : s[k].used /\ p[u][a] \in Range(s[k].frames)
    BY DEF Backed, BackedBy
  <2>1. BackedBy(ow, rg, st, p, u, x)
    BY DEF Inv, Backed
  <2>2. CASE IsPrivate(x)
    <3>1. \E r \in ow : \E b \in Extent(x) : r[1] = p[u][b] /\ p[u][a] \in RunFrames(r)
      BY <2>1, <2>2 DEF BackedBy
    <3>2. \A r \in ow : \A b \in Extent(x) : r[1] = p[u][b] => r \in rest
      BY <1>5, <1>7, <2>2
    <3> QED
      BY <2>2, <3>1, <3>2 DEF IsPrivate
  <2>3. CASE x.kind = "shared"
    <3>1. a \in Addr
      BY DEF Inv, Base, Types, Mapping
    <3> QED
      BY <1>3, <1>4, <1>8, <2>1, <2>3, <3>1 DEF BackedBy, IsPrivate
  <2> QED
    BY <2>1, <2>2, <2>3 DEF BackedBy
<1>13. Stale(vm, st2)
  BY <1>9 DEF Inv, Stale
<1>14. Apart(p, vm, s, st2)
  <2> SUFFICES ASSUME NEW u \in Task, NEW x \in vm[u], IsPrivate(x), NEW a \in Extent(x)
               PROVE  ApartAt(p, s, st2, u, a)
    BY DEF Apart
  <2>1. ApartAt(p, rg, st, u, a)
    BY DEF Inv, Apart
  <2>2. PrivatePages(ow, p, vm, st)
    BY PrivatePage
  <2>3. p[u][a] \in Frame
    BY <2>2 DEF PrivatePages
  <2>4. p[u][a] # None
    BY <2>3, FrameFacts
  <2> QED
    BY <1>3, <1>4, <2>1, <2>4, EmptyIs DEF ApartAt
<1>15. \A r : InRegion(s, r) => InRegion(rg, r)
  BY <1>3, EmptyIs DEF InRegion
<1>16. Reachable(rest, p, vm, s, lf)
  <2> SUFFICES ASSUME NEW r \in rest, NEW k \in DOMAIN rg, rg[k].used, r[1] \in RegionFrames(rg[k])
               PROVE  InRegion(s, r)
    BY <1>4 DEF Inv, Reachable, InRegion
  <2>1. r[1] \notin G
    BY <1>4, <1>5
  <2>2. k # h
    BY <2>1 DEF G
  <2> QED
    BY <1>3, <2>2 DEF InRegion
<1>17. Left(rest, p, vm, s, lf)
  <2> SUFFICES ASSUME NEW r \in lf PROVE r \in rest
    BY <1>15 DEF Inv, Left
  <2>1. r \in ow /\ ~InRegion(rg, r)
    BY DEF Inv, Left
  <2> QED
    BY <1>5, <2>1 DEF InRegion, G
<1>18. Base(p, vm, s, al, {})
  BY <1>2 DEF Inv
<1> QED
  BY <1>10, <1>11, <1>12, <1>13, <1>14, <1>16, <1>17, <1>18 DEF Inv

-----------------------------------------------------------------------------
(* The memories the calls pass through.                                    *)

At(v, fs) == [a \in Span(v, Len(fs)) |-> fs[a - v + 1]]
Mem(ow, p) == [owned |-> ow, pt |-> p]
Ones(F) == {<<f, 1>> : f \in F}
Freed(ow, F) == {r \in ow : r[1] \notin F}
Held(p, t, P) == {p[t][a] : a \in P} \ {None}
Clear(p, t) == [p EXCEPT ![t] = [a \in Addr |-> None]]

(* Each frame of F at one page of P.                                       *)
OneEach(f, P, F) ==
    /\ f \in [P -> F]
    /\ \A a, b \in P : f[a] = f[b] => a = b
    /\ \A x \in F : \E a \in P : f[a] = x

(* Mapping pages changes the page table only.                              *)
LEMMA MapPagesIs ==
    ASSUME NEW ow, NEW p, NEW t, NEW v, NEW fs
    PROVE  MapPages(Mem(ow, p), t, v, fs) = Mem(ow, Onto(p, t, Span(v, Len(fs)), At(v, fs)))
<1>1. \A a \in Addr : (IF a \in Span(v, Len(fs)) THEN fs[a - v + 1] ELSE p[t][a])
                      = (IF a \in Span(v, Len(fs)) THEN At(v, fs)[a] ELSE p[t][a])
  BY DEF At
<1> QED
  BY <1>1 DEF MapPages, Mem, Onto

(* Unmapping clears pages, and may release what they held.                 *)
LEMMA UnmapPagesIs ==
    ASSUME NEW ow, NEW p, NEW t, NEW v, NEW n
    PROVE  unmapPages(Mem(ow, p), t, v, n, FALSE) = Mem(ow, Off(p, t, Span(v, n)))
BY DEF unmapPages, Mem, Off

(* Taking and releasing change what is owned only.                         *)
LEMMA TakeIs ==
    ASSUME NEW ow, NEW p, NEW F
    PROVE  Take(Mem(ow, p), F) = Mem(ow \cup Ones(F), p)
BY DEF Take, Mem, Ones

(* A run is taken whole.                                                   *)
LEMMA TakeRunIs ==
    ASSUME NEW ow, NEW p, NEW run
    PROVE  TakeRun(Mem(ow, p), run) = Mem(ow \cup {run}, p)
BY DEF TakeRun, Mem

(* A run is released by its first frame.                                   *)
LEMMA ReleaseIs ==
    ASSUME NEW ow, NEW p, NEW F
    PROVE  Release(Mem(ow, p), F) = Mem(Freed(ow, F), p)
BY DEF Release, Mem, Freed

(* Destruction releases what it finds mapped and clears the table.         *)
LEMMA DestroyedIs ==
    ASSUME NEW ow, NEW p, NEW t, NEW set
    PROVE  Destroyed(Mem(ow, p), t, set) =
             Mem(Freed(ow, Held(p, t, PagesOf(DestroyedVmas(set)))), Clear(p, t))
<1> DEFINE F == Held(p, t, PagesOf(DestroyedVmas(set)))
<1>1. Destroyed(Mem(ow, p), t, set) = [Release(Mem(ow, p), F) EXCEPT !.pt[t] = [a \in Addr |-> None]]
  BY DEF Destroyed, Mem, Held
<1>2. Release(Mem(ow, p), F) = Mem(Freed(ow, F), p)
  BY ReleaseIs
<1> HIDE DEF F
<1>3. [Mem(Freed(ow, F), p) EXCEPT !.pt[t] = [a \in Addr |-> None]] = Mem(Freed(ow, F), Clear(p, t))
  BY DEF Mem, Clear
<1> QED
  BY <1>1, <1>2, <1>3 DEF F

(* A step of the system to a memory.                                       *)
LEMMA BecomesIs ==
    ASSUME NEW ow, NEW p, Becomes(Mem(ow, p))
    PROVE  owned' = ow /\ pt' = p
BY DEF Becomes, Mem

(* Runs that were free when taken are all released again.                  *)
LEMMA TakenAndReleased ==
    ASSUME NEW ow, Runs(ow), NEW F \in SUBSET Unowned(ow), NEW fresh, \A r \in fresh : r[1] \in F
    PROVE  Freed(ow \cup fresh, F) = ow
<1>1. \A r \in ow : r[1] \notin F
  BY DEF Runs, IsRun, Unowned
<1> QED
  BY <1>1 DEF Freed

(* Mapping pages that are then unmapped comes to unmapping them.           *)
LEMMA MappedAndUnmapped ==
    ASSUME NEW p \in [Task -> [Addr -> Entry]], NEW t \in Task, NEW P, NEW f
    PROVE  Off(Onto(p, t, P, f), t, P) = Off(p, t, P)
<1> DEFINE q == Onto(p, t, P, f)
<1>1. q = [p EXCEPT ![t] = q[t]] /\ \A a \in Addr \ P : q[t][a] = p[t][a]
  BY DEF Onto
<1>2. Off(q, t, P) = [p EXCEPT ![t] = [a \in Addr |-> IF a \in P THEN None ELSE q[t][a]]]
  BY <1>1 DEF Off
<1>3. \A a \in Addr : (IF a \in P THEN None ELSE q[t][a]) = (IF a \in P THEN None ELSE p[t][a])
  BY <1>1
<1> HIDE DEF q
<1> QED
  BY <1>2, <1>3 DEF Off, q

(* A rollback over pages that were free leaves things as they were.        *)
LEMMA Undone ==
    ASSUME NEW ow, NEW p, NEW vm, NEW rg, NEW al, NEW st, NEW lf, NEW ca,
           Sound(ow, p, vm, rg, al, st, lf, ca),
           NEW t \in Task, NEW P, Vacant(vm, t, P), NEW ow2, ca = {} => ow2 = ow
    PROVE  Sound(ow2, Off(p, t, P), vm, rg, al, st, lf, ca)
<1>1. Base(Off(p, t, P), vm, rg, al, ca) /\ (t \notin ca => Off(p, t, P) = p)
  BY BaseOff DEF Sound
<1> QED
  BY <1>1 DEF Sound

(* Where no VMA overlaps no page is covered.                               *)
LEMMA FreeSpan ==
    ASSUME IInv, NEW t \in Task, NEW v \in Addr, NEW n \in Nat, ~Overlaps(t, v, n)
    PROVE  Vacant(vmas, t, Span(v, n))
<1> SUFFICES ASSUME NEW x \in vmas[t], NEW a \in Span(v, n), a \in Extent(x) PROVE FALSE
  BY DEF Vacant
<1>1. x \in VMA
  BY DEF IInv, Sound, Base, Types, Mapping
<1>2. x.start \in Nat /\ x.len \in Nat /\ v \in Nat
  BY <1>1, FrameFacts DEF VMA
<1>3. v < x.start + x.len => ~(v + n > x.start)
  BY DEF Overlaps
<1>4. a \in v .. (v + n - 1) /\ a \in x.start .. (x.start + x.len - 1)
  BY DEF Span, Extent
<1> QED
  BY <1>2, <1>3, <1>4

-----------------------------------------------------------------------------
(* The calls.                                                              *)

(* The VMA a call adds is well formed.                                     *)
LEMMA NewVmaIs ==
    ASSUME NEW v \in Addr, NEW n \in Nat \ {0}, NEW kind \in Kind, NEW kept \in BOOLEAN,
           InUserSpace(v, n), kind = "private" \/ kept
    PROVE  /\ NewVma(v, n, kind, kept) \in Mapping
           /\ Extent(NewVma(v, n, kind, kept)) = Span(v, n)
           /\ NewVma(v, n, kind, kept).kind = kind
           /\ Span(v, n) \subseteq Addr
<1>1. NewVma(v, n, kind, kept) \in VMA
  BY DEF NewVma, VMA
<1> QED
  BY <1>1 DEF NewVma, Mapping, Extent, InUserSpace, IsPrivate

(* What is always so of the variables.                                     *)
LEMMA Facts ==
    ASSUME IInv
    PROVE  /\ pt \in [Task -> [Addr -> Entry]] /\ vmas \in [Task -> SUBSET Mapping]
           /\ regions \in Seq(Region) /\ alive \subseteq Task /\ careless \subseteq Task
           /\ Memory = Mem(owned, pt)
           /\ careless = {} => Runs(owned)
BY DEF IInv, Sound, Inv, Base, Types, Memory, Mem

(* What was taken is released with the pages it was mapped at.             *)
LEMMA RolledBack ==
    ASSUME NEW ow, NEW p, NEW t, NEW v, NEW n, NEW F, Held(p, t, Span(v, n) \cap Addr) = F,
           NEW q, Off(p, t, Span(v, n)) = q,
           Becomes(unmapPages(Mem(ow, p), t, v, n, TRUE))
    PROVE  owned' = Freed(ow, F) /\ pt' = q
<1>1. unmapPages(Mem(ow, p), t, v, n, TRUE) = Mem(Freed(ow, F), q)
  BY DEF unmapPages, Mem, Off, Release, Freed, Held
<1> QED
  BY <1>1, BecomesIs

(* Mapping a sequence of frames or devices, page by page.                  *)
LEMMA AtIs ==
    ASSUME NEW fs, NEW n \in Nat, Len(fs) = n, DOMAIN fs = 1 .. n, NEW v \in Nat
    PROVE  /\ At(v, fs) \in [Span(v, n) -> Range(fs)]
           /\ \A a \in Span(v, n) : a - v + 1 \in 1 .. n /\ At(v, fs)[a] = fs[a - v + 1]
           /\ \A i \in 1 .. n : v + i - 1 \in Span(v, n) /\ At(v, fs)[v + i - 1] = fs[i]
<1>1. ASSUME NEW a \in Span(v, n)
      PROVE  a - v + 1 \in 1 .. n /\ At(v, fs)[a] = fs[a - v + 1]
  <2>1. a \in v .. (v + n - 1)
    BY DEF Span
  <2> QED
    BY <2>1 DEF At
<1>2. ASSUME NEW i \in 1 .. n
      PROVE  v + i - 1 \in Span(v, n) /\ At(v, fs)[v + i - 1] = fs[i]
  <2>1. v + i - 1 \in Span(v, n)
    BY DEF Span
  <2>2. v + i - 1 - v + 1 = i
    OBVIOUS
  <2> QED
    BY <2>1, <2>2 DEF At
<1>3. \A i \in 1 .. n : fs[i] \in Range(fs)
  BY DEF Range
<1>4. At(v, fs) \in [Span(v, n) -> Range(fs)]
  BY <1>1, <1>3 DEF At
<1> QED
  BY <1>1, <1>2, <1>4

(* One run of one frame for each frame taken.                              *)
LEMMA OnesAre ==
    ASSUME NEW ow, NEW F \in SUBSET Unowned(ow)
    PROVE  /\ Disjoint(Ones(F))
           /\ \A r \in Ones(F) : IsRun(r) /\ RunFrames(r) \subseteq Unowned(ow) /\ r[1] \in F
           /\ \A f \in F : <<f, 1>> \in Ones(F) /\ f \in RunFrames(<<f, 1>>)
<1>1. \A f \in F : f \in Frame /\ RunFrames(<<f, 1>>) = {f} /\ IsRun(<<f, 1>>)
  BY SingleRun DEF Unowned
<1> QED
  BY <1>1 DEF Ones, Disjoint

(* Frames from anywhere, each mapped at one page.                          *)
LEMMA MapFrames ==
    ASSUME NEW ow, NEW p, NEW vm, NEW rg, NEW al, NEW st, NEW lf, NEW ca,
           Sound(ow, p, vm, rg, al, st, lf, ca),
           NEW t \in al, NEW w \in Mapping, IsPrivate(w), Vacant(vm, t, Extent(w)),
           NEW F \in SUBSET Unowned(ow), NEW f, OneEach(f, Extent(w), F)
    PROVE  Sound(ow \cup Ones(F), Onto(p, t, Extent(w), f), With(vm, t, w), rg, al, st, lf, ca)
<1>1. f \in [Extent(w) -> Frame] /\ \A a, b \in Extent(w) : f[a] = f[b] => a = b
  BY DEF Unowned, OneEach
<1>2. /\ Disjoint(Ones(F))
      /\ \A r \in Ones(F) : IsRun(r) /\ RunFrames(r) \subseteq Unowned(ow) /\ r[1] \in F
      /\ \A x \in F : <<x, 1>> \in Ones(F) /\ x \in RunFrames(<<x, 1>>)
  BY OnesAre
<1>3. /\ \A r \in Ones(F) : \E a \in Extent(w) : f[a] = r[1]
      /\ \A a \in Extent(w) : \E r \in Ones(F) : f[a] \in RunFrames(r)
  <2>1. \A a \in Extent(w) : f[a] \in F
    BY DEF OneEach
  <2>2. \A r \in Ones(F) : \E a \in Extent(w) : f[a] = r[1]
    BY <1>2 DEF OneEach
  <2> QED
    BY <1>2, <2>1, <2>2
<1> QED
  BY <1>1, <1>2, <1>3, MapPrivate

(* Frames taken and mapped one after the other.                            *)
LEMMA MapTaken ==
    ASSUME NEW ow, NEW p, NEW t, NEW v \in Nat, NEW F \in SUBSET Frame
    PROVE  /\ Cardinality(F) \in Nat /\ Len(AsSeq(F)) = Cardinality(F)
           /\ MapPages(Take(Mem(ow, p), F), t, v, AsSeq(F)) =
                Mem(ow \cup Ones(F), Onto(p, t, Span(v, Cardinality(F)), At(v, AsSeq(F))))
           /\ OneEach(At(v, AsSeq(F)), Span(v, Cardinality(F)), F)
<1> DEFINE k == Cardinality(F)
           fs == AsSeq(F)
<1>1. /\ k \in Nat /\ fs \in Seq(Frame) /\ Len(fs) = k /\ Range(fs) = F
      /\ \A i, j \in 1 .. k : fs[i] = fs[j] => i = j
      /\ \A f \in F : \E i \in 1 .. k : fs[i] = f
  BY AsSeqIs
<1>2. MapPages(Take(Mem(ow, p), F), t, v, fs) =
        Mem(ow \cup Ones(F), Onto(p, t, Span(v, Len(fs)), At(v, fs)))
  <2>1. Take(Mem(ow, p), F) = Mem(ow \cup Ones(F), p)
    BY TakeIs
  <2> QED
    BY <2>1, MapPagesIs
<1> HIDE DEF k, fs
<1>3. /\ At(v, fs) \in [Span(v, k) -> F]
      /\ \A a \in Span(v, k) : a - v + 1 \in 1 .. k /\ At(v, fs)[a] = fs[a - v + 1]
      /\ \A i \in 1 .. k : v + i - 1 \in Span(v, k) /\ At(v, fs)[v + i - 1] = fs[i]
  <2>1. k \in Nat /\ DOMAIN fs = 1 .. k /\ Len(fs) = k /\ Range(fs) = F
    BY <1>1
  <2> QED
    BY <2>1, AtIs
<1>4. \A f \in F : \E a \in Span(v, k) : At(v, fs)[a] = f
  BY <1>1, <1>3
<1>5. ASSUME NEW a \in Span(v, k), NEW b \in Span(v, k), At(v, fs)[a] = At(v, fs)[b]
      PROVE  a = b
  <2>1. a \in Int /\ b \in Int
    BY DEF Span
  <2>2. a - v + 1 = b - v + 1
    BY <1>1, <1>3, <1>5
  <2> QED
    BY <2>1, <2>2
<1>6. OneEach(At(v, fs), Span(v, k), F)
  BY <1>3, <1>4, <1>5 DEF OneEach
<1> QED
  BY <1>1, <1>2, <1>6 DEF k, fs

(* mmap: frames from anywhere, or none at all.                             *)
LEMMA Mmap ==
    ASSUME IInv, NEW t \in alive, NEW v \in Addr, NEW n \in Nat \ {0}, NEW kept \in BOOLEAN,
           InUserSpace(v, n), syscallMmap(t, v, n, kept), UNCHANGED <<stale, left, careless>>
    PROVE  IInv'
<1> DEFINE w == NewVma(v, n, "private", kept)
<1>1. t \in Task /\ v \in Nat /\ Memory = Mem(owned, pt) /\ pt \in [Task -> [Addr -> Entry]]
  BY Facts, FrameFacts
<1>2. /\ w \in Mapping /\ Extent(w) = Span(v, n) /\ IsPrivate(w) /\ Span(v, n) \subseteq Addr
  BY NewVmaIs DEF Kind, IsPrivate
<1>3. Vacant(vmas, t, Span(v, n))
  BY <1>1, FreeSpan DEF syscallMmap
<1>4. regions' = regions /\ alive' = alive
  BY DEF syscallMmap
<1>5. Unowned(owned) \in SUBSET Frame
  BY DEF Unowned
<1>6. CASE Cardinality(Unowned(owned)) >= n
  <2>1. PICK frames \in kSubset(n, Unowned(owned)) :
          /\ Becomes(MapPages(Take(Memory, frames), t, v, AsSeq(frames)))
          /\ Track(t, v, n, "private", kept)
    BY <1>6 DEF syscallMmap
  <2>2. frames \in SUBSET Unowned(owned) /\ Cardinality(frames) = n /\ frames \in SUBSET Frame
    BY <1>5 DEF kSubset
  <2> DEFINE f == At(v, AsSeq(frames))
  <2>3. /\ MapPages(Take(Memory, frames), t, v, AsSeq(frames)) =
             Mem(owned \cup Ones(frames), Onto(pt, t, Extent(w), f))
        /\ OneEach(f, Extent(w), frames)
    <3>1. /\ MapPages(Take(Mem(owned, pt), frames), t, v, AsSeq(frames)) =
                Mem(owned \cup Ones(frames), Onto(pt, t, Span(v, Cardinality(frames)), f))
          /\ OneEach(f, Span(v, Cardinality(frames)), frames)
      BY <1>1, <2>2, MapTaken
    <3> HIDE DEF f, w
    <3> QED
      BY <1>1, <1>2, <2>2, <3>1
  <2>4. vmas' = With(vmas, t, w)
    BY <2>1 DEF Track, With
  <2> HIDE DEF f, w
  <2>5. owned' = owned \cup Ones(frames) /\ pt' = Onto(pt, t, Extent(w), f)
    BY <2>1, <2>3, BecomesIs
  <2>6. Sound(owned \cup Ones(frames), Onto(pt, t, Extent(w), f), With(vmas, t, w), regions, alive,
              stale, left, careless)
    BY <1>2, <1>3, <2>2, <2>3, MapFrames DEF IInv
  <2> QED
    BY <1>4, <2>4, <2>5, <2>6 DEF IInv
<1>7. CASE ~(Cardinality(Unowned(owned)) >= n)
  <2> DEFINE frames == Unowned(owned)
             k == Cardinality(frames)
             f == At(v, AsSeq(frames))
             q == Onto(pt, t, Span(v, k), f)
  <2>1. /\ MapPages(Take(Memory, frames), t, v, AsSeq(frames)) = Mem(owned \cup Ones(frames), q)
        /\ OneEach(f, Span(v, k), frames) /\ k \in Nat
    BY <1>1, <1>5, MapTaken
  <2>2. k < n /\ Becomes(unmapPages(Mem(owned \cup Ones(frames), q), t, v, k, TRUE)) /\ vmas' = vmas
    <3>1. k < n
      BY <1>7, <2>1
    <3>2. /\ Becomes(unmapPages(MapPages(Take(Memory, frames), t, v, AsSeq(frames)), t, v, k, TRUE))
          /\ vmas' = vmas
      BY <1>7 DEF syscallMmap, AllocFailed
    <3> QED
      BY <2>1, <3>1, <3>2
  <2>3. Span(v, k) \subseteq Span(v, n)
    BY <1>1, <2>1, <2>2 DEF Span
  <2>4. Vacant(vmas, t, Span(v, k))
    BY <1>3, <2>3 DEF Vacant
  <2>5. Held(q, t, Span(v, k) \cap Addr) = frames
    <3>1. \A a \in Span(v, k) : a \in Addr /\ q[t][a] = f[a]
      BY <1>1, <1>2, <2>3 DEF Onto
    <3>2. None \notin frames
      BY <1>5, FrameFacts
    <3> HIDE DEF frames, k, q, f
    <3> QED
      BY <2>1, <3>1, <3>2 DEF Held, OneEach
  <2>6. Off(q, t, Span(v, k)) = Off(pt, t, Span(v, k))
    BY <1>1, MappedAndUnmapped
  <2>7. careless = {} => Freed(owned \cup Ones(frames), frames) = owned
    <3>1. \A r \in Ones(frames) : r[1] \in frames
      BY DEF Ones
    <3> QED
      BY <3>1, Facts, TakenAndReleased
  <2> HIDE DEF frames, k, f, q
  <2>8. owned' = Freed(owned \cup Ones(frames), frames) /\ pt' = Off(pt, t, Span(v, k))
    BY <2>2, <2>5, <2>6, RolledBack
  <2>9. Sound(owned', Off(pt, t, Span(v, k)), vmas, regions, alive, stale, left, careless)
    BY <1>1, <2>4, <2>7, <2>8, Undone DEF IInv
  <2> QED
    BY <1>4, <2>2, <2>8, <2>9 DEF IInv
<1> QED
  BY <1>6, <1>7

(* To be careless harms nothing but what is said of those who are not.     *)
LEMMA Blamed ==
    ASSUME NEW p, NEW vm, NEW rg, NEW al, NEW ca, Base(p, vm, rg, al, ca), NEW t \in Task,
           NEW ow, NEW st, NEW lf
    PROVE  Sound(ow, p, vm, rg, al, st, lf, ca \cup {t})
<1>1. Base(p, vm, rg, al, ca \cup {t})
  BY DEF Base, Types, Tables
<1> QED
  BY <1>1 DEF Sound

(* What allocDma maps is at least pages.                                   *)
LEMMA FollowingIs ==
    ASSUME NEW first \in Nat, NEW n \in Nat
    PROVE  /\ Len(Following(first, n)) = n /\ DOMAIN Following(first, n) = 1 .. n
           /\ Range(Following(first, n)) \subseteq Frame \cup {Device}
           /\ \A i \in 1 .. n : first + i - 1 \in Frame => Following(first, n)[i] = first + i - 1
<1>1. Following(first, n) \in Seq(Frame \cup {Device})
  BY DEF Following
<1> QED
  BY <1>1 DEF Following, Range

(* allocDma: one run, mapped from its first frame.                         *)
LEMMA AllocDma ==
    ASSUME IInv, NEW t \in alive, NEW v \in Addr, NEW n \in Nat \ {0}, NEW kept \in BOOLEAN,
           InUserSpace(v, n), syscallAllocDma(t, v, n, kept), Blame(t, n >= Width),
           UNCHANGED <<stale, left>>
    PROVE  IInv'
<1> DEFINE w == NewVma(v, n, "private", kept)
<1>1. t \in Task /\ v \in Nat /\ Memory = Mem(owned, pt) /\ careless \subseteq Task
  BY Facts, FrameFacts
<1>2. /\ w \in Mapping /\ Extent(w) = Span(v, n) /\ IsPrivate(w) /\ Span(v, n) \subseteq Addr
  BY NewVmaIs DEF Kind, IsPrivate
<1>3. Vacant(vmas, t, Span(v, n))
  BY <1>1, FreeSpan DEF syscallAllocDma
<1>4. PICK first \in Frame, size \in Rounded(Narrowed(n)) :
        /\ RunFrames(<<first, size>>) \subseteq Unowned(owned)
        /\ Becomes(MapPages(TakeRun(Memory, <<first, size>>), t, v, Following(first, n)))
  BY DEF syscallAllocDma
<1> DEFINE run == <<first, size>>
           fs == Following(first, n)
           f == At(v, fs)
<1>5. /\ first \in Nat
      /\ Len(fs) = n /\ DOMAIN fs = 1 .. n /\ Range(fs) \subseteq Frame \cup {Device}
      /\ \A i \in 1 .. n : first + i - 1 \in Frame => fs[i] = first + i - 1
  BY FrameFacts, FollowingIs
<1>6. owned' = owned \cup {run} /\ pt' = Onto(pt, t, Extent(w), f)
  <2>1. TakeRun(Mem(owned, pt), run) = Mem(owned \cup {run}, pt)
    BY TakeRunIs
  <2> HIDE DEF fs, run, w
  <2>2. MapPages(Mem(owned \cup {run}, pt), t, v, fs) =
          Mem(owned \cup {run}, Onto(pt, t, Span(v, Len(fs)), f))
    BY MapPagesIs
  <2>3. Becomes(Mem(owned \cup {run}, Onto(pt, t, Span(v, n), f)))
    BY <1>1, <1>4, <1>5, <2>1, <2>2 DEF fs, run
  <2> QED
    BY <1>2, <2>3, BecomesIs
<1>7. vmas' = With(vmas, t, w) /\ regions' = regions /\ alive' = alive
  BY DEF syscallAllocDma, Track, With
<1> HIDE DEF fs, w
<1>8. /\ f \in [Span(v, n) -> Frame \cup {Device}]
      /\ \A a \in Span(v, n) : a - v + 1 \in 1 .. n /\ f[a] = fs[a - v + 1]
  <2>1. /\ f \in [Span(v, n) -> Range(fs)]
        /\ \A a \in Span(v, n) : a - v + 1 \in 1 .. n /\ f[a] = fs[a - v + 1]
    BY <1>1, <1>5, AtIs
  <2> QED
    BY <1>5, <2>1
<1> HIDE DEF f
<1>9. CASE n >= Width
  <2>1. careless' = careless \cup {t}
    BY <1>9 DEF Blame
  <2>2. f \in [Extent(w) -> Frame \cup {Device}] /\ Vacant(vmas, t, Extent(w))
    BY <1>2, <1>3, <1>8
  <2>3. Base(pt, vmas, regions, alive, careless)
    BY DEF IInv, Sound
  <2>4. Base(Onto(pt, t, Extent(w), f), With(vmas, t, w), regions, alive, careless)
    BY <1>2, <2>2, <2>3, BaseMap
  <2>5. Sound(owned', Onto(pt, t, Extent(w), f), With(vmas, t, w), regions, alive,
              stale', left', careless \cup {t})
    BY <1>1, <2>4, Blamed
  <2> QED
    BY <1>6, <1>7, <2>1, <2>5 DEF IInv
<1>10. CASE ~(n >= Width)
  <2>1. careless' = careless
    BY <1>10 DEF Blame
  <2>2. size \in Nat /\ n <= size
    <3>1. Narrowed(n) = n
      BY <1>10, AddressSpaceAssumption DEF Narrowed
    <3>2. size \in n .. (2 * n - 1)
      BY <3>1 DEF Rounded
    <3> QED
      BY <3>2
  <2>3. RunFrames(run) = first .. (first + size - 1) /\ run[1] = first
    BY DEF RunFrames, Span
  <2>4. RunFrames(run) \subseteq Frame
    BY <1>4 DEF Unowned
  <2>5. IsRun(run) /\ RunFrames(run) \subseteq Unowned(owned)
    BY <1>4, <1>5, <2>2, <2>3, <2>4 DEF IsRun
  <2> HIDE DEF run
  <2>6. ASSUME NEW a \in Span(v, n) PROVE f[a] = first + (a - v) /\ f[a] \in RunFrames(run)
    <3>1. a \in Int /\ a - v + 1 \in 1 .. n
      BY <1>8 DEF Span
    <3>2. first + (a - v + 1) - 1 = first + (a - v) /\ first + (a - v) \in first .. (first + size - 1)
      BY <1>1, <1>5, <2>2, <3>1
    <3>3. first + (a - v) \in RunFrames(run) /\ first + (a - v) \in Frame
      BY <2>3, <2>4, <3>2
    <3>4. fs[a - v + 1] = first + (a - v)
      BY <1>5, <3>1, <3>2, <3>3
    <3> QED
      BY <1>8, <3>3, <3>4
  <2>7. ASSUME NEW a \in Span(v, n), NEW b \in Span(v, n), f[a] = f[b] PROVE a = b
    <3>1. a \in Int /\ b \in Int
      BY DEF Span
    <3>2. first + (a - v) = first + (b - v)
      BY <2>6, <2>7
    <3> QED
      BY <1>1, <1>5, <3>1, <3>2
  <2>8. f \in [Extent(w) -> Frame] /\ \A a, b \in Extent(w) : f[a] = f[b] => a = b
    BY <1>2, <1>8, <2>4, <2>6, <2>7
  <2>9. Disjoint({run})
    BY DEF Disjoint
  <2>10. \A r \in {run} : \E a \in Extent(w) : f[a] = r[1]
    <3>1. v \in Span(v, n) /\ first + (v - v) = first
      BY <1>1, <1>5 DEF Span
    <3> QED
      BY <1>2, <2>3, <2>6, <3>1
  <2>11. \A a \in Extent(w) : \E r \in {run} : f[a] \in RunFrames(r)
    BY <1>2, <2>6
  <2>12. Vacant(vmas, t, Extent(w))
    BY <1>2, <1>3
  <2>13. Sound(owned \cup {run}, Onto(pt, t, Extent(w), f), With(vmas, t, w), regions, alive,
               stale, left, careless)
    BY <1>2, <2>5, <2>8, <2>9, <2>10, <2>11, <2>12, MapPrivate DEF IInv
  <2> QED
    BY <1>6, <1>7, <2>1, <2>13 DEF IInv
<1> QED
  BY <1>9, <1>10

(* In a careful task a mapping is the only one that starts where it does.  *)
LEMMA UntrackIs ==
    ASSUME IInv, NEW t \in Task \ careless, NEW w \in vmas[t], Untrack(t, w.start)
    PROVE  vmas' = Without(vmas, t, {w})
<1>1. \A x \in vmas[t] : x \in VMA
  BY DEF IInv, Sound, Base, Types, Mapping
<1>2. \A x \in vmas[t] : x.start \in Addr /\ x.start \in Nat /\ x.len \in Nat \ {0}
  BY <1>1, FrameFacts DEF VMA
<1>3. \A x \in vmas[t] : x.start \in Extent(x)
  BY <1>2 DEF Extent, Span
<1>4. \A x \in vmas[t] : x.start = w.start => x = w
  BY <1>2, <1>3 DEF IInv, Sound, Base, Tables, Matches
<1> QED
  BY <1>4 DEF Untrack, Without

(* Stale pages are forgotten as they are unmapped.                         *)
LEMMA Forgotten ==
    ASSUME NEW ow, NEW p, NEW vm, NEW rg, NEW al, NEW st, NEW lf, Inv(ow, p, vm, rg, al, st, lf),
           NEW t \in Task, NEW P
    PROVE  {s \in st : Off(p, t, P)[s[1]][s[2]] # None} = Outside(st, t, P)
<1> SUFFICES ASSUME NEW s \in st
             PROVE  Off(p, t, P)[s[1]][s[2]] # None <=> ~(s[1] = t /\ s[2] \in P)
  BY DEF Outside
<1>1. s[1] \in Task /\ s[2] \in Addr
  <2>1. s \in Task \X Addr
    BY DEF Inv, Stale
  <2> QED
    BY <2>1
<1>2. p[s[1]][s[2]] # None
  BY <1>1 DEF Inv, Stale, Base, Tables, Matches
<1>3. p \in [Task -> [Addr -> Entry]]
  BY DEF Inv, Base, Types
<1>4. /\ \A u \in Task \ {t} : Off(p, t, P)[u] = p[u]
      /\ \A a \in Addr : Off(p, t, P)[t][a] = IF a \in P THEN None ELSE p[t][a]
  BY <1>3, OffIs
<1> QED
  BY <1>1, <1>2, <1>4

(* Pages given back whole or not mapped at all; or else the task is one of *)
(* the careless from then on, and only its own record is spoilt.           *)
LEMMA Unmaps ==
    ASSUME IInv, NEW t \in alive, NEW v \in Addr, NEW n \in Nat, NEW private \in BOOLEAN,
           InUserSpace(v, n),
           owned' = IF private THEN Freed(owned, Held(pt, t, Span(v, n))) ELSE owned,
           pt' = Off(pt, t, Span(v, n)), Untrack(t, v), UNCHANGED <<regions, alive, left>>,
           Blame(t, ~Careful(t, v, n, private)), Remember({})
    PROVE  IInv'
<1>1. /\ t \in Task /\ pt \in [Task -> [Addr -> Entry]] /\ vmas \in [Task -> SUBSET Mapping]
      /\ careless \subseteq Task
  BY Facts
<1>2. /\ pt' \in [Task -> [Addr -> Entry]]
      /\ \A u \in Task \ {t} : pt'[u] = pt[u]
  BY <1>1, OffIs
<1>3. /\ vmas' \in [Task -> SUBSET Mapping]
      /\ \A u \in Task \ {t} : vmas'[u] = vmas[u]
  BY <1>1 DEF Untrack
<1>4. Base(pt, vmas, regions, alive, careless)
  BY DEF IInv, Sound
<1>5. careless' = careless \/ careless' = careless \cup {t}
  BY DEF Blame
<1>6. CASE t \in careless'
  <2>1. Types(pt', vmas', regions', alive', careless') /\ Gone(pt', vmas', alive')
    BY <1>1, <1>2, <1>3, <1>4, <1>5 DEF Base, Types, Gone
  <2>2. Tables(pt', vmas', careless')
    BY <1>2, <1>3, <1>4, <1>5, <1>6 DEF Base, Tables
  <2> QED
    BY <1>6, <2>1, <2>2 DEF IInv, Sound, Base
<1>7. CASE t \notin careless'
  <2>1. careless' = careless /\ t \in Task \ careless /\ Careful(t, v, n, private)
    BY <1>1, <1>7 DEF Blame
  <2>2. CASE Whole(t, v, n, private)
    <3>1. PICK w \in vmas[t] : w.start = v /\ w.len = n /\ IsPrivate(w) = private
      BY <2>2 DEF Whole
    <3>2. Extents({w}) = Span(v, n)
      BY <3>1 DEF Extents, Extent
    <3>3. vmas' = Without(vmas, t, {w})
      BY <2>1, <3>1, UntrackIs
    <3>4. Base(pt', vmas', regions', alive', careless')
      BY <1>1, <1>4, <2>1, <3>2, <3>3, BaseDrop
    <3>5. ASSUME careless = {}
          PROVE  Inv(owned', pt', vmas', regions', alive', stale', left')
      <4>1. Inv(owned, pt, vmas, regions, alive, stale, left)
        BY <3>5 DEF IInv, Sound
      <4>2. stale' = Outside(stale, t, Extents({w}))
        <5>1. stale' = {s \in stale : Off(pt, t, Span(v, n))[s[1]][s[2]] # None}
          BY DEF Remember
        <5> QED
          BY <1>1, <3>2, <4>1, <5>1, Forgotten
      <4>3. owned' = Spared(owned, pt, t, {w})
        <5>1. \A r \in owned : r[1] # None
          BY <4>1, FrameFacts DEF Inv, Runs, IsRun
        <5>2. Extent(w) = Span(v, n)
          BY <3>1 DEF Extent
        <5> QED
          BY <3>1, <5>1, <5>2 DEF Freed, Held, Spared
      <4>4. Inv(Spared(owned, pt, t, {w} \ {}), Off(pt, t, Extents({w})), Without(vmas, t, {w}),
                regions, alive, Outside(stale, t, Extents({w})), left \cup StartsIn(owned, pt, t, {}))
        BY <1>1, <4>1, DropMappings
      <4>5. {w} \ {} = {w} /\ left \cup StartsIn(owned, pt, t, {}) = left
        BY DEF StartsIn
      <4> QED
        BY <3>2, <3>3, <4>2, <4>3, <4>4, <4>5
    <3> QED
      BY <2>1, <3>4, <3>5 DEF IInv, Sound
  <2>3. CASE Nothing(t, v, n)
    <3>1. Vacant(vmas, t, Span(v, n)) /\ \A w \in vmas[t] : w.start # v
      BY <2>3 DEF Nothing, Vacant, Extent
    <3>2. pt' = pt
      BY <1>1, <1>4, <2>1, <3>1, BaseOff
    <3>3. vmas' = vmas
      BY <1>1, <3>1 DEF Untrack
    <3>4. ASSUME careless = {} PROVE owned' = owned /\ stale' = stale
      <4>1. Inv(owned, pt, vmas, regions, alive, stale, left)
        BY <3>4 DEF IInv, Sound
      <4>2. \A a \in Span(v, n) : pt[t][a] = None
        BY <1>1, <2>1, <3>1 DEF IInv, Sound, Base, Tables, Matches, Vacant, InUserSpace
      <4>3. Held(pt, t, Span(v, n)) = {}
        BY <4>2 DEF Held
      <4>4. Freed(owned, {}) = owned
        BY DEF Freed
      <4>5. \A s \in stale : pt[s[1]][s[2]] # None
        <5> SUFFICES ASSUME NEW s \in stale PROVE pt[s[1]][s[2]] # None
          OBVIOUS
        <5>1. s \in Task \X Addr
          BY <4>1 DEF Inv, Stale
        <5>2. s[1] \in Task /\ s[2] \in Addr
          BY <5>1
        <5> QED
          BY <4>1, <5>2 DEF Inv, Stale, Base, Tables, Matches
      <4> QED
        BY <3>2, <4>3, <4>4, <4>5 DEF Remember
    <3> QED
      BY <2>1, <3>2, <3>3, <3>4 DEF IInv, Sound
  <2> QED
    BY <2>1, <2>2, <2>3 DEF Careful
<1> QED
  BY <1>6, <1>7


(* mapBar maps the device and nothing else.                                *)
LEMMA MapBar ==
    ASSUME IInv, NEW t \in alive, NEW v \in Addr, NEW n \in Nat \ {0}, InUserSpace(v, n),
           syscallMapBar(t, v, n), UNCHANGED <<stale, left, careless>>
    PROVE  IInv'
<1> DEFINE w == NewVma(v, n, "mmio", TRUE)
           fs == [i \in 1 .. n |-> Device]
           f == At(v, fs)
<1>1. t \in Task /\ v \in Nat /\ Memory = Mem(owned, pt)
  BY Facts, FrameFacts
<1>2. /\ w \in Mapping /\ Extent(w) = Span(v, n) /\ w.kind = "mmio" /\ Span(v, n) \subseteq Addr
  BY NewVmaIs DEF Kind
<1>3. Vacant(vmas, t, Span(v, n))
  BY <1>1, FreeSpan DEF syscallMapBar
<1>4. Len(fs) = n /\ DOMAIN fs = 1 .. n /\ Range(fs) \subseteq {Device}
  <2>1. fs \in Seq({Device})
    OBVIOUS
  <2> QED
    BY <2>1 DEF Range
<1>5. vmas' = With(vmas, t, w) /\ regions' = regions /\ alive' = alive
  BY DEF syscallMapBar, Track, With
<1>6. Becomes(MapPages(Memory, t, v, fs))
  BY DEF syscallMapBar
<1> HIDE DEF fs, w
<1>7. owned' = owned /\ pt' = Onto(pt, t, Extent(w), f)
  <2>1. MapPages(Mem(owned, pt), t, v, fs) = Mem(owned, Onto(pt, t, Span(v, Len(fs)), f))
    BY MapPagesIs
  <2>2. Becomes(Mem(owned, Onto(pt, t, Extent(w), f)))
    BY <1>1, <1>2, <1>4, <1>6, <2>1
  <2> QED
    BY <2>2, BecomesIs
<1>8. f \in [Span(v, n) -> Range(fs)]
  BY <1>1, <1>4, AtIs
<1> HIDE DEF f
<1>9. /\ f \in [Extent(w) -> Frame \cup {Device}] /\ \A a \in Extent(w) : f[a] = Device
      /\ Vacant(vmas, t, Extent(w))
  BY <1>2, <1>3, <1>4, <1>8
<1>10. Sound(owned, Onto(pt, t, Extent(w), f), With(vmas, t, w), regions, alive, stale, left, careless)
  BY <1>2, <1>9, MapForeign DEF IInv
<1> QED
  BY <1>5, <1>7, <1>10 DEF IInv

(* Mapping the frames of a region in use.                                  *)
LEMMA MapRegion ==
    ASSUME NEW ow, NEW p, NEW vm, NEW rg, NEW al, NEW st, NEW lf, NEW ca,
           Sound(ow, p, vm, rg, al, st, lf, ca),
           NEW t \in al, NEW v \in Addr, NEW h \in DOMAIN rg, rg[h].used,
           NEW n, n = Len(rg[h].frames), InUserSpace(v, n), Vacant(vm, t, Span(v, n))
    PROVE  Sound(ow, Onto(p, t, Span(v, n), At(v, rg[h].frames)),
                 With(vm, t, NewVma(v, n, "shared", TRUE)), rg, al, st, lf, ca)
<1> DEFINE w == NewVma(v, n, "shared", TRUE)
           fs == rg[h].frames
           f == At(v, fs)
<1>1. fs \in Seq(Frame) /\ fs # <<>>
  <2>1. rg[h] \in Region /\ fs # <<>>
    BY DEF Sound, Base, Types
  <2> QED
    BY <2>1 DEF Region
<1>2. n \in Nat \ {0} /\ Len(fs) = n /\ DOMAIN fs = 1 .. n /\ Range(fs) \subseteq Frame
  BY <1>1 DEF Range
<1>3. v \in Nat
  BY FrameFacts
<1>4. w \in Mapping /\ Extent(w) = Span(v, n) /\ w.kind = "shared"
  BY <1>2, NewVmaIs DEF Kind
<1> HIDE DEF w, fs
<1>5. f \in [Span(v, n) -> Range(fs)]
  BY <1>2, <1>3, AtIs
<1> HIDE DEF f
<1>6. f \in [Extent(w) -> Frame \cup {Device}] /\ Vacant(vm, t, Extent(w))
  BY <1>2, <1>4, <1>5
<1>7. rg[h].used /\ \A a \in Extent(w) : f[a] \in Range(rg[h].frames)
  BY <1>4, <1>5 DEF fs
<1>8. Sound(ow, Onto(p, t, Extent(w), f), With(vm, t, w), rg, al, st, lf, ca)
  BY <1>4, <1>6, <1>7, MapForeign
<1> QED
  BY <1>4, <1>8 DEF f, fs, w

(* mapShared maps a region in use, or undoes it.                           *)
LEMMA MapShared ==
    ASSUME IInv, NEW t \in alive, NEW v \in Addr, NEW h \in DOMAIN regions,
           NEW canWrite \in BOOLEAN, InUserSpace(v, Len(regions[h].frames)),
           syscallMapShared(t, v, h, canWrite), UNCHANGED <<stale, left, careless>>
    PROVE  IInv'
<1> DEFINE fs == regions[h].frames
           n == Len(fs)
           f == At(v, fs)
           w == NewVma(v, n, "shared", TRUE)
<1>1. t \in Task /\ pt \in [Task -> [Addr -> Entry]] /\ Memory = Mem(owned, pt)
  BY Facts
<1>2. regions[h].used /\ ~Overlaps(t, v, n) /\ regions' = regions /\ alive' = alive
  BY DEF syscallMapShared
<1>3. n \in Nat
  <2>1. regions[h] \in Region
    BY Facts
  <2>2. fs \in Seq(Frame)
    BY <2>1 DEF Region
  <2> QED
    BY <2>2
<1>4. Vacant(vmas, t, Span(v, n))
  BY <1>1, <1>2, <1>3, FreeSpan
<1>5. MapPages(Memory, t, v, fs) = Mem(owned, Onto(pt, t, Span(v, n), f))
  BY <1>1, MapPagesIs
<1>6. CASE canWrite
  <2>1. Becomes(Mem(owned, Onto(pt, t, Span(v, n), f))) /\ vmas' = With(vmas, t, w)
    BY <1>5, <1>6 DEF syscallMapShared, Track, With
  <2>2. owned' = owned /\ pt' = Onto(pt, t, Span(v, n), f)
    BY <2>1, BecomesIs
  <2>3. Sound(owned, Onto(pt, t, Span(v, n), f), With(vmas, t, w), regions, alive, stale, left, careless)
    BY <1>2, <1>4, MapRegion DEF IInv
  <2> QED
    BY <1>2, <2>1, <2>2, <2>3 DEF IInv
<1>7. CASE ~canWrite
  <2> DEFINE q == Onto(pt, t, Span(v, n), f)
  <2>1. Becomes(unmapPages(Mem(owned, q), t, v, n, FALSE)) /\ vmas' = vmas
    BY <1>5, <1>7 DEF syscallMapShared
  <2>2. Off(q, t, Span(v, n)) = Off(pt, t, Span(v, n))
    BY <1>1, MappedAndUnmapped
  <2> HIDE DEF q, n
  <2>3. owned' = owned /\ pt' = Off(pt, t, Span(v, n))
    BY <2>1, <2>2 DEF unmapPages, Mem, Off, Becomes
  <2>4. Sound(owned, Off(pt, t, Span(v, n)), vmas, regions, alive, stale, left, careless)
    BY <1>1, <1>4, Undone DEF IInv
  <2> QED
    BY <1>2, <2>1, <2>3, <2>4 DEF IInv
<1> QED
  BY <1>6, <1>7

(* destroyShared gives a region back; what still maps it is stale.         *)
LEMMA DestroyShared ==
    ASSUME IInv, NEW t \in alive, NEW h \in DOMAIN regions, syscallDestroyShared(t, h),
           Remember(MappedPages(h)), UNCHANGED <<left, careless>>
    PROVE  IInv'
<1> DEFINE F == RegionFrames(regions[h])
<1>1. /\ regions \in Seq(Region) /\ Memory = Mem(owned, pt) /\ regions[h].used
      /\ vmas' = vmas /\ alive' = alive
  BY Facts DEF syscallDestroyShared
<1>2. owned' = Freed(owned, F) /\ pt' = pt
  <2>1. Becomes(Release(Mem(owned, pt), F))
    BY <1>1 DEF syscallDestroyShared, FreeRegion, RegionFrames
  <2> HIDE DEF F
  <2>2. Release(Mem(owned, pt), F) = Mem(Freed(owned, F), pt)
    BY ReleaseIs
  <2> QED
    BY <2>1, <2>2, BecomesIs
<1>3. h \in 1 .. (Len(regions) + 1) /\ regions' = Put(regions, h, EmptyRegion)
  BY <1>1 DEF syscallDestroyShared, Put
<1>4. ASSUME careless = {}
      PROVE  /\ Freed(owned, F) \in SUBSET owned /\ stale \subseteq stale'
             /\ \A r \in owned : r \in Freed(owned, F) <=> r[1] \notin RegionFrames(regions[h])
             /\ \A s \in stale' \ stale : s \in Task \X Addr /\ pt[s[1]][s[2]] \in Range(regions[h].frames)
             /\ \A u \in Task : \A a \in Addr :
                   pt[u][a] \in Range(regions[h].frames) => <<u, a>> \in stale'
  <2>1. Inv(owned, pt, vmas, regions, alive, stale, left)
    BY <1>4 DEF IInv, Sound
  <2>2. stale' = {s \in stale \cup MappedPages(h) : pt[s[1]][s[2]] # None}
    BY <1>2 DEF Remember
  <2>3. \A s \in stale : pt[s[1]][s[2]] # None
    <3> SUFFICES ASSUME NEW s \in stale PROVE pt[s[1]][s[2]] # None
      OBVIOUS
    <3>1. s \in Task \X Addr
      BY <2>1 DEF Inv, Stale
    <3>2. s[1] \in Task /\ s[2] \in Addr
      BY <3>1
    <3> QED
      BY <2>1, <3>2 DEF Inv, Stale, Base, Tables, Matches
  <2>4. None \notin Range(regions[h].frames)
    <3>1. regions[h] \in Region
      BY <1>1
    <3> QED
      BY <3>1, FrameFacts DEF Region, Range
  <2>5. \A u \in Task : \A a \in Addr :
           pt[u][a] \in Range(regions[h].frames) => <<u, a>> \in MappedPages(h) /\ pt[u][a] # None
    BY <2>4 DEF MappedPages
  <2>6. stale \subseteq stale'
    BY <2>2, <2>3
  <2>7. \A s \in stale' \ stale : s \in MappedPages(h)
    BY <2>2
  <2>8. \A u \in Task : \A a \in Addr :
           pt[u][a] \in Range(regions[h].frames) => <<u, a>> \in stale'
    BY <2>2, <2>5
  <2> QED
    BY <2>6, <2>7, <2>8 DEF Freed, MappedPages
<1> HIDE DEF F
<1>5. Sound(Freed(owned, F), pt, vmas, Put(regions, h, EmptyRegion), alive, stale', left, careless)
  BY <1>1, <1>3, <1>4, DropRegion DEF IInv
<1> QED
  BY <1>1, <1>2, <1>3, <1>5 DEF IInv

(* The end of a task gives up all its mappings.                            *)
LEMMA Exits ==
    ASSUME IInv, NEW t \in alive, ExitCall(t)
    PROVE  IInv'
<1> DEFINE D == vmas[t]
           L == Skipped(t)
           kept == Freed(owned, Held(pt, t, PagesOf(DestroyedVmas(D))))
           m == Without(vmas, t, D)
           q == Clear(pt, t)
<1>1. /\ t \in Task /\ pt \in [Task -> [Addr -> Entry]] /\ vmas \in [Task -> SUBSET Mapping]
      /\ Memory = Mem(owned, pt)
  BY Facts
<1>2. owned' = kept /\ pt' = q
  <2>1. Destroyed(Mem(owned, pt), t, vmas[t]) = Mem(kept, q)
    BY DestroyedIs
  <2> QED
    BY <1>1, <2>1, BecomesIs DEF ExitCall, Exit
<1>3. /\ vmas' = m /\ m \in [Task -> SUBSET Mapping] /\ m[t] = {} /\ \A u \in Task \ {t} : m[u] = vmas[u]
      /\ regions' = regions /\ alive' = alive \ {t} /\ careless' = careless
  BY <1>1 DEF ExitCall, Exit, Without
<1>4. /\ q \in [Task -> [Addr -> Entry]]
      /\ \A u \in Task \ {t} : q[u] = pt[u]
      /\ \A a \in Addr : q[t][a] = None
  BY <1>1 DEF Clear, Entry
<1>5. Base(pt, vmas, regions, alive, careless)
  BY DEF IInv, Sound
<1> HIDE DEF kept, m, q
<1>6. Base(q, m, regions, alive \ {t}, careless)
  <2>1. Types(q, m, regions, alive \ {t}, careless) /\ Gone(q, m, alive \ {t})
    BY <1>3, <1>4, <1>5 DEF Base, Types, Gone
  <2>2. Tables(q, m, careless)
    BY <1>3, <1>4, <1>5 DEF Base, Tables, Matches
  <2> QED
    BY <2>1, <2>2 DEF Base
<1>7. ASSUME careless = {} PROVE Inv(owned', q, m, regions, alive \ {t}, stale', left')
  <2>1. Inv(owned, pt, vmas, regions, alive, stale, left)
    BY <1>7 DEF IInv, Sound
  <2>2. \A w \in D : w \in Mapping /\ Extent(w) \subseteq Addr
    BY <1>1 DEF Mapping
  <2>3. D \in SUBSET vmas[t] /\ L \in SUBSET D /\ \A w \in L : IsPrivate(w)
    BY DEF Skipped
  <2>4. Off(pt, t, Extents(D)) = q
    <3>1. \A a \in Addr : a \notin Extents(D) => pt[t][a] = None
      BY <1>1, <2>1 DEF Extents, Inv, Base, Tables, Matches
    <3>2. [a \in Addr |-> IF a \in Extents(D) THEN None ELSE pt[t][a]] = [a \in Addr |-> None]
      BY <3>1
    <3> QED
      BY <3>2 DEF Off, Clear, q
  <2>5. kept = Spared(owned, pt, t, D \ L)
    <3>1. \A r \in owned : r[1] # None
      BY <2>1, FrameFacts DEF Inv, Runs, IsRun
    <3>2. \A w \in D : w \in DestroyedVmas(D) <=> IsPrivate(w) /\ w \notin L
      BY <2>2 DEF DestroyedVmas, Skipped, Mapping, VMA
    <3>3. DestroyedVmas(D) \subseteq D
      BY DEF DestroyedVmas
    <3>4. \A a : a \in PagesOf(DestroyedVmas(D)) <=> \E w \in D \ L : IsPrivate(w) /\ a \in Extent(w)
      BY <3>2, <3>3 DEF PagesOf, Extent
    <3> HIDE DEF D, L
    <3> QED
      BY <3>1, <3>4 DEF kept, Freed, Held, Spared
  <2>6. left' = left \cup StartsIn(owned, pt, t, L)
    <3>1. \A a : a \in PagesOf(L) <=> \E w \in L : a \in Extent(w)
      BY DEF PagesOf, Extent
    <3>2. left' = left \cup {run \in owned : run[1] \in {pt[t][a] : a \in PagesOf(L)}}
      BY DEF ExitCall
    <3> HIDE DEF L
    <3> QED
      BY <3>1, <3>2 DEF StartsIn
  <2>7. stale' = Outside(stale, t, Extents(D))
    <3>1. stale' = {s \in stale : q[s[1]][s[2]] # None}
      BY <1>2 DEF ExitCall, Remember
    <3> HIDE DEF D
    <3> QED
      BY <1>1, <2>1, <2>4, <3>1, Forgotten
  <2>8. Inv(Spared(owned, pt, t, D \ L), Off(pt, t, Extents(D)), Without(vmas, t, D), regions, alive,
            Outside(stale, t, Extents(D)), left \cup StartsIn(owned, pt, t, L))
    <3> HIDE DEF D, L
    <3> QED
      BY <1>1, <2>1, <2>3, DropMappings
  <2>9. Base(q, m, regions, alive \ {t}, {})
    BY <1>6, <1>7
  <2>10. Inv(owned', q, m, regions, alive, stale', left')
    BY <1>2, <2>4, <2>5, <2>6, <2>7, <2>8 DEF m
  <2> QED
    BY <2>9, <2>10 DEF Inv
<1> QED
  BY <1>2, <1>3, <1>6, <1>7 DEF IInv, Sound


(* A nonempty set of naturals has a least member.                          *)
LEMMA MinIs ==
    ASSUME NEW S \in SUBSET Nat, S # {}
    PROVE  Min(S) \in S /\ \A y \in S : Min(S) <= y
<1> DEFINE R == OpToRel(<, Nat)
<1>1. IsWellFoundedOn(R, Nat)
  BY NatLessThanWellFounded
<1>2. \A x, y \in Nat : y < x <=> <<y, x>> \in R
  BY DEF OpToRel
<1> HIDE DEF R
<1>3. PICK x \in S : \A y \in S : ~(<<y, x>> \in R)
  BY <1>1, WFMin
<1>4. ASSUME NEW y \in S PROVE x <= y
  <2>1. x \in Nat /\ y \in Nat
    OBVIOUS
  <2>2. ~(y < x)
    BY <1>2, <1>3, <2>1
  <2> QED
    BY <2>1, <2>2
<1> QED
  BY <1>4 DEF Min

(* The entry a new region gets is free or new.                             *)
LEMMA SharedSlotIs ==
    ASSUME IInv
    PROVE  /\ SharedSlot \in 1 .. (Len(regions) + 1)
           /\ SharedSlot \in DOMAIN regions => ~regions[SharedSlot].used
<1> DEFINE free == {h \in DOMAIN regions : ~regions[h].used}
<1>1. regions \in Seq(Region) /\ Len(regions) \in Nat /\ DOMAIN regions = 1 .. Len(regions)
  <2>1. regions \in Seq(Region)
    BY Facts
  <2> QED
    BY <2>1
<1>2. CASE free # {}
  <2>1. Min(free) \in free
    <3>1. free \in SUBSET Nat
      BY <1>1
    <3> HIDE DEF free
    <3> QED
      BY <1>2, <3>1, MinIs
  <2>2. SharedSlot = Min(free)
    BY <1>2 DEF SharedSlot
  <2> QED
    BY <1>1, <2>1, <2>2
<1>3. CASE free = {}
  <2>1. SharedSlot = Len(regions) + 1
    BY <1>3 DEF SharedSlot
  <2> QED
    BY <1>1, <2>1
<1> QED
  BY <1>2, <1>3

(* A creation that fails leaves an entry, and nothing else.                *)
LEMMA Uncreated ==
    ASSUME IInv, NEW t \in alive, NEW P, Vacant(vmas, t, P),
           pt' = pt \/ pt' = Off(pt, t, P), careless = {} => owned' = owned,
           SetRegion(SharedSlot, EmptyRegion), UNCHANGED <<vmas, alive, stale, left, careless>>
    PROVE  IInv'
<1>1. t \in Task
  BY Facts
<1>2. Sound(owned', pt, vmas, regions, alive, stale, left, careless)
  BY DEF IInv, Sound
<1>3. Sound(owned', Off(pt, t, P), vmas, regions, alive, stale, left, careless)
  BY <1>1, Undone DEF IInv
<1>4. Sound(owned', pt', vmas, regions, alive, stale, left, careless)
  BY <1>2, <1>3
<1>5. SharedSlot \in 1 .. (Len(regions) + 1) /\ (SharedSlot \in DOMAIN regions => ~regions[SharedSlot].used)
  BY SharedSlotIs
<1> DEFINE h == SharedSlot
<1>6. regions' = Put(regions, h, EmptyRegion)
  BY DEF SetRegion, Put
<1> HIDE DEF h
<1>7. Sound(owned', pt', vmas, Put(regions, h, EmptyRegion), alive, stale, left, careless)
  BY <1>4, <1>5, DropRegion DEF h
<1> QED
  BY <1>6, <1>7 DEF IInv

(* A creation that succeeds: the array, the frames, the entry, the pages.  *)
LEMMA Created ==
    ASSUME IInv, NEW t \in alive, NEW v \in Addr, NEW n \in Nat \ {0}, InUserSpace(v, n),
           Vacant(vmas, t, Span(v, n)),
           NEW run, IsRun(run), RunFrames(run) \subseteq Unowned(owned),
           NEW F \in SUBSET (Unowned(owned) \ RunFrames(run)), Cardinality(F) = n,
           NEW r, r = [used |-> TRUE, owner |-> t, frames |-> AsSeq(F), array |-> run[1]],
           owned' = owned \cup ({run} \cup Ones(F)),
           pt' = Onto(pt, t, Span(v, n), At(v, AsSeq(F))),
           SetRegion(SharedSlot, r), Track(t, v, n, "shared", TRUE),
           UNCHANGED <<alive, stale, left, careless>>
    PROVE  IInv'
<1> DEFINE fresh == {run} \cup Ones(F)
           h == SharedSlot
           s == Put(regions, h, r)
<1>1. /\ h \in 1 .. (Len(regions) + 1) /\ (h \in DOMAIN regions => ~regions[h].used)
      /\ t \in Task /\ regions \in Seq(Region)
  BY SharedSlotIs, Facts
<1>2. regions' = s
  BY DEF SetRegion, Put
<1>3. F \in SUBSET Frame /\ F \in SUBSET Unowned(owned)
  BY DEF Unowned
<1>4. AsSeq(F) \in Seq(Frame) /\ Len(AsSeq(F)) = n /\ Range(AsSeq(F)) = F
  BY <1>3, AsSeqIs
<1>5. run[1] \in Frame /\ run[1] \in RunFrames(run) /\ run[1] \notin F /\ run[1] \in Unowned(owned)
  BY DEF IsRun
<1>6. r \in Region /\ r.used /\ r.frames # <<>> /\ r.array \notin Range(r.frames)
  <2>1. AsSeq(F) # <<>>
    BY <1>4
  <2> QED
    BY <1>1, <1>4, <1>5, <2>1 DEF Region
<1>7. RegionFrames(r) = F \cup {run[1]}
  BY <1>4 DEF RegionFrames
<1>8. /\ Disjoint(Ones(F))
      /\ \A x \in Ones(F) : IsRun(x) /\ RunFrames(x) \subseteq Unowned(owned) /\ x[1] \in F
      /\ \A f \in F : <<f, 1>> \in Ones(F)
  BY <1>3, OnesAre
<1>9. \A x \in Ones(F) : RunFrames(x) \cap RunFrames(run) = {}
  <2> SUFFICES ASSUME NEW f \in F PROVE RunFrames(<<f, 1>>) \cap RunFrames(run) = {}
    BY DEF Ones
  <2>1. RunFrames(<<f, 1>>) = {f}
    BY <1>3, SingleRun
  <2> QED
    BY <2>1
<1>10. Disjoint(fresh)
  BY <1>8, <1>9 DEF Disjoint
<1>11. \A x \in fresh : IsRun(x) /\ RunFrames(x) \subseteq Unowned(owned) /\ x[1] \in RegionFrames(r)
  BY <1>7, <1>8
<1>12. \A f \in RegionFrames(r) : f \in Unowned(owned) /\ \E x \in fresh : x[1] = f
  <2>1. \A f \in F : <<f, 1>>[1] = f
    OBVIOUS
  <2> QED
    BY <1>3, <1>5, <1>7, <1>8, <2>1
<1> HIDE DEF h, s, fresh
<1>13. Sound(owned \cup fresh, pt, vmas, s, alive, stale, left, careless)
  BY <1>1, <1>6, <1>10, <1>11, <1>12, AddRegion DEF IInv, s
<1>14. h \in DOMAIN s /\ s[h] = r
  <2>1. IsPut(regions, h, r, s)
    BY <1>1, <1>6, PutIs DEF s
  <2> QED
    BY <2>1 DEF IsPut
<1>15. s[h].used /\ s[h].frames = AsSeq(F) /\ n = Len(s[h].frames)
  BY <1>4, <1>14
<1>16. Sound(owned \cup fresh, Onto(pt, t, Span(v, n), At(v, s[h].frames)),
             With(vmas, t, NewVma(v, n, "shared", TRUE)), s, alive, stale, left, careless)
  BY <1>13, <1>14, <1>15, MapRegion
<1>17. vmas' = With(vmas, t, NewVma(v, n, "shared", TRUE))
  BY DEF Track, With
<1> QED
  BY <1>2, <1>15, <1>16, <1>17 DEF IInv, fresh

(* createShared takes the array and the frames of a new region and maps    *)
(* them, or gives everything back.                                         *)
LEMMA CreateShared ==
    ASSUME IInv, NEW t \in alive, NEW v \in Addr, NEW n \in Nat \ {0}, NEW canWrite \in BOOLEAN,
           InUserSpace(v, n), syscallCreateShared(t, v, n, canWrite),
           UNCHANGED <<stale, left, careless>>
    PROVE  IInv'
<1> DEFINE rest(array, size) == Unowned(owned) \ RunFrames(<<array, size>>)
           R(array, F) == [used |-> TRUE, owner |-> t, frames |-> AsSeq(F), array |-> array]
           T(array, size, F) == Take(TakeRun(Memory, <<array, size>>), F)
           M(array, size, F) == MapPages(T(array, size, F), t, v, R(array, F).frames)
           Step(array, size, F) ==
             IF Cardinality(F) < n \/ Overlaps(t, v, n)
             THEN /\ Becomes(FreeRegion(T(array, size, F), R(array, F)))
                  /\ SetRegion(SharedSlot, EmptyRegion) /\ UNCHANGED vmas
             ELSE IF ~canWrite
             THEN /\ Becomes(FreeRegion(unmapPages(M(array, size, F), t, v, n, FALSE), R(array, F)))
                  /\ SetRegion(SharedSlot, EmptyRegion) /\ UNCHANGED vmas
             ELSE /\ Becomes(M(array, size, F)) /\ SetRegion(SharedSlot, R(array, F))
                  /\ Track(t, v, n, "shared", TRUE)
<1>1. \/ SetRegion(SharedSlot, EmptyRegion) /\ UNCHANGED <<owned, pt, vmas>>
      \/ \E array \in Frame, size \in Rounded(ArrayPages(n)) :
           /\ RunFrames(<<array, size>>) \subseteq Unowned(owned)
           /\ \E F \in kSubset(Min({n, Cardinality(rest(array, size))}), rest(array, size)) :
                 Step(array, size, F)
  BY DEF syscallCreateShared
<1>2. alive' = alive
  BY DEF syscallCreateShared
<1>3. /\ t \in Task /\ pt \in [Task -> [Addr -> Entry]] /\ Memory = Mem(owned, pt)
      /\ careless = {} => Runs(owned)
  BY Facts
<1>4. CASE SetRegion(SharedSlot, EmptyRegion) /\ UNCHANGED <<owned, pt, vmas>>
  <2>1. Vacant(vmas, t, {})
    BY DEF Vacant
  <2> QED
    BY <1>2, <1>4, <2>1, Uncreated
<1> HIDE DEF Step
<1>5. ASSUME NEW array \in Frame, NEW size \in Rounded(ArrayPages(n)),
             RunFrames(<<array, size>>) \subseteq Unowned(owned),
             NEW F \in kSubset(Min({n, Cardinality(rest(array, size))}), rest(array, size)),
             Step(array, size, F)
      PROVE  IInv'
  <2> DEFINE run == <<array, size>>
             r == R(array, F)
             taken == T(array, size, F)
             mapped == M(array, size, F)
             G == F \cup {array}
             fresh == {run} \cup Ones(F)
             ow == owned \cup fresh
             f == At(v, AsSeq(F))
  <2>1. IF Cardinality(F) < n \/ Overlaps(t, v, n)
        THEN Becomes(FreeRegion(taken, r)) /\ SetRegion(SharedSlot, EmptyRegion) /\ UNCHANGED vmas
        ELSE IF ~canWrite
        THEN /\ Becomes(FreeRegion(unmapPages(mapped, t, v, n, FALSE), r))
             /\ SetRegion(SharedSlot, EmptyRegion) /\ UNCHANGED vmas
        ELSE Becomes(mapped) /\ SetRegion(SharedSlot, r) /\ Track(t, v, n, "shared", TRUE)
    BY <1>5, Zenon DEF Step
  <2>2. /\ F \in SUBSET (Unowned(owned) \ RunFrames(run)) /\ F \in SUBSET Frame
        /\ Cardinality(F) \in Nat /\ Cardinality(F) <= n
    <3>1. rest(array, size) \in SUBSET Frame /\ F \in SUBSET rest(array, size)
          /\ Cardinality(F) = Min({n, Cardinality(rest(array, size))})
      BY DEF kSubset, Unowned
    <3>2. Cardinality(rest(array, size)) \in Nat
      BY <3>1, AsSeqIs
    <3>3. Min({n, Cardinality(rest(array, size))}) \in {n, Cardinality(rest(array, size))}
          /\ Min({n, Cardinality(rest(array, size))}) <= n
      BY <3>2, MinIs
    <3> QED
      BY <3>1, <3>2, <3>3
  <2>3. IsRun(run) /\ RunFrames(run) \subseteq Unowned(owned) /\ run[1] = array
    <3>1. ArrayPages(n) \in Int
      BY AddressSpaceAssumption DEF ArrayPages
    <3>2. size \in ArrayPages(n) .. (2 * ArrayPages(n) - 1)
      BY DEF Rounded
    <3>3. size \in Nat \ {0} /\ array \in Nat
      BY <3>1, <3>2, FrameFacts
    <3>4. array \in RunFrames(run)
      BY <3>3 DEF RunFrames, Span
    <3> QED
      BY <1>5, <3>4 DEF IsRun, Unowned
  <2>4. /\ r.frames = AsSeq(F) /\ r.array = array /\ RegionFrames(r) = G
        /\ Len(AsSeq(F)) = Cardinality(F)
    BY <2>2, AsSeqIs DEF RegionFrames
  <2>5. taken = Mem(ow, pt)
    <3>1. TakeRun(Mem(owned, pt), run) = Mem(owned \cup {run}, pt)
      BY TakeRunIs
    <3>2. Take(Mem(owned \cup {run}, pt), F) = Mem((owned \cup {run}) \cup Ones(F), pt)
      BY TakeIs
    <3>3. (owned \cup {run}) \cup Ones(F) = ow
      OBVIOUS
    <3> QED
      BY <1>3, <3>1, <3>2, <3>3
  <2>6. careless = {} => Freed(ow, G) = owned
    <3>1. G \in SUBSET Unowned(owned)
      BY <2>2, <2>3 DEF IsRun
    <3>2. \A x \in fresh : x[1] \in G
      BY DEF Ones
    <3> HIDE DEF fresh, G
    <3> QED
      BY <1>3, <3>1, <3>2, TakenAndReleased
  <2>7. \A m : FreeRegion(m, r) = Release(m, G)
    BY <2>4 DEF FreeRegion, RegionFrames
  <2>8. CASE Cardinality(F) < n \/ Overlaps(t, v, n)
    <3>1. Becomes(FreeRegion(taken, r)) /\ SetRegion(SharedSlot, EmptyRegion) /\ vmas' = vmas
      BY <2>1, <2>8
    <3> HIDE DEF taken, r, G, ow
    <3>2. Release(Mem(ow, pt), G) = Mem(Freed(ow, G), pt)
      BY ReleaseIs
    <3>3. owned' = Freed(ow, G) /\ pt' = pt
      BY <2>5, <2>7, <3>1, <3>2, BecomesIs
    <3>4. Vacant(vmas, t, {})
      BY DEF Vacant
    <3> QED
      BY <1>2, <2>6, <3>1, <3>3, <3>4, Uncreated
  <2>9. CASE ~(Cardinality(F) < n \/ Overlaps(t, v, n))
    <3>1. Cardinality(F) = n /\ Vacant(vmas, t, Span(v, n))
      BY <1>3, <2>2, <2>9, FreeSpan
    <3> DEFINE q == Onto(pt, t, Span(v, n), f)
    <3>2. mapped = Mem(ow, q)
      <4>0. mapped = MapPages(taken, t, v, r.frames)
        OBVIOUS
      <4> HIDE DEF taken, r, ow, mapped
      <4>1. MapPages(Mem(ow, pt), t, v, AsSeq(F)) =
              Mem(ow, Onto(pt, t, Span(v, Len(AsSeq(F))), At(v, AsSeq(F))))
        BY MapPagesIs
      <4> QED
        BY <2>4, <2>5, <3>1, <4>0, <4>1
    <3>3. CASE ~canWrite
      <4>1. /\ Becomes(FreeRegion(unmapPages(mapped, t, v, n, FALSE), r))
            /\ SetRegion(SharedSlot, EmptyRegion) /\ vmas' = vmas
        BY <2>1, <2>9, <3>3
      <4>2. Off(q, t, Span(v, n)) = Off(pt, t, Span(v, n))
        BY <1>3, MappedAndUnmapped
      <4> HIDE DEF mapped, r, G, ow, q, f
      <4>3. unmapPages(mapped, t, v, n, FALSE) = Mem(ow, Off(pt, t, Span(v, n)))
        BY <3>2, <4>2 DEF unmapPages, Mem, Off
      <4>4. Release(Mem(ow, Off(pt, t, Span(v, n))), G) = Mem(Freed(ow, G), Off(pt, t, Span(v, n)))
        BY ReleaseIs
      <4>5. owned' = Freed(ow, G) /\ pt' = Off(pt, t, Span(v, n))
        BY <2>7, <4>1, <4>3, <4>4, BecomesIs
      <4> QED
        BY <1>2, <2>6, <3>1, <4>1, <4>5, Uncreated
    <3>4. CASE canWrite
      <4>1. Becomes(mapped) /\ SetRegion(SharedSlot, r) /\ Track(t, v, n, "shared", TRUE)
        BY <2>1, <2>9, <3>4
      <4>2. r = [used |-> TRUE, owner |-> t, frames |-> AsSeq(F), array |-> run[1]]
        OBVIOUS
      <4> HIDE DEF mapped, r, ow, q, run
      <4>3. owned' = ow /\ pt' = q
        BY <3>2, <4>1, BecomesIs
      <4> QED
        BY <1>2, <2>2, <2>3, <3>1, <4>1, <4>2, <4>3, Created DEF q, ow
    <3> QED
      BY <3>3, <3>4
  <2> QED
    BY <2>8, <2>9
<1> QED
  BY <1>1, <1>4, <1>5


(* A new task: the kernel's page, then one map after the other.            *)
LEMMA Shell ==
    ASSUME IInv, NEW c \in Task, c \notin alive
    PROVE  /\ vmas[c] = {} /\ \A a \in Addr : pt[c][a] = None
           /\ KernelVma \in Mapping /\ Extent(KernelVma) = {KernelData}
           /\ MapPages(Memory, c, KernelData, <<Device>>) =
                Mem(owned, Onto(pt, c, {KernelData}, [a \in {KernelData} |-> Device]))
           /\ Sound(owned, Onto(pt, c, {KernelData}, [a \in {KernelData} |-> Device]),
                    With(vmas, c, KernelVma), regions, alive \cup {c}, stale, left, careless)
<1>1. vmas[c] = {} /\ \A a \in Addr : pt[c][a] = None
  BY DEF IInv, Sound, Base, Gone
<1>2. KernelData \in Addr /\ KernelData \in Nat /\ Span(KernelData, 1) = {KernelData}
  BY AddressSpaceAssumption DEF Addr, Span
<1>3. KernelVma \in Mapping /\ Extent(KernelVma) = {KernelData} /\ KernelVma.kind = "mmio"
  <2>1. InUserSpace(KernelData, 1) /\ "mmio" \in Kind /\ 1 \in Nat \ {0}
    BY <1>2 DEF InUserSpace, Kind
  <2>2. /\ NewVma(KernelData, 1, "mmio", TRUE) \in Mapping
        /\ Extent(NewVma(KernelData, 1, "mmio", TRUE)) = Span(KernelData, 1)
    BY <1>2, <2>1, NewVmaIs
  <2> QED
    BY <1>2, <2>2 DEF KernelVma, NewVma
<1> DEFINE fs == <<Device>>
           f == [a \in {KernelData} |-> Device]
<1>4. MapPages(Memory, c, KernelData, fs) = Mem(owned, Onto(pt, c, {KernelData}, f))
  <2>1. Memory = Mem(owned, pt)
    BY Facts
  <2>2. Len(fs) = 1 /\ fs[1] = Device
    OBVIOUS
  <2>3. At(KernelData, fs) = f
    BY <1>2, <2>2 DEF At
  <2> HIDE DEF fs, f
  <2>4. MapPages(Memory, c, KernelData, fs) =
          Mem(owned, Onto(pt, c, Span(KernelData, Len(fs)), At(KernelData, fs)))
    BY <2>1, MapPagesIs
  <2> QED
    BY <1>2, <2>2, <2>3, <2>4
<1>5. Sound(owned, pt, vmas, regions, alive \cup {c}, stale, left, careless)
  BY DEF IInv, Sound, Inv, Base, Types, Gone
<1>6. f \in [Extent(KernelVma) -> Frame \cup {Device}] /\ \A a \in Extent(KernelVma) : f[a] = Device
  BY <1>3
<1> HIDE DEF f
<1>7. Vacant(vmas, c, Extent(KernelVma))
  BY <1>1 DEF Vacant
<1>8. Sound(owned, Onto(pt, c, Extent(KernelVma), f), With(vmas, c, KernelVma), regions, alive \cup {c},
            stale, left, careless)
  BY <1>3, <1>5, <1>6, <1>7, MapForeign
<1> QED
  BY <1>1, <1>3, <1>4, <1>8 DEF f

Image(g, S) == {g[a] : a \in S}
Spread(g, P, F) == g \in [P -> F] /\ \A a, b \in P : g[a] = g[b] => a = b

(* A map of spawn, over the pages the ones before it left.                 *)
LEMMA SpawnMap ==
    ASSUME NEW ow, NEW p, NEW vm, NEW rg, NEW al, NEW st, NEW lf, NEW ca,
           Sound(ow, p, vm, rg, al, st, lf, ca), NEW c \in al,
           NEW w \in Mapping, IsPrivate(w), Vacant(vm, c, Extent(w)),
           NEW F \in SUBSET Frame, NEW P, Extent(w) \subseteq P, NEW g, Spread(g, P, F),
           \A a \in Extent(w) : g[a] \in Unowned(ow)
    PROVE  Sound(ow \cup Ones(Image(g, Extent(w))), Onto(p, c, Extent(w), g), With(vm, c, w), rg, al,
                 st, lf, ca)
<1> DEFINE G == Image(g, Extent(w))
           f == [a \in Extent(w) |-> g[a]]
<1>1. G \in SUBSET Unowned(ow)
  BY DEF Image
<1>2. OneEach(f, Extent(w), G)
  BY DEF Image, OneEach, Spread
<1>5. Onto(p, c, Extent(w), f) = Onto(p, c, Extent(w), g)
  <2>1. \A a \in Addr : (IF a \in Extent(w) THEN f[a] ELSE p[c][a])
                        = (IF a \in Extent(w) THEN g[a] ELSE p[c][a])
    OBVIOUS
  <2> QED
    BY <2>1 DEF Onto
<1> HIDE DEF f, G
<1>6. Sound(ow \cup Ones(G), Onto(p, c, Extent(w), f), With(vm, c, w), rg, al, st, lf, ca)
  BY <1>1, <1>2, MapFrames
<1> QED
  BY <1>5, <1>6 DEF G

(* Both maps made: the task lives.                                         *)
LEMMA SpawnMade ==
    ASSUME IInv, NEW c \in Task, c \notin alive,
           NEW w1 \in Mapping, NEW w2 \in Mapping, IsPrivate(w1), IsPrivate(w2),
           Extent(w1) \cap Extent(w2) = {},
           KernelData \notin Extent(w1), KernelData \notin Extent(w2),
           NEW F \in SUBSET Unowned(owned), NEW g,
           Spread(g, Extent(w1) \cup Extent(w2), F),
           \A x \in F : \E a \in Extent(w1) \cup Extent(w2) : g[a] = x
    PROVE  Sound(owned \cup Ones(F),
                 Onto(Onto(pt, c, {KernelData}, [a \in {KernelData} |-> Device]), c,
                      Extent(w1) \cup Extent(w2), g),
                 [vmas EXCEPT ![c] = {KernelVma, w1, w2}], regions, alive \cup {c},
                 stale, left, careless)
<1> DEFINE P == Extent(w1) \cup Extent(w2)
           f0 == [a \in {KernelData} |-> Device]
           q0 == Onto(pt, c, {KernelData}, f0)
           m0 == With(vmas, c, KernelVma)
           F1 == Image(g, Extent(w1))
           F2 == Image(g, Extent(w2))
           q1 == Onto(q0, c, Extent(w1), g)
           m1 == With(m0, c, w1)
           q2 == Onto(q1, c, Extent(w2), g)
           m2 == With(m1, c, w2)
           al == alive \cup {c}
<1>1. /\ vmas[c] = {} /\ Extent(KernelVma) = {KernelData}
      /\ Sound(owned, q0, m0, regions, al, stale, left, careless)
  BY Shell
<1>2. vmas \in [Task -> SUBSET Mapping] /\ pt \in [Task -> [Addr -> Entry]]
  BY Facts
<1>3. F \in SUBSET Frame /\ \A a \in P : g[a] \in F /\ g[a] \in Unowned(owned)
  BY DEF Unowned, Spread
<1>4. m0[c] = {KernelVma} /\ m1[c] = {KernelVma, w1}
  BY <1>1, <1>2 DEF With
<1>5. m2 = [vmas EXCEPT ![c] = {KernelVma, w1, w2}]
  BY <1>1, <1>2 DEF With
<1>6. q2 = Onto(q0, c, P, g)
  <2>1. q0 = [pt EXCEPT ![c] = q0[c]]
    BY <1>2 DEF Onto
  <2> HIDE DEF q0
  <2>2. c \in DOMAIN q0
    BY <1>2, <2>1
  <2>3. \A a \in Addr : q1[c][a] = IF a \in Extent(w1) THEN g[a] ELSE q0[c][a]
    BY <2>2 DEF Onto
  <2>4. q2 = [q0 EXCEPT ![c] = [a \in Addr |-> IF a \in Extent(w2) THEN g[a] ELSE q1[c][a]]]
    BY <2>2 DEF Onto
  <2>5. \A a \in Addr : (IF a \in Extent(w2) THEN g[a] ELSE q1[c][a])
                        = (IF a \in P THEN g[a] ELSE q0[c][a])
    BY <2>3
  <2>6. q1 = [q0 EXCEPT ![c] = q1[c]]
    BY <2>2 DEF Onto
  <2> HIDE DEF q1, P
  <2> DEFINE e == [a \in Addr |-> IF a \in Extent(w2) THEN g[a] ELSE q1[c][a]]
             d == [a \in Addr |-> IF a \in P THEN g[a] ELSE q0[c][a]]
  <2>51. e = d
    BY <2>5
  <2>52. q2 = [q0 EXCEPT ![c] = e]
    BY <2>4
  <2> HIDE DEF e, q2
  <2>7. q2 = [q0 EXCEPT ![c] = [a \in Addr |-> IF a \in P THEN g[a] ELSE q0[c][a]]]
    BY <2>51, <2>52 DEF d
  <2> QED
    BY <2>7 DEF Onto
<1>7. Sound(owned \cup Ones(F1), q1, m1, regions, al, stale, left, careless)
  <2>1. Vacant(m0, c, Extent(w1))
    BY <1>1, <1>4 DEF Vacant
  <2>2. \A a \in Extent(w1) : g[a] \in Unowned(owned)
    BY <1>3
  <2> HIDE DEF q0, m0
  <2>3. Sound(owned \cup Ones(Image(g, Extent(w1))), Onto(q0, c, Extent(w1), g),
              With(m0, c, w1), regions, al, stale, left, careless)
    BY <1>1, <1>3, <2>1, <2>2, SpawnMap
  <2> QED
    BY <2>3
<1>8. \A a \in Extent(w2) : g[a] \in Unowned(owned \cup Ones(F1))
  <2>0. \A a \in Extent(w2) : g[a] \in Frame /\ \A r \in owned : g[a] \notin RunFrames(r)
    BY <1>3 DEF Unowned
  <2> SUFFICES ASSUME NEW a \in Extent(w2), NEW r \in Ones(F1), g[a] \in RunFrames(r) PROVE FALSE
    BY <2>0 DEF Unowned
  <2>1. PICK b \in Extent(w1) : r = <<g[b], 1>>
    BY DEF Ones, Image
  <2>2. g[b] \in Frame /\ RunFrames(<<g[b], 1>>) = {g[b]}
    BY <1>3, SingleRun
  <2>3. a = b
    BY <2>1, <2>2 DEF Spread
  <2> QED
    BY <2>1, <2>3
<1>9. Sound((owned \cup Ones(F1)) \cup Ones(F2), q2, m2, regions, al, stale, left, careless)
  <2>1. Vacant(m1, c, Extent(w2))
    BY <1>1, <1>4 DEF Vacant
  <2> HIDE DEF q1, m1, F1
  <2>2. Sound((owned \cup Ones(F1)) \cup Ones(Image(g, Extent(w2))), Onto(q1, c, Extent(w2), g),
              With(m1, c, w2), regions, al, stale, left, careless)
    BY <1>3, <1>7, <1>8, <2>1, SpawnMap
  <2> QED
    BY <2>2
<1>10. (owned \cup Ones(F1)) \cup Ones(F2) = owned \cup Ones(F)
  <2>1. F1 \cup F2 = F
    BY <1>3 DEF Image
  <2>2. Ones(F1) \cup Ones(F2) = Ones(F1 \cup F2)
    BY DEF Ones
  <2> QED
    BY <2>1, <2>2
<1> HIDE DEF q2, m2, F1, F2
<1> QED
  BY <1>5, <1>6, <1>9, <1>10

(* A map fails: the child is destroyed with what it had been given.        *)
LEMMA SpawnUndone ==
    ASSUME IInv, NEW c \in Task, c \notin alive,
           NEW P \in SUBSET Addr, NEW q, NEW m, NEW F \in SUBSET Unowned(owned), NEW set,
           m = Mem(owned \cup Ones(F), Onto(q, c, P, Fill(P, F))),
           \E f : q = Onto(pt, c, {KernelData}, f),
           Cardinality(F) = Cardinality(P), PagesOf(DestroyedVmas(set)) = P,
           Becomes(Destroyed(m, c, set))
    PROVE  pt' = pt /\ (careless = {} => owned' = owned)
<1> DEFINE p == Onto(q, c, P, Fill(P, F))
           g == Fill(P, F)
<1>1. /\ pt \in [Task -> [Addr -> Entry]] /\ (careless = {} => Runs(owned))
      /\ \A a \in Addr : pt[c][a] = None
  BY Shell, Facts
<1>2. g \in [P -> F] /\ (\A x \in F : \E a \in P : g[a] = x) /\ None \notin F
  <2>1. F \in SUBSET Frame
    BY DEF Unowned
  <2> QED
    BY <2>1, FillIs, FrameFacts
<1>3. q = [pt EXCEPT ![c] = q[c]]
  BY <1>1 DEF Onto
<1> HIDE DEF g
<1>4. \A a \in P : p[c][a] = g[a]
  BY <1>1, <1>3 DEF Onto, g
<1>5. Clear(p, c) = pt
  <2>1. pt[c] = [a \in Addr |-> None]
    BY <1>1
  <2>2. pt = [pt EXCEPT ![c] = [a \in Addr |-> None]]
    BY <1>1, <2>1
  <2>3. p = [pt EXCEPT ![c] = p[c]]
    BY <1>1, <1>3 DEF Onto
  <2> HIDE DEF p
  <2>4. Clear(p, c) = [pt EXCEPT ![c] = [a \in Addr |-> None]]
    BY <2>3 DEF Clear
  <2> QED
    BY <2>2, <2>4
<1> HIDE DEF p
<1>6. Held(p, c, P) = F
  BY <1>2, <1>4 DEF Held
<1>7. careless = {} => Freed(owned \cup Ones(F), F) = owned
  <2>1. \A r \in Ones(F) : r[1] \in F
    BY DEF Ones
  <2> QED
    BY <1>1, <2>1, TakenAndReleased
<1>8. Destroyed(m, c, set) =
        Mem(Freed(owned \cup Ones(F), Held(p, c, PagesOf(DestroyedVmas(set)))), Clear(p, c))
  BY DestroyedIs DEF p
<1> QED
  BY <1>5, <1>6, <1>7, <1>8, BecomesIs

(* spawn makes both maps and the task, or leaves no trace.                 *)
LEMMA Spawn ==
    ASSUME IInv, NEW c \in Task, c \notin alive,
           NEW v1 \in Addr, NEW v2 \in Addr, NEW n1 \in Nat \ {0}, NEW n2 \in Nat \ {0},
           NEW copies \in BOOLEAN, InUserSpace(v1, n1), InUserSpace(v2, n2),
           Span(v1, n1) \cap Span(v2, n2) = {},
           syscallSpawn(c, <<<<v1, n1>>, <<v2, n2>>>>, copies), UNCHANGED <<stale, left, careless>>
    PROVE  IInv'
<1> DEFINE maps == <<<<v1, n1>>, <<v2, n2>>>>
           overlaps(i) == KernelData \in Span(maps[i][1], maps[i][2])
           done == {i \in DOMAIN maps : \A j \in 1 .. i : ~overlaps(j)}
           P == UNION {Span(maps[i][1], maps[i][2]) : i \in done}
           vma(i) == NewVma(maps[i][1], maps[i][2], "private", FALSE)
           set == {KernelVma} \cup {vma(i) : i \in done}
           f0 == [a \in {KernelData} |-> Device]
           q0 == Onto(pt, c, {KernelData}, f0)
           shell == MapPages(Memory, c, KernelData, <<Device>>)
           M(F) == [Take(shell, F) EXCEPT !.pt[c] =
                      [a \in Addr |-> IF a \in P THEN Fill(P, F)[a] ELSE @[a]]]
           Step(F) == IF done = DOMAIN maps /\ copies
                      THEN /\ Becomes(M(F))
                           /\ vmas' = [vmas EXCEPT ![c] = set]
                           /\ alive' = alive \cup {c}
                      ELSE Becomes(Destroyed(M(F), c, set)) /\ UNCHANGED <<vmas, alive>>
<1>1. regions' = regions /\ \E F \in kSubset(Cardinality(P), Unowned(owned)) : Step(F)
  BY DEF syscallSpawn
<1> HIDE DEF Step
<1>2. PICK F \in kSubset(Cardinality(P), Unowned(owned)) : Step(F)
  BY <1>1
<1>3. F \in SUBSET Unowned(owned) /\ F \in SUBSET Frame /\ Cardinality(F) = Cardinality(P)
  BY DEF kSubset, Unowned
<1>4. /\ DOMAIN maps = {1, 2} /\ maps[1] = <<v1, n1>> /\ maps[2] = <<v2, n2>>
      /\ done \subseteq {1, 2}
  OBVIOUS
<1>5. \A i \in {1, 2} : Span(maps[i][1], maps[i][2]) \subseteq Addr
  BY <1>4 DEF InUserSpace
<1>6. P \in SUBSET Addr
  BY <1>4, <1>5
<1>7. M(F) = Mem(owned \cup Ones(F), Onto(q0, c, P, Fill(P, F)))
  <2>1. Take(shell, F) = Mem(owned \cup Ones(F), q0)
    BY Shell, TakeIs
  <2> HIDE DEF shell, q0, P
  <2> QED
    BY <2>1 DEF Mem, Onto
<1>8. PagesOf(DestroyedVmas(set)) = P
  <2> HIDE DEF done
  <2>1. DestroyedVmas(set) = {vma(i) : i \in done}
    BY DEF DestroyedVmas, KernelVma, NewVma
  <2>2. \A a : a \in PagesOf(DestroyedVmas(set)) <=> \E i \in done : a \in Span(maps[i][1], maps[i][2])
    <3>1. \A i : vma(i).start = maps[i][1] /\ vma(i).len = maps[i][2]
      BY DEF NewVma
    <3> HIDE DEF vma, maps, set
    <3>2. \A a : a \in PagesOf(DestroyedVmas(set)) <=> \E w \in DestroyedVmas(set) : a \in Span(w.start, w.len)
      BY DEF PagesOf
    <3>3. \A a : (\E w \in DestroyedVmas(set) : a \in Span(w.start, w.len))
                <=> \E i \in done : a \in Span(vma(i).start, vma(i).len)
      BY <2>1
    <3> QED
      BY <3>1, <3>2, <3>3
  <2> QED
    BY <2>2
<1>9. CASE done = DOMAIN maps /\ copies
  <2> DEFINE w1 == NewVma(v1, n1, "private", FALSE)
             w2 == NewVma(v2, n2, "private", FALSE)
  <2>1. Becomes(M(F)) /\ vmas' = [vmas EXCEPT ![c] = set] /\ alive' = alive \cup {c}
    BY <1>2, <1>9 DEF Step
  <2>2. done = {1, 2}
    BY <1>4, <1>9
  <2>3. KernelData \notin Span(v1, n1) /\ KernelData \notin Span(v2, n2)
    <3>1. 2 \in done /\ 1 \in 1 .. 2 /\ 2 \in 1 .. 2
      BY <2>2
    <3>2. ~overlaps(1) /\ ~overlaps(2)
      BY <3>1
    <3> QED
      BY <1>4, <3>2
  <2>4. set = {KernelVma, w1, w2}
    <3> HIDE DEF done
    <3>1. vma(1) = w1 /\ vma(2) = w2
      BY <1>4
    <3> HIDE DEF w1, w2, vma
    <3> QED
      BY <2>2, <3>1
  <2>5. P = Span(v1, n1) \cup Span(v2, n2)
    <3> HIDE DEF done, maps
    <3> QED
      BY <1>4, <2>2
  <2>6. /\ w1 \in Mapping /\ Extent(w1) = Span(v1, n1) /\ IsPrivate(w1)
        /\ w2 \in Mapping /\ Extent(w2) = Span(v2, n2) /\ IsPrivate(w2)
    BY NewVmaIs DEF IsPrivate, Kind
  <2> DEFINE g == Fill(P, F)
  <2>7. Spread(g, P, F) /\ \A x \in F : \E a \in P : g[a] = x
    <3> HIDE DEF P
    <3> QED
      BY <1>3, <1>6, FillIs DEF Spread
  <2>8. owned' = owned \cup Ones(F) /\ pt' = Onto(q0, c, P, g)
    <3> HIDE DEF q0, P, M
    <3> QED
      BY <1>7, <2>1, BecomesIs
  <2> HIDE DEF w1, w2, g, P, set
  <2>9. Sound(owned \cup Ones(F), Onto(q0, c, Extent(w1) \cup Extent(w2), g),
              [vmas EXCEPT ![c] = {KernelVma, w1, w2}], regions, alive \cup {c}, stale, left, careless)
    BY <1>3, <2>3, <2>5, <2>6, <2>7, SpawnMade
  <2> QED
    BY <1>1, <2>1, <2>4, <2>5, <2>6, <2>8, <2>9 DEF IInv
<1>10. CASE ~(done = DOMAIN maps /\ copies)
  <2>1. Becomes(Destroyed(M(F), c, set)) /\ vmas' = vmas /\ alive' = alive
    BY <1>2, <1>10 DEF Step
  <2>2. \E f : q0 = Onto(pt, c, {KernelData}, f)
    OBVIOUS
  <2> HIDE DEF q0, P, set, M
  <2>3. pt' = pt /\ (careless = {} => owned' = owned)
    BY <1>3, <1>6, <1>7, <1>8, <2>1, <2>2, SpawnUndone
  <2> QED
    BY <1>1, <2>1, <2>3 DEF IInv, Sound
<1> QED
  BY <1>9, <1>10


-----------------------------------------------------------------------------
(* The invariant.                                                          *)

(* It holds at boot, where only the first task has a page.                 *)
LEMMA InitIInv == Init => IInv
<1> SUFFICES ASSUME Init PROVE IInv
  OBVIOUS
<1>1. PICK root \in Task :
        /\ pt = [t \in Task |-> [a \in Addr |-> IF t = root /\ a = KernelData THEN Device ELSE None]]
        /\ vmas = [t \in Task |-> IF t = root THEN {KernelVma} ELSE {}]
        /\ alive = {root}
  BY DEF Init
<1>2. /\ owned = {} /\ regions = <<>> /\ stale = {} /\ left = {} /\ careless = {}
      /\ alive \subseteq Task
  BY <1>1 DEF Init
<1>3. KernelData \in Addr /\ KernelData \in Nat /\ Span(KernelData, 1) = {KernelData}
  BY AddressSpaceAssumption DEF Addr, Span
<1>4. /\ KernelVma \in Mapping /\ KernelVma.kind = "mmio" /\ ~IsPrivate(KernelVma)
      /\ Extent(KernelVma) = {KernelData}
  <2>1. InUserSpace(KernelData, 1) /\ "mmio" \in Kind /\ 1 \in Nat \ {0}
    BY <1>3 DEF InUserSpace, Kind
  <2>2. /\ NewVma(KernelData, 1, "mmio", TRUE) \in Mapping
        /\ Extent(NewVma(KernelData, 1, "mmio", TRUE)) = Span(KernelData, 1)
    BY <1>3, <2>1, NewVmaIs
  <2> QED
    BY <1>3, <2>2 DEF KernelVma, NewVma, IsPrivate
<1>5. \A t \in Task : vmas[t] = IF t = root THEN {KernelVma} ELSE {}
  BY <1>1
<1>6. \A t \in Task : \A a \in Addr : pt[t][a] = IF t = root /\ a = KernelData THEN Device ELSE None
  BY <1>1
<1>7. Types(pt, vmas, regions, alive, careless)
  <2>1. pt \in [Task -> [Addr -> Entry]]
    BY <1>1 DEF Entry
  <2>2. vmas \in [Task -> SUBSET Mapping]
    BY <1>1, <1>4
  <2> QED
    BY <1>2, <2>1, <2>2 DEF Types
<1>8. Tables(pt, vmas, careless)
  <2>1. \A t \in Task : \A w \in vmas[t] : w = KernelVma
    BY <1>5
  <2> QED
    BY <1>4, <1>5, <1>6, <2>1, FrameFacts DEF Tables, Matches
<1>9. Gone(pt, vmas, alive)
  BY <1>1, <1>5, <1>6 DEF Gone
<1>10. Runs(owned) /\ Regions(owned, regions) /\ Stale(vmas, stale)
  BY <1>2 DEF Runs, Disjoint, Regions, Stale
<1>11. Backed(owned, pt, vmas, regions, stale)
  BY <1>3, <1>4, <1>5, <1>6 DEF Backed, BackedBy
<1>12. Apart(pt, vmas, regions, stale)
  BY <1>4, <1>5 DEF Apart
<1>13. Reachable(owned, pt, vmas, regions, left) /\ Left(owned, pt, vmas, regions, left)
  BY <1>2 DEF Reachable, Left
<1>14. Base(pt, vmas, regions, alive, careless)
  BY <1>7, <1>8, <1>9 DEF Base
<1> QED
  BY <1>2, <1>10, <1>11, <1>12, <1>13, <1>14 DEF IInv, Sound, Inv

(* What a request may be.                                                  *)
LEMMA Requests ==
    ASSUME NEW v, NEW n
    PROVE  /\ v \in Start => v \in Addr
           /\ n \in Size => n \in Nat \ {0}
           /\ Fits(v, n) => InUserSpace(v, n)
BY AddressSpaceAssumption DEF Start, Size, Fits, Addr

LEMMA MapCalls ==
    ASSUME IInv, NEW t \in alive, MapCall(t)
    PROVE  IInv'
<1>1. PICK v \in Start, n \in Size :
        /\ Fits(v, n)
        /\ \/ \E kept \in BOOLEAN : syscallMmap(t, v, n, kept)
           \/ syscallMapBar(t, v, n)
           \/ \E canWrite \in BOOLEAN : syscallCreateShared(t, v, n, canWrite)
  BY DEF MapCall
<1>2. v \in Addr /\ n \in Nat \ {0} /\ InUserSpace(v, n)
  BY <1>1, Requests
<1>3. UNCHANGED <<stale, left, careless>>
  BY DEF MapCall
<1>4. CASE \E kept \in BOOLEAN : syscallMmap(t, v, n, kept)
  BY <1>2, <1>3, <1>4, Mmap
<1>5. CASE syscallMapBar(t, v, n)
  BY <1>2, <1>3, <1>5, MapBar
<1>6. CASE \E canWrite \in BOOLEAN : syscallCreateShared(t, v, n, canWrite)
  BY <1>2, <1>3, <1>6, CreateShared
<1> QED
  BY <1>1, <1>4, <1>5, <1>6

LEMMA DmaCalls ==
    ASSUME IInv, NEW t \in alive, DmaCall(t)
    PROVE  IInv'
<1>1. PICK v \in Start, n \in Size, kept \in BOOLEAN :
        Fits(v, n) /\ syscallAllocDma(t, v, n, kept) /\ Blame(t, n >= Width)
  BY DEF DmaCall
<1>2. v \in Addr /\ n \in Nat \ {0} /\ InUserSpace(v, n)
  BY <1>1, Requests
<1>3. UNCHANGED <<stale, left>>
  BY DEF DmaCall
<1> QED
  BY <1>1, <1>2, <1>3, AllocDma

(* The three ways to give pages back.                                      *)
LEMMA UnmapCalls ==
    ASSUME IInv, NEW t \in alive, UnmapCall(t)
    PROVE  IInv'
<1>1. PICK v \in Start, n \in Size \cup {0} :
        /\ Fits(v, n)
        /\ \/ syscallMunmap(t, v, n) /\ Blame(t, ~Careful(t, v, n, TRUE))
           \/ syscallUnmapBar(t, v, n) /\ Blame(t, ~Careful(t, v, n, FALSE))
           \/ syscallUnmapShared(t, v, n) /\ Blame(t, ~Careful(t, v, n, FALSE))
  BY DEF UnmapCall
<1>2. v \in Addr /\ n \in Nat /\ InUserSpace(v, n) /\ Span(v, n) \cap Addr = Span(v, n)
  BY <1>1, Requests DEF InUserSpace
<1>3. Remember({}) /\ UNCHANGED left /\ Memory = Mem(owned, pt)
  BY Facts DEF UnmapCall
<1>4. CASE syscallMunmap(t, v, n) /\ Blame(t, ~Careful(t, v, n, TRUE))
  <2>1. owned' = Freed(owned, Held(pt, t, Span(v, n))) /\ pt' = Off(pt, t, Span(v, n))
    BY <1>2, <1>3, <1>4 DEF syscallMunmap, unmapPages, Mem, Off, Release, Freed, Held, Becomes
  <2>2. Untrack(t, v) /\ UNCHANGED <<regions, alive>>
    BY <1>4 DEF syscallMunmap
  <2> QED
    BY <1>2, <1>3, <1>4, <2>1, <2>2, Unmaps
<1>5. ASSUME Becomes(unmapPages(Memory, t, v, n, FALSE)), Untrack(t, v), UNCHANGED <<regions, alive>>,
             Blame(t, ~Careful(t, v, n, FALSE))
      PROVE  IInv'
  <2>1. owned' = owned /\ pt' = Off(pt, t, Span(v, n))
    BY <1>3, <1>5 DEF unmapPages, Mem, Off, Becomes
  <2> QED
    BY <1>2, <1>3, <1>5, <2>1, Unmaps
<1> QED
  BY <1>1, <1>4, <1>5 DEF syscallUnmapBar, syscallUnmapShared

LEMMA RegionCalls ==
    ASSUME IInv, NEW t \in alive, RegionCall(t)
    PROVE  IInv'
<1>1. PICK h \in DOMAIN regions :
        \/ /\ \E v \in Start, canWrite \in BOOLEAN :
                 Fits(v, Len(regions[h].frames)) /\ syscallMapShared(t, v, h, canWrite)
           /\ UNCHANGED stale
        \/ syscallDestroyShared(t, h) /\ Remember(MappedPages(h))
  BY DEF RegionCall
<1>2. UNCHANGED <<left, careless>>
  BY DEF RegionCall
<1>3. ASSUME NEW v \in Start, NEW canWrite \in BOOLEAN, Fits(v, Len(regions[h].frames)),
             syscallMapShared(t, v, h, canWrite), UNCHANGED stale
      PROVE  IInv'
  <2>1. v \in Addr /\ InUserSpace(v, Len(regions[h].frames))
    BY <1>3, Requests
  <2> QED
    BY <1>2, <1>3, <2>1, MapShared
<1>4. CASE syscallDestroyShared(t, h) /\ Remember(MappedPages(h))
  BY <1>2, <1>4, DestroyShared
<1> QED
  BY <1>1, <1>3, <1>4

LEMMA SpawnCalls ==
    ASSUME IInv, NEW t \in alive, SpawnCall(t)
    PROVE  IInv'
<1>1. PICK c \in Task \ alive, v1 \in Start, v2 \in Start, n1 \in Size, n2 \in Size,
           copies \in BOOLEAN :
        /\ Fits(v1, n1) /\ Fits(v2, n2)
        /\ Span(v1, n1) \cap Span(v2, n2) = {}
        /\ syscallSpawn(c, <<<<v1, n1>>, <<v2, n2>>>>, copies)
  BY DEF SpawnCall
<1>2. /\ v1 \in Addr /\ n1 \in Nat \ {0} /\ InUserSpace(v1, n1)
      /\ v2 \in Addr /\ n2 \in Nat \ {0} /\ InUserSpace(v2, n2)
  BY <1>1, Requests
<1>3. UNCHANGED <<stale, left, careless>>
  BY DEF SpawnCall
<1> QED
  BY <1>1, <1>2, <1>3, Spawn

(* Every call keeps it.                                                    *)
LEMMA NextIInv == IInv /\ [Next]_vars => IInv'
<1> SUFFICES ASSUME IInv, [Next]_vars PROVE IInv'
  OBVIOUS
<1>1. CASE UNCHANGED vars
  BY <1>1 DEF vars, IInv
<1>2. CASE Next
  <2>1. PICK t \in alive : \/ MapCall(t) \/ DmaCall(t) \/ UnmapCall(t) \/ RegionCall(t)
                           \/ SpawnCall(t) \/ ExitCall(t)
    BY <1>2 DEF Next
  <2> QED
    BY <2>1, MapCalls, DmaCalls, UnmapCalls, RegionCalls, SpawnCalls, Exits
<1> QED
  BY <1>1, <1>2

(* So it always holds.                                                     *)
LEMMA AlwaysIInv == Spec => []IInv
<1> QED
  BY InitIInv, NextIInv, PTL DEF Spec

-----------------------------------------------------------------------------
(* The properties.                                                         *)

(* What the record of a task says is what its page table holds             *)
(* (src/src/kernel/vmm.cpp): a page is mapped exactly when one VMA covers  *)
(* it, in every task that has not itself asked for what the kernel does    *)
(* not check, whatever any other task has done.                            *)
THEOREM RecordsMatchTables == Spec => []TablesMatchVmas
<1>1. IInv => TablesMatchVmas
  <2> SUFFICES ASSUME IInv, NEW t \in Task \ careless PROVE
               /\ \A a \in Addr : pt[t][a] # None <=> \E w \in vmas[t] : Covers(a, w)
               /\ \A w, x \in vmas[t] : w # x => Extent(w) \cap Extent(x) = {}
    BY DEF TablesMatchVmas, Extent
  <2>1. Matches(pt[t], vmas[t]) /\ \A w \in vmas[t] : Extent(w) \subseteq Addr
    BY DEF IInv, Sound, Base, Tables, Types, Mapping
  <2> QED
    BY <2>1 DEF Matches, Covers, Extent
<1> QED
  BY <1>1, AlwaysIInv, PTL

(* Until a task has been careless, no page of any task maps a frame the    *)
(* allocator may give out again, on any path through the calls, but for    *)
(* the pages at which a region was mapped when its owner destroyed it:     *)
(* syscallDestroyShared does not look for them.                            *)
THEOREM NothingDangles == Spec => []NoDanglingMapping
<1>1. IInv => NoDanglingMapping
  <2> SUFFICES ASSUME IInv, careless = {} PROVE OnlyStale(owned, pt, stale)
    BY DEF OnlyStale, NoDanglingMapping
  <2> QED
    BY NotDangling DEF IInv, Sound
<1> QED
  BY <1>1, AlwaysIInv, PTL

(* Until a task has been careless, what a task maps with mmap, DMA or      *)
(* spawn is its own: no other page of any task reaches it but a stale one, *)
(* and no shared region holds it.                                          *)
THEOREM PrivateIsPrivate == Spec => []PrivateMemory
<1>1. IInv => PrivateMemory
  <2> SUFFICES ASSUME IInv, careless = {},
                      NEW t \in Task, NEW w \in vmas[t], IsPrivate(w), NEW a \in Extent(w)
               PROVE  /\ \A u \in Task : \A b \in Addr :
                            pt[u][b] = pt[t][a] => <<u, b>> = <<t, a>> \/ <<u, b>> \in stale
                      /\ \A h \in DOMAIN regions :
                            pt[t][a] \notin Range(regions[h].frames) \cup {regions[h].array}
    BY DEF PrivateMemory, Extent
  <2>1. ApartAt(pt, regions, stale, t, a)
    BY DEF IInv, Sound, Inv, Apart
  <2> QED
    BY <2>1 DEF ApartAt, RegionFrames
<1> QED
  BY <1>1, AlwaysIInv, PTL

(* Until a task has been careless, no failure and no exit loses a run the  *)
(* allocator has handed out, except that destroyAll leaves behind what the *)
(* task had mapped with VM_MMIO or VM_SHARED among its flags.              *)
THEOREM NothingIsLost == Spec => []NoFrameLost
<1>1. IInv => NoFrameLost
  <2> SUFFICES ASSUME IInv, careless = {} PROVE NoFrameLost
    BY DEF NoFrameLost
  <2>1. /\ Reachable(owned, pt, vmas, regions, left) /\ Left(owned, pt, vmas, regions, left)
        /\ Gone(pt, vmas, alive)
    BY DEF IInv, Sound, Inv, Base
  <2>2. left \subseteq owned
    BY <2>1 DEF Left
  <2>3. ASSUME NEW run \in owned \ left, NEW t \in Task, NEW w \in vmas[t], IsPrivate(w),
               NEW a \in Extent(w), run[1] = pt[t][a]
        PROVE  t \in alive /\ run[1] \in {pt[t][b] : b \in Span(w.start, w.len)}
    BY <2>1, <2>3 DEF Gone, Extent
  <2> QED
    BY <2>1, <2>2, <2>3 DEF Reachable, Starts, InRegion, RegionFrames, NoFrameLost
<1> QED
  BY <1>1, AlwaysIInv, PTL

=============================================================================

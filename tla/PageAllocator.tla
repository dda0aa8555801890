--------------------------- MODULE PageAllocator ---------------------------
(***************************************************************************)
(* What the kernel expects of its physical page allocator: an allocation   *)
(* is a run of pages nobody else holds, large enough for the request, and  *)
(* freeing a pointer gives back exactly the run that starts there.  The    *)
(* detailed allocator (BuddyAllocator) implements this.                    *)
(***************************************************************************)
EXTENDS Integers

CONSTANTS Region, TotalPages    \* regions, and the pages of each

VARIABLE owned    \* the runs handed out: <<region, first page, pages>>

Apart(b, c) == b[1] # c[1] \/ b[2] + b[3] <= c[2] \/ c[2] + c[3] <= b[2]

Init == owned = {}

Alloc(b) ==
    /\ \A c \in owned : Apart(b, c)
    /\ owned' = owned \cup {b}

Free(b) ==
    /\ b \in owned
    /\ owned' = owned \ {b}

Next == \E r \in Region : \E p \in 0 .. TotalPages[r] : \E n \in 1 .. (TotalPages[r] - p) :
            Alloc(<<r, p, n>>) \/ Free(<<r, p, n>>)

Spec == Init /\ [][Next]_owned
=============================================================================

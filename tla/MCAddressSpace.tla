--------------------------- MODULE MCAddressSpace ---------------------------
(* AddressSpace for two tasks that share four frames.                      *)
EXTENDS AddressSpace

(* The tasks are alike: Init makes any of them the first.                  *)
TaskSymmetry == Permutations(Task)

(* A page, two pages beside it, two of which one is the kernel's, and six  *)
(* over the first three ranges: for a DMA request, more than 4 GB.  Giving *)
(* back nothing is tried at the first page.                                *)
SomePlaces == {<<1, 1>>, <<2, 2>>, <<6, 2>>, <<1, 6>>, <<1, 0>>}

(* What follows a careless call is not explored: of the state it leads to  *)
(* only what the properties still speak of counts, the other tasks' tables. *)
NoneCareless == careless = {}

====

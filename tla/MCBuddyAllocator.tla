------------------------- MODULE MCBuddyAllocator -------------------------
(* BuddyAllocator with two small regions whose sizes are not powers of two. *)
EXTENDS BuddyAllocator

MCTotalPages == <<10, 3>>
MCMetadataPages == <<1, 1>>
=============================================================================

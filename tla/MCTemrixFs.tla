----------------------------- MODULE MCTemrixFs -----------------------------
(* TemrixFs on a volume of a few blocks, small enough to be filled.        *)
EXTENDS TemrixFs

FileSymmetry == Permutations(File)

(* How the last call ended decides nothing about what follows.             *)
VolumeView == <<alloc, disk, shared, torn, crashes>>
=============================================================================

---------------------------- MODULE MCAuthority ----------------------------
(* Authority for two tasks, two devices of one class and two grants each. *)
EXTENDS Authority, TLC

MCClassOf == [d \in Device |-> CHOOSE c \in Class : TRUE]
MCSymmetry == Permutations(Device)
=============================================================================

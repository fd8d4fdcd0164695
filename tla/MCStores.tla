------------------------------ MODULE MCStores ------------------------------
(***************************************************************************)
(* Stores for TLC.                                                         *)
(***************************************************************************)
EXTENDS Stores, TLC

MCLevels == {-80, -40}

\* A wireless adapter whose chip is also a Bluetooth radio.
MCChipOf == [d \in Devices |-> "chip"]

MCSince == [b |-> 2, c |-> 3]

\* The threads are interchangeable.
Symmetric == Permutations(Threads)
=============================================================================

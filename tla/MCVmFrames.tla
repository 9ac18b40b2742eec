------------------------------ MODULE MCVmFrames ------------------------------
(* A stack of two slots that may double twice, in two places of the heap.   *)
EXTENDS VmFrames

MCBlocks == {0, 100}
=============================================================================

------------------------------- MODULE MCBTree -------------------------------
(* Small instances of BTree.  LeafMax is even and InternalMax odd, as the   *)
(* 90 and 99 of the code are, so that splits leave the same remainders.     *)
(* BTree.cfg gives a node one key row more than the code does: no state     *)
(* with fewer entries than an internal split needs tells the two apart.     *)
EXTENDS BTree

MCKeys3 == 1..3
MCKeys7 == 1..7
MCLocs1 == {1}
MCLocs2 == 1..2
=============================================================================

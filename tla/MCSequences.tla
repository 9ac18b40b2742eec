---------------------------- MODULE MCSequences ------------------------------
(* Model-checking instance of DbSequences: more names than the limits allow,  *)
(* both signs of increment, and ints of three bits so that a progression     *)
(* wraps.                                                                    *)
EXTENDS DbSequences, TLC

MCStarts == {2}
MCIncrements == {1, -3}

NameSymmetry == Permutations(Names)
=============================================================================

------------------------------- MODULE MCPager -------------------------------
(* Model-checking instance of Pager: a bitmap of five pages, so that three   *)
(* pages can be allocated and the allocator also runs out.                   *)
EXTENDS Pager, TLC

CONSTANTS d1, d2

DataSymmetry == Permutations({d1, d2})
=============================================================================

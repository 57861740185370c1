------------------------------ MODULE MCPaidBlocks ------------------------------
(***************************************************************************)
(* A small gateway: two blocks that are sold, in one file of one asset,    *)
(* and one payment, which is shown for either block.  A small block never  *)
(* reaches the sale, so there is none.                                     *)
(***************************************************************************)
EXTENDS PaidBlocks, TLC

CONSTANTS s1, s2, b1, b2, film, movie

MCBlocksOf == (film :> <<b1, b2>>)
MCOriginalOf == (movie :> film)

Slots == Permutations(Slot)

=============================================================================

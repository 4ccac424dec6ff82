----------------------------- MODULE MCOddsFeed -----------------------------
(* Instance of OddsFeed: one datum that changes once.  A tick stands for a  *)
(* second and a half of odds, two of lines, ten and more of lists and       *)
(* details.  Only details are asked for again.                              *)
EXTENDS OddsFeed

Lane(name, innerTtl, outerTtl, attempts, versions, readers) ==
  [name |-> name, inner |-> innerTtl, outer |-> outerTtl, attempts |-> attempts,
   versions |-> versions, readers |-> readers]

MCLanes ==
  {Lane("odds", 1, 1, 1, 2, {"q"}), Lane("fancy", 2, 1, 1, 2, {"q"}),
   Lane("list", 1, 2, 1, 1, {"p", "q"}), Lane("detail", 2, 2, 2, 2, {"p", "q"})}
=============================================================================

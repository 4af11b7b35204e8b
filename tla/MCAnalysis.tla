----------------------------- MODULE MCAnalysis -----------------------------
(***************************************************************************)
(* Two volumes, offline, on the disk or elsewhere; a GPT table with an     *)
(* unused entry, a table where a volume may start inside a partition, and  *)
(* an MBR table whose extended partition comes before the logical ones.    *)
(***************************************************************************)
EXTENDS Analysis, TLC

CONSTANTS d1, d2, v1, v2

Extent(d, off) == [disk |-> d, off |-> off]

Part(start, len) == [start |-> start, len |-> len]

MCExtentLists ==
  {<<>>, <<Extent(d1, 1)>>, <<Extent(d1, 3)>>, <<Extent(d2, 1)>>, <<Extent(d2, 1), Extent(d1, 3)>>}

MCLayouts ==
  { <<Part(1, 2), Part(0, 0), Part(3, 2)>>,
    <<Part(1, 4)>>,
    <<Part(0, 5), Part(1, 2), Part(3, 2)>> }

MCVolumes == {v1, v2}

Symmetry == Permutations(MCVolumes)
=============================================================================

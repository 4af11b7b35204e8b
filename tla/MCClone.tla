------------------------------ MODULE MCClone ------------------------------
(***************************************************************************)
(* A disk of seven sectors with GPT areas of two, two adjacent partitions  *)
(* or one behind a gap; two volumes that may span disks, one of them with  *)
(* more extents than fit, the first one longer than the second partition,  *)
(* the second shorter than the first; and a read buffer that is too short. *)
(***************************************************************************)
EXTENDS Clone, TLC

CONSTANTS d1, d2, v1, v2

Extent(d, off) == [disk |-> d, off |-> off]

Entry(num, start, len) == [num |-> num, start |-> start, len |-> len]

MCExtentLists ==
  {<<>>, <<Extent(d1, 2)>>, <<Extent(d1, 4)>>, <<Extent(d2, 1), Extent(d1, 4)>>,
   <<Extent(d1, 4), Extent(d2, 1), Extent(d2, 3)>>}

MCTables == {<<Entry(1, 2, 2), Entry(2, 4, 1)>>, <<Entry(1, 4, 1)>>}

MCVolumes == {v1, v2}

MCVolumeLength == [v \in MCVolumes |-> IF v = v1 THEN 2 ELSE 1]
=============================================================================

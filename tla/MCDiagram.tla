----------------------------- MODULE MCDiagram -----------------------------
(***************************************************************************)
(* The layouts TLC considers: every one of at most two partition entries   *)
(* on disks of one to eight sectors with GPT areas of two, whatever the    *)
(* volumes with shadow copies; and three partitions in any order.          *)
(***************************************************************************)
EXTENDS Diagram

CONSTANTS Lengths, Starts, Sizes, Keys

Entry(num, start, len) == [num |-> num, start |-> start, len |-> len]

(* The shadow copy a key leads to. *)
CopyNames == <<"copy1", "copy2", "copy3", "copy4", "copy5", "copy6", "copy7", "copy8">>

Layout(length, parts, keys, excluded) ==
  [length |-> length, parts |-> parts, excluded |-> excluded,
   shadow |-> [off \in keys |-> [copy |-> CopyNames[off], len |-> 1]]]

Entries(num) == {Entry(num, s, z) : s \in Starts, z \in Sizes}

Upto2Parts ==
  {<<>>} \cup {<<e>> : e \in Entries(1)} \cup {<<e, f>> : e \in Entries(1), f \in Entries(2)}

AdjacentParts == {Entry(1, 2, 1), Entry(2, 3, 1), Entry(3, 4, 1)}

MCJobs ==
  {Layout(l, p, v, {}) : l \in Lengths, p \in Upto2Parts, v \in SUBSET Keys}
    \cup {Layout(8, <<e, f, g>>, v, {2}) :
            e \in AdjacentParts, f \in AdjacentParts, g \in AdjacentParts, v \in SUBSET Keys}
=============================================================================

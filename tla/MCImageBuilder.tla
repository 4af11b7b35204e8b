--------------------------- MODULE MCImageBuilder ---------------------------
(* The clones TLC considers: a disk of nine sectors and GPT areas of two. *)
EXTENDS ImageBuilder, TLC

CONSTANTS SinksUsed, BuffersUsed, Excludes

Entry(num, start, len) == [num |-> num, start |-> start, len |-> len]

NoShadow == [off \in {} |-> 0]

Clone(length, parts, shadow, excluded, sink, callback, buf) ==
  [length |-> length, parts |-> parts, shadow |-> shadow, excluded |-> excluded,
   sink |-> sink, on_vss_fallback |-> callback, buffer |-> buf]

Copy(name, len) == [copy |-> name, len |-> len]

(***************************************************************************)
(* GPT layouts: a gap on both sides; two adjacent partitions, in and out   *)
(* of address order; shadow copies as long as the partition and shorter;   *)
(* an unused entry.  MBR layouts: an extended partition that holds a       *)
(* logical one, and a partition that reaches the last sectors of the disk. *)
(***************************************************************************)
GptShapes ==
  { <<<<Entry(1, 3, 3)>>, 3 :> Copy("copy1", 3)>>,
    <<<<Entry(1, 3, 3)>>, 3 :> Copy("copy1", 2)>>,
    <<<<Entry(1, 2, 2), Entry(2, 4, 3)>>, 4 :> Copy("copy2", 3)>>,
    <<<<Entry(2, 4, 2), Entry(0, 0, 0), Entry(1, 2, 2)>>,
       (2 :> Copy("copy1", 2)) @@ (4 :> Copy("copy2", 1))>> }

MbrShapes ==
  { <<<<Entry(0, 3, 4), Entry(1, 4, 2)>>, 4 :> Copy("copy1", 2)>>,
    <<<<Entry(1, 4, 5)>>, 4 :> Copy("copy1", 5)>> }

TinyShapes == {1, 2, 3, 4}

(* Callers that pass an on_vss_fallback and, for one layout, one that does not. *)
Callbacks(shape) == IF Len(shape[1]) = 3 THEN {"some", "none"} ELSE {"some"}

MCJobs ==
  UNION {{Clone(9, s[1], s[2], x, k, c, b) :
            x \in Excludes, k \in SinksUsed, c \in Callbacks(s), b \in BuffersUsed} :
         s \in GptShapes \cup MbrShapes}
    \cup {Clone(l, <<>>, NoShadow, {}, k, "some", b) :
              l \in TinyShapes, k \in SinksUsed, b \in BuffersUsed}

=============================================================================

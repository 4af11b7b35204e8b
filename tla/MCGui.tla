------------------------------- MODULE MCGui -------------------------------
(* Two drives, one partition number, two worker threads alive at a time. *)
EXTENDS Gui, TLC

CONSTANTS d1, d2, p1, w1, w2

MCDisks    == {d1, d2}
MCPartNums == {p1}
MCWorkers  == {w1, w2}

Symmetry == Permutations(MCDisks) \cup Permutations(MCWorkers)
=============================================================================

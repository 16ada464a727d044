----------------------------- MODULE MCFrameCache -----------------------------
(***************************************************************************)
(* Small instances of FrameCache: a full frame and a shorter last one.      *)
(***************************************************************************)
EXTENDS FrameCache, TLC

TwoFrames == {0, 1}
ShortTail == [i \in TwoFrames |-> IF i = 0 THEN 2 ELSE 1]

Symmetry == Permutations(Thread) \cup Permutations(File)
================================================================================

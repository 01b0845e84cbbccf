--------------------------- MODULE MCUmsDispatch ---------------------------
(***************************************************************************)
(* Small instances of UmsDispatch for TLC.                                 *)
(***************************************************************************)
EXTENDS UmsDispatch, TLC

\* Threads of one kind are interchangeable: no definition tells them apart.
ThreadSymmetry == Permutations(Schedulers) \cup Permutations(Workers)
=============================================================================

--------------------------- MODULE MCUmsProcLinks ---------------------------
(***************************************************************************)
(* A small instance of UmsProcLinks for TLC.                               *)
(***************************************************************************)
EXTENDS UmsProcLinks, TLC

\* Threads of one kind are interchangeable: no definition tells them apart.
ThreadSymmetry == Permutations(Schedulers) \cup Permutations(Workers)
=============================================================================

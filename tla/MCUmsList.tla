----------------------------- MODULE MCUmsList -----------------------------
(***************************************************************************)
(* A small instance of UmsList for TLC.                                    *)
(***************************************************************************)
EXTENDS UmsList, TLC

\* Nodes of one kind are interchangeable: no definition tells them apart.
NodeSymmetry == Permutations(Heads) \cup Permutations(Entries)
=============================================================================

--------------------------- MODULE MCPublication ---------------------------
(***************************************************************************)
(* Instances of Publication for TLC.                                       *)
(***************************************************************************)
EXTENDS Publication, TLC

\* Writers are interchangeable.
WriterSymmetry == Permutations(Writers)
=============================================================================

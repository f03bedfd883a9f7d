---------------------------- MODULE MCRagCatalog ----------------------------
(***************************************************************************)
(* The catalog for TLC: builds whose catalogs have the same counts, and    *)
(* builds whose catalogs all differ in them.                               *)
(***************************************************************************)
EXTENDS RagCatalog, TLC

SameCounts == [n \in 1 .. Builds |-> 1]
DifferentCounts == [n \in 1 .. Builds |-> n]

\* Builders are interchangeable.
Interchangeable == Permutations(Builders)
=============================================================================

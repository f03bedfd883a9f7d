--------------------------- MODULE MCModelGateway ---------------------------
(***************************************************************************)
(* The model gateway for TLC; the configurations give the constants.       *)
(***************************************************************************)
EXTENDS ModelGateway, TLC

\* Threads, requests of a route and findings are compared for equality only.
Interchangeable == Permutations(Threads) \cup Permutations(Feedback)
=============================================================================

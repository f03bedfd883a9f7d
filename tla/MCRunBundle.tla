----------------------------- MODULE MCRunBundle -----------------------------
(***************************************************************************)
(* The run bundle for TLC; the configurations give the constants.          *)
(***************************************************************************)
EXTENDS RunBundleGate, RunBundleStages, TLC

\* Processes, candidates, time stamps and configurations are compared for equality
\* only: no run with this symmetry checks liveness.
Interchangeable ==
    Permutations(Procs) \cup Permutations(Attempts) \cup Permutations(Stamps) \cup Permutations(Configs)
=============================================================================

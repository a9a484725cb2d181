----------------------------- MODULE MCArpCache -----------------------------
(***************************************************************************)
(* Symmetry of the run of ArpCache.                                        *)
(***************************************************************************)
EXTENDS ArpCache, TLC

Interchangeable ==
  Permutations(Hosts) \cup Permutations(Writers)
===============================================================================

--------------------------- MODULE MCCacheManager ---------------------------
(* Small instances of CacheManager for TLC.                                *)
EXTENDS CacheManager, TLC

Symmetry ==
  Permutations(Request) \cup Permutations(Block) \cup Permutations(Slot)
=============================================================================

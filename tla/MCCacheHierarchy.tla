--------------------------- MODULE MCCacheHierarchy ---------------------------
(***************************************************************************)
(* Instances of CacheHierarchy for TLC.                                    *)
(***************************************************************************)
EXTENDS CacheHierarchy

OneLine    == {0}
ThreeLines == 0 .. 2
=============================================================================

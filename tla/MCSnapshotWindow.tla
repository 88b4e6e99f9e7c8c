--------------------------- MODULE MCSnapshotWindow ---------------------------
(* Two pages, and a cache with room for one.                                *)
EXTENDS SnapshotWindow

CONSTANTS p1, p2
=============================================================================

-------------------------- MODULE MCSnapshotWriter --------------------------
(***************************************************************************)
(* SnapshotWriter on a file of a few cells: two object ids, room for two   *)
(* snapshots with one doubling of the record region, and one extension of  *)
(* the mapping, cut off at the largest file size.                          *)
(***************************************************************************)
EXTENDS SnapshotWriter, TLC

CONSTANTS a, b

\* The identity of an object is never compared but for equality.
ObjectSymmetry == Permutations(ObjectIds)
=============================================================================

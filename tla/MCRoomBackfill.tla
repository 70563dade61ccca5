---------------------------- MODULE MCRoomBackfill ----------------------------
(* Instances of RoomBackfill for TLC. *)
EXTENDS RoomBackfill, TLC

Symmetry == Permutations(Rooms)

=============================================================================

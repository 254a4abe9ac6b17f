---------------------------- MODULE MCRoomStore -----------------------------
(* The lobby, and two spellings of one name; handlers are alike. *)
EXTENDS RoomStore

CONSTANTS lobby, den, DEN, hall

MCFold == [name \in Names |-> IF name = DEN THEN den ELSE name]

Alike == Permutations(Handlers)
=============================================================================

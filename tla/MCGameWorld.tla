--------------------------- MODULE MCGameWorld ----------------------------
(***************************************************************************)
(* A small arena for GameWorld and Look: four cells in a T around one that *)
(* all compete for, with walls to shoot and walk against:                  *)
(*    . . .                                                                *)
(*    # . #                                                                *)
(***************************************************************************)
EXTENDS Look

TeeCells == (0 .. 2) \X (0 .. 1)
TeeWalls == {<<0, 1>>, <<2, 1>>}
===========================================================================

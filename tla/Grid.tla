------------------------------- MODULE Grid -------------------------------
(***************************************************************************)
(* The plane the arena of game_server/ is laid out on: a cell is a pair    *)
(* <<x, y>>, a step is a pair <<dx, dy>>.                                  *)
(***************************************************************************)
EXTENDS Integers

(* dx = dy = 0: no step is requested. *)
Still == <<0, 0>>

(* The four steps a "go" or a "fire" command can name: left, right, up and *)
(* down.                                                                   *)
Dirs == {<<-1, 0>>, <<1, 0>>, <<0, -1>>, <<0, 1>>}

(* The cell k steps away from c in direction d. *)
Ahead(c, d, k) == <<c[1] + k * d[1], c[2] + k * d[2]>>

===========================================================================

------------------------------- MODULE Look --------------------------------
(***************************************************************************)
(* Player::look: what a player is shown of the arena, a map of the cells   *)
(* around it and a line for everyone on it, the player's own first.        *)
(*                                                                         *)
(* It reads the board and asks getThing about the ids it finds there, so   *)
(* that it tells the truth only while the board does.  The marks of shots, *)
(* which it draws in empty cells for half a second, are left out.          *)
(***************************************************************************)
EXTENDS GameWorld

CONSTANTS DX, DY  \* how far it sees: 10 cells aside, 5 up and down

ASSUME LookAssumption == DX \in Nat /\ DY \in Nat

window(p) ==
  LET x == me(p).pos[1]
      y == me(p).pos[2]
  IN  ((x - DX) .. (x + DX)) \X ((y - DY) .. (y + DY))

(* The character for a cell, by what it stands for; PROTOCOL.TXT has the   *)
(* characters.  No thing is a bullet: a lifetime from 0 on is a dead one's. *)
glyph(p, c) ==
  LET i == getCell(c)
  IN  CASE i = Empty      -> "nothing"
        [] i = Wall       -> "obstacle"
        [] i = base_id[p] -> IF isAlive(me(p)) THEN "me" ELSE "me, dead"
        [] OTHER          -> IF isAlive(getThing(i)) THEN "other" ELSE "other, dead"

(* "Player %s Location %d %d Life %d", for the player itself and for the   *)
(* others: where each is found, which is where the loop is.                *)
ownLine(p) == [who |-> base_id[p], at |-> me(p).pos, life |-> me(p).life]

(* Mutant: ids start behind FirstId. *)
otherLines_From101(p) ==
  {[who |-> getCell(c), at |-> c, life |-> getThing(getCell(c)).life] :
     c \in {b \in window(p) : getCell(b) > FirstId /\ getCell(b) # base_id[p]}}

otherLines(p) ==
  {[who |-> getCell(c), at |-> c, life |-> getThing(getCell(c)).life] :
     c \in {b \in window(p) : getCell(b) \in Ids /\ getCell(b) # base_id[p]}}

---------------------------------------------------------------------------

(* Any two players are told the same of one of them: whoever is in sight   *)
(* is listed once, with the place and the lives its own look would tell,   *)
(* nobody else is, and the map shows bodies where the lines say they are,  *)
(* the dead as dead.                                                       *)
LookIsTrue ==
  \A p \in {r \in Players : plays(r)} :
    LET inSight == {r \in Players \ {p} : plays(r) /\ me(r).pos \in window(p)}
        shown(g) == {c \in window(p) : glyph(p, c) = g}
    IN  /\ otherLines(p) = {ownLine(q) : q \in inSight}
        /\ shown("other") = {me(q).pos : q \in {r \in inSight : me(r).life > 0}}
        /\ shown("other, dead") = {me(q).pos : q \in {r \in inSight : me(r).life = 0}}
        /\ shown(IF me(p).life > 0 THEN "me" ELSE "me, dead") = {me(p).pos}

===========================================================================

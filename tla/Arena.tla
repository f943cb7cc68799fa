------------------------------ MODULE Arena -------------------------------
(***************************************************************************)
(* What the game server promises its players, without ids, hash maps,      *)
(* locks or threads: every player is nowhere or in one cell, asks for      *)
(* steps that are resolved later, and loses a life to every shot that      *)
(* reaches it.  GameWorld is shown to implement this specification.        *)
(***************************************************************************)
EXTENDS Grid

CONSTANTS
  Players,     \* the client connections
  Cells,       \* the part of the plane the players move in
  Walls,       \* the cells the maze file marks as wall
  EntryCells,  \* the cells a player may enter the game at
  Lives,       \* the lives of a player that has just entered
  FireRange,   \* how many cells a shot reaches
  Nowhere      \* the place of a player that is not in the game

VARIABLES
  where,   \* the cell of every player, or Nowhere
  lives,   \* the lives every player has left
  wish     \* the step every player has asked for and not been granted yet

vars == <<where, lives, wish>>

(* The types; only who is present has a wish, and only for a cell of Cells. *)
TypeOK ==
  /\ where \in [Players -> Cells \cup {Nowhere}]
  /\ lives \in [Players -> 0 .. Lives]
  /\ wish \in [Players -> Dirs \cup {Still}]
  /\ \A p \in Players : wish[p] # Still =>
       where[p] # Nowhere /\ Ahead(where[p], wish[p], 1) \in Cells

Init ==
  /\ where = [p \in Players |-> Nowhere]
  /\ lives = [p \in Players |-> 0]
  /\ wish = [p \in Players |-> Still]

(* A cell nobody and nothing stands on. *)
Clear(c) == c \notin Walls /\ \A p \in Players : where[p] # c

Present(p) == where[p] # Nowhere

Enter(p) ==
  /\ ~Present(p)
  /\ \E c \in EntryCells :
       /\ Clear(c)
       /\ where' = [where EXCEPT ![p] = c]
  /\ lives' = [lives EXCEPT ![p] = Lives]
  /\ UNCHANGED wish

Leave(p) ==
  /\ Present(p)
  /\ where' = [where EXCEPT ![p] = Nowhere]
  /\ lives' = [lives EXCEPT ![p] = 0]
  /\ wish' = [wish EXCEPT ![p] = Still]

(* Only the living ask. *)
Ask(p, d) ==
  /\ Present(p)
  /\ lives[p] > 0
  /\ Ahead(where[p], d, 1) \in Cells
  /\ wish' = [wish EXCEPT ![p] = d]
  /\ UNCHANGED <<where, lives>>

(* A wish is granted when the cell is clear, and forgotten either way. *)
Resolve(p) ==
  /\ wish[p] # Still
  /\ wish' = [wish EXCEPT ![p] = Still]
  /\ LET c == Ahead(where[p], wish[p], 1)
     IN  where' = [where EXCEPT ![p] = IF Clear(c) THEN c ELSE @]
  /\ UNCHANGED lives

(* q is the first thing in the way of a shot p fires in direction d. *)
InSight(p, q, d) ==
  \E k \in 1 .. FireRange :
    /\ where[q] = Ahead(where[p], d, k)
    /\ \A j \in 1 .. k - 1 : Clear(Ahead(where[p], d, j))

Shoot(p, q) ==
  /\ Present(p) /\ Present(q)
  /\ lives[p] > 0
  /\ lives[q] > 0
  /\ \E d \in Dirs : InSight(p, q, d)
  /\ lives' = [lives EXCEPT ![q] = @ - 1]
  /\ UNCHANGED <<where, wish>>

Next ==
  \/ \E p \in Players :
       \/ Enter(p) \/ Leave(p) \/ Resolve(p)
       \/ \E d \in Dirs : Ask(p, d)
       \/ \E q \in Players : Shoot(p, q)

Spec == Init /\ [][Next]_vars

---------------------------------------------------------------------------

(* No two players in one cell, and nobody in a wall, whatever order moves  *)
(* are resolved in (Thing::applyMove, Game::newThing).                     *)
OneBodyPerCell ==
  \A p \in Players : Present(p) =>
    /\ where[p] \notin Walls
    /\ \A q \in Players : where[q] = where[p] => q = p

(* Once its lives are gone a player that stays in the game never gets one  *)
(* back, asks for nothing new, and moves at most once more: by the step it *)
(* had asked for before it was shot (Player::move, Player::fire and        *)
(* Thing::update, which does not look whether the thing is alive).         *)
DeathIsFinal ==
  [][\A p \in Players :
       Present(p) /\ lives[p] = 0 /\ Present(p)' =>
         /\ lives'[p] = 0
         /\ wish'[p] \in {wish[p], Still}
         /\ where'[p] # where[p] => wish[p] # Still /\ wish'[p] = Still]_vars

===========================================================================

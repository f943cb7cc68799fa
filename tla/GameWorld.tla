---------------------------- MODULE GameWorld -----------------------------
(***************************************************************************)
(* The arena of game_server/: the Game object (Game.cpp), its maps of      *)
(* things (Things.h) and its board (Matrix.h), the things on it (Thing.h,  *)
(* Thing.cpp), and the commands players give (Player.cpp, Login.cpp).      *)
(*                                                                         *)
(* A player's command runs from game.wait() to game.post(), so it is one   *)
(* action, enabled when game_mutex is free.  A turn of the game thread     *)
(* (Game::main) holds game_mutex too, but visits the things one at a time  *)
(* in the order of a hash map: it is a begin, one step per thing in any    *)
(* order, and an end.                                                      *)
(*                                                                         *)
(* Lives are counted in the thousands Player::look shows.  What is said to *)
(* the player, energy (never read), and the marks a shot leaves on the     *)
(* screen are left out; so is the map `destroyed' (written, never read).   *)
(***************************************************************************)
EXTENDS Grid

CONSTANTS
  Players,          \* the Player objects, one per client thread
  FirstId, LastId,  \* the ids newThing may hand out: 100 .. 399
  Cells,            \* the cells of the plane in use; the code has no bound
  Walls,            \* the cells setMaze reads as wall
  RandomCells,      \* the square newThing places things in: 0 .. 20 twice
  Lives,            \* the lives of a new player: 6000 / 1000
  FireRange,        \* the cells a shot reaches: 4
  Nowhere           \* in the view of Arena, the place of who has no body

Ids   == FirstId .. LastId
Empty == 0
Wall  == 1
NoId  == -1

(* Ids are told from the board's other values by being large, so FirstId   *)
(* must exceed Wall.  The arena needs no closed maze: maze.txt is open at  *)
(* its right and lower edge.  <<0, 0>> is where null_thing stands.         *)
ASSUME WorldAssumption ==
  /\ FirstId \in Nat /\ FirstId > Wall
  /\ LastId \in Nat /\ FirstId <= LastId
  /\ Cells \subseteq Int \X Int
  /\ <<0, 0>> \in Cells
  /\ Walls \subseteq Cells
  /\ RandomCells \subseteq Cells
  /\ Lives \in Nat \ {0}
  /\ FireRange \in Nat
  /\ Nowhere \notin Int \X Int

VARIABLES
  game_matrix,  \* the board: Empty, Wall or the id of the thing in a cell
  things,       \* the things by id; `things' and `created' have the same keys
  game_mutex,   \* the count of the semaphore around the whole arena
  todo,         \* the things the running turn of Game::main still visits
  base_id,      \* the thing a player is logged in as; Player::id equals it
  leaving       \* the players behind killThing and before base_id = -1

vars == <<game_matrix, things, game_mutex, todo, base_id, leaving>>

Thing == [pos : Cells, step : Dirs \cup {Still},
          life : 0 .. Lives, lifetime : {-1, 0}]

(* The types, and the bound of the model: nobody asks to leave Cells.      *)
TypeOK ==
  /\ game_matrix \in [Cells -> {Empty, Wall} \cup Ids]
  /\ DOMAIN things \subseteq Ids
  /\ things \in [DOMAIN things -> Thing]
  /\ \A i \in DOMAIN things : Ahead(things[i].pos, things[i].step, 1) \in Cells
  /\ game_mutex \in {0, 1}
  /\ todo \subseteq DOMAIN things
  /\ base_id \in [Players -> Ids \cup {NoId}]
  /\ leaving \subseteq {p \in Players : base_id[p] # NoId}

Init ==
  /\ game_matrix = [c \in Cells |-> IF c \in Walls THEN Wall ELSE Empty]
  /\ things = [i \in {} |-> i]
  /\ game_mutex = 1
  /\ todo = {}
  /\ base_id = [p \in Players |-> NoId]
  /\ leaving = {}

---------------------------------------------------------------------------

(* Matrix::get: a cell nobody wrote is empty. *)
getCell(c) == IF c \in Cells THEN game_matrix[c] ELSE Empty

(* Things::getThing: an unknown id yields null_thing. *)
null_thing == [pos |-> <<0, 0>>, step |-> Still, life |-> 0, lifetime |-> -1]
isThing(i) == i \in DOMAIN things
getThing(i) == IF isThing(i) THEN things[i] ELSE null_thing

(* Thing::isAlive. *)
isAlive(t) == t.lifetime # 0

(* Player::isEmbodied. *)
isEmbodied(p) == base_id[p] # NoId
me(p) == getThing(base_id[p])

(* In the game, and its thread not busy leaving it. *)
plays(p) == isEmbodied(p) /\ p \notin leaving

(* The first id in 100 .. 399 that is no thing. *)
freeIds == {i \in Ids : ~isThing(i)}
newId == CHOOSE i \in freeIds : \A j \in freeIds : i <= j

(* Where a new thing may be put: the last of a hundred random cells that   *)
(* was empty.  The diagonal scan that follows when all hundred were taken  *)
(* stays in the same square, so its result is among these too.             *)
placements == {c \in RandomCells : getCell(c) = Empty}

(* Thing::Thing, Thing::set and Player::apply's setLife(6000).             *)
newThing(c) == [pos |-> c, step |-> Still, life |-> Lives, lifetime |-> -1]

(* Things::create then Thing::set: the new id joins both maps and the      *)
(* board.                                                                  *)
create(i, c) ==
  /\ things' = [j \in DOMAIN things \cup {i} |->
                  IF j = i THEN newThing(c) ELSE things[j]]
  /\ game_matrix' = [game_matrix EXCEPT ![c] = i]

(* Player::apply, "connect": refused to a player already embodied, and     *)
(* when no id or no cell is left.                                          *)
Connect(p) ==
  /\ game_mutex = 1
  /\ ~isEmbodied(p)
  /\ freeIds # {}
  /\ \E c \in placements : create(newId, c)
  /\ base_id' = [base_id EXCEPT ![p] = newId]
  /\ UNCHANGED <<game_mutex, todo, leaving>>

(* Mutant: the dead move too. *)
Move_Dead(p, d) ==
  /\ game_mutex = 1
  /\ plays(p)
  /\ Ahead(me(p).pos, d, 1) \in Cells
  /\ things' = [things EXCEPT ![base_id[p]].step = d]
  /\ UNCHANGED <<game_matrix, game_mutex, todo, base_id, leaving>>

(* Player::apply, "go".  The last conjunct bounds the model to Cells.      *)
Move(p, d) ==
  /\ game_mutex = 1
  /\ plays(p)
  /\ isAlive(me(p))
  /\ Ahead(me(p).pos, d, 1) \in Cells
  /\ things' = [things EXCEPT ![base_id[p]].step = d]
  /\ UNCHANGED <<game_matrix, game_mutex, todo, base_id, leaving>>

(* The distances at which a shot from c in direction d meets something. *)
obstacles(c, d) == {k \in 1 .. FireRange : getCell(Ahead(c, d, k)) # Empty}

(* Mutant: a fire that never calls setLifetime. *)
wounded_Undying(t) ==
  [pos |-> t.pos, step |-> t.step, lifetime |-> t.lifetime,
   life |-> IF t.life > 0 THEN t.life - 1 ELSE 0]

(* A hit costs a life, never below none, and the last one kills. *)
wounded(t) ==
  LET left == IF t.life > 0 THEN t.life - 1 ELSE 0
  IN  [pos |-> t.pos, step |-> t.step, life |-> left,
       lifetime |-> IF left = 0 THEN 0 ELSE t.lifetime]

(* Mutant: the loop goes on past what it meets. *)
Fire_Last(p, d) ==
  /\ game_mutex = 1
  /\ plays(p)
  /\ isAlive(me(p))
  /\ \E k \in obstacles(me(p).pos, d) :
       LET hit == getCell(Ahead(me(p).pos, d, k))
       IN  /\ \A j \in obstacles(me(p).pos, d) : k >= j
           /\ hit \in Ids
           /\ things' = [things EXCEPT ![hit] = wounded(@)]
  /\ UNCHANGED <<game_matrix, game_mutex, todo, base_id, leaving>>

(* Player::apply, "fire": the loop stops at the first cell that is not     *)
(* empty, and what is there is hurt when it is a thing.                    *)
Fire(p, d) ==
  /\ game_mutex = 1
  /\ plays(p)
  /\ isAlive(me(p))
  /\ \E k \in obstacles(me(p).pos, d) :
       LET hit == getCell(Ahead(me(p).pos, d, k))
       IN  /\ \A j \in obstacles(me(p).pos, d) : k <= j
           /\ hit \in Ids
           /\ things' = [things EXCEPT ![hit] = wounded(@)]
  /\ UNCHANGED <<game_matrix, game_mutex, todo, base_id, leaving>>

(* Mutant: killThing without game.wait(). *)
killThing_Unlocked(i) ==
  /\ game_matrix' = [game_matrix EXCEPT ![getThing(i).pos] = Empty]
  /\ things' = [j \in DOMAIN things \ {i} |-> things[j]]

(* Game::killThing. *)
killThing(i) ==
  /\ game_mutex = 1
  /\ game_matrix' = [game_matrix EXCEPT ![getThing(i).pos] = Empty]
  /\ things' = [j \in DOMAIN things \ {i} |-> things[j]]

(* Mutant: Player::shutdown is called a second time, with only base_id to  *)
(* tell that it was called before.                                         *)
Shutdown_Again(p) ==
  /\ isEmbodied(p)
  /\ killThing(base_id[p])
  /\ leaving' = leaving \cup {p}
  /\ UNCHANGED <<game_mutex, todo, base_id>>

(* Player::shutdown, run by the client thread when its connection ends.    *)
(* Login::shutdown tests base_id without the lock, killThing takes it, ... *)
Shutdown(p) ==
  /\ plays(p)
  /\ killThing(base_id[p])
  /\ leaving' = leaving \cup {p}
  /\ UNCHANGED <<game_mutex, todo, base_id>>

(* ... and base_id and id are forgotten behind its post, when the id may   *)
(* be somebody else's already.                                             *)
Forget(p) ==
  /\ p \in leaving
  /\ leaving' = leaving \ {p}
  /\ base_id' = [base_id EXCEPT ![p] = NoId]
  /\ UNCHANGED <<game_matrix, things, game_mutex, todo>>

---------------------------------------------------------------------------

(* Mutant: a turn passes over the dead. *)
BeginTurn_Alive ==
  /\ game_mutex = 1
  /\ game_mutex' = 0
  /\ todo' = {i \in DOMAIN things : isAlive(things[i])}
  /\ UNCHANGED <<game_matrix, things, base_id, leaving>>

(* Game::main: a turn takes game_mutex and walks the map `created'. *)
BeginTurn ==
  /\ game_mutex = 1
  /\ game_mutex' = 0
  /\ todo' = DOMAIN things
  /\ UNCHANGED <<game_matrix, things, base_id, leaving>>

(* A thing put on cell c, its request dropped. *)
standing(t, c) ==
  [pos |-> c, step |-> Still, life |-> t.life, lifetime |-> t.lifetime]

(* Mutants: the cell a thing leaves keeps its id; a blocked step is kept.  *)
applyMove_Trail(i) ==
  LET t == getThing(i)
      c == Ahead(t.pos, t.step, 1)
  IN  IF t.step # Still /\ getCell(c) = Empty
      THEN /\ game_matrix' = [game_matrix EXCEPT ![c] = i]
           /\ things' = [things EXCEPT ![i] = standing(t, c)]
      ELSE /\ things' = [things EXCEPT ![i] = standing(t, t.pos)]
           /\ UNCHANGED game_matrix
applyMove_Insist(i) ==
  LET t == getThing(i)
      c == Ahead(t.pos, t.step, 1)
  IN  IF t.step # Still /\ getCell(c) = Empty
      THEN /\ game_matrix' = [game_matrix EXCEPT ![t.pos] = Empty, ![c] = i]
           /\ things' = [things EXCEPT ![i] = standing(t, c)]
      ELSE UNCHANGED <<things, game_matrix>>

(* Mutant: only walls are in the way. *)
applyMove_Over(i) ==
  LET t == getThing(i)
      c == Ahead(t.pos, t.step, 1)
  IN  IF t.step # Still /\ getCell(c) # Wall
      THEN /\ game_matrix' = [game_matrix EXCEPT ![t.pos] = Empty, ![c] = i]
           /\ things' = [things EXCEPT ![i] = standing(t, c)]
      ELSE /\ things' = [things EXCEPT ![i] = standing(t, t.pos)]
           /\ UNCHANGED game_matrix

(* Thing::update of the thing with id i: it steps when the cell ahead is   *)
(* empty, and the request is dropped either way.  Nothing is given a       *)
(* positive lifetime, so update's countdown never runs; nor does it ask    *)
(* whether the thing is alive.                                             *)
applyMove(i) ==
  LET t == getThing(i)
      c == Ahead(t.pos, t.step, 1)
  IN  IF t.step # Still /\ getCell(c) = Empty
      THEN /\ game_matrix' = [game_matrix EXCEPT ![t.pos] = Empty, ![c] = i]
           /\ things' = [things EXCEPT ![i] = standing(t, c)]
      ELSE /\ things' = [things EXCEPT ![i] = standing(t, t.pos)]
           /\ UNCHANGED game_matrix

UpdateThing(i) ==
  /\ game_mutex = 0
  /\ i \in todo
  /\ todo' = todo \ {i}
  /\ applyMove(i)
  /\ UNCHANGED <<game_mutex, base_id, leaving>>

EndTurn ==
  /\ game_mutex = 0
  /\ todo = {}
  /\ game_mutex' = 1
  /\ UNCHANGED <<game_matrix, things, todo, base_id, leaving>>

Command(p) ==
  \/ Connect(p)
  \/ Shutdown(p) \/ Forget(p)
  \/ \E d \in Dirs : Move(p, d) \/ Fire(p, d)

Turn == BeginTurn \/ EndTurn \/ \E i \in Ids : UpdateThing(i)

Next == Turn \/ \E p \in Players : Command(p)

Spec == Init /\ [][Next]_vars

(* The game thread loops for ever and its sleep ends; players owe nothing. *)
FairSpec == Spec /\ WF_vars(Turn)
---------------------------------------------------------------------------

(* The board and the maps agree: every thing stands on the one cell that   *)
(* shows its id, and every id on the board is a thing that stands there.   *)
(* Fire and look read ids off the board and trust getThing with them; an   *)
(* id left behind by a move or a logout would make them read null_thing.   *)
BoardMatchesThings ==
  /\ \A i \in DOMAIN things : game_matrix[things[i].pos] = i
  /\ \A c \in Cells : game_matrix[c] \in Ids =>
       isThing(game_matrix[c]) /\ things[game_matrix[c]].pos = c

(* Every thing is the body of exactly one player and every player has its  *)
(* body.  Ids are reused as soon as they are free, while the login that    *)
(* had one may still hold it: who leaves takes nobody else's body away,    *)
(* and a repeated "connect" leaves none without an owner.                  *)
OneThingPerPlayer ==
  /\ \A p \in Players : plays(p) => isThing(base_id[p])
  /\ \A i \in DOMAIN things : \E p \in Players : plays(p) /\ base_id[p] = i
  /\ \A p, q \in Players : plays(p) /\ plays(q) /\ base_id[p] = base_id[q] => p = q

(* The walls stay as setMaze drew them.  killThing clears the cell of      *)
(* whatever getThing returns, for an id that is no thing the corner of the *)
(* maze; only Login's test of base_id keeps that from happening.           *)
WallsStand == \A c \in Cells : game_matrix[c] = Wall <=> c \in Walls

(* Alive (lifetime) and out of lives (life) are two fields, written in two *)
(* places: a thing is dead exactly when it has no life left.               *)
DeadIffOutOfLives ==
  \A i \in DOMAIN things : isAlive(things[i]) <=> things[i].life > 0

(* A turn takes up every step asked for before it began: PROTOCOL.TXT says *)
(* "will try to implement the move on the next game simulation step".      *)
TurnServesAll ==
  /\ game_mutex = 1 => todo = {}
  /\ game_mutex = 0 =>
       \A i \in DOMAIN things : i \notin todo => things[i].step = Still

(* Nothing enters or leaves the map `created' while the game thread walks  *)
(* it: Things::update holds an iterator into the map from one thing to the *)
(* next, and Player::shutdown runs on another thread.                      *)
IterationStable ==
  [][game_mutex = 0 /\ game_mutex' = 0 => DOMAIN things' = DOMAIN things]_vars

(* The invariants together are inductive: GameWorldProofs proves each of   *)
(* them from all of them.                                                  *)
IInv ==
  /\ TypeOK
  /\ BoardMatchesThings
  /\ OneThingPerPlayer
  /\ WallsStand
  /\ DeadIffOutOfLives
  /\ TurnServesAll

(* What the players see of it: each is nowhere or where its body is.       *)
where == [p \in Players |-> IF plays(p) THEN me(p).pos ELSE Nowhere]
lives == [p \in Players |-> IF plays(p) THEN me(p).life ELSE 0]
wish  == [p \in Players |-> IF plays(p) THEN me(p).step ELSE Still]

(* A step asked for is taken up, whatever the players do meanwhile.        *)
MoveIsTakenUp == \A p \in Players : wish[p] # Still ~> wish[p] = Still

View == INSTANCE Arena WITH EntryCells <- RandomCells

(* The game keeps the promises of Arena, and with them everything Arena    *)
(* has been shown to satisfy.                                              *)
ImplementsArena == View!Spec

(* No two players are in one cell, and nobody is in a wall, whatever order *)
(* moves are resolved in (Thing::applyMove, Game::newThing).               *)
OneBodyPerCell == View!OneBodyPerCell

(* Once its lives are gone a player that stays in the game never gets one  *)
(* back, asks for nothing new, and moves at most once more: by the step it *)
(* had asked for before it was shot (Player::move, Player::fire and        *)
(* Thing::update, which does not look whether the thing is alive).         *)
DeathIsFinal == View!DeathIsFinal

===========================================================================

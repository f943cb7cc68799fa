------------------------- MODULE GameWorldProofs --------------------------
(***************************************************************************)
(* The safety of GameWorld for any number of players, any maze and any     *)
(* range of ids, and that what look shows of it is true, for any window.   *)
(***************************************************************************)
EXTENDS Look, TLAPS, WellFoundedInduction

(* newThing finds an id nobody has whenever there is one.                  *)
LEMMA NewIdIsFree ==
  ASSUME freeIds # {}
  PROVE  newId \in freeIds
<1> DEFINE R == OpToRel(<, Nat)
<1>1. freeIds \subseteq Nat
  BY WorldAssumption DEF freeIds, Ids
<1>2. PICK i \in freeIds : \A j \in freeIds : ~(<<j, i>> \in R)
  BY <1>1, NatLessThanWellFounded, WFMin, Zenon
<1>3. ASSUME NEW j \in freeIds PROVE i <= j
  <2>1. /\ i \in Nat
        /\ j \in Nat
    BY <1>1
  <2>2. ~(j < i)
    BY <2>1, <1>2 DEF OpToRel
  <2>. QED
    BY <2>1, <2>2
<1>. QED
  BY <1>3, Zenon DEF newId

(* Ids are none of the board's other values.                               *)
LEMMA IdsApart ==
  /\ Ids \subseteq Nat
  /\ Empty \notin Ids /\ Wall \notin Ids /\ NoId \notin Ids
  /\ Empty # Wall
BY WorldAssumption DEF Ids, Empty, Wall, NoId

LEMMA StartHolds == Init => IInv
BY WorldAssumption, IdsApart
   DEF Init, IInv, TypeOK, BoardMatchesThings, OneThingPerPlayer, WallsStand,
       DeadIffOutOfLives, TurnServesAll, plays, isEmbodied, isThing

(* Logging in: the new body is on an empty cell, under an id nobody has.   *)
LEMMA ConnectKeeps ==
  ASSUME IInv, NEW p \in Players, Connect(p)
  PROVE  IInv'
<1> DEFINE n == newId
<1>1. /\ n \in Ids /\ n \notin DOMAIN things
      /\ game_mutex = 1 /\ game_mutex' = 1
      /\ base_id[p] = NoId
      /\ base_id' = [base_id EXCEPT ![p] = n]
      /\ todo' = todo
      /\ leaving' = leaving /\ p \notin leaving
  BY NewIdIsFree DEF Connect, freeIds, isThing, isEmbodied, IInv, TypeOK
<1>2. PICK c \in placements : create(n, c)
  BY DEF Connect
<1>3. /\ c \in Cells
      /\ game_matrix[c] = Empty
  BY <1>2, WorldAssumption DEF placements, getCell
<1> DEFINE body == newThing(c)
<1>4. /\ body \in Thing
      /\ body.pos = c /\ body.step = Still /\ body.life = Lives
      /\ body.lifetime = -1
  BY <1>3, WorldAssumption DEF newThing, Thing, Still
<1>5. /\ DOMAIN things' = DOMAIN things \cup {n}
      /\ things'[n] = body
      /\ \A i \in DOMAIN things : things'[i] = things[i]
      /\ things' = [j \in DOMAIN things' |-> things'[j]]
      /\ game_matrix' = [game_matrix EXCEPT ![c] = n]
  BY <1>1, <1>2 DEF create
<1> HIDE DEF n, body
<1>6. TypeOK'
  <2>1. Ahead(c, Still, 1) = c
    BY <1>3, WorldAssumption DEF Ahead, Still
  <2>. QED
    BY <1>1, <1>3, <1>4, <1>5, <2>1, IdsApart DEF IInv, TypeOK
<1>7. BoardMatchesThings'
  BY <1>1, <1>3, <1>4, <1>5, IdsApart
     DEF IInv, TypeOK, BoardMatchesThings, isThing, Thing
<1>8. OneThingPerPlayer'
  BY <1>1, <1>5, IdsApart
     DEF IInv, TypeOK, OneThingPerPlayer, isThing, plays, isEmbodied
<1>9. WallsStand'
  BY <1>1, <1>3, <1>5, IdsApart DEF IInv, TypeOK, WallsStand
<1>10. DeadIffOutOfLives'
  BY <1>1, <1>4, <1>5, WorldAssumption DEF IInv, DeadIffOutOfLives, isAlive
<1>11. TurnServesAll'
  BY <1>1, <1>5 DEF IInv, TurnServesAll
<1>. QED
  BY <1>6, <1>7, <1>8, <1>9, <1>10, <1>11 DEF IInv

(* Asking for a step and being shot change neither a place nor an owner.   *)
LEMMA MoveKeeps ==
  ASSUME IInv, NEW p \in Players, NEW d \in Dirs, Move(p, d)
  PROVE  IInv'
<1> DEFINE i == base_id[p]
<1>1. /\ i \in DOMAIN things
      /\ me(p) = things[i]
      /\ Ahead(things[i].pos, d, 1) \in Cells
  BY DEF Move, IInv, OneThingPerPlayer, me, getThing, isThing
<1>2. /\ things' = [things EXCEPT ![i].step = d]
      /\ game_mutex = 1
      /\ UNCHANGED <<game_matrix, game_mutex, todo, base_id, leaving>>
  BY DEF Move
<1> HIDE DEF i
<1>3. TypeOK'
  BY <1>1, <1>2 DEF IInv, TypeOK, Thing
<1>4. BoardMatchesThings' /\ OneThingPerPlayer' /\ WallsStand'
  BY <1>1, <1>2
     DEF IInv, TypeOK, Thing, BoardMatchesThings, OneThingPerPlayer,
         WallsStand, isThing, plays, isEmbodied
<1>5. DeadIffOutOfLives' /\ TurnServesAll'
  BY <1>1, <1>2
     DEF IInv, TypeOK, Thing, DeadIffOutOfLives, TurnServesAll, isAlive
<1>. QED
  BY <1>3, <1>4, <1>5 DEF IInv

(* A wound: the life falls by one or stays at none, and is none exactly    *)
(* when the thing is dead.                                                 *)
LEMMA WoundOfThing ==
  ASSUME NEW t \in Thing, isAlive(t) <=> t.life > 0
  PROVE  /\ wounded(t) \in Thing
         /\ wounded(t).pos = t.pos
         /\ wounded(t).step = t.step
         /\ isAlive(wounded(t)) <=> wounded(t).life > 0
BY WorldAssumption DEF wounded, Thing, isAlive

LEMMA FireKeeps ==
  ASSUME IInv, NEW p \in Players, NEW d \in Dirs, Fire(p, d)
  PROVE  IInv'
<1>1. PICK i \in Ids : things' = [things EXCEPT ![i] = wounded(@)]
  BY DEF Fire
<1>2. /\ game_mutex = 1
      /\ UNCHANGED <<game_matrix, game_mutex, todo, base_id, leaving>>
  BY DEF Fire
<1>3. /\ DOMAIN things' = DOMAIN things
      /\ \A j \in DOMAIN things :
           /\ things[j] \in Thing
           /\ things'[j] \in Thing
           /\ things'[j].pos = things[j].pos
           /\ things'[j].step = things[j].step
           /\ isAlive(things'[j]) <=> things'[j].life > 0
  BY <1>1, WoundOfThing DEF IInv, TypeOK, DeadIffOutOfLives
<1>4. things' = [j \in DOMAIN things' |-> things'[j]]
  BY <1>1, <1>3 DEF IInv, TypeOK
<1>5. TypeOK'
  BY <1>2, <1>3, <1>4 DEF IInv, TypeOK
<1>6. BoardMatchesThings' /\ OneThingPerPlayer' /\ WallsStand'
  BY <1>2, <1>3
     DEF IInv, TypeOK, Thing, BoardMatchesThings, OneThingPerPlayer,
         WallsStand, isThing, plays, isEmbodied
<1>7. DeadIffOutOfLives' /\ TurnServesAll'
  BY <1>2, <1>3 DEF IInv, DeadIffOutOfLives, TurnServesAll, isAlive
<1>. QED
  BY <1>5, <1>6, <1>7 DEF IInv

(* Logging out: the id leaves the board, the maps and its only owner.      *)
LEMMA ShutdownKeeps ==
  ASSUME IInv, NEW p \in Players, Shutdown(p)
  PROVE  IInv'
<1> DEFINE i == base_id[p]
           c == things[i].pos
<1>1. /\ i \in DOMAIN things
      /\ i \in Ids
      /\ c \in Cells
      /\ game_matrix[c] = i
      /\ game_mutex = 1 /\ game_mutex' = 1
      /\ todo = {} /\ todo' = {}
  BY DEF Shutdown, killThing, IInv, TypeOK, Thing, BoardMatchesThings,
         OneThingPerPlayer, TurnServesAll, isThing
<1>2. /\ game_matrix' = [game_matrix EXCEPT ![c] = Empty]
      /\ things' = [j \in DOMAIN things \ {i} |-> things[j]]
      /\ base_id' = base_id
      /\ leaving' = leaving \cup {p}
      /\ plays(p)
  BY <1>1 DEF Shutdown, killThing, getThing, isThing
<1>3. /\ DOMAIN things' = DOMAIN things \ {i}
      /\ \A j \in DOMAIN things' : things'[j] = things[j]
  BY <1>2
<1> HIDE DEF i, c
<1>4. TypeOK'
  BY <1>1, <1>2, <1>3 DEF IInv, TypeOK, plays, isEmbodied
<1>5. BoardMatchesThings'
  BY <1>1, <1>2, <1>3, IdsApart
     DEF IInv, TypeOK, BoardMatchesThings, isThing, Thing, i, c
<1>6. OneThingPerPlayer'
  BY <1>1, <1>2, <1>3, IdsApart
     DEF IInv, TypeOK, OneThingPerPlayer, isThing, plays, isEmbodied, i
<1>7. WallsStand'
  BY <1>1, <1>2, IdsApart DEF IInv, TypeOK, WallsStand
<1>8. DeadIffOutOfLives' /\ TurnServesAll'
  BY <1>1, <1>3 DEF IInv, DeadIffOutOfLives, TurnServesAll, isAlive
<1>. QED
  BY <1>4, <1>5, <1>6, <1>7, <1>8 DEF IInv

(* Who has left forgets an id that may be another's by now.                *)
LEMMA ForgetKeeps ==
  ASSUME IInv, NEW p \in Players, Forget(p)
  PROVE  IInv'
<1>1. /\ base_id' = [base_id EXCEPT ![p] = NoId]
      /\ leaving' = leaving \ {p} /\ p \in leaving
      /\ UNCHANGED <<game_matrix, things, game_mutex, todo>>
      /\ base_id \in [Players -> Ids \cup {NoId}]
  BY DEF Forget, IInv, TypeOK
<1>2. TypeOK'
  BY <1>1 DEF IInv, TypeOK
<1>3. /\ things' = things
      /\ base_id \in [Players -> Ids \cup {NoId}]
      /\ \A q \in Players : plays(q)' => plays(q) /\ q # p
  BY <1>1 DEF plays, isEmbodied
<1>4. OneThingPerPlayer'
  BY <1>1, <1>3 DEF IInv, TypeOK, OneThingPerPlayer, isThing, plays, isEmbodied
<1>5. BoardMatchesThings' /\ WallsStand' /\ DeadIffOutOfLives' /\ TurnServesAll'
  BY <1>1 DEF IInv, BoardMatchesThings, WallsStand, DeadIffOutOfLives, TurnServesAll, isThing
<1>. QED
  BY <1>2, <1>4, <1>5 DEF IInv

LEMMA BeginTurnKeeps ==
  ASSUME IInv, BeginTurn
  PROVE  IInv'
BY DEF BeginTurn, IInv, TypeOK, BoardMatchesThings, OneThingPerPlayer,
       WallsStand, DeadIffOutOfLives, TurnServesAll, isThing, plays, isEmbodied

LEMMA EndTurnKeeps ==
  ASSUME IInv, EndTurn
  PROVE  IInv'
BY DEF EndTurn, IInv, TypeOK, BoardMatchesThings, OneThingPerPlayer,
       WallsStand, DeadIffOutOfLives, TurnServesAll, isThing, plays, isEmbodied

(* One thing's turn: it goes to an empty cell of Cells, or stays.          *)
LEMMA UpdateThingKeeps ==
  ASSUME IInv, NEW i \in Ids, UpdateThing(i)
  PROVE  IInv'
<1> DEFINE t == things[i]
           c == Ahead(t.pos, t.step, 1)
<1>1. /\ i \in DOMAIN things
      /\ t \in Thing
      /\ t.pos \in Cells
      /\ game_matrix[t.pos] = i
      /\ c \in Cells
      /\ getCell(c) = game_matrix[c]
      /\ game_mutex = 0 /\ game_mutex' = 0
      /\ todo' = todo \ {i}
      /\ UNCHANGED <<base_id, leaving>>
  BY DEF UpdateThing, IInv, TypeOK, Thing, BoardMatchesThings, getCell
<1>2. \/ /\ t.step # Still
         /\ game_matrix[c] = Empty
         /\ game_matrix' = [game_matrix EXCEPT ![t.pos] = Empty, ![c] = i]
         /\ things' = [things EXCEPT ![i] = standing(t, c)]
      \/ /\ game_matrix' = game_matrix
         /\ things' = [things EXCEPT ![i] = standing(t, t.pos)]
  BY <1>1 DEF UpdateThing, applyMove, getThing, isThing
<1> HIDE DEF t, c
<1>3. \A x \in Cells :
        /\ standing(t, x) \in Thing
        /\ standing(t, x).pos = x
        /\ standing(t, x).step = Still
        /\ isAlive(standing(t, x)) <=> isAlive(t)
        /\ standing(t, x).life = t.life
        /\ Ahead(standing(t, x).pos, standing(t, x).step, 1) = x
  BY <1>1, WorldAssumption DEF standing, Thing, isAlive, Still, Ahead
<1>4. /\ DOMAIN things' = DOMAIN things
      /\ things' = [j \in DOMAIN things' |-> things'[j]]
      /\ \A j \in DOMAIN things : j # i => things'[j] = things[j]
      /\ \E x \in Cells : things'[i] = standing(t, x)
  BY <1>1, <1>2 DEF IInv, TypeOK
<1>5. TypeOK'
  BY <1>1, <1>2, <1>3, <1>4 DEF IInv, TypeOK
<1>6. BoardMatchesThings'
  BY <1>1, <1>2, <1>3, IdsApart
     DEF IInv, TypeOK, BoardMatchesThings, isThing, Thing, t
<1>7. OneThingPerPlayer'
  BY <1>1, <1>4 DEF IInv, OneThingPerPlayer, isThing, plays, isEmbodied
<1>8. WallsStand'
  BY <1>1, <1>2, IdsApart DEF IInv, TypeOK, WallsStand
<1>9. DeadIffOutOfLives' /\ TurnServesAll'
  BY <1>1, <1>3, <1>4 DEF IInv, DeadIffOutOfLives, TurnServesAll, t
<1>. QED
  BY <1>5, <1>6, <1>7, <1>8, <1>9 DEF IInv

(* The invariants hold in every reachable state of every arena.            *)
THEOREM InvariantsHold == Spec => []IInv
<1>1. Init => IInv
  BY StartHolds
<1>2. IInv /\ [Next]_vars => IInv'
  <2> SUFFICES ASSUME IInv, [Next]_vars
               PROVE  IInv'
    OBVIOUS
  <2>1. CASE Turn
    BY <2>1, BeginTurnKeeps, EndTurnKeeps, UpdateThingKeeps DEF Turn
  <2>2. ASSUME NEW p \in Players, Command(p)
        PROVE  IInv'
    BY <2>2, ConnectKeeps, ShutdownKeeps, ForgetKeeps, MoveKeeps, FireKeeps DEF Command
  <2>3. CASE UNCHANGED vars
    BY <2>3
       DEF vars, IInv, TypeOK, BoardMatchesThings, OneThingPerPlayer,
           WallsStand, DeadIffOutOfLives, TurnServesAll, isThing, plays, isEmbodied
  <2>. QED
    BY <2>1, <2>2, <2>3 DEF Next
<1>. QED
  BY <1>1, <1>2, PTL DEF Spec

(* The types of GameWorld; todo, the things a turn has left to visit, only  *)
(* names things that are in the map.                                       *)
THEOREM TypeCorrect == Spec => []TypeOK
BY InvariantsHold, PTL DEF IInv

(* Game's matrix and the maps of Things agree: every id drawn in a cell is  *)
(* a thing that believes to stand there, and the other way round, though   *)
(* newThing, killThing and applyMove each change both by hand.             *)
THEOREM BoardAlwaysMatches == Spec => []BoardMatchesThings
BY InvariantsHold, PTL DEF IInv

(* Game::newThing never gives out an id in use, so that every thing is the  *)
(* body of exactly one login.                                              *)
THEOREM BodiesHaveOneOwner == Spec => []OneThingPerPlayer
BY InvariantsHold, PTL DEF IInv

(* The maze drawn by setMaze outlives every login, move and killThing.      *)
THEOREM WallsAlwaysStand == Spec => []WallsStand
BY InvariantsHold, PTL DEF IInv

(* Player::fire and Thing::setLife keep `alive' and `life' in step.         *)
THEOREM DeathMatchesLives == Spec => []DeadIffOutOfLives
BY InvariantsHold, PTL DEF IInv

(* What Player::move asked for before the game thread's turn began is taken *)
(* up by that turn.                                                        *)
THEOREM TurnsServeAll == Spec => []TurnServesAll
BY InvariantsHold, PTL DEF IInv

(* The map the game thread walks keeps its keys during the walk.           *)
THEOREM WalkIsSafe == Spec => IterationStable
<1> DEFINE Keeps == game_mutex = 0 /\ game_mutex' = 0
                      => DOMAIN things' = DOMAIN things
<1>1. IInv /\ [Next]_vars => [Keeps]_vars
  <2> SUFFICES ASSUME IInv, Next, game_mutex = 0, game_mutex' = 0
               PROVE  DOMAIN things' = DOMAIN things
    BY DEF vars
  <2>1. CASE Turn
    BY <2>1 DEF Turn, BeginTurn, EndTurn, UpdateThing, applyMove
  <2>2. ASSUME NEW p \in Players, Command(p)
        PROVE  things' = things
    BY <2>2 DEF Command, Connect, Shutdown, Forget, killThing, Move, Fire
  <2>. QED
    BY <2>1, <2>2 DEF Next
<1>. QED
  BY <1>1, InvariantsHold, PTL DEF Spec, IterationStable

---------------------------------------------------------------------------

(* Under the invariants the view of a player is read off its own body.     *)
LEMMA ViewOfPlayer ==
  ASSUME IInv, NEW p \in Players
  PROVE  /\ plays(p) => /\ base_id[p] \in DOMAIN things
                        /\ base_id[p] \in Ids
                        /\ me(p) = things[base_id[p]]
                        /\ me(p) \in Thing
                        /\ me(p).pos \in Cells
                        /\ game_matrix[me(p).pos] = base_id[p]
                        /\ where[p] = me(p).pos
                        /\ where[p] # Nowhere
                        /\ lives[p] = me(p).life
                        /\ wish[p] = me(p).step
         /\ ~plays(p) => /\ where[p] = Nowhere
                         /\ lives[p] = 0
                         /\ wish[p] = Still
BY WorldAssumption, IdsApart
   DEF IInv, TypeOK, BoardMatchesThings, OneThingPerPlayer, plays, isEmbodied, me,
       getThing, isThing, where, lives, wish, Thing

(* An empty cell of the board is a clear cell of the view, and the other   *)
(* way round.                                                              *)
LEMMA EmptyIsClear ==
  ASSUME IInv, NEW c \in Int \X Int
  PROVE  View!Clear(c) <=> getCell(c) = Empty
<1>1. CASE c \in Cells
  <2>1. ASSUME getCell(c) = Empty
        PROVE  View!Clear(c)
    BY <1>1, <2>1, ViewOfPlayer, IdsApart, WorldAssumption
       DEF IInv, WallsStand, getCell, View!Clear
  <2>2. ASSUME View!Clear(c)
        PROVE  getCell(c) = Empty
    <3>1. getCell(c) # Wall
      BY <1>1, <2>2 DEF IInv, WallsStand, getCell, View!Clear
    <3>2. ASSUME getCell(c) \in Ids
          PROVE  FALSE
      <4>1. /\ getCell(c) \in DOMAIN things
            /\ things[getCell(c)].pos = c
        BY <1>1, <3>2 DEF IInv, BoardMatchesThings, getCell, isThing
      <4>2. PICK q \in Players : plays(q) /\ base_id[q] = getCell(c)
        BY <4>1 DEF IInv, OneThingPerPlayer
      <4>. QED
        BY <4>1, <4>2, <2>2, ViewOfPlayer DEF View!Clear
    <3>. QED
      BY <1>1, <3>1, <3>2 DEF IInv, TypeOK, getCell
  <2>. QED
    BY <2>1, <2>2
<1>2. CASE c \notin Cells
  BY <1>2, ViewOfPlayer, WorldAssumption DEF getCell, View!Clear
<1>. QED
  BY <1>1, <1>2

LEMMA ConnectEnters ==
  ASSUME IInv, NEW p \in Players, Connect(p)
  PROVE  View!Enter(p)
<1> DEFINE n == newId
<1>1. /\ n \in Ids /\ n \notin DOMAIN things
      /\ ~plays(p) /\ p \notin leaving /\ leaving' = leaving
      /\ base_id \in [Players -> Ids \cup {NoId}]
      /\ base_id' = [base_id EXCEPT ![p] = n]
  BY NewIdIsFree DEF Connect, freeIds, isThing, IInv, TypeOK, plays, isEmbodied
<1>2. PICK c \in placements : create(n, c)
  BY DEF Connect
<1>3. /\ c \in RandomCells
      /\ c \in Int \X Int
      /\ View!Clear(c)
  BY <1>2, EmptyIsClear, WorldAssumption DEF placements
<1>4. /\ DOMAIN things' = DOMAIN things \cup {n}
      /\ things'[n] = newThing(c)
      /\ \A i \in DOMAIN things : things'[i] = things[i]
  BY <1>1, <1>2 DEF create
<1> HIDE DEF n
<1>5. /\ where'[p] = c
      /\ lives'[p] = Lives
      /\ wish'[p] = Still
  BY <1>1, <1>4, IdsApart
     DEF where, lives, wish, plays, isEmbodied, me, getThing, isThing, newThing
<1>6. ASSUME NEW q \in Players, q # p
      PROVE  where'[q] = where[q] /\ lives'[q] = lives[q] /\ wish'[q] = wish[q]
  <2>1. base_id'[q] = base_id[q]
    BY <1>1, <1>6
  <2>2. plays(q) => me(q)' = me(q)
    BY <1>1, <1>4, <1>6, <2>1, ViewOfPlayer, IdsApart
       DEF me, getThing, isThing, IInv, TypeOK, plays, isEmbodied
  <2>3. plays(q)' <=> plays(q)
    BY <1>1, <2>1 DEF plays, isEmbodied
  <2>. QED
    BY <2>2, <2>3 DEF where, lives, wish
<1>7. where[p] = Nowhere /\ wish[p] = Still
  BY <1>1, ViewOfPlayer
<1>8. /\ where' = [where EXCEPT ![p] = c]
      /\ lives' = [lives EXCEPT ![p] = Lives]
      /\ wish' = wish
  BY <1>5, <1>6, <1>7, Zenon DEF where, lives, wish
<1>. QED
  BY <1>3, <1>7, <1>8 DEF View!Enter, View!Present

LEMMA ShutdownLeaves ==
  ASSUME IInv, NEW p \in Players, Shutdown(p)
  PROVE  View!Leave(p)
<1>1. /\ plays(p)
      /\ base_id \in [Players -> Ids \cup {NoId}]
      /\ base_id' = base_id
      /\ leaving' = leaving \cup {p}
      /\ things' = [j \in DOMAIN things \ {base_id[p]} |-> things[j]]
  BY DEF Shutdown, killThing, IInv, TypeOK
<1>2. /\ where'[p] = Nowhere
      /\ lives'[p] = 0
      /\ wish'[p] = Still
  BY <1>1 DEF where, lives, wish, plays
<1>3. ASSUME NEW q \in Players, q # p
      PROVE  where'[q] = where[q] /\ lives'[q] = lives[q] /\ wish'[q] = wish[q]
  <2>1. plays(q) => base_id[q] \in DOMAIN things \ {base_id[p]}
    BY <1>1, <1>3, ViewOfPlayer DEF IInv, OneThingPerPlayer
  <2>2. plays(q) => me(q)' = me(q)
    BY <1>1, <2>1 DEF me, getThing, isThing
  <2>3. plays(q)' <=> plays(q)
    BY <1>1, <1>3 DEF plays, isEmbodied
  <2>. QED
    BY <2>2, <2>3 DEF where, lives, wish
<1>4. /\ where' = [where EXCEPT ![p] = Nowhere]
      /\ lives' = [lives EXCEPT ![p] = 0]
      /\ wish' = [wish EXCEPT ![p] = Still]
  BY <1>2, <1>3, Zenon DEF where, lives, wish
<1>. QED
  BY <1>1, <1>4, ViewOfPlayer DEF View!Leave, View!Present, View!Still, Still

LEMMA ForgetHides ==
  ASSUME IInv, NEW p \in Players, Forget(p)
  PROVE  UNCHANGED View!vars
<1>1. ASSUME NEW q \in Players
      PROVE  where'[q] = where[q] /\ lives'[q] = lives[q] /\ wish'[q] = wish[q]
  <2>1. things' = things /\ (plays(q)' <=> plays(q)) /\ (plays(q) => base_id'[q] = base_id[q])
    BY DEF Forget, IInv, TypeOK, plays, isEmbodied
  <2>2. plays(q) => me(q)' = me(q)
    BY <2>1 DEF me, getThing, isThing
  <2>. QED
    BY <2>1, <2>2 DEF where, lives, wish
<1>2. where' = where /\ lives' = lives /\ wish' = wish
  BY <1>1, Zenon DEF where, lives, wish
<1>. QED
  BY <1>2 DEF View!vars

(* What an action leaves of a thing, it leaves of its owner's view.        *)
LEMMA ViewKept ==
  ASSUME IInv, UNCHANGED <<base_id, leaving>>, NEW q \in Players,
         DOMAIN things' = DOMAIN things,
         plays(q) => things'[base_id[q]] = things[base_id[q]]
  PROVE  where'[q] = where[q] /\ lives'[q] = lives[q] /\ wish'[q] = wish[q]
<1>1. plays(q) => me(q)' = me(q)
  BY ViewOfPlayer DEF me, getThing, isThing
<1>2. plays(q)' <=> plays(q)
  BY DEF plays, isEmbodied
<1>. QED
  BY <1>1, <1>2 DEF where, lives, wish

(* The view of the owner of thing i after an action that keeps the owners. *)
LEMMA ViewOfOwner ==
  ASSUME IInv, UNCHANGED <<base_id, leaving>>, NEW p \in Players, plays(p),
         DOMAIN things' = DOMAIN things
  PROVE  /\ where'[p] = things'[base_id[p]].pos
         /\ lives'[p] = things'[base_id[p]].life
         /\ wish'[p] = things'[base_id[p]].step
BY ViewOfPlayer DEF where, lives, wish, me, getThing, isThing, plays, isEmbodied

LEMMA MoveAsks ==
  ASSUME IInv, NEW p \in Players, NEW d \in Dirs, Move(p, d)
  PROVE  View!Ask(p, d)
<1> DEFINE i == base_id[p]
<1>1. /\ plays(p)
      /\ i \in DOMAIN things
      /\ things \in [DOMAIN things -> Thing]
      /\ UNCHANGED <<base_id, leaving>>
      /\ things' = [things EXCEPT ![i].step = d]
  BY ViewOfPlayer DEF Move, IInv, TypeOK
<1> HIDE DEF i
<1>2. /\ DOMAIN things' = DOMAIN things
      /\ things'[i].pos = things[i].pos
      /\ things'[i].life = things[i].life
      /\ things'[i].step = d
      /\ \A j \in DOMAIN things : j # i => things'[j] = things[j]
  BY <1>1 DEF Thing
<1>3. /\ where'[p] = where[p]
      /\ lives'[p] = lives[p]
      /\ wish'[p] = d
  BY <1>1, <1>2, ViewOfPlayer, ViewOfOwner DEF i
<1>4. ASSUME NEW q \in Players, q # p
      PROVE  where'[q] = where[q] /\ lives'[q] = lives[q] /\ wish'[q] = wish[q]
  <2>1. plays(q) => base_id[q] \in DOMAIN things /\ base_id[q] # i
    BY <1>1, <1>4, ViewOfPlayer DEF IInv, OneThingPerPlayer, i
  <2>. QED
    BY <1>1, <1>2, <2>1, ViewKept
<1>5. /\ where' = where
      /\ lives' = lives
      /\ wish' = [wish EXCEPT ![p] = d]
  BY <1>3, <1>4, Zenon DEF where, lives, wish
<1>6. lives[p] > 0 /\ where[p] # Nowhere
  BY <1>1, ViewOfPlayer
     DEF Move, IInv, DeadIffOutOfLives, i
<1>7. Ahead(where[p], d, 1) \in Cells
  BY <1>1, ViewOfPlayer DEF Move
<1>. QED
  BY <1>5, <1>6, <1>7 DEF View!Ask, View!Present, View!Ahead, Ahead

(* The cells of a line of fire lie in the plane.                           *)
LEMMA AheadInPlane ==
  ASSUME NEW c \in Int \X Int, NEW d \in Dirs \cup {Still}, NEW k \in Int
  PROVE  Ahead(c, d, k) \in Int \X Int
BY DEF Ahead, Dirs, Still

(* A shot at a thing alive costs its owner a life; at a dead one, nothing. *)
LEMMA FireShoots ==
  ASSUME IInv, NEW p \in Players, NEW d \in Dirs, Fire(p, d)
  PROVE  (\E q \in Players : View!Shoot(p, q)) \/ UNCHANGED View!vars
<1> DEFINE at == me(p).pos
<1>1. PICK k \in obstacles(at, d) :
        /\ \A j \in obstacles(at, d) : k <= j
        /\ getCell(Ahead(at, d, k)) \in Ids
        /\ things' = [things EXCEPT ![getCell(Ahead(at, d, k))] = wounded(@)]
  BY DEF Fire
<1> DEFINE hit == getCell(Ahead(at, d, k))
<1>2. /\ plays(p)
      /\ isAlive(me(p))
      /\ UNCHANGED <<base_id, leaving>>
      /\ at \in Cells /\ at \in Int \X Int
      /\ k \in 1 .. FireRange
  BY <1>1, ViewOfPlayer, WorldAssumption DEF Fire, obstacles
<1>3. /\ Ahead(at, d, k) \in Cells
      /\ hit \in DOMAIN things
      /\ things[hit].pos = Ahead(at, d, k)
  <2>1. Ahead(at, d, k) \in Cells
    BY <1>1, IdsApart DEF getCell
  <2>. QED
    BY <1>1, <2>1 DEF IInv, BoardMatchesThings, getCell, isThing
<1>4. PICK q \in Players : plays(q) /\ base_id[q] = hit
  BY <1>3 DEF IInv, OneThingPerPlayer
<1>5. plays(q)
  BY <1>4
<1>6. View!InSight(p, q, d)
  <2>1. where[q] = Ahead(where[p], d, k)
    BY <1>2, <1>3, <1>4, <1>5, ViewOfPlayer
  <2>2. ASSUME NEW j \in 1 .. k - 1
        PROVE  View!Clear(Ahead(where[p], d, j))
    <3>1. j \in 1 .. FireRange /\ j \in Int /\ ~(k <= j)
      BY <1>2, WorldAssumption
    <3>2. getCell(Ahead(at, d, j)) = Empty
      BY <1>1, <3>1 DEF obstacles
    <3>. QED
      BY <1>2, <3>1, <3>2, AheadInPlane, EmptyIsClear, ViewOfPlayer
  <2>. QED
    BY <1>2, <2>1, <2>2 DEF View!InSight, View!Ahead, Ahead
<1>7. /\ DOMAIN things' = DOMAIN things
      /\ things'[hit] = wounded(things[hit])
      /\ \A j \in DOMAIN things : j # hit => things'[j] = things[j]
      /\ things[hit] \in Thing
  BY <1>1, <1>3 DEF IInv, TypeOK
<1> HIDE DEF hit, at
<1>8. ASSUME NEW r \in Players, r # q
      PROVE  where'[r] = where[r] /\ lives'[r] = lives[r] /\ wish'[r] = wish[r]
  <2>1. plays(r) => base_id[r] \in DOMAIN things /\ base_id[r] # hit
    BY <1>4, <1>8, ViewOfPlayer DEF IInv, OneThingPerPlayer
  <2>. QED
    BY <1>2, <1>7, <2>1, ViewKept
<1>9. /\ where'[q] = where[q]
      /\ wish'[q] = wish[q]
      /\ lives'[q] = IF lives[q] > 0 THEN lives[q] - 1 ELSE 0
      /\ lives[q] \in 0 .. Lives
  BY <1>2, <1>4, <1>5, <1>7, ViewOfPlayer, ViewOfOwner DEF wounded, Thing
<1>10. /\ lives[p] > 0
       /\ where[p] # Nowhere
       /\ where[q] # Nowhere
  BY <1>2, <1>5, ViewOfPlayer DEF IInv, DeadIffOutOfLives
<1>11. where' = where /\ wish' = wish
  BY <1>8, <1>9, Zenon DEF where, wish
<1>12. CASE lives[q] > 0
  <2>1. lives'[q] = lives[q] - 1
    BY <1>9, <1>12
  <2>2. lives' = [lives EXCEPT ![q] = lives[q] - 1]
    BY <1>8, <2>1, Zenon DEF lives
  <2>. QED
    BY <1>6, <1>10, <1>11, <1>12, <2>2
       DEF View!Shoot, View!Present, View!Dirs, Dirs
<1>13. CASE ~(lives[q] > 0)
  <2>1. lives'[q] = lives[q]
    BY <1>9, <1>13, WorldAssumption
  <2>2. lives' = lives
    BY <1>8, <2>1, Zenon DEF lives
  <2>. QED
    BY <1>11, <2>2 DEF View!vars
<1>. QED
  BY <1>12, <1>13

(* The turn of a thing that asked for a step resolves its owner's wish;    *)
(* that of any other shows nothing.                                        *)
LEMMA UpdateResolves ==
  ASSUME IInv, NEW i \in Ids, UpdateThing(i)
  PROVE  (\E p \in Players : View!Resolve(p)) \/ UNCHANGED View!vars
<1> DEFINE t == things[i]
           c == Ahead(t.pos, t.step, 1)
<1>1. /\ i \in DOMAIN things
      /\ t \in Thing
      /\ c \in Cells /\ c \in Int \X Int
      /\ UNCHANGED <<base_id, leaving>>
  BY WorldAssumption DEF UpdateThing, IInv, TypeOK
<1>2. PICK p \in Players : plays(p) /\ base_id[p] = i
  BY <1>1 DEF IInv, OneThingPerPlayer
<1>3. plays(p)
  BY <1>2
<1>4. /\ where[p] = t.pos /\ lives[p] = t.life /\ wish[p] = t.step
      /\ where[p] # Nowhere
  BY <1>2, <1>3, ViewOfPlayer
<1>5. things' = [things EXCEPT ![i] =
         standing(t, IF t.step # Still /\ getCell(c) = Empty THEN c ELSE t.pos)]
  BY <1>1 DEF UpdateThing, applyMove, getThing, isThing
<1>6. /\ DOMAIN things' = DOMAIN things
      /\ \A j \in DOMAIN things : j # i => things'[j] = things[j]
      /\ things'[i] = standing(t,
           IF t.step # Still /\ getCell(c) = Empty THEN c ELSE t.pos)
  BY <1>1, <1>5 DEF IInv, TypeOK
<1> HIDE DEF t, c
<1>7. /\ where'[p] = IF t.step # Still /\ getCell(c) = Empty THEN c ELSE t.pos
      /\ lives'[p] = t.life
      /\ wish'[p] = Still
  BY <1>1, <1>2, <1>3, <1>6, ViewOfOwner DEF standing
<1>8. ASSUME NEW q \in Players, q # p
      PROVE  where'[q] = where[q] /\ lives'[q] = lives[q] /\ wish'[q] = wish[q]
  <2>1. plays(q) => base_id[q] \in DOMAIN things /\ base_id[q] # i
    BY <1>2, <1>8, ViewOfPlayer DEF IInv, OneThingPerPlayer
  <2>. QED
    BY <1>1, <1>6, <2>1, ViewKept
<1>9. lives' = lives
  BY <1>4, <1>7, <1>8, Zenon DEF lives
<1>10. CASE t.step = Still
  <2>1. where'[p] = where[p] /\ wish'[p] = wish[p]
    BY <1>4, <1>7, <1>10
  <2>2. where' = where /\ wish' = wish
    BY <1>8, <2>1, Zenon DEF where, wish
  <2>. QED
    BY <1>9, <2>2 DEF View!vars
<1>11. CASE t.step # Still
  <2>1. c = View!Ahead(where[p], wish[p], 1)
    BY <1>4 DEF c, Ahead, View!Ahead
  <2>2. where'[p] = IF View!Clear(c) THEN c ELSE where[p]
    BY <1>1, <1>4, <1>7, <1>11, EmptyIsClear
  <2>3. /\ where' = [where EXCEPT ![p] = IF View!Clear(c) THEN c ELSE @]
        /\ wish' = [wish EXCEPT ![p] = Still]
    BY <1>7, <1>8, <2>2, Zenon DEF where, wish
  <2>. QED
    BY <1>4, <1>9, <1>11, <2>1, <2>3 DEF View!Resolve, View!Still, Still
<1>. QED
  BY <1>10, <1>11

(* The game keeps the promises of Arena: every command and every thing's   *)
(* turn is one step the players understand, or none.                       *)
THEOREM GameImplementsArena == Spec => ImplementsArena
<1>1. Init => View!Init
  BY Zenon DEF Init, View!Init, where, lives, wish, plays, isEmbodied, me, getThing,
         isThing, null_thing, View!Still, Still
<1>2. IInv /\ [Next]_vars => [View!Next]_(View!vars)
  <2> SUFFICES ASSUME IInv, [Next]_vars
               PROVE  [View!Next]_(View!vars)
    OBVIOUS
  <2>1. CASE BeginTurn \/ EndTurn \/ UNCHANGED vars
    BY <2>1 DEF BeginTurn, EndTurn, vars, View!vars, where, lives, wish,
         plays, isEmbodied, me, getThing, isThing
  <2>2. ASSUME NEW i \in Ids, UpdateThing(i)
        PROVE  [View!Next]_(View!vars)
    BY <2>2, UpdateResolves DEF View!Next
  <2>3. ASSUME NEW p \in Players, Command(p)
        PROVE  [View!Next]_(View!vars)
    <3>1. CASE Connect(p)
      BY <3>1, ConnectEnters DEF View!Next
    <3>2. CASE Shutdown(p)
      BY <3>2, ShutdownLeaves DEF View!Next
    <3>2a. CASE Forget(p)
      BY <3>2a, ForgetHides
    <3>3. ASSUME NEW d \in Dirs, Move(p, d)
          PROVE  View!Next
      BY <3>3, MoveAsks DEF View!Next, View!Dirs, Dirs
    <3>4. ASSUME NEW d \in Dirs, Fire(p, d)
          PROVE  [View!Next]_(View!vars)
      BY <3>4, FireShoots DEF View!Next
    <3>. QED
      BY <2>3, <3>1, <3>2, <3>2a, <3>3, <3>4 DEF Command
  <2>. QED
    BY <2>1, <2>2, <2>3 DEF Next, Turn
<1>. QED
  BY <1>1, <1>2, InvariantsHold, PTL DEF Spec, ImplementsArena, View!Spec

---------------------------------------------------------------------------
(***************************************************************************)
(* What Arena promises, for any number of players and any room.  The three *)
(* state functions are not looked into here: Arena says all that is used.  *)
(***************************************************************************)

ArenaIsSound == View!TypeOK /\ View!OneBodyPerCell

(* No two players share a cell or a wall (Thing::applyMove, Game::newThing).*)
LEMMA ArenaStaysSound == View!Spec => []ArenaIsSound
<1>1. View!Init => ArenaIsSound
  BY WorldAssumption DEF View!Init, ArenaIsSound, View!TypeOK, View!OneBodyPerCell, View!Present
<1>2. ArenaIsSound /\ [View!Next]_(View!vars) => ArenaIsSound'
  <2> SUFFICES ASSUME ArenaIsSound, [View!Next]_(View!vars)
               PROVE  ArenaIsSound'
    OBVIOUS
  <2> USE WorldAssumption DEF ArenaIsSound, View!TypeOK, View!OneBodyPerCell, View!Present
  <2>1. ASSUME NEW p \in Players, View!Enter(p)
        PROVE  ArenaIsSound'
    BY <2>1 DEF View!Enter, View!Clear
  <2>2. ASSUME NEW p \in Players, View!Leave(p)
        PROVE  ArenaIsSound'
    BY <2>2 DEF View!Leave
  <2>3. ASSUME NEW p \in Players, View!Resolve(p)
        PROVE  ArenaIsSound'
    BY <2>3 DEF View!Resolve, View!Clear
  <2>4. ASSUME NEW p \in Players, NEW d \in View!Dirs, View!Ask(p, d)
        PROVE  ArenaIsSound'
    BY <2>4 DEF View!Ask
  <2>5. ASSUME NEW p \in Players, NEW q \in Players, View!Shoot(p, q)
        PROVE  ArenaIsSound'
    BY <2>5 DEF View!Shoot
  <2>6. CASE UNCHANGED View!vars
    BY <2>6 DEF View!vars
  <2>. QED
    BY <2>1, <2>2, <2>3, <2>4, <2>5, <2>6 DEF View!Next
<1>. QED
  BY <1>1, <1>2, PTL DEF View!Spec

(* Whatever the maze and the players, no two bodies share a cell and none  *)
(* stands in a wall: Thing::applyMove and Player's entry both look at the  *)
(* cell before they take it.  It holds of Arena, and so of the game.       *)
THEOREM BodiesAreApart ==
  /\ View!Spec => []View!OneBodyPerCell
  /\ Spec => []OneBodyPerCell
<1>1. View!Spec => []View!OneBodyPerCell
  BY ArenaStaysSound, PTL DEF ArenaIsSound
<1>. QED
  BY <1>1, GameImplementsArena, PTL DEF ImplementsArena, OneBodyPerCell

(* The dead stay dead, ask for nothing and move at most once more          *)
(* (Player::move, Player::fire, Thing::update), in Arena and in the game.  *)
THEOREM DeadStayDead ==
  /\ View!Spec => View!DeathIsFinal
  /\ Spec => DeathIsFinal
<1> DEFINE Final(p) ==
      View!Present(p) /\ lives[p] = 0 /\ View!Present(p)' =>
        /\ lives'[p] = 0
        /\ wish'[p] \in {wish[p], View!Still}
        /\ where'[p] # where[p] => wish[p] # View!Still /\ wish'[p] = View!Still
<1>1. ArenaIsSound /\ [View!Next]_(View!vars) => [\A p \in Players : Final(p)]_(View!vars)
  <2> SUFFICES ASSUME ArenaIsSound, View!Next, NEW p \in Players,
                      View!Present(p), lives[p] = 0, View!Present(p)'
               PROVE  /\ lives'[p] = 0
                      /\ wish'[p] \in {wish[p], View!Still}
                      /\ where'[p] # where[p] => wish[p] # View!Still /\ wish'[p] = View!Still
    BY DEF View!vars
  <2> USE DEF ArenaIsSound, View!TypeOK, View!Present
  <2>1. CASE \E q \in Players : View!Enter(q)
    BY <2>1 DEF View!Enter
  <2>2. CASE \E q \in Players : View!Leave(q)
    BY <2>2 DEF View!Leave
  <2>3. CASE \E q \in Players : View!Resolve(q)
    BY <2>3 DEF View!Resolve
  <2>4. CASE \E q \in Players : \E d \in View!Dirs : View!Ask(q, d)
    BY <2>4 DEF View!Ask
  <2>5. CASE \E q, r \in Players : View!Shoot(q, r)
    BY <2>5 DEF View!Shoot
  <2>. QED
    BY <2>1, <2>2, <2>3, <2>4, <2>5 DEF View!Next
<1>2. View!Spec => View!DeathIsFinal
  BY <1>1, ArenaStaysSound, PTL DEF View!Spec, View!DeathIsFinal
<1>. QED
  BY <1>2, GameImplementsArena, PTL DEF ImplementsArena, DeathIsFinal

---------------------------------------------------------------------------

(* Whoever is in the game has a body, and the board shows its id there.    *)
LEMMA BodyOnBoard ==
  ASSUME IInv, NEW q \in Players, plays(q)
  PROVE  /\ base_id[q] \in Ids
         /\ getThing(base_id[q]) = me(q)
         /\ getCell(me(q).pos) = base_id[q]
         /\ me(q).life \in Nat
         /\ isAlive(me(q)) <=> me(q).life > 0
<1> DEFINE i == base_id[q]
<1>1. i \in DOMAIN things /\ i \in Ids
  BY DEF IInv, OneThingPerPlayer, TypeOK, isThing
<1>2. me(q) = things[i] /\ things[i] \in Thing
  BY <1>1 DEF me, getThing, isThing, IInv, TypeOK
<1>3. things[i].pos \in Cells /\ things[i].life \in 0 .. Lives
  BY <1>2 DEF Thing
<1>4. game_matrix[things[i].pos] = i
  BY <1>1 DEF IInv, BoardMatchesThings
<1>5. isAlive(things[i]) <=> things[i].life > 0
  BY <1>1 DEF IInv, DeadIffOutOfLives
<1>. QED
  BY <1>1, <1>2, <1>3, <1>4, <1>5, WorldAssumption DEF getCell, me

(* A cell shows nothing, a wall, or the id of a player that stands there.  *)
LEMMA CellShows ==
  ASSUME IInv, NEW c
  PROVE  \/ getCell(c) = Empty
         \/ getCell(c) = Wall
         \/ /\ getCell(c) \in Ids
            /\ \E q \in Players : plays(q) /\ base_id[q] = getCell(c) /\ me(q).pos = c
<1> SUFFICES ASSUME getCell(c) # Empty, getCell(c) # Wall
             PROVE  /\ getCell(c) \in Ids
                    /\ \E q \in Players : plays(q) /\ base_id[q] = getCell(c) /\ me(q).pos = c
  OBVIOUS
<1>1. c \in Cells /\ getCell(c) = game_matrix[c] /\ game_matrix[c] \in Ids
  BY DEF getCell, IInv, TypeOK
<1>2. game_matrix[c] \in DOMAIN things /\ things[game_matrix[c]].pos = c
  BY <1>1 DEF IInv, BoardMatchesThings, isThing
<1>3. PICK q \in Players : plays(q) /\ base_id[q] = game_matrix[c]
  BY <1>2 DEF IInv, OneThingPerPlayer
<1>5. me(q).pos = c
  BY <1>2, <1>3 DEF me, getThing, isThing
<1>. QED
  BY <1>1, <1>3, <1>5

(* Two players have two ids.                                               *)
LEMMA IdsDiffer ==
  ASSUME IInv, NEW p \in Players, NEW q \in Players, plays(p), plays(q),
         base_id[p] = base_id[q]
  PROVE  p = q
BY DEF IInv, OneThingPerPlayer

(* The state of the proof: a player in the game, and those in its sight.   *)
LEMMA LinesAreTrue ==
  ASSUME IInv, NEW p \in Players, plays(p)
  PROVE  otherLines(p) =
           {ownLine(q) : q \in {r \in Players \ {p} : plays(r) /\ me(r).pos \in window(p)}}
<1> DEFINE inSight == {r \in Players \ {p} : plays(r) /\ me(r).pos \in window(p)}
           seen == {b \in window(p) : getCell(b) \in Ids /\ getCell(b) # base_id[p]}
           line(c) == [who |-> getCell(c), at |-> c, life |-> getThing(getCell(c)).life]
<1>1. ASSUME NEW c \in seen PROVE \E q \in inSight : line(c) = ownLine(q)
  <2>1. PICK q \in Players : plays(q) /\ base_id[q] = getCell(c) /\ me(q).pos = c
    BY CellShows, IdsApart
  <2>2. q # p
    BY <2>1
  <2>3. getThing(getCell(c)) = me(q)
    BY <2>1, BodyOnBoard
  <2>. QED
    BY <2>1, <2>2, <2>3 DEF ownLine
<1>2. ASSUME NEW q \in inSight PROVE \E c \in seen : line(c) = ownLine(q)
  <2>1. /\ getCell(me(q).pos) = base_id[q]
        /\ base_id[q] \in Ids
        /\ getThing(base_id[q]) = me(q)
    BY BodyOnBoard
  <2>2. base_id[q] # base_id[p]
    BY IdsDiffer
  <2>. QED
    BY <2>1, <2>2 DEF ownLine
<1>3. otherLines(p) = {line(c) : c \in seen}
  BY DEF otherLines
<1>. QED
  BY <1>1, <1>2, <1>3

LEMMA GlyphOf ==
  ASSUME IInv, NEW p \in Players, plays(p), NEW c
  PROVE  /\ glyph(p, c) = "other" <=>
              \E q \in Players \ {p} : plays(q) /\ me(q).pos = c /\ me(q).life > 0
         /\ glyph(p, c) = "other, dead" <=>
              \E q \in Players \ {p} : plays(q) /\ me(q).pos = c /\ me(q).life = 0
         /\ glyph(p, c) = (IF me(p).life > 0 THEN "me" ELSE "me, dead") <=> c = me(p).pos
<1>1. /\ base_id[p] \in Ids
      /\ getCell(me(p).pos) = base_id[p]
      /\ isAlive(me(p)) <=> me(p).life > 0
  BY BodyOnBoard
<1>2. ASSUME NEW q \in Players \ {p}, plays(q), me(q).pos = c
      PROVE  /\ getCell(c) = base_id[q] /\ base_id[q] \in Ids /\ base_id[q] # base_id[p]
             /\ glyph(p, c) = IF me(q).life > 0 THEN "other" ELSE "other, dead"
             /\ me(q).life \in Nat
  <2>1. /\ getCell(c) = base_id[q] /\ base_id[q] \in Ids
        /\ getThing(base_id[q]) = me(q)
        /\ isAlive(me(q)) <=> me(q).life > 0
        /\ me(q).life \in Nat
    BY <1>2, BodyOnBoard
  <2>2. base_id[q] # base_id[p]
    BY <1>2, IdsDiffer
  <2>3. getCell(c) # Empty /\ getCell(c) # Wall
    BY <2>1, IdsApart
  <2>. QED
    BY <2>1, <2>2, <2>3 DEF glyph
<1>3. CASE getCell(c) \in {Empty, Wall}
  <2>1. glyph(p, c) \in {"nothing", "obstacle"}
    BY <1>1, <1>3, IdsApart DEF glyph
  <2>2. c # me(p).pos
    BY <1>1, <1>3, IdsApart
  <2>3. ASSUME NEW q \in Players \ {p}, plays(q), me(q).pos = c PROVE FALSE
    BY <1>2, <1>3, <2>3, IdsApart
  <2>. QED
    BY <2>1, <2>2, <2>3
<1>4. CASE getCell(c) = base_id[p]
  <2>1. c = me(p).pos
    <3>1. PICK q \in Players : plays(q) /\ base_id[q] = getCell(c) /\ me(q).pos = c
      BY <1>1, <1>4, CellShows, IdsApart
    <3>. QED
      BY <1>4, <3>1, IdsDiffer
  <2>2. glyph(p, c) = IF me(p).life > 0 THEN "me" ELSE "me, dead"
    BY <1>1, <1>4, IdsApart DEF glyph
  <2>3. ASSUME NEW q \in Players \ {p}, plays(q), me(q).pos = c PROVE FALSE
    BY <1>2, <1>4, <2>3
  <2>. QED
    BY <2>1, <2>2, <2>3
<1>5. CASE getCell(c) \notin {Empty, Wall} /\ getCell(c) # base_id[p]
  <2>1. PICK q \in Players : plays(q) /\ base_id[q] = getCell(c) /\ me(q).pos = c
    BY <1>5, CellShows
  <2>2. q \in Players \ {p}
    BY <1>5, <2>1
  <2>3. glyph(p, c) = IF me(q).life > 0 THEN "other" ELSE "other, dead"
    BY <1>2, <2>1, <2>2
  <2>3a. me(q).life \in Nat
    BY <1>2, <2>1, <2>2
  <2>4. c # me(p).pos
    BY <1>1, <1>5
  <2>5. ASSUME NEW r \in Players \ {p}, plays(r), me(r).pos = c PROVE r = q
    BY <1>2, <2>1, <2>5, IdsDiffer
  <2>6. CASE me(q).life > 0
    <3>1. glyph(p, c) = "other"
      BY <2>3, <2>6, Zenon
    <3>2. me(q).life # 0
      BY <2>6
    <3>. QED
      BY <2>1, <2>2, <2>4, <2>5, <2>6, <3>1, <3>2
  <2>7. CASE me(q).life = 0
    <3>1. ~(me(q).life > 0)
      BY <2>7
    <3>2. glyph(p, c) = "other, dead"
      BY <2>3, <3>1, Zenon
    <3>. QED
      BY <2>1, <2>2, <2>4, <2>5, <2>7, <3>1, <3>2
  <2>8. me(q).life > 0 \/ me(q).life = 0
    BY <2>3a
  <2>. QED
    BY <2>6, <2>7, <2>8
<1>. QED
  BY <1>3, <1>4, <1>5

(* Look tells the truth wherever the invariant of GameWorld holds.         *)
LEMMA InvariantShows == IInv => LookIsTrue
<1> SUFFICES ASSUME IInv, NEW p \in Players, plays(p)
             PROVE  LET inSight == {r \in Players \ {p} : plays(r) /\ me(r).pos \in window(p)}
                        shown(g) == {c \in window(p) : glyph(p, c) = g}
                    IN  /\ otherLines(p) = {ownLine(q) : q \in inSight}
                        /\ shown("other") = {me(q).pos : q \in {r \in inSight : me(r).life > 0}}
                        /\ shown("other, dead") = {me(q).pos : q \in {r \in inSight : me(r).life = 0}}
                        /\ shown(IF me(p).life > 0 THEN "me" ELSE "me, dead") = {me(p).pos}
  BY DEF LookIsTrue
<1> DEFINE inSight == {r \in Players \ {p} : plays(r) /\ me(r).pos \in window(p)}
           shown(g) == {c \in window(p) : glyph(p, c) = g}
<1>1. otherLines(p) = {ownLine(q) : q \in inSight}
  BY LinesAreTrue
<1>2. shown("other") = {me(q).pos : q \in {r \in inSight : me(r).life > 0}}
  <2>1. ASSUME NEW c
        PROVE  glyph(p, c) = "other" <=>
                 \E q \in Players \ {p} : plays(q) /\ me(q).pos = c /\ me(q).life > 0
    BY GlyphOf
  <2>. QED
    BY <2>1, Zenon
<1>3. shown("other, dead") = {me(q).pos : q \in {r \in inSight : me(r).life = 0}}
  <2>1. ASSUME NEW c
        PROVE  glyph(p, c) = "other, dead" <=>
                 \E q \in Players \ {p} : plays(q) /\ me(q).pos = c /\ me(q).life = 0
    BY GlyphOf
  <2>. QED
    BY <2>1, Zenon
<1>4. me(p).pos \in window(p)
  <2>1. me(p).pos \in Int \X Int
    BY WorldAssumption DEF IInv, TypeOK, OneThingPerPlayer, me, getThing, isThing, Thing
  <2>. QED
    BY <2>1, LookAssumption DEF window
<1>5. shown(IF me(p).life > 0 THEN "me" ELSE "me, dead") = {me(p).pos}
  <2>1. ASSUME NEW c
        PROVE  glyph(p, c) = (IF me(p).life > 0 THEN "me" ELSE "me, dead") <=> c = me(p).pos
    BY GlyphOf
  <2>. QED
    BY <1>4, <2>1, Zenon
<1>. QED
  BY <1>1, <1>2, <1>3, <1>5

(* What Player::look shows is where everyone is, in every state of the     *)
(* game.                                                                   *)
THEOREM LookTellsTheTruth == Spec => []LookIsTrue
BY InvariantsHold, InvariantShows, PTL

===========================================================================

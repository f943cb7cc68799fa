----------------------------- MODULE GameStart -----------------------------
(***************************************************************************)
(* How the game server starts: main (game_server/main.cpp) calls           *)
(* Game::getGame, which builds the game when the_game is NULL; the         *)
(* constructor reads the maze line by line (Game::setMaze) and starts the  *)
(* game thread (Game::main) before the_game is assigned; then main updates *)
(* the things once, without game_mutex, and begins to serve.  Whatever     *)
(* places or moves a thing calls getGame again (Thing.cpp), and it is one  *)
(* code for every thread: a thread keeps a stack of the constructors it is *)
(* in.                                                                     *)
(*                                                                         *)
(* What the things do once the game runs is in GameWorld.                  *)
(***************************************************************************)
EXTENDS Integers, SequencesExt

CONSTANTS
  Main, Clients,  \* threads: the program's first, and those of clients
  NoThread,       \* nobody
  MaxLines,       \* bound: the lines of maze.txt
  MaxGames,       \* bound: the games built; the stack bounds them in C++
  MaxThings       \* bound: the things clients make

Games == 1 .. MaxGames
NoGame == 0
Threads == {Main} \cup Clients \cup Games  \* a game's thread has its number

ASSUME StartAssumption ==
  /\ {MaxLines, MaxGames, MaxThings} \subseteq Nat \ {0}
  /\ Main \notin Clients \cup Games
  /\ Clients \cap Games = {}
  /\ NoThread \notin Threads

(* What a line of the file can be to setMaze.  One of 2000 characters is   *)
(* "endless": getline fails on it, fails ever after, and never comes to    *)
(* the end of the file; a file that is not there is such a line only.      *)
Lines == {"walls", "empty", "digit", "endless"}

VARIABLES
  maze,        \* the file maze.txt
  the_game,    \* the static pointer
  made,        \* the games that were built, finished or not
  making,      \* the constructors a thread is in, the innermost last
  things,      \* how many things a game has
  game_mutex,  \* who holds the semaphore of a game
  pc, left     \* where a thread is, and the things it still has to update

vars == <<maze, the_game, made, making, things, game_mutex, pc, left>>

Labels == {"off", "get game", "read", "set", "begin", "assign", "update", "walk", "move",
           "serve", "serving", "exit", "wait", "turn", "post", "sleep", "command", "place"}

TypeOK ==
  /\ maze \in Seq(Lines)
  /\ the_game \in Games \cup {NoGame}
  /\ made \in 0 .. MaxGames
  /\ making \in [Threads -> Seq([game : Games, line : 1 .. (MaxLines + 1), back : Labels])]
  /\ things \in [Games -> Nat]
  /\ game_mutex \in [Games -> Threads \cup {NoThread}]
  /\ pc \in [Threads -> Labels]
  /\ left \in [Threads -> Nat]

Init ==
  /\ maze \in UNION {[1 .. n -> Lines] : n \in 1 .. MaxLines}
  /\ the_game = NoGame
  /\ made = 0
  /\ making = [t \in Threads |-> <<>>]
  /\ things = [g \in Games |-> 0]
  /\ game_mutex = [g \in Games |-> NoThread]
  /\ pc = [t \in Threads |-> IF t = Main THEN "get game" ELSE "off"]
  /\ left = [t \in Threads |-> 0]

Goto(t, from, label) == pc[t] = from /\ pc' = [pc EXCEPT ![t] = label]
Free(g) == game_mutex[g] = NoThread
Hold(g, t) == Free(g) /\ game_mutex' = [game_mutex EXCEPT ![g] = t]
Release(g) == game_mutex' = [game_mutex EXCEPT ![g] = NoThread]

---------------------------------------------------------------------------

(* Where getGame is called, and where the caller goes on.                  *)
caller == [main |-> "get game", maze |-> "set", move |-> "move",
           command |-> "command", place |-> "place"]
after(label) == CASE label = "get game" -> "update"
                  [] label = "set" -> "read"
                  [] label = "move" -> "walk"
                  [] label = "command" -> "wait"
                  [] label = "place" -> "post"

newFrame(t) == [game |-> made + 1, line |-> 1, back |-> after(pc[t])]

(* Game::Game: another game, whose setMaze opens the file from its start.  *)
new(t) ==
  /\ made < MaxGames
  /\ made' = made + 1
  /\ making' = [making EXCEPT ![t] = Append(@, newFrame(t))]
  /\ pc' = [pc EXCEPT ![t] = "read"]

(* Mutant: getGame assigns the_game first and then lets it read the maze.  *)
getGame_Early(t) ==
  /\ pc[t] \in Range(caller)
  /\ \/ /\ the_game # NoGame
        /\ pc' = [pc EXCEPT ![t] = after(@)]
        /\ UNCHANGED <<the_game, made, making>>
     \/ /\ the_game = NoGame
        /\ new(t)
        /\ the_game' = made + 1
  /\ UNCHANGED <<maze, things, game_mutex, left>>

(* Game::getGame. *)
getGame(t) ==
  /\ pc[t] \in Range(caller)
  /\ \/ /\ the_game # NoGame
        /\ pc' = [pc EXCEPT ![t] = after(@)]
        /\ UNCHANGED <<made, making>>
     \/ /\ the_game = NoGame
        /\ new(t)
  /\ UNCHANGED <<maze, the_game, things, game_mutex, left>>

frame(t) == Last(making[t])

(* Mutant: a line without a character fails, as one read with get would.   *)
readable_NotEmpty(l) == l \notin {"endless", "empty"}

(* getline takes a line, and the delimiter of an empty one. *)
readable(l) == l # "endless"

(* Game::setMaze, a line: a digit makes a thing of this game, and Thing::set *)
(* puts it on the board of the game that getGame returns.  On a line that  *)
(* cannot be read the loop goes on with nothing changed.                   *)
ReadLine(t) ==
  /\ pc[t] = "read"
  /\ frame(t).line <= Len(maze)
  /\ LET l == maze[frame(t).line] IN
     /\ readable(l)
     /\ \/ /\ l # "digit"
           /\ UNCHANGED <<pc, things>>
        \/ /\ l = "digit"
           /\ pc' = [pc EXCEPT ![t] = "set"]
           /\ things' = [things EXCEPT ![frame(t).game] = @ + 1]
  /\ making' = [making EXCEPT ![t][Len(making[t])].line = @ + 1]
  /\ UNCHANGED <<maze, the_game, made, game_mutex, left>>

EndOfFile(t) ==
  /\ pc[t] = "read"
  /\ frame(t).line > Len(maze)
  /\ pc' = [pc EXCEPT ![t] = "begin"]
  /\ UNCHANGED <<maze, the_game, made, making, things, game_mutex, left>>

(* Game::init: the thread of this game begins, in Game::main. *)
Begin(t) ==
  /\ pc[t] = "begin"
  /\ pc' = [pc EXCEPT ![t] = "assign", ![frame(t).game] = "turn"]
  /\ UNCHANGED <<maze, the_game, made, making, things, game_mutex, left>>

(* the_game = new Game. *)
Assign(t) ==
  /\ pc[t] = "assign"
  /\ the_game' = frame(t).game
  /\ pc' = [pc EXCEPT ![t] = frame(t).back]
  /\ making' = [making EXCEPT ![t] = Front(@)]
  /\ UNCHANGED <<maze, made, things, game_mutex, left>>

---------------------------------------------------------------------------

(* Game::update of the game that main has got; no lock is taken. *)
Update ==
  /\ Goto(Main, "update", "walk")
  /\ left' = [left EXCEPT ![Main] = things[the_game]]
  /\ UNCHANGED <<maze, the_game, made, making, things, game_mutex>>

(* Game::main: wait, and update the things of its own game. *)
Turn(g) ==
  /\ Goto(g, "turn", "walk")
  /\ Hold(g, g)
  /\ left' = [left EXCEPT ![g] = things[g]]
  /\ UNCHANGED <<maze, the_game, made, making, things>>

(* Things::update: Thing::applyMove of the next thing, which calls getGame. *)
Walk(t) ==
  /\ pc[t] = "walk"
  /\ \/ /\ left[t] > 0
        /\ left' = [left EXCEPT ![t] = @ - 1]
        /\ pc' = [pc EXCEPT ![t] = "move"]
     \/ /\ left[t] = 0
        /\ pc' = [pc EXCEPT ![t] = IF t = Main THEN "serve" ELSE "post"]
        /\ UNCHANGED left
  /\ UNCHANGED <<maze, the_game, made, making, things, game_mutex>>

(* post, and for the game thread 0.25 seconds of sleep. *)
Post(t) ==
  /\ \/ /\ t \in Games
        /\ Goto(t, "post", "sleep")
        /\ Release(t)
     \/ /\ t \in Clients
        /\ Goto(t, "post", "off")
        /\ Release(the_game)
  /\ UNCHANGED <<maze, the_game, made, making, things, left>>

Wake(g) == Goto(g, "sleep", "turn") /\ UNCHANGED <<maze, the_game, made, making, things, game_mutex, left>>

(* runServer: NovaServer::begin succeeds, or the port is taken and the     *)
(* program exits with all of its threads.                                  *)
Serve ==
  /\ \/ Goto(Main, "serve", "serving")
     \/ /\ pc[Main] = "serve"
        /\ pc' = [t \in Threads |-> IF t = Main THEN "exit" ELSE "off"]
  /\ UNCHANGED <<maze, the_game, made, making, things, game_mutex, left>>

(* Player::apply, a "connect" of somebody whom the server has accepted.    *)
Command(c) ==
  /\ pc[Main] = "serving"
  /\ Goto(c, "off", "command")
  /\ UNCHANGED <<maze, the_game, made, making, things, game_mutex, left>>

(* wait, and Game::newThing up to its Thing::set. *)
NewThing(c) ==
  /\ Goto(c, "wait", "place")
  /\ Hold(the_game, c)
  /\ things[the_game] < MaxThings
  /\ things' = [things EXCEPT ![the_game] = @ + 1]
  /\ UNCHANGED <<maze, the_game, made, making, left>>

Constructor(t) == getGame(t) \/ ReadLine(t) \/ EndOfFile(t) \/ Begin(t) \/ Assign(t)

Next ==
  \/ \E t \in Threads : Constructor(t) \/ Walk(t) \/ Post(t)
  \/ Update \/ Serve
  \/ \E g \in Games : Turn(g) \/ Wake(g)
  \/ \E c \in Clients : Command(c) \/ NewThing(c)

Spec == Init /\ [][Next]_vars

(* A thread that can run does. *)
FairSpec == Spec /\ WF_vars(Constructor(Main) \/ Walk(Main) \/ Update \/ Serve)

---------------------------------------------------------------------------

(* getGame has no lock and the game thread runs before the_game is set,    *)
(* yet a maze without a digit makes one game only; and although main's     *)
(* first update takes no lock, a thing is moved only by a thread that      *)
(* holds game_mutex: there is nothing to move before the server runs.      *)
OneGame ==
  /\ "digit" \notin Range(maze) => made <= 1
  /\ \A t \in Threads : pc[t] = "move" => the_game # NoGame /\ game_mutex[the_game] = t

(* A maze of walls and empty lines is read to its end, and the server      *)
(* comes to serve, or to exit because the port is taken.                   *)
Starts ==
  Range(maze) \subseteq {"walls", "empty"} => <>(pc[Main] \in {"serving", "exit"})
===========================================================================

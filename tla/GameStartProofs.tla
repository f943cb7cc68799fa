------------------------- MODULE GameStartProofs --------------------------
(***************************************************************************)
(* How the game server starts, for any maze, any number of clients and any *)
(* number of games a digit may lead to: one game is made, and nothing      *)
(* moves without its lock.                                                 *)
(***************************************************************************)
EXTENDS GameStart, SequenceTheorems, TLAPS

Digit == "digit" \in Range(maze)

(* The constructors main is in; nobody else is in one. *)
Building == {"read", "set", "begin", "assign"}
FramesFit ==
  /\ Len(maze) <= MaxLines
  /\ pc[Main] = "get game" => making[Main] = <<>>
  /\ pc[Main] \in Building => making[Main] # <<>>

(* A maze with a digit is never read beyond it: game is begun in game.     *)
DigitRecurs == Digit =>
  /\ the_game = NoGame
  /\ pc[Main] \in {"get game", "read", "set"}
  /\ \A t \in Threads \ {Main} : pc[t] = "off"
  /\ pc[Main] = "read" => \A k \in 1 .. (frame(Main).line - 1) : maze[k] # "digit"

(* Without a digit main goes straight on, through one constructor. *)
MainFits == ~Digit =>
  /\ pc[Main] \in {"get game", "read", "begin", "assign", "update", "walk", "serve", "serving", "exit"}
  /\ made = IF pc[Main] = "get game" THEN 0 ELSE 1
  /\ the_game = IF pc[Main] \in {"get game", "read", "begin", "assign"} THEN NoGame ELSE 1
  /\ pc[Main] \in Building =>
       Len(making[Main]) = 1 /\ frame(Main).game = 1 /\ frame(Main).back = "update"

(* Who else there is: the thread of the one game, and clients once there is *)
(* a server.                                                               *)
OthersFit == ~Digit =>
  /\ \A g \in Games \ {1} : pc[g] = "off"
  /\ pc[1] \in {"off", "turn", "walk", "move", "post", "sleep"}
  /\ \A c \in Clients :
       /\ pc[c] \in {"off", "command", "wait", "place", "post"}
       /\ pc[c] # "off" => pc[Main] = "serving"

(* Until then there is nothing to move. *)
NothingToMove == ~Digit =>
  /\ left[Main] = 0
  /\ pc[Main] \notin {"serving", "exit"} => things[1] = 0 /\ left[1] = 0 /\ pc[1] # "move"

(* Who is inside game_mutex holds it. *)
HoldersFit == ~Digit =>
  /\ pc[1] \in {"walk", "move", "post"} => game_mutex[1] = 1
  /\ \A c \in Clients : pc[c] \in {"place", "post"} => game_mutex[1] = c

IInv ==
  /\ TypeOK /\ FramesFit /\ DigitRecurs
  /\ MainFits /\ OthersFit /\ NothingToMove /\ HoldersFit
---------------------------------------------------------------------------

Frame == [game : Games, line : 1 .. (MaxLines + 1), back : Labels]

LEMMA ThreadsDiffer ==
  /\ 1 \in Games /\ Games \subseteq Threads /\ Clients \subseteq Threads /\ Main \in Threads
  /\ Main \notin Games /\ Main \notin Clients /\ Main # 1 /\ NoThread \notin Threads
  /\ \A c \in Clients : c \notin Games /\ c # 1
  /\ NoGame \notin Games /\ Games \subseteq Nat
BY StartAssumption DEF Games, Threads, NoGame

LEMMA Bounds == MaxLines \in Nat \ {0} /\ MaxGames \in Nat \ {0} /\ MaxThings \in Nat \ {0}
BY StartAssumption

LEMMA OneMore ==
  ASSUME NEW n \in 0 .. MaxGames, n < MaxGames
  PROVE  n + 1 \in Games /\ n + 1 \in 0 .. MaxGames /\ 1 \in 1 .. (MaxLines + 1)
BY Bounds DEF Games

LEMMA CallersAre == Range(caller) = {"get game", "set", "move", "command", "place"}
<1>1. DOMAIN caller = {"main", "maze", "move", "command", "place"}
  BY DEF caller
<1>2. /\ caller["main"] = "get game" /\ caller["maze"] = "set" /\ caller["move"] = "move"
      /\ caller["command"] = "command" /\ caller["place"] = "place"
  BY DEF caller
<1>. QED
  BY <1>1, <1>2 DEF Range

LEMMA AfterIs ==
  /\ after("get game") = "update" /\ after("set") = "read" /\ after("move") = "walk"
  /\ after("command") = "wait" /\ after("place") = "post"
BY DEF after

(* The stack of constructors: one more, one less, and a line further in    *)
(* the innermost.                                                          *)
LEMMA Pushed ==
  ASSUME NEW S, NEW s \in Seq(S), NEW e \in S
  PROVE  /\ Append(s, e) \in Seq(S) /\ Append(s, e) # <<>> /\ Last(Append(s, e)) = e
         /\ Len(Append(s, e)) = Len(s) + 1
BY AppendProperties DEF Last

LEMMA Popped ==
  ASSUME NEW S, NEW s \in Seq(S), s # <<>>
  PROVE  Front(s) \in Seq(S)
<1>1. Len(s) \in Nat /\ Len(s) > 0
  BY EmptySeq, LenProperties
<1>2. \A i \in 1 .. (Len(s) - 1) : s[i] \in S
  BY <1>1, ElementOfSeq
<1>. QED
  BY <1>1, <1>2, SubSeqProperties DEF Front

LEMMA Innermost ==
  ASSUME NEW S, NEW s \in Seq(S), s # <<>>
  PROVE  Len(s) \in Nat \ {0} /\ Len(s) \in 1 .. Len(s) /\ Len(s) \in DOMAIN s /\ Last(s) \in S
<1>1. Len(s) \in Nat \ {0} /\ Len(s) \in 1 .. Len(s) /\ DOMAIN s = 1 .. Len(s)
  BY EmptySeq, LenProperties
<1>. QED
  BY <1>1, ElementOfSeq DEF Last

LEMMA Advanced ==
  ASSUME NEW s \in Seq(Frame), s # <<>>, Last(s).line <= MaxLines,
         NEW r, r = [s EXCEPT ![Len(s)].line = @ + 1]
  PROVE  /\ r \in Seq(Frame) /\ r # <<>> /\ Len(r) = Len(s)
         /\ Last(r).line = Last(s).line + 1
         /\ Last(r).game = Last(s).game /\ Last(r).back = Last(s).back
<1> DEFINE n == Len(s)
           f == [Last(s) EXCEPT !.line = @ + 1]
<1>1. n \in Nat \ {0} /\ n \in 1 .. n /\ DOMAIN s = 1 .. n /\ Last(s) \in Frame /\ Last(s) = s[n]
  BY Innermost, LenProperties DEF Last
<1>2. /\ f \in Frame /\ f.line = Last(s).line + 1
      /\ f.game = Last(s).game /\ f.back = Last(s).back
  BY <1>1, StartAssumption DEF Frame
<1>3. r = [s EXCEPT ![n] = f]
  BY <1>1
<1>4. r \in Seq(Frame) /\ Len(r) = n /\ r[n] = f
  BY <1>1, <1>2, <1>3, ExceptSeq
<1>. QED
  BY <1>1, <1>2, <1>4 DEF Last

LEMMA FrameTyped ==
  ASSUME TypeOK, NEW t \in Threads, making[t] # <<>>
  PROVE  frame(t) \in Frame /\ making[t] \in Seq(Frame)
<1>1. making[t] \in Seq(Frame)
  BY DEF TypeOK, Frame
<1>. QED
  BY <1>1, Innermost DEF frame

LEMMA MazeStays == [Next]_vars => maze' = maze /\ (Digit' <=> Digit)
<1>1. [Next]_vars => maze' = maze
  BY DEF Next, vars, Constructor, getGame, ReadLine, EndOfFile, Begin, Assign, Walk, Post,
         Update, Serve, Turn, Wake, Command, NewThing
<1>. QED
  BY <1>1 DEF Digit

(* A line that was read is one of the maze. *)
LEMMA LineOfMaze ==
  ASSUME TypeOK, NEW k \in 1 .. Len(maze)
  PROVE  maze[k] \in Range(maze)
<1>1. k \in DOMAIN maze
  BY LenProperties DEF TypeOK
<1>. QED
  BY <1>1 DEF Range

LEMMA NoDigitBefore ==
  ASSUME TypeOK, Digit
  PROVE  \E k \in 1 .. Len(maze) : maze[k] = "digit"
BY LenProperties DEF TypeOK, Digit, Range

---------------------------------------------------------------------------

LEMMA InitFits == Init => IInv
<1>. SUFFICES ASSUME Init PROVE IInv
  OBVIOUS
<1>1. PICK n \in 1 .. MaxLines : maze \in [1 .. n -> Lines]
  BY DEF Init
<1>2. n \in Nat /\ maze \in Seq(Lines) /\ Len(maze) = n
  <2>1. n \in Nat
    BY <1>1, StartAssumption
  <2>2. maze \in Seq(Lines)
    BY <1>1, <2>1, SeqDef
  <2>. QED
    BY <1>1, <2>1, <2>2, LenProperties
<1>3. /\ the_game = NoGame /\ made = 0 /\ making = [t \in Threads |-> <<>>]
      /\ things = [g \in Games |-> 0] /\ game_mutex = [g \in Games |-> NoThread]
      /\ pc = [t \in Threads |-> IF t = Main THEN "get game" ELSE "off"]
      /\ left = [t \in Threads |-> 0]
  BY DEF Init
<1>4. /\ pc[Main] = "get game" /\ making[Main] = <<>>
      /\ \A t \in Threads \ {Main} : pc[t] = "off"
      /\ left[Main] = 0 /\ left[1] = 0 /\ things[1] = 0 /\ pc[1] = "off"
      /\ \A g \in Games : pc[g] = "off"
      /\ \A c \in Clients : pc[c] = "off"
  BY <1>3, ThreadsDiffer
<1>5. TypeOK
  <2>1. <<>> \in Seq([game : Games, line : 1 .. (MaxLines + 1), back : Labels])
    BY EmptySeq
  <2>2. "get game" \in Labels /\ "off" \in Labels /\ 0 \in 0 .. MaxGames /\ 0 \in Nat
    BY StartAssumption DEF Labels
  <2>3. pc \in [Threads -> Labels]
    BY <1>3, <2>2
  <2>4. making \in [Threads -> Seq([game : Games, line : 1 .. (MaxLines + 1), back : Labels])]
    BY <1>3, <2>1
  <2>5. things \in [Games -> Nat] /\ left \in [Threads -> Nat]
    BY <1>3, <2>2
  <2>6. game_mutex \in [Games -> Threads \cup {NoThread}]
    BY <1>3
  <2>. QED
    BY <1>2, <1>3, <2>2, <2>3, <2>4, <2>5, <2>6 DEF TypeOK
<1>6. FramesFit
  <2>1. n <= MaxLines
    BY <1>1, StartAssumption
  <2>. QED
    BY <1>2, <1>4, <2>1 DEF FramesFit, Building
<1>7. DigitRecurs /\ MainFits
  BY <1>3, <1>4 DEF DigitRecurs, MainFits, Building
<1>8. OthersFit /\ NothingToMove /\ HoldersFit
  BY <1>4 DEF OthersFit, NothingToMove, HoldersFit
<1>. QED
  BY <1>5, <1>6, <1>7, <1>8 DEF IInv

---------------------------------------------------------------------------

(* With a digit in the maze only main moves, and only to read on or to     *)
(* begin another game.                                                     *)
LEMMA DigitActs ==
  ASSUME IInv, Digit, Next
  PROVE  getGame(Main) \/ ReadLine(Main)
<1>1. /\ pc[Main] \in {"get game", "read", "set"}
      /\ \A t \in Threads \ {Main} : pc[t] = "off"
  BY DEF IInv, DigitRecurs
<1>2. \A t \in Threads : pc[t] = "off" \/ (t = Main /\ pc[t] \in {"get game", "read", "set"})
  BY <1>1
<1>3. ~EndOfFile(Main)
  <2>. SUFFICES ASSUME EndOfFile(Main) PROVE FALSE
    OBVIOUS
  <2>1. pc[Main] = "read" /\ frame(Main).line > Len(maze)
    BY DEF EndOfFile
  <2>2. frame(Main).line \in Nat /\ Len(maze) \in Nat
    <3>1. making[Main] # <<>> /\ TypeOK
      BY <2>1 DEF IInv, FramesFit, Building
    <3>2. frame(Main).line \in 1 .. (MaxLines + 1)
      BY <3>1, FrameTyped, ThreadsDiffer DEF Frame
    <3>3. Len(maze) \in Nat
      BY <3>1, LenProperties DEF TypeOK
    <3>. QED
      BY <3>2, <3>3, Bounds
  <2>3. \A k \in 1 .. Len(maze) : maze[k] # "digit"
    BY <2>1, <2>2 DEF IInv, DigitRecurs
  <2>. QED
    BY <2>3, NoDigitBefore DEF IInv
<1>4. ASSUME NEW t \in Threads, Constructor(t) PROVE getGame(Main) \/ ReadLine(Main)
  <2>1. t = Main
    BY <1>2, <1>4, CallersAre
       DEF Constructor, getGame, ReadLine, EndOfFile, Begin, Assign
  <2>. QED
    BY <1>1, <1>3, <1>4, <2>1 DEF Constructor, Begin, Assign
<1>5. ASSUME NEW t \in Threads, Walk(t) \/ Post(t) PROVE FALSE
  BY <1>2, <1>5 DEF Walk, Post, Goto
<1>6. ~(Update \/ Serve)
  BY <1>1 DEF Update, Serve, Goto
<1>7. ASSUME NEW g \in Games, Turn(g) \/ Wake(g) PROVE FALSE
  BY <1>2, <1>7, ThreadsDiffer DEF Turn, Wake, Goto
<1>8. ASSUME NEW c \in Clients, Command(c) \/ NewThing(c) PROVE FALSE
  BY <1>1, <1>2, <1>8, ThreadsDiffer DEF Command, NewThing, Goto
<1>. QED
  BY <1>4, <1>5, <1>6, <1>7, <1>8 DEF Next

(* Another game. *)
LEMMA NewBuilds ==
  ASSUME IInv, pc[Main] \in {"get game", "set"}, new(Main)
  PROVE  /\ pc' = [pc EXCEPT ![Main] = "read"] /\ pc' \in [Threads -> Labels]
         /\ made' = made + 1 /\ made' \in 0 .. MaxGames
         /\ making' \in [Threads -> Seq(Frame)] /\ making'[Main] # <<>>
         /\ Len(making'[Main]) = Len(making[Main]) + 1
         /\ Last(making'[Main]) = newFrame(Main)
<1>1. /\ pc' = [pc EXCEPT ![Main] = "read"] /\ made' = made + 1 /\ made < MaxGames
      /\ making' = [making EXCEPT ![Main] = Append(making[Main], newFrame(Main))]
  BY DEF new
<1>2. /\ pc \in [Threads -> Labels] /\ making \in [Threads -> Seq(Frame)] /\ made \in 0 .. MaxGames
  BY DEF IInv, TypeOK, Frame
<1>3. newFrame(Main) \in Frame
  <2>1. made + 1 \in Games /\ 1 \in 1 .. (MaxLines + 1)
    BY <1>1, <1>2, OneMore
  <2>2. after(pc[Main]) \in Labels
    BY AfterIs DEF Labels
  <2>. QED
    BY <2>1, <2>2 DEF newFrame, Frame
<1>4. making[Main] \in Seq(Frame)
  BY <1>2, ThreadsDiffer
<1>5. /\ Append(making[Main], newFrame(Main)) \in Seq(Frame)
      /\ Append(making[Main], newFrame(Main)) # <<>>
      /\ Last(Append(making[Main], newFrame(Main))) = newFrame(Main)
      /\ Len(Append(making[Main], newFrame(Main))) = Len(making[Main]) + 1
  BY <1>3, <1>4, Pushed
<1>6. making'[Main] = Append(making[Main], newFrame(Main)) /\ making' \in [Threads -> Seq(Frame)]
  BY <1>1, <1>2, <1>5, ThreadsDiffer
<1>7. pc' \in [Threads -> Labels]
  BY <1>1, <1>2 DEF Labels
<1>8. made' \in 0 .. MaxGames
  BY <1>1, <1>2, OneMore
<1>. QED
  BY <1>1, <1>5, <1>6, <1>7, <1>8

(* A line further. *)
LEMMA LineRead ==
  ASSUME IInv, ReadLine(Main)
  PROVE  /\ frame(Main).line \in 1 .. Len(maze)
         /\ making' \in [Threads -> Seq(Frame)] /\ making'[Main] # <<>>
         /\ Len(making'[Main]) = Len(making[Main])
         /\ Last(making'[Main]).line = frame(Main).line + 1
         /\ Last(making'[Main]).game = frame(Main).game
         /\ Last(making'[Main]).back = frame(Main).back
         /\ \/ maze[frame(Main).line] # "digit" /\ UNCHANGED <<pc, things>>
            \/ /\ maze[frame(Main).line] = "digit"
               /\ pc' = [pc EXCEPT ![Main] = "set"]
               /\ things' = [things EXCEPT ![frame(Main).game] = @ + 1]
<1>1. /\ pc[Main] = "read" /\ frame(Main).line <= Len(maze)
      /\ making' = [making EXCEPT ![Main][Len(making[Main])].line = @ + 1]
  BY DEF ReadLine
<1>2. making[Main] # <<>> /\ TypeOK /\ Len(maze) <= MaxLines
  BY <1>1 DEF IInv, FramesFit, Building
<1>3. frame(Main) \in Frame /\ making[Main] \in Seq(Frame) /\ making \in [Threads -> Seq(Frame)]
  BY <1>2, FrameTyped, ThreadsDiffer DEF TypeOK, Frame
<1>4. Len(maze) \in Nat /\ MaxLines \in Nat
  BY <1>2, LenProperties, StartAssumption DEF TypeOK
<1>5. frame(Main).line \in 1 .. Len(maze) /\ frame(Main).line <= MaxLines
  BY <1>1, <1>2, <1>3, <1>4 DEF Frame
<1> DEFINE r == [making[Main] EXCEPT ![Len(making[Main])].line = @ + 1]
<1>6. /\ r \in Seq(Frame) /\ r # <<>> /\ Len(r) = Len(making[Main])
      /\ Last(r).line = frame(Main).line + 1
      /\ Last(r).game = frame(Main).game /\ Last(r).back = frame(Main).back
  BY <1>2, <1>3, <1>5, Advanced DEF frame
<1>7. making' = [making EXCEPT ![Main] = r]
  BY <1>1
<1>8. making'[Main] = r /\ making' \in [Threads -> Seq(Frame)]
  <2>. HIDE DEF r
  <2>. QED
    BY <1>3, <1>6, <1>7, ThreadsDiffer
<1>9. \/ maze[frame(Main).line] # "digit" /\ UNCHANGED <<pc, things>>
      \/ /\ maze[frame(Main).line] = "digit"
         /\ pc' = [pc EXCEPT ![Main] = "set"]
         /\ things' = [things EXCEPT ![frame(Main).game] = @ + 1]
  BY DEF ReadLine
<1>. QED
  BY <1>5, <1>6, <1>8, <1>9

(* The steps of a thread that leave who reads what alone. *)
LEMMA DigitKeeps ==
  ASSUME IInv, Digit, Next
  PROVE  IInv'
<1>1. maze' = maze /\ Digit'
  BY MazeStays
<1>2. TypeOK /\ FramesFit /\ DigitRecurs
  BY DEF IInv
<1>3. the_game = NoGame /\ \A t \in Threads \ {Main} : pc[t] = "off"
  BY <1>2 DEF DigitRecurs
<1>4. CASE getGame(Main)
  <2>1. /\ pc[Main] \in {"get game", "set"} /\ new(Main)
        /\ UNCHANGED <<the_game, things, game_mutex, left>>
    BY <1>2, <1>3, <1>4, CallersAre DEF getGame, DigitRecurs
  <2>2. /\ pc' = [pc EXCEPT ![Main] = "read"] /\ pc' \in [Threads -> Labels]
        /\ made' \in 0 .. MaxGames /\ making' \in [Threads -> Seq(Frame)]
        /\ making'[Main] # <<>> /\ Last(making'[Main]) = newFrame(Main)
    BY <2>1, NewBuilds
  <2>3. TypeOK'
    BY <1>1, <1>2, <2>1, <2>2 DEF TypeOK, Frame
  <2>4. pc'[Main] = "read" /\ \A t \in Threads \ {Main} : pc'[t] = "off"
    BY <1>2, <1>3, <2>2, ThreadsDiffer DEF TypeOK
  <2>5. FramesFit'
    BY <1>1, <1>2, <2>2, <2>4 DEF FramesFit
  <2>6. DigitRecurs'
    <3>1. frame(Main)'.line = 1
      BY <2>2 DEF frame, newFrame
    <3>2. 1 .. (frame(Main)'.line - 1) = {}
      BY <3>1
    <3>. QED
      BY <1>1, <1>3, <2>1, <2>4, <3>2 DEF DigitRecurs
  <2>. QED
    BY <1>1, <2>3, <2>5, <2>6 DEF IInv, MainFits, OthersFit, NothingToMove, HoldersFit
<1>5. CASE ReadLine(Main)
  <2>1. pc[Main] = "read" /\ UNCHANGED <<the_game, made, game_mutex, left>>
    BY <1>5 DEF ReadLine
  <2>2. /\ frame(Main).line \in 1 .. Len(maze) /\ making' \in [Threads -> Seq(Frame)]
        /\ making'[Main] # <<>> /\ Last(making'[Main]).line = frame(Main).line + 1
        /\ \/ maze[frame(Main).line] # "digit" /\ UNCHANGED <<pc, things>>
           \/ /\ maze[frame(Main).line] = "digit"
              /\ pc' = [pc EXCEPT ![Main] = "set"]
              /\ things' = [things EXCEPT ![frame(Main).game] = @ + 1]
    BY <1>5, LineRead
  <2>3. TypeOK'
    <3>1. pc' \in [Threads -> Labels]
      BY <1>2, <2>2 DEF TypeOK, Labels
    <3>2. things' \in [Games -> Nat]
      BY <1>2, <2>2 DEF TypeOK
    <3>. QED
      BY <1>1, <1>2, <2>1, <2>2, <3>1, <3>2 DEF TypeOK, Frame
  <2>4. /\ pc'[Main] \in {"read", "set"} /\ (\A t \in Threads \ {Main} : pc'[t] = "off")
        /\ pc'[Main] = "read" => maze[frame(Main).line] # "digit"
    BY <1>2, <1>3, <2>1, <2>2, ThreadsDiffer DEF TypeOK
  <2>5. FramesFit'
    BY <1>1, <1>2, <2>2, <2>4 DEF FramesFit
  <2>6. DigitRecurs'
    <3>1. frame(Main)'.line - 1 = frame(Main).line
      BY <2>2 DEF frame
    <3>2. ASSUME pc'[Main] = "read", NEW k \in 1 .. frame(Main).line
          PROVE  maze[k] # "digit"
      BY <1>2, <2>1, <2>2, <2>4, <3>2 DEF DigitRecurs
    <3>. QED
      BY <1>1, <1>3, <2>1, <2>4, <3>1, <3>2 DEF DigitRecurs
  <2>. QED
    BY <1>1, <2>3, <2>5, <2>6 DEF IInv, MainFits, OthersFit, NothingToMove, HoldersFit
<1>. QED
  BY <1>4, <1>5, DigitActs

---------------------------------------------------------------------------

(* Without a digit: who can be where. *)
LEMMA WhoIsWhere ==
  ASSUME IInv, ~Digit, NEW t \in Threads
  PROVE  /\ pc[t] \in {"get game", "read", "begin", "assign", "update", "serve", "serving", "exit"}
              => t = Main
         /\ pc[t] # "set"
         /\ pc[t] \in {"turn", "move", "sleep"} => t = 1
         /\ pc[t] \in {"command", "wait", "place"} => t \in Clients
         /\ pc[t] = "walk" => t = Main \/ t = 1
         /\ pc[t] = "post" => t = 1 \/ t \in Clients
<1>1. CASE t = Main
  BY <1>1 DEF IInv, MainFits
<1>2. CASE t = 1
  BY <1>2 DEF IInv, OthersFit
<1>3. CASE t \in Games /\ t # 1
  BY <1>3 DEF IInv, OthersFit
<1>4. CASE t \in Clients
  BY <1>4 DEF IInv, OthersFit
<1>. QED
  BY <1>1, <1>2, <1>3, <1>4 DEF Threads

(* What a step without a digit keeps. *)
Kept == TypeOK /\ FramesFit /\ MainFits /\ OthersFit /\ NothingToMove /\ HoldersFit

(* The game is there once main has got it. *)
LEMMA GameIsThere ==
  ASSUME IInv, ~Digit
  PROVE  /\ pc[Main] \in {"update", "walk", "serve", "serving", "exit"} => the_game = 1 /\ the_game # NoGame
         /\ pc[Main] \in {"get game", "read", "begin", "assign"} => the_game = NoGame
<1>1. /\ the_game = IF pc[Main] \in {"get game", "read", "begin", "assign"} THEN NoGame ELSE 1
      /\ 1 # NoGame
  BY ThreadsDiffer DEF IInv, MainFits
<1>2. pc[Main] \in {"update", "walk", "serve", "serving", "exit"}
        => pc[Main] \notin {"get game", "read", "begin", "assign"}
  OBVIOUS
<1>. QED
  BY <1>1, <1>2, Zenon

LEMMA GetGameKeeps ==
  ASSUME IInv, ~Digit, NEW t \in Threads, getGame(t)
  PROVE  Kept'
<1>1. pc[t] \in {"get game", "move", "command", "place"}
  BY CallersAre, WhoIsWhere DEF getGame
<1>2. UNCHANGED <<maze, the_game, things, game_mutex, left>> /\ ~Digit'
  BY DEF getGame, Digit
<1>3. TypeOK /\ FramesFit /\ MainFits /\ OthersFit /\ NothingToMove /\ HoldersFit
  BY DEF IInv
<1>4. CASE pc[t] = "get game"
  <2>1. t = Main /\ pc[Main] = "get game" /\ the_game = NoGame
    BY <1>4, WhoIsWhere, GameIsThere
  <2>2. new(Main) /\ made = 0 /\ making[Main] = <<>> /\ newFrame(Main).game = made + 1
        /\ newFrame(Main).back = "update"
    BY <1>3, <2>1, AfterIs DEF getGame, MainFits, FramesFit, newFrame
  <2>3. /\ pc' = [pc EXCEPT ![Main] = "read"] /\ pc' \in [Threads -> Labels]
        /\ made' = made + 1 /\ made' \in 0 .. MaxGames
        /\ making' \in [Threads -> Seq(Frame)] /\ making'[Main] # <<>>
        /\ Len(making'[Main]) = Len(making[Main]) + 1
        /\ Last(making'[Main]) = newFrame(Main)
    BY <2>1, <2>2, NewBuilds
  <2>4. made' = 1 /\ Len(making'[Main]) = 1 /\ frame(Main)'.game = 1 /\ frame(Main)'.back = "update"
    BY <2>2, <2>3 DEF frame
  <2>5. pc'[Main] = "read" /\ \A u \in Threads \ {Main} : pc'[u] = pc[u]
    BY <1>3, <2>3, ThreadsDiffer DEF TypeOK
  <2>6. pc'[1] = pc[1] /\ (\A g \in Games : pc'[g] = pc[g]) /\ (\A c \in Clients : pc'[c] = pc[c])
    BY <2>5, ThreadsDiffer
  <2>7. TypeOK' /\ FramesFit'
    BY <1>2, <1>3, <2>3, <2>5 DEF TypeOK, Frame, FramesFit
  <2>8. MainFits'
    BY <1>2, <2>1, <2>4, <2>5 DEF MainFits
  <2>9. OthersFit' /\ NothingToMove' /\ HoldersFit'
    BY <1>2, <1>3, <2>1, <2>5, <2>6 DEF OthersFit, NothingToMove, HoldersFit
  <2>. QED
    BY <2>7, <2>8, <2>9 DEF Kept
<1>5. CASE pc[t] \in {"move", "command", "place"}
  <2>1. t # Main /\ (t = 1 \/ t \in Clients)
    BY <1>5, WhoIsWhere, ThreadsDiffer
  <2>2. pc[Main] \in {"serving", "exit"}
    BY <1>3, <1>5, <2>1 DEF OthersFit, NothingToMove
  <2>3. pc' = [pc EXCEPT ![t] = after(pc[t])] /\ UNCHANGED <<made, making>>
    BY <2>2, GameIsThere DEF getGame
  <2>4. after(pc[t]) \in Labels
    BY <1>5, AfterIs DEF Labels
  <2>5. pc'[Main] = pc[Main] /\ pc'[t] = after(pc[t]) /\ \A u \in Threads \ {t} : pc'[u] = pc[u]
    BY <1>3, <2>1, <2>3, ThreadsDiffer DEF TypeOK
  <2>6. TypeOK'
    BY <1>2, <1>3, <2>3, <2>4 DEF TypeOK
  <2>7. FramesFit' /\ MainFits'
    BY <1>2, <1>3, <2>3, <2>5 DEF FramesFit, MainFits, frame
  <2>8. CASE t = 1
    <3>1. pc[1] = "move" /\ pc'[1] = "walk"
      BY <1>5, <2>5, <2>8, WhoIsWhere, AfterIs, ThreadsDiffer
    <3>2. \A u \in (Games \ {1}) \cup Clients : pc'[u] = pc[u]
      BY <2>5, <2>8, ThreadsDiffer
    <3>3. OthersFit' /\ NothingToMove' /\ HoldersFit'
      BY <1>2, <1>3, <2>2, <2>5, <3>1, <3>2 DEF OthersFit, NothingToMove, HoldersFit
    <3>. QED
      BY <2>6, <2>7, <3>3 DEF Kept
  <2>9. CASE t \in Clients
    <3>1. /\ (pc[t] = "command" /\ pc'[t] = "wait") \/ (pc[t] = "place" /\ pc'[t] = "post")
          /\ pc[Main] = "serving"
      BY <1>3, <1>5, <2>5, <2>9, WhoIsWhere, AfterIs, ThreadsDiffer DEF OthersFit
    <3>2. \A u \in Games \cup (Clients \ {t}) : pc'[u] = pc[u]
      BY <2>5, <2>9, ThreadsDiffer
    <3>3. OthersFit' /\ NothingToMove'
      BY <1>2, <1>3, <2>5, <3>1, <3>2, ThreadsDiffer DEF OthersFit, NothingToMove
    <3>4. HoldersFit'
      BY <1>2, <1>3, <2>5, <2>9, <3>1, <3>2, ThreadsDiffer DEF HoldersFit
    <3>. QED
      BY <2>6, <2>7, <3>3, <3>4 DEF Kept
  <2>. QED
    BY <2>1, <2>8, <2>9
<1>. QED
  BY <1>1, <1>4, <1>5

LEMMA ReadLineKeeps ==
  ASSUME IInv, ~Digit, NEW t \in Threads, ReadLine(t)
  PROVE  Kept'
<1>1. t = Main /\ pc[Main] = "read"
  BY WhoIsWhere DEF ReadLine
<1>2. UNCHANGED <<maze, the_game, made, game_mutex, left>> /\ ~Digit'
  BY DEF ReadLine, Digit
<1>3. TypeOK /\ FramesFit /\ MainFits /\ OthersFit /\ NothingToMove /\ HoldersFit
  BY DEF IInv
<1>4. /\ frame(Main).line \in 1 .. Len(maze)
      /\ making' \in [Threads -> Seq(Frame)] /\ making'[Main] # <<>>
      /\ Len(making'[Main]) = Len(making[Main])
      /\ Last(making'[Main]).game = frame(Main).game
      /\ Last(making'[Main]).back = frame(Main).back
      /\ maze[frame(Main).line] # "digit" => UNCHANGED <<pc, things>>
  BY <1>1, LineRead
<1>5. UNCHANGED <<pc, things>>
  BY <1>3, <1>4, LineOfMaze DEF Digit
<1>6. TypeOK' /\ FramesFit'
  BY <1>1, <1>2, <1>3, <1>4, <1>5 DEF TypeOK, Frame, FramesFit
<1>7. MainFits'
  <2>1. frame(Main)'.game = frame(Main).game /\ frame(Main)'.back = frame(Main).back
    BY <1>4 DEF frame
  <2>. QED
    BY <1>1, <1>2, <1>3, <1>4, <1>5, <2>1 DEF MainFits
<1>8. OthersFit' /\ NothingToMove' /\ HoldersFit'
  BY <1>2, <1>3, <1>5 DEF OthersFit, NothingToMove, HoldersFit
<1>. QED
  BY <1>6, <1>7, <1>8 DEF Kept

LEMMA EndOfFileKeeps ==
  ASSUME IInv, ~Digit, NEW t \in Threads, EndOfFile(t)
  PROVE  Kept'
<1>1. t = Main /\ pc[Main] = "read" /\ pc' = [pc EXCEPT ![Main] = "begin"]
  BY WhoIsWhere DEF EndOfFile
<1>2. UNCHANGED <<maze, the_game, made, making, things, game_mutex, left>> /\ ~Digit'
  BY DEF EndOfFile, Digit
<1>3. TypeOK /\ FramesFit /\ MainFits /\ OthersFit /\ NothingToMove /\ HoldersFit
  BY DEF IInv
<1>4. pc'[Main] = "begin" /\ (\A u \in Games \cup Clients : pc'[u] = pc[u]) /\ pc'[1] = pc[1]
  BY <1>1, <1>3, ThreadsDiffer DEF TypeOK
<1>5. TypeOK'
  BY <1>1, <1>2, <1>3 DEF TypeOK, Labels
<1>6. FramesFit' /\ MainFits'
  BY <1>1, <1>2, <1>3, <1>4 DEF FramesFit, MainFits, frame, Building
<1>7. OthersFit' /\ NothingToMove' /\ HoldersFit'
  BY <1>1, <1>2, <1>3, <1>4 DEF OthersFit, NothingToMove, HoldersFit
<1>. QED
  BY <1>5, <1>6, <1>7 DEF Kept

LEMMA BeginKeeps ==
  ASSUME IInv, ~Digit, NEW t \in Threads, Begin(t)
  PROVE  Kept'
<1>1. t = Main /\ pc[Main] = "begin"
  BY WhoIsWhere DEF Begin
<1>2. UNCHANGED <<maze, the_game, made, making, things, game_mutex, left>> /\ ~Digit'
  BY DEF Begin, Digit
<1>3. TypeOK /\ FramesFit /\ MainFits /\ OthersFit /\ NothingToMove /\ HoldersFit
  BY DEF IInv
<1>4. pc' = [pc EXCEPT ![Main] = "assign", ![1] = "turn"]
  BY <1>1, <1>3 DEF Begin, MainFits, Building
<1>5. /\ pc'[Main] = "assign" /\ pc'[1] = "turn"
      /\ \A u \in (Games \ {1}) \cup Clients : pc'[u] = pc[u]
  BY <1>3, <1>4, ThreadsDiffer DEF TypeOK
<1>6. TypeOK'
  BY <1>2, <1>3, <1>4 DEF TypeOK, Labels
<1>7. FramesFit' /\ MainFits'
  BY <1>1, <1>2, <1>3, <1>5 DEF FramesFit, MainFits, frame, Building
<1>8. OthersFit' /\ NothingToMove' /\ HoldersFit'
  BY <1>1, <1>2, <1>3, <1>5 DEF OthersFit, NothingToMove, HoldersFit
<1>. QED
  BY <1>6, <1>7, <1>8 DEF Kept

LEMMA AssignKeeps ==
  ASSUME IInv, ~Digit, NEW t \in Threads, Assign(t)
  PROVE  Kept'
<1>1. t = Main /\ pc[Main] = "assign"
  BY WhoIsWhere DEF Assign
<1>2. UNCHANGED <<maze, made, things, game_mutex, left>> /\ ~Digit'
  BY DEF Assign, Digit
<1>3. TypeOK /\ FramesFit /\ MainFits /\ OthersFit /\ NothingToMove /\ HoldersFit
  BY DEF IInv
<1>4. frame(Main).game = 1 /\ frame(Main).back = "update" /\ making[Main] # <<>>
  BY <1>1, <1>3 DEF MainFits, FramesFit, Building
<1>5. /\ the_game' = 1 /\ pc' = [pc EXCEPT ![Main] = "update"]
      /\ making' = [making EXCEPT ![Main] = Front(making[Main])]
  BY <1>1, <1>4 DEF Assign
<1>6. pc'[Main] = "update" /\ (\A u \in Games \cup Clients : pc'[u] = pc[u]) /\ pc'[1] = pc[1]
  BY <1>3, <1>5, ThreadsDiffer DEF TypeOK
<1>7. TypeOK'
  <2>1. making \in [Threads -> Seq(Frame)] /\ making[Main] \in Seq(Frame)
    BY <1>3, ThreadsDiffer DEF TypeOK, Frame
  <2>2. Front(making[Main]) \in Seq(Frame)
    BY <1>4, <2>1, Popped
  <2>3. making' \in [Threads -> Seq(Frame)]
    BY <1>5, <2>1, <2>2
  <2>4. pc' \in [Threads -> Labels]
    BY <1>3, <1>5 DEF TypeOK, Labels
  <2>5. the_game' \in Games
    BY <1>5, ThreadsDiffer
  <2>. QED
    BY <1>2, <1>3, <2>3, <2>4, <2>5 DEF TypeOK, Frame
<1>8. FramesFit' /\ MainFits'
  BY <1>1, <1>2, <1>3, <1>5, <1>6 DEF FramesFit, MainFits, Building
<1>9. OthersFit' /\ NothingToMove' /\ HoldersFit'
  BY <1>1, <1>2, <1>3, <1>6 DEF OthersFit, NothingToMove, HoldersFit
<1>. QED
  BY <1>7, <1>8, <1>9 DEF Kept

LEMMA UpdateKeeps ==
  ASSUME IInv, ~Digit, Update
  PROVE  Kept'
<1>1. pc[Main] = "update" /\ pc' = [pc EXCEPT ![Main] = "walk"]
  BY DEF Update, Goto
<1>2. UNCHANGED <<maze, the_game, made, making, things, game_mutex>> /\ ~Digit'
  BY DEF Update, Digit
<1>3. TypeOK /\ FramesFit /\ MainFits /\ OthersFit /\ NothingToMove /\ HoldersFit
  BY DEF IInv
<1>4. the_game = 1 /\ things[1] = 0
  BY <1>1, <1>3, GameIsThere DEF NothingToMove
<1>5. left' = [left EXCEPT ![Main] = 0]
  BY <1>4 DEF Update
<1>6. /\ pc'[Main] = "walk" /\ (\A u \in Games \cup Clients : pc'[u] = pc[u]) /\ pc'[1] = pc[1]
      /\ left'[Main] = 0 /\ left'[1] = left[1]
  BY <1>1, <1>3, <1>5, ThreadsDiffer DEF TypeOK
<1>7. TypeOK'
  BY <1>1, <1>2, <1>3, <1>5 DEF TypeOK, Labels
<1>8. FramesFit' /\ MainFits'
  BY <1>1, <1>2, <1>3, <1>6 DEF FramesFit, MainFits, Building
<1>9. OthersFit' /\ NothingToMove' /\ HoldersFit'
  BY <1>1, <1>2, <1>3, <1>6 DEF OthersFit, NothingToMove, HoldersFit
<1>. QED
  BY <1>7, <1>8, <1>9 DEF Kept

(* A step of the game thread. *)
LEMMA TurnKeeps ==
  ASSUME IInv, ~Digit, NEW g \in Games, Turn(g)
  PROVE  Kept'
<1>1. g = 1 /\ pc[1] = "turn" /\ pc' = [pc EXCEPT ![1] = "walk"]
  BY WhoIsWhere, ThreadsDiffer DEF Turn, Goto
<1>2. /\ UNCHANGED <<maze, the_game, made, making, things>> /\ ~Digit'
      /\ game_mutex[1] = NoThread /\ game_mutex' = [game_mutex EXCEPT ![1] = 1]
      /\ left' = [left EXCEPT ![1] = things[1]]
  BY <1>1 DEF Turn, Digit, Hold, Free
<1>3. TypeOK /\ FramesFit /\ MainFits /\ OthersFit /\ NothingToMove /\ HoldersFit
  BY DEF IInv
<1>4. /\ pc'[Main] = pc[Main] /\ pc'[1] = "walk"
      /\ \A u \in (Games \ {1}) \cup Clients : pc'[u] = pc[u]
      /\ left'[Main] = left[Main] /\ left'[1] = things[1] /\ game_mutex'[1] = 1
  BY <1>1, <1>2, <1>3, ThreadsDiffer DEF TypeOK
<1>5. \A c \in Clients : pc[c] \notin {"place", "post"}
  BY <1>2, <1>3, ThreadsDiffer DEF HoldersFit
<1>6. TypeOK'
  <2>1. things[1] \in Nat /\ 1 \in Threads
    BY <1>3, ThreadsDiffer DEF TypeOK
  <2>. QED
    BY <1>1, <1>2, <1>3, <2>1 DEF TypeOK, Labels
<1>7. FramesFit' /\ MainFits'
  BY <1>2, <1>3, <1>4 DEF FramesFit, MainFits, frame
<1>8. OthersFit' /\ NothingToMove' /\ HoldersFit'
  BY <1>2, <1>3, <1>4, <1>5 DEF OthersFit, NothingToMove, HoldersFit
<1>. QED
  BY <1>6, <1>7, <1>8 DEF Kept

LEMMA WakeKeeps ==
  ASSUME IInv, ~Digit, NEW g \in Games, Wake(g)
  PROVE  Kept'
<1>1. g = 1 /\ pc[1] = "sleep" /\ pc' = [pc EXCEPT ![1] = "turn"]
  BY WhoIsWhere, ThreadsDiffer DEF Wake, Goto
<1>2. UNCHANGED <<maze, the_game, made, making, things, game_mutex, left>> /\ ~Digit'
  BY DEF Wake, Digit
<1>3. TypeOK /\ FramesFit /\ MainFits /\ OthersFit /\ NothingToMove /\ HoldersFit
  BY DEF IInv
<1>4. /\ pc'[Main] = pc[Main] /\ pc'[1] = "turn"
      /\ \A u \in (Games \ {1}) \cup Clients : pc'[u] = pc[u]
  BY <1>1, <1>3, ThreadsDiffer DEF TypeOK
<1>5. TypeOK'
  BY <1>1, <1>2, <1>3 DEF TypeOK, Labels
<1>6. FramesFit' /\ MainFits'
  BY <1>2, <1>3, <1>4 DEF FramesFit, MainFits, frame
<1>7. OthersFit' /\ NothingToMove' /\ HoldersFit'
  BY <1>2, <1>3, <1>4 DEF OthersFit, NothingToMove, HoldersFit
<1>. QED
  BY <1>5, <1>6, <1>7 DEF Kept

LEMMA WalkKeeps ==
  ASSUME IInv, ~Digit, NEW t \in Threads, Walk(t)
  PROVE  Kept'
<1>1. pc[t] = "walk" /\ (t = Main \/ t = 1)
  BY WhoIsWhere DEF Walk
<1>2. UNCHANGED <<maze, the_game, made, making, things, game_mutex>> /\ ~Digit'
  BY DEF Walk, Digit
<1>3. TypeOK /\ FramesFit /\ MainFits /\ OthersFit /\ NothingToMove /\ HoldersFit
  BY DEF IInv
<1>4. CASE t = Main
  <2>1. left[Main] = 0
    BY <1>3 DEF NothingToMove
  <2>2. pc' = [pc EXCEPT ![Main] = "serve"] /\ left' = left
    BY <1>4, <2>1 DEF Walk
  <2>3. pc'[Main] = "serve" /\ (\A u \in Games \cup Clients : pc'[u] = pc[u]) /\ pc'[1] = pc[1]
    BY <1>3, <2>2, ThreadsDiffer DEF TypeOK
  <2>4. TypeOK'
    BY <1>2, <1>3, <2>2 DEF TypeOK, Labels
  <2>5. FramesFit' /\ MainFits'
    BY <1>1, <1>2, <1>3, <1>4, <2>3 DEF FramesFit, MainFits, Building
  <2>6. OthersFit' /\ NothingToMove' /\ HoldersFit'
    BY <1>1, <1>2, <1>3, <1>4, <2>2, <2>3 DEF OthersFit, NothingToMove, HoldersFit
  <2>. QED
    BY <2>4, <2>5, <2>6 DEF Kept
<1>5. CASE t = 1
  <2>1. \/ /\ left[1] > 0 /\ pc' = [pc EXCEPT ![1] = "move"]
           /\ left' = [left EXCEPT ![1] = left[1] - 1]
        \/ left[1] = 0 /\ pc' = [pc EXCEPT ![1] = "post"] /\ left' = left
    BY <1>5, ThreadsDiffer DEF Walk
  <2>2. /\ pc'[Main] = pc[Main] /\ pc'[1] \in {"move", "post"}
        /\ pc'[1] = "move" => left[1] > 0
        /\ left'[Main] = left[Main] /\ (left[1] = 0 => left'[1] = 0)
        /\ \A u \in (Games \ {1}) \cup Clients : pc'[u] = pc[u]
    BY <1>3, <2>1, ThreadsDiffer DEF TypeOK
  <2>3. TypeOK'
    <3>1. pc' \in [Threads -> Labels]
      BY <1>3, <2>1 DEF TypeOK, Labels
    <3>2. left[1] > 0 => left[1] - 1 \in Nat
      BY <1>3, ThreadsDiffer DEF TypeOK
    <3>3. left' \in [Threads -> Nat]
      BY <1>3, <2>1, <3>2 DEF TypeOK
    <3>. QED
      BY <1>2, <1>3, <3>1, <3>3 DEF TypeOK
  <2>4. FramesFit' /\ MainFits'
    BY <1>2, <1>3, <2>2 DEF FramesFit, MainFits, frame
  <2>5. OthersFit' /\ HoldersFit'
    BY <1>1, <1>2, <1>3, <1>5, <2>2 DEF OthersFit, HoldersFit
  <2>6. NothingToMove'
    BY <1>2, <1>3, <2>2 DEF NothingToMove
  <2>. QED
    BY <2>3, <2>4, <2>5, <2>6 DEF Kept
<1>. QED
  BY <1>1, <1>4, <1>5

LEMMA PostKeeps ==
  ASSUME IInv, ~Digit, NEW t \in Threads, Post(t)
  PROVE  Kept'
<1>1. pc[t] = "post" /\ (t = 1 \/ t \in Clients)
  BY WhoIsWhere DEF Post, Goto
<1>2. UNCHANGED <<maze, the_game, made, making, things, left>> /\ ~Digit'
  BY DEF Post, Digit
<1>3. TypeOK /\ FramesFit /\ MainFits /\ OthersFit /\ NothingToMove /\ HoldersFit
  BY DEF IInv
<1>4. /\ t = 1 => pc' = [pc EXCEPT ![1] = "sleep"]
      /\ t \in Clients => pc' = [pc EXCEPT ![t] = "off"]
      /\ game_mutex' = [game_mutex EXCEPT ![1] = NoThread]
  <2>1. CASE t = 1
    BY <2>1, ThreadsDiffer DEF Post, Goto, Release
  <2>2. CASE t \in Clients
    <3>1. the_game = 1
      BY <1>1, <1>3, <2>2, GameIsThere DEF OthersFit
    <3>. QED
      BY <2>2, <3>1, ThreadsDiffer DEF Post, Goto, Release
  <2>. QED
    BY <1>1, <2>1, <2>2
<1>5. game_mutex[1] = t
  BY <1>1, <1>3 DEF HoldersFit
<1>6. TypeOK'
  <2>1. pc' \in [Threads -> Labels]
    BY <1>1, <1>3, <1>4 DEF TypeOK, Labels
  <2>2. game_mutex' \in [Games -> Threads \cup {NoThread}]
    BY <1>3, <1>4 DEF TypeOK
  <2>. QED
    BY <1>2, <1>3, <2>1, <2>2 DEF TypeOK
<1>7. /\ pc'[Main] = pc[Main] /\ \A u \in Threads \ {t} : pc'[u] = pc[u]
      /\ pc'[t] = IF t = 1 THEN "sleep" ELSE "off"
  BY <1>1, <1>3, <1>4, ThreadsDiffer DEF TypeOK
<1>8. \A u \in Threads \ {t} : ~(u = 1 /\ pc[u] \in {"walk", "move", "post"})
                            /\ ~(u \in Clients /\ pc[u] \in {"place", "post"})
  BY <1>3, <1>5 DEF HoldersFit
<1>9. FramesFit' /\ MainFits'
  BY <1>2, <1>3, <1>7 DEF FramesFit, MainFits, frame
<1>10. OthersFit' /\ NothingToMove'
  BY <1>1, <1>2, <1>3, <1>7, ThreadsDiffer DEF OthersFit, NothingToMove
<1>11. HoldersFit'
  BY <1>1, <1>2, <1>7, <1>8, ThreadsDiffer DEF HoldersFit
<1>. QED
  BY <1>6, <1>9, <1>10, <1>11 DEF Kept

LEMMA ServeKeeps ==
  ASSUME IInv, ~Digit, Serve
  PROVE  Kept'
<1>1. pc[Main] = "serve"
  BY DEF Serve, Goto
<1>2. UNCHANGED <<maze, the_game, made, making, things, game_mutex, left>> /\ ~Digit'
  BY DEF Serve, Digit
<1>3. TypeOK /\ FramesFit /\ MainFits /\ OthersFit /\ NothingToMove /\ HoldersFit
  BY DEF IInv
<1>4. \/ pc' = [pc EXCEPT ![Main] = "serving"]
      \/ pc' = [t \in Threads |-> IF t = Main THEN "exit" ELSE "off"]
  BY DEF Serve, Goto
<1>5. /\ pc'[Main] \in {"serving", "exit"}
      /\ \A u \in Threads \ {Main} :
           pc'[u] = "off" \/ (pc'[Main] = "serving" /\ pc'[u] = pc[u])
  BY <1>3, <1>4, ThreadsDiffer DEF TypeOK
<1>6. /\ \A g \in Games : pc'[g] = "off" \/ pc'[g] = pc[g]
      /\ \A c \in Clients : pc'[c] = "off"
      /\ pc'[1] = "off" \/ pc'[1] = pc[1]
  BY <1>1, <1>3, <1>5, ThreadsDiffer DEF OthersFit
<1>7. TypeOK'
  <2>1. pc' \in [Threads -> Labels]
    BY <1>3, <1>4 DEF TypeOK, Labels
  <2>. QED
    BY <1>2, <1>3, <2>1 DEF TypeOK
<1>8. FramesFit' /\ MainFits'
  BY <1>1, <1>2, <1>3, <1>5 DEF FramesFit, MainFits, Building
<1>9. OthersFit' /\ NothingToMove' /\ HoldersFit'
  BY <1>2, <1>3, <1>5, <1>6 DEF OthersFit, NothingToMove, HoldersFit
<1>. QED
  BY <1>7, <1>8, <1>9 DEF Kept

LEMMA ClientKeeps ==
  ASSUME IInv, ~Digit, NEW c \in Clients, Command(c) \/ NewThing(c)
  PROVE  Kept'
<1>1. UNCHANGED <<maze, the_game, made, making, left>> /\ ~Digit'
  BY DEF Command, NewThing, Digit
<1>2. TypeOK /\ FramesFit /\ MainFits /\ OthersFit /\ NothingToMove /\ HoldersFit
  BY DEF IInv
<1>3. pc[Main] = "serving" /\ the_game = 1
  <2>1. pc[Main] = "serving"
    BY <1>2 DEF Command, NewThing, Goto, OthersFit
  <2>. QED
    BY <2>1, GameIsThere
<1>4. \/ pc' = [pc EXCEPT ![c] = "command"] /\ UNCHANGED <<things, game_mutex>>
      \/ /\ pc' = [pc EXCEPT ![c] = "place"] /\ game_mutex[1] = NoThread
         /\ game_mutex' = [game_mutex EXCEPT ![1] = c]
         /\ things' = [things EXCEPT ![1] = things[1] + 1]
  BY <1>3 DEF Command, NewThing, Goto, Hold, Free
<1>5. /\ pc'[Main] = pc[Main] /\ pc'[c] \in {"command", "place"}
      /\ \A u \in Threads \ {c} : pc'[u] = pc[u]
  BY <1>2, <1>4, ThreadsDiffer DEF TypeOK
<1>6. TypeOK'
  <2>1. pc' \in [Threads -> Labels]
    BY <1>2, <1>4 DEF TypeOK, Labels
  <2>2. game_mutex' \in [Games -> Threads \cup {NoThread}]
    BY <1>2, <1>4, ThreadsDiffer DEF TypeOK
  <2>3. things[1] + 1 \in Nat
    BY <1>2, ThreadsDiffer DEF TypeOK
  <2>4. things' \in [Games -> Nat]
    BY <1>2, <1>4, <2>3 DEF TypeOK
  <2>. QED
    BY <1>1, <1>2, <2>1, <2>2, <2>4 DEF TypeOK
<1>7. FramesFit' /\ MainFits'
  BY <1>1, <1>2, <1>5 DEF FramesFit, MainFits, frame
<1>8. OthersFit' /\ NothingToMove'
  BY <1>1, <1>2, <1>3, <1>5, ThreadsDiffer DEF OthersFit, NothingToMove
<1>9. HoldersFit'
  <2>1. CASE pc'[c] = "command"
    <3>1. game_mutex' = game_mutex
      BY <1>2, <1>4, <2>1, ThreadsDiffer DEF TypeOK
    <3>. QED
      BY <1>1, <1>2, <1>5, <2>1, <3>1, ThreadsDiffer DEF HoldersFit
  <2>2. CASE pc'[c] = "place"
    <3>1. game_mutex[1] = NoThread /\ game_mutex'[1] = c
      BY <1>2, <1>4, <2>2, ThreadsDiffer DEF TypeOK
    <3>2. /\ pc[1] \notin {"walk", "move", "post"}
          /\ \A d \in Clients : pc[d] \notin {"place", "post"}
      BY <1>1, <1>2, <3>1, ThreadsDiffer DEF HoldersFit, Digit
    <3>. QED
      BY <1>1, <1>5, <3>1, <3>2, ThreadsDiffer DEF HoldersFit
  <2>. QED
    BY <1>5, <2>1, <2>2
<1>. QED
  BY <1>6, <1>7, <1>8, <1>9 DEF Kept

LEMMA StepFits == IInv /\ [Next]_vars => IInv'
<1>. SUFFICES ASSUME IInv, [Next]_vars PROVE IInv'
  OBVIOUS
<1>1. CASE Next /\ Digit
  BY <1>1, DigitKeeps
<1>2. ASSUME Next, ~Digit PROVE IInv'
  <2>1. ASSUME NEW t \in Threads, Constructor(t) PROVE Kept'
    BY <1>2, <2>1, GetGameKeeps, ReadLineKeeps, EndOfFileKeeps, BeginKeeps, AssignKeeps DEF Constructor
  <2>2. ASSUME NEW t \in Threads, Walk(t) \/ Post(t) PROVE Kept'
    BY <1>2, <2>2, WalkKeeps, PostKeeps
  <2>3. ASSUME Update \/ Serve PROVE Kept'
    BY <1>2, <2>3, UpdateKeeps, ServeKeeps
  <2>4. ASSUME NEW g \in Games, Turn(g) \/ Wake(g) PROVE Kept'
    BY <1>2, <2>4, TurnKeeps, WakeKeeps
  <2>5. ASSUME NEW c \in Clients, Command(c) \/ NewThing(c) PROVE Kept'
    BY <1>2, <2>5, ClientKeeps
  <2>6. Kept'
    BY <1>2, <2>1, <2>2, <2>3, <2>4, <2>5 DEF Next
  <2>7. ~Digit'
    BY <1>2, MazeStays
  <2>. QED
    BY <2>6, <2>7 DEF IInv, Kept, DigitRecurs
<1>3. CASE UNCHANGED vars
  BY <1>3 DEF vars, IInv, TypeOK, FramesFit, DigitRecurs, MainFits, OthersFit, NothingToMove,
             HoldersFit, Digit, frame
<1>. QED
  BY <1>1, <1>2, <1>3

(* Threads and constructors are where the invariant says, from the first   *)
(* getGame to the last turn.                                               *)
THEOREM InvariantsHold == Spec => []IInv
<1>. QED
  BY InitFits, StepFits, PTL DEF Spec

(* Every variable keeps its type; getGame is never asked for the game it   *)
(* has not made, nor is a constructor left that nobody is in.              *)
THEOREM TypeCorrect == Spec => []TypeOK
<1>1. IInv => TypeOK
  BY DEF IInv
<1>. QED
  BY <1>1, InvariantsHold, PTL

LEMMA AtMostOne == 0 <= 1 /\ 1 <= 1
OBVIOUS

LEMMA InvariantOneGame == IInv => OneGame
<1>. SUFFICES ASSUME IInv PROVE OneGame
  OBVIOUS
<1>1. ASSUME ~Digit PROVE made <= 1
  <2>1. made = IF pc[Main] = "get game" THEN 0 ELSE 1
    BY <1>1 DEF IInv, MainFits
  <2>2. made = 0 \/ made = 1
    BY <2>1, Zenon
  <2>. QED
    BY <2>2, AtMostOne, Zenon
<1>2. ASSUME NEW t \in Threads, pc[t] = "move"
      PROVE  the_game # NoGame /\ game_mutex[the_game] = t
  <2>1. ~Digit
    BY <1>2 DEF IInv, DigitRecurs
  <2>2. t = 1
    BY <1>2, <2>1, WhoIsWhere
  <2>3. pc[Main] \in {"serving", "exit"}
    BY <1>2, <2>1, <2>2 DEF IInv, NothingToMove
  <2>4. the_game = 1 /\ the_game # NoGame
    BY <2>1, <2>3, GameIsThere
  <2>5. game_mutex[1] = 1
    BY <1>2, <2>1, <2>2 DEF IInv, HoldersFit
  <2>. QED
    BY <2>2, <2>4, <2>5
<1>. QED
  BY <1>1, <1>2 DEF OneGame, Digit

(* getGame has no lock, and the game thread begins before the_game is set. *)
(* Still a maze without a digit makes one game, and whoever moves a thing  *)
(* holds game_mutex.                                                       *)
THEOREM OneGameIsMade == Spec => []OneGame
BY InvariantsHold, InvariantOneGame, PTL

===========================================================================

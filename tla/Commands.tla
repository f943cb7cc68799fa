----------------------------- MODULE Commands -----------------------------
(***************************************************************************)
(* Player::apply: a line a player types is split into words, its first     *)
(* letter tells what is asked for, and the player is answered or everyone  *)
(* is told.                                                                *)
(*                                                                         *)
(* What a command does to the arena is in GameWorld; here a player is out, *)
(* alive or dead.  A look is its first and its last line.  Characters      *)
(* below the space are one, Ctrl, and so are, where char is signed, those  *)
(* beyond ASCII.                                                           *)
(***************************************************************************)
EXTENDS Integers, SequencesExt

CONSTANTS
  MAX_ARG_CT,   \* the words a command may have: 8
  MAX_ARG_LEN,  \* the characters of a word, and the NUL behind it: 256
  SayRoom,      \* what is left of the 998 characters of a say behind "@broadcast"
  MaxTyped,     \* the bound of the model on a line
  Printed,      \* the printed characters, other than Space
  Space, Ctrl,
  name          \* the player's name, as Thing::setName leaves it

ASSUME CommandAssumption ==
  /\ MAX_ARG_CT \in Nat \ {0}
  /\ MAX_ARG_LEN \in Nat \ {0, 1}
  /\ SayRoom \in Nat
  /\ MaxTyped \in Nat
  /\ {Space, Ctrl} \cap Printed = {} /\ Space # Ctrl
  /\ name \in Printed

VARIABLES
  typed,   \* the line so far
  player,  \* out of the game, alive or dead
  applied, \* the line last applied; it and what came of it are forgotten
  answer,  \* when the next is begun: the replies to the player,
  said     \* and the text broadcast, from the name on

commandVars == <<typed, player, applied, answer, said>>

Chars == Printed \cup {Space, Ctrl}

Replies == {"password ignored", "@status login 1", "@error login failed",
            "@error not understood", "@look begins", "@look ends",
            "@move requested", "@fire requested"}

(* The types; a word and what is said fit the arrays they are copied to. *)
CommandTypeOK ==
  /\ typed \in Seq(Chars) /\ Len(typed) <= MaxTyped
  /\ applied \in Seq(Chars) /\ Len(applied) <= MaxTyped
  /\ player \in {"out", "alive", "dead"}
  /\ answer \in Seq(Replies) /\ Len(answer) <= 2
  /\ said \in Seq(Printed \cup {Space}) /\ Len(said) <= SayRoom

CommandInit ==
  /\ typed = <<>>
  /\ player = "out"
  /\ applied = <<>>
  /\ answer = <<>>
  /\ said = <<>>

---------------------------------------------------------------------------

(* The first n characters, or words. *)
upTo(s, n) == SubSeq(s, 1, IF Len(s) < n THEN Len(s) ELSE n)

(* One turn of the loop of apply: a character joins the word, if there is  *)
(* room, and a space or the NUL ends it, if there was one.  Behind the     *)
(* last word that may be, everything is passed over.                       *)
endWord(st) ==
  IF st.word = <<>>
  THEN st
  ELSE [words |-> Append(st.words, upTo(st.word, MAX_ARG_LEN - 1)), word |-> <<>>]

(* Mutant: one word more than there is room for. *)
step_OneMore(st, ch) ==
  CASE Len(st.words) > MAX_ARG_CT \/ ch = Ctrl -> st
    [] Len(st.words) <= MAX_ARG_CT /\ ch = Space -> endWord(st)
    [] OTHER -> [st EXCEPT !.word = IF Len(@) < MAX_ARG_LEN THEN Append(@, ch) ELSE @]

step(st, ch) ==
  CASE Len(st.words) = MAX_ARG_CT \/ ch = Ctrl -> st
    [] Len(st.words) < MAX_ARG_CT /\ ch = Space -> endWord(st)
    [] OTHER -> [st EXCEPT !.word = IF Len(@) < MAX_ARG_LEN THEN Append(@, ch) ELSE @]

(* What the loop has made of the first n characters. *)
reading(command) ==
  LET st[n \in 0 .. Len(command)] ==
        IF n = 0
        THEN [words |-> <<>>, word |-> <<>>]
        ELSE step(st[n - 1], command[n])
  IN  st

(* The NUL at the end counts as a space does.                              *)
split(command) == step(reading(command)[Len(command)], Space).words

(* Mutant: the command itself is said too. *)
saying_Command(words) ==
  FlattenSeq([i \in 1 .. Len(words) + 1 |->
                <<Space>> \o (IF i = 1 THEN <<name>> ELSE words[i - 1])])

(* What is said: the name, and every word but the first, a space before    *)
(* each.                                                                   *)
saying(words) ==
  FlattenSeq([i \in 1 .. Len(words) |->
                <<Space>> \o (IF i = 1 THEN <<name>> ELSE words[i])])

room(text) == upTo(text, SayRoom)

isEmbodied == player # "out"

(* A direction is told by its first letter. *)
towards(words) == Len(words) = 2 /\ words[2][1] \in {"l", "r", "u", "d"}

(* Mutant: a player logs in again. *)
login_Again(fits) ==
  IF fits
  THEN /\ player' = IF isEmbodied THEN player ELSE "alive"
       /\ answer' = <<"password ignored", "@status login 1">>
  ELSE /\ answer' = <<"password ignored", "@error login failed">>
       /\ UNCHANGED player

(* fits: newThing finds an id and a cell. *)
login(fits) ==
  IF ~isEmbodied /\ fits
  THEN /\ player' = "alive"
       /\ answer' = <<"password ignored", "@status login 1">>
  ELSE /\ answer' = <<"password ignored", "@error login failed">>
       /\ UNCHANGED player

dispatch(words, first) ==
  \/ /\ first = "c"
     /\ \E fits \in BOOLEAN : login(fits)
     /\ said' = <<>>
  \/ /\ first = "s"
     /\ said' = IF isEmbodied THEN room(saying(words)) ELSE <<>>
     /\ answer' = <<>>
     /\ UNCHANGED player
  \/ /\ first \in {"l", "g", "f"}
     /\ answer' =
          CASE first = "l" /\ isEmbodied -> <<"@look begins", "@look ends">>
            [] first = "g" /\ towards(words) /\ player = "alive" -> <<"@move requested">>
            [] first = "f" /\ towards(words) /\ player = "alive" -> <<"@fire requested">>
            [] OTHER -> <<>>
     /\ said' = <<>>
     /\ UNCHANGED player
  \/ /\ first \notin {"c", "s", "l", "g", "f"}
     /\ answer' = <<"@error not understood">>
     /\ said' = <<>>
     /\ UNCHANGED player

---------------------------------------------------------------------------

Type(ch) ==
  /\ Len(typed) < MaxTyped
  /\ typed' = Append(typed, ch)
  /\ applied' = <<>>
  /\ answer' = <<>>
  /\ said' = <<>>
  /\ UNCHANGED player

(* The line is applied; without a word nothing comes of it. *)
Apply ==
  /\ typed # <<>>
  /\ typed' = <<>>
  /\ applied' = typed
  /\ IF split(typed) = <<>>
     THEN answer' = <<>> /\ said' = <<>> /\ UNCHANGED player
     ELSE dispatch(split(typed), split(typed)[1][1])

(* Another player's last shot, and the end of the connection. *)
Die ==
  /\ player = "alive"
  /\ player' = "dead"
  /\ UNCHANGED <<typed, applied, answer, said>>

Shutdown ==
  /\ isEmbodied
  /\ player' = "out"
  /\ typed' = <<>>
  /\ applied' = <<>>
  /\ answer' = <<>>
  /\ said' = <<>>

CommandNext == Apply \/ Die \/ Shutdown \/ \E ch \in Chars : Type(ch)

CommandSpec == CommandInit /\ [][CommandNext]_commandVars

---------------------------------------------------------------------------

(* The words of a text: the printed characters, apart where there is a    *)
(* space between them.  A word is where its first character is.            *)
printed(text) == {i \in DOMAIN text : text[i] \in Printed}
together(text, i, j) == \A k \in i .. j : text[k] # Space
starts(text) ==
  {i \in printed(text) : \A j \in printed(text) : j < i => ~together(text, j, i)}
wordAt(text, i) == {j \in printed(text) : i <= j /\ together(text, i, j)}

(* The numbers of a set, from the least on, and what f is there. *)
behind(S, n) == {x \in S : Cardinality({y \in S : y < x}) = n}
inOrder(S) == [k \in 1 .. Cardinality(S) |-> CHOOSE x \in behind(S, k - 1) : TRUE]

inTurn(f, S) == [k \in 1 .. Cardinality(S) |-> f[inOrder(S)[k]]]

wordsIn(text) ==
  inTurn([i \in starts(text) |-> inTurn(text, wordAt(text, i))], starts(text))

(* apply finds the words that were typed, whatever stands around them, but *)
(* for what there is no room for: whole words at the end, and the ends of  *)
(* long ones.                                                              *)
WordsAsTyped ==
  LET ws == upTo(wordsIn(typed), MAX_ARG_CT)
  IN  split(typed) = [k \in DOMAIN ws |-> upTo(ws[k], MAX_ARG_LEN - 1)]

(* Who reads the "@broadcast <username> <text>" of PROTOCOL.TXT word by    *)
(* word finds who said it and what apply made of the line; short of        *)
(* SayRoom nothing is missing, and nothing else comes nor goes beyond the  *)
(* buffer.                                                                 *)
SayIsHeard ==
  said # <<>> =>
    LET whole == <<<<name>>>> \o Tail(split(applied))
    IN  /\ IsPrefix(said, saying(split(applied)))
        /\ Len(said) <= SayRoom
        /\ Len(said) < SayRoom => wordsIn(said) = whole

(* A player is told "@status login 1" exactly when it enters the game, so  *)
(* that a client that believes it is never without a body: who is in is    *)
(* told of an error.                                                       *)
LoginIsTold ==
  [][(player = "out" /\ player' = "alive") <=>
       (answer' # answer /\ \E i \in DOMAIN answer' : answer'[i] = "@status login 1")]_commandVars

===========================================================================

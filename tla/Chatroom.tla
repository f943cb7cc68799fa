----------------------------- MODULE Chatroom -----------------------------
(***************************************************************************)
(* What the chat server promises: one line is said at a time, and everyone *)
(* in the room when it is said hears it before anyone says another, joins  *)
(* or leaves.  ChatServer is shown to implement this specification.        *)
(***************************************************************************)
CONSTANTS
  Seats,   \* the places in the room
  Lines,   \* the lines people may say
  Silence  \* no line, which is none of Lines

VARIABLES
  members,  \* the seats taken
  said,     \* the line being said, or Silence
  waiting,  \* the members that have not heard it yet
  heard     \* the last line every member has heard since it joined

vars == <<members, said, waiting, heard>>

(* The types of the promise. *)
TypeOK ==
  /\ members \subseteq Seats
  /\ said \in Lines \cup {Silence}
  /\ waiting \subseteq members
  /\ heard \in [Seats -> Lines \cup {Silence}]

Init ==
  /\ members = {}
  /\ said = Silence
  /\ waiting = {}
  /\ heard = [s \in Seats |-> Silence]

Join(s) ==
  /\ said = Silence
  /\ s \notin members
  /\ members' = members \cup {s}
  /\ UNCHANGED <<said, waiting, heard>>

Leave(s) ==
  /\ said = Silence
  /\ s \in members
  /\ members' = members \ {s}
  /\ heard' = [heard EXCEPT ![s] = Silence]
  /\ UNCHANGED <<said, waiting>>

Say(s, l) ==
  /\ said = Silence
  /\ s \in members
  /\ said' = l
  /\ waiting' = members
  /\ UNCHANGED <<members, heard>>

Hear(s) ==
  /\ s \in waiting
  /\ waiting' = waiting \ {s}
  /\ heard' = [heard EXCEPT ![s] = said]
  /\ UNCHANGED <<members, said>>

Hush ==
  /\ said # Silence
  /\ waiting = {}
  /\ said' = Silence
  /\ UNCHANGED <<members, waiting, heard>>

Next ==
  \/ Hush
  \/ \E s \in Seats :
       \/ Join(s) \/ Leave(s) \/ Hear(s)
       \/ \E l \in Lines : Say(s, l)

Spec == Init /\ [][Next]_vars

===========================================================================

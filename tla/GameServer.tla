---------------------------- MODULE GameServer -----------------------------
(***************************************************************************)
(* game_server/main.cpp: the threads of the game server and the four kinds *)
(* of lock they nest, game_mutex around a command and a turn (Game.cpp),   *)
(* Player::mutex around a reply (Player.h), client_mutex around a          *)
(* broadcast and ClientThread::mutex around a line.                        *)
(*                                                                         *)
(* What a command does to the arena is in GameWorld, where it is one       *)
(* action; here it is the replies it makes.  What the chat server's        *)
(* threads do alike is in finer steps in ChatServer: a line is one send    *)
(* here, and a critical section in which nothing can block is one step.    *)
(***************************************************************************)
EXTENDS Integers, FiniteSets, SequencesExt

CONSTANTS
  MAX_CLIENTS,  \* the size of clients[]: 100
  Greeting,     \* the lines addClient sends: 4
  Replies,      \* the most replies a command makes; look: 17 and a line per player
  Texts,        \* the texts said
  NoText        \* nothing

Slots == 0 .. MAX_CLIENTS - 1

ASSUME ServerAssumption ==
  /\ MAX_CLIENTS \in Nat \ {0}
  /\ Greeting \in Nat \ {0}
  /\ Replies \in Nat \ {0, 1}
  /\ NoText \notin Texts

VARIABLES
  clients,    \* clients[i] != NULL
  active,     \* ClientThread::active of the object in a slot
  map,        \* the keys of ClientManager::map
  client_ct,  \* ClientManager::client_ct
  acceptor,   \* where runServer is, and the slot it looks at
  pc,         \* where the thread of a slot is
  holds,      \* the locks a thread holds, in the order it took them
  embodied,   \* Player::isEmbodied
  left,       \* the lines it still has to send to its own peer
  text,       \* what it says to all
  rest,       \* the clients that it still has to say it to
  to,         \* the client it is saying it to
  heard,      \* the last text said to a client's peer
  stalled     \* the peer reads nothing, so that a send to it blocks

server == <<clients, active, acceptor>>
room == <<map, client_ct>>
job == <<embodied, left, text, rest, to>>
peer == <<heard, stalled>>
vars == <<server, room, pc, holds, job, peer>>

(* The locks; Player::mutex and ClientThread::mutex are one for each slot. *)
gameMutex == [kind |-> "game"]
clientMutex == [kind |-> "client"]
playerMutex(s) == [kind |-> "player", of |-> s]
lineMutex(s) == [kind |-> "line", of |-> s]
Locks == {gameMutex, clientMutex} \cup {playerMutex(s) : s \in Slots}
                                  \cup {lineMutex(s) : s \in Slots}

(* The order in which every thread takes them. *)
rank(l) == CASE l.kind = "game" -> 1
             [] l.kind = "player" -> 2
             [] l.kind = "client" -> 3
             [] l.kind = "line" -> 4

(* The threads: one for each slot, the game's, and one that has cleared    *)
(* its `active' and still holds client_mutex.                              *)
gameThread == MAX_CLIENTS
leaver == MAX_CLIENTS + 1
Threads == 0 .. MAX_CLIENTS + 1

Replying == {"reply", "reply locked", "replying"}
Saying == {"say", "say locked", "saying", "say to"}
Registered == {"greet", "greeting", "set", "receive", "command", "done", "unset", "shutdown", "remove"}
              \cup Replying \cup Saying
Labels == Registered \cup {"off", "add", "deactivate"}

(* The types; client_ct never falls below zero. *)
TypeOK ==
  /\ clients \in [Slots -> BOOLEAN]
  /\ active \in [Slots -> BOOLEAN]
  /\ map \subseteq Slots
  /\ client_ct \in Nat
  /\ acceptor \in [step : {"scan", "activate", "accept"}, at : Slots]
  /\ pc \in [Slots -> Labels]
  /\ holds \in [Threads -> Seq(Locks)]
  /\ embodied \in [Slots -> BOOLEAN]
  /\ left \in [Slots -> 0 .. (Greeting + Replies)]
  /\ text \in [Slots -> Texts \cup {NoText}]
  /\ rest \in [Slots -> SUBSET Slots]
  /\ to \in [Slots -> Slots]
  /\ heard \in [Slots -> Texts \cup {NoText}]
  /\ stalled \in [Slots -> BOOLEAN]

Init ==
  /\ clients = [s \in Slots |-> FALSE]
  /\ active = [s \in Slots |-> FALSE]
  /\ map = {}
  /\ client_ct = 0
  /\ acceptor = [step |-> "scan", at |-> 0]
  /\ pc = [s \in Slots |-> "off"]
  /\ holds = [t \in Threads |-> <<>>]
  /\ embodied = [s \in Slots |-> FALSE]
  /\ left = [s \in Slots |-> 0]
  /\ text = [s \in Slots |-> NoText]
  /\ rest = [s \in Slots |-> {}]
  /\ to = [s \in Slots |-> s]
  /\ heard = [s \in Slots |-> NoText]
  /\ stalled = [s \in Slots |-> FALSE]

Goto(s, from, label) == pc[s] = from /\ pc' = [pc EXCEPT ![s] = label]

(* Semaphores of count one: whoever waits for a lock it holds itself waits *)
(* for ever.                                                               *)
free(l) == \A t \in Threads : l \notin ToSet(holds[t])
Wait(t, l) == free(l) /\ holds' = [holds EXCEPT ![t] = Append(@, l)]

(* Mutant: Player::send takes Player::mutex last. *)
wants_Swapped(s) ==
  CASE pc[s] \in {"add", "say locked", "remove", "deactivate"} -> {clientMutex}
    [] pc[s] \in {"greet", "reply"} -> {lineMutex(s)}
    [] pc[s] \in {"set", "unset", "reply locked", "say"} -> {playerMutex(s)}
    [] pc[s] = "command" -> {gameMutex}
    [] pc[s] = "shutdown" -> IF embodied[s] THEN {gameMutex} ELSE {}
    [] pc[s] = "saying" -> {lineMutex(t) : t \in rest[s]}
    [] OTHER -> {}

(* What the thread of a slot waits for; one of them, in any order, in      *)
(* broadcast.  killThing needs game_mutex, and only who has a body calls   *)
(* it.                                                                     *)
wants(s) ==
  CASE pc[s] \in {"add", "say locked", "remove", "deactivate"} -> {clientMutex}
    [] pc[s] \in {"greet", "reply locked"} -> {lineMutex(s)}
    [] pc[s] \in {"set", "unset", "reply", "say"} -> {playerMutex(s)}
    [] pc[s] = "command" -> {gameMutex}
    [] pc[s] = "shutdown" -> IF embodied[s] THEN {gameMutex} ELSE {}
    [] pc[s] = "saying" -> {lineMutex(t) : t \in rest[s]}
    [] OTHER -> {}

(* It takes the lock and keeps it; or it takes it and posts it in a step.  *)
Take(s) == \E l \in wants(s) : Wait(s, l)
Pass(s) == \A l \in wants(s) : free(l)

(* The last n locks taken are posted, in the reverse order. *)
Post(t, n) == holds' = [holds EXCEPT ![t] = SubSeq(@, 1, Len(@) - n)]

---------------------------------------------------------------------------

(* runServer, as in the chat server. *)
Scan ==
  LET i == acceptor.at
  IN  /\ acceptor.step = "scan"
      /\ IF clients[i] /\ active[i]
         THEN /\ acceptor' = [step |-> "scan", at |-> (i + 1) % MAX_CLIENTS]
              /\ UNCHANGED <<clients, active, embodied, peer>>
         ELSE /\ acceptor' = [step |-> "activate", at |-> i]
              /\ clients' = [clients EXCEPT ![i] = TRUE]
              /\ active' = [active EXCEPT ![i] = FALSE]
              /\ embodied' = [embodied EXCEPT ![i] = FALSE]
              /\ heard' = [heard EXCEPT ![i] = NoText]
              /\ stalled' = [stalled EXCEPT ![i] = FALSE]
      /\ UNCHANGED <<room, pc, holds, left, text, rest, to>>

Activate ==
  /\ acceptor.step = "activate"
  /\ free(clientMutex)
  /\ active' = [active EXCEPT ![acceptor.at] = TRUE]
  /\ acceptor' = [step |-> "accept", at |-> acceptor.at]
  /\ UNCHANGED <<clients, room, pc, holds, job, peer>>

Accept ==
  /\ acceptor.step = "accept"
  /\ Goto(acceptor.at, "off", "add")
  /\ acceptor' = [step |-> "scan", at |-> 0]
  /\ UNCHANGED <<clients, active, room, holds, job, peer>>

---------------------------------------------------------------------------

(* addClient: registered under client_mutex, greeted without it. *)
AddClient(s) ==
  /\ Pass(s)
  /\ Goto(s, "add", "greet")
  /\ map' = map \cup {s}
  /\ client_ct' = client_ct + 1
  /\ left' = [left EXCEPT ![s] = Greeting]
  /\ UNCHANGED <<server, holds, embodied, text, rest, to, peer>>

(* A line of the greeting, to the thread's own peer. *)
Greet(s) ==
  /\ Goto(s, "greet", "greeting")
  /\ Take(s)
  /\ UNCHANGED <<server, room, job, peer>>

Greeted(s) ==
  /\ Goto(s, "greeting", IF left[s] > 1 THEN "greet" ELSE "set")
  /\ ~stalled[s]
  /\ Post(s, 1)
  /\ left' = [left EXCEPT ![s] = @ - 1]
  /\ UNCHANGED <<server, room, embodied, text, rest, to, peer>>

(* Player::setReplier, before the first command and after the last. *)
SetReplier(s) ==
  /\ Pass(s)
  /\ \/ Goto(s, "set", "receive")
     \/ Goto(s, "unset", "shutdown")
  /\ UNCHANGED <<server, room, holds, job, peer>>

(* receiveText returns a command, or NULL. *)
Receive(s) ==
  /\ \/ Goto(s, "receive", "command")
     \/ Goto(s, "receive", "unset")
  /\ UNCHANGED <<server, room, holds, job, peer>>

(* Commands are told apart by what they send: a login has two replies,     *)
(* whether it succeeds or not, everything else up to Replies; a say goes   *)
(* to all.  Who has no body gets an error or nothing.                      *)
Dispatch(s) ==
  \/ /\ embodied[s]
     /\ \E l \in Texts : text' = [text EXCEPT ![s] = l]
     /\ pc' = [pc EXCEPT ![s] = "say"]
     /\ UNCHANGED <<embodied, left>>
  \/ \E n \in 0 .. Replies, body \in BOOLEAN :
       /\ embodied[s] => body
       /\ ~embodied[s] => IF body THEN n = 2 ELSE n <= 2
       /\ embodied' = [embodied EXCEPT ![s] = body]
       /\ left' = [left EXCEPT ![s] = n]
       /\ pc' = [pc EXCEPT ![s] = IF n > 0 THEN "reply" ELSE "done"]
       /\ UNCHANGED text

(* Mutant: Player::apply without game.wait(). *)
BeginCommand_Unlocked(s) ==
  /\ pc[s] = "command"
  /\ Dispatch(s)
  /\ UNCHANGED <<server, room, holds, rest, to, peer>>

(* Player::apply takes game_mutex before it looks at the command. *)
BeginCommand(s) ==
  /\ pc[s] = "command"
  /\ Take(s)
  /\ Dispatch(s)
  /\ UNCHANGED <<server, room, rest, to, peer>>

(* Player::send: Player::mutex, then ClientThread::send. *)
Reply(s) ==
  /\ \/ Goto(s, "reply", "reply locked")
     \/ Goto(s, "reply locked", "replying")
  /\ Take(s)
  /\ UNCHANGED <<server, room, job, peer>>

Replied(s) ==
  /\ Goto(s, "replying", IF left[s] > 1 THEN "reply" ELSE "done")
  /\ ~stalled[s]
  /\ Post(s, 2)
  /\ left' = [left EXCEPT ![s] = @ - 1]
  /\ UNCHANGED <<server, room, embodied, text, rest, to, peer>>

(* Player::broadcast and ClientManager::broadcast: game_mutex, then        *)
(* Player::mutex, client_mutex, and the mutex of one client after another. *)
BeginSay(s) ==
  /\ Take(s)
  /\ \/ /\ Goto(s, "say", "say locked")
        /\ UNCHANGED rest
     \/ /\ Goto(s, "say locked", "saying")
        /\ rest' = [rest EXCEPT ![s] = map]
  /\ UNCHANGED <<server, room, embodied, left, text, to, peer>>

SayTo(s) ==
  /\ Goto(s, "saying", "say to")
  /\ \E t \in rest[s] :
       /\ Wait(s, lineMutex(t))
       /\ to' = [to EXCEPT ![s] = t]
       /\ rest' = [rest EXCEPT ![s] = @ \ {t}]
  /\ UNCHANGED <<server, room, embodied, left, text, peer>>

Said(s) ==
  /\ Goto(s, "say to", "saying")
  /\ ~stalled[to[s]]
  /\ Post(s, 1)
  /\ heard' = [heard EXCEPT ![to[s]] = text[s]]
  /\ to' = [to EXCEPT ![s] = s]
  /\ UNCHANGED <<server, room, embodied, left, text, rest, stalled>>

(* Mutant: one of the two locks of a say is not posted. *)
EndSay_OnePost(s) ==
  /\ Goto(s, "saying", "done")
  /\ rest[s] = {}
  /\ Post(s, 1)
  /\ text' = [text EXCEPT ![s] = NoText]
  /\ UNCHANGED <<server, room, embodied, left, rest, to, peer>>

(* client_mutex and Player::mutex are posted; the second has no other      *)
(* taker.                                                                  *)
EndSay(s) ==
  /\ Goto(s, "saying", "done")
  /\ rest[s] = {}
  /\ Post(s, 2)
  /\ text' = [text EXCEPT ![s] = NoText]
  /\ UNCHANGED <<server, room, embodied, left, rest, to, peer>>

(* Mutant: an early return that leaves game_mutex taken. *)
EndCommand_Unposted(s) ==
  /\ Goto(s, "done", "receive")
  /\ UNCHANGED <<server, room, holds, job, peer>>

EndCommand(s) ==
  /\ Goto(s, "done", "receive")
  /\ Post(s, 1)
  /\ UNCHANGED <<server, room, job, peer>>

(* Player::shutdown. *)
Shutdown(s) ==
  /\ Pass(s)
  /\ Goto(s, "shutdown", "remove")
  /\ embodied' = [embodied EXCEPT ![s] = FALSE]
  /\ UNCHANGED <<server, room, holds, left, text, rest, to, peer>>

(* Mutant: removeClient without client_mutex. *)
RemoveClient_Unlocked(s) ==
  /\ Goto(s, "remove", "deactivate")
  /\ map' = map \ {s}
  /\ client_ct' = client_ct - 1
  /\ UNCHANGED <<server, holds, job, peer>>

RemoveClient(s) ==
  /\ Pass(s)
  /\ Goto(s, "remove", "deactivate")
  /\ map' = map \ {s}
  /\ client_ct' = client_ct - 1
  /\ UNCHANGED <<server, holds, job, peer>>

(* The end of ClientThread::main. *)
Deactivate(s) ==
  /\ Goto(s, "deactivate", "off")
  /\ Wait(leaver, clientMutex)
  /\ active' = [active EXCEPT ![s] = FALSE]
  /\ UNCHANGED <<clients, acceptor, room, job, peer>>

Leave ==
  /\ holds[leaver] # <<>>
  /\ Post(leaver, 1)
  /\ UNCHANGED <<server, room, pc, job, peer>>

(* Game::main: a turn under game_mutex, then a sleep. *)
Turn ==
  /\ IF holds[gameThread] = <<>> THEN Wait(gameThread, gameMutex) ELSE Post(gameThread, 1)
  /\ UNCHANGED <<server, room, pc, job, peer>>

(* A peer stops reading, and reads again. *)
Stall(s) ==
  /\ pc[s] # "off"
  /\ ~stalled[s]
  /\ stalled' = [stalled EXCEPT ![s] = TRUE]
  /\ UNCHANGED <<server, room, pc, holds, job, heard>>

Drain(s) ==
  /\ stalled[s]
  /\ stalled' = [stalled EXCEPT ![s] = FALSE]
  /\ UNCHANGED <<server, room, pc, holds, job, heard>>

Acceptor == Scan \/ Activate \/ Accept

Command(s) ==
  \/ BeginCommand(s) \/ Reply(s) \/ Replied(s)
  \/ BeginSay(s) \/ SayTo(s) \/ Said(s) \/ EndSay(s) \/ EndCommand(s)

Work(s) ==
  \/ AddClient(s) \/ Greet(s) \/ Greeted(s) \/ SetReplier(s) \/ Command(s)
  \/ Shutdown(s) \/ RemoveClient(s) \/ Deactivate(s)

Peer(s) == Receive(s) \/ Stall(s) \/ Drain(s)

Next == Acceptor \/ Leave \/ Turn \/ \E s \in Slots : Work(s) \/ Peer(s)

Spec == Init /\ [][Next]_vars

(* Threads run, a turn ends and the sleep after it too.  Peers that        *)
(* stopped reading read again, and a send that can be made again and again *)
(* is made; so is a wait for a lock that is free again and again, which a  *)
(* semaphore does that starves nobody.  No peer owes a line.               *)
FairSpec ==
  /\ Spec
  /\ WF_vars(Leave)
  /\ WF_vars(Turn)
  /\ \A s \in Slots : /\ WF_vars(Drain(s))
                      /\ SF_vars(Work(s))

---------------------------------------------------------------------------

waitsFor(t, u) == t \in Slots /\ wants(t) \cap ToSet(holds[u]) # {}

inBroadcast(s) == pc[s] \in {"saying", "say to"}

(* A thread that holds a lock, or two, three or four, waits only for locks *)
(* of a higher rank, and every lock has one holder: the discipline that    *)
(* keeps say, replies, logins and logouts of many threads from waiting for *)
(* one another.                                                            *)
LocksAscend ==
  /\ \A s \in Slots : \A l \in ToSet(holds[s]), m \in wants(s) : rank(l) < rank(m)
  /\ \A t \in Threads : \A i, j \in DOMAIN holds[t] :
       i < j => rank(holds[t][i]) < rank(holds[t][j])
  /\ \A t, u \in Threads : t # u => ToSet(holds[t]) \cap ToSet(holds[u]) = {}

(* No thread waits for itself or for one that waits for it, through any    *)
(* number of others: a command may not return with game_mutex taken, nor   *)
(* killThing be called by who holds it.                                    *)
NoCircularWait ==
  \A T \in (SUBSET Threads) \ {{}} : \E t \in T : \A u \in T : ~waitsFor(t, u)

(* Nothing that others say comes between the lines of an answer, from the  *)
(* first, as "@look begins", to the last; a greeting has no such right.    *)
AnswersAreWhole ==
  \A s \in Slots : pc[s] = "say to" => pc[to[s]] \notin Replying

(* Commands, turns and deaths are never shut out for ever, if only the     *)
(* peers go on reading.                                                    *)
GameGoesOn == ~free(gameMutex) ~> free(gameMutex)

(* What the players hear of one another. *)
said ==
  IF \E s \in Slots : inBroadcast(s)
  THEN text[CHOOSE s \in Slots : inBroadcast(s)]
  ELSE NoText

waiting ==
  UNION {IF pc[s] = "say to" THEN rest[s] \cup {to[s]} ELSE rest[s] :
           s \in {t \in Slots : inBroadcast(t)}}

Heard == [s \in Slots |-> IF s \in map THEN heard[s] ELSE NoText]

Room == INSTANCE Chatroom WITH
  Seats <- Slots, Lines <- Texts, Silence <- NoText, members <- map, heard <- Heard

(* What a player says is said to all before anyone says, comes or goes.    *)
ImplementsChatroom == Room!Spec

===========================================================================

---------------------------- MODULE ChatServer ----------------------------
(***************************************************************************)
(* chat_server/main.cpp: the thread that accepts connections               *)
(* (ClientManager::runServer), the ClientThreads, the map of those logged  *)
(* in and the two kinds of lock.  game_server/main.cpp has the same        *)
(* ClientManager; there a line runs through Player first.                  *)
(*                                                                         *)
(* A slot of clients[] and the thread of the ClientThread in it have one   *)
(* name.  A thread that has cleared `active' may be reaped and its slot    *)
(* taken while it still holds client_mutex: it goes on as `leaving'.       *)
(***************************************************************************)
EXTENDS Integers, FiniteSets

CONSTANTS
  MAX_CLIENTS,  \* the size of clients[]: 100
  Greeting,     \* the lines addClient sends: 4
  Lines,        \* the lines peers type
  NoLine,       \* no line
  Eol           \* the end of a line on the wire

Slots == 0 .. MAX_CLIENTS - 1

ASSUME ChatAssumption ==
  /\ MAX_CLIENTS \in Nat \ {0}
  /\ Greeting \in Nat \ {0}
  /\ NoLine \notin Lines
  /\ Eol \notin Slots

VARIABLES
  clients,       \* clients[i] != NULL
  active,        \* ClientThread::active of the object in a slot
  map,           \* the keys of ClientManager::map
  client_ct,     \* ClientManager::client_ct
  client_mutex,  \* the count of the semaphore client_mutex
  mutex,         \* the count of every ClientThread's own semaphore
  pc,            \* where the thread of a slot is
  hello,         \* the greeting lines it still has to send
  line,          \* the line it broadcasts
  rest,          \* the clients its broadcast still has to visit
  to,            \* the client it is sending a line to; itself, unless it broadcasts
  leaving,       \* some thread has cleared active and not posted client_mutex
  acceptor,      \* where runServer is: its next step, and the slot it looks at
  wire,          \* who has sent a text to a client and no end of line, or Eol
  heard,         \* the last broadcast line a client's peer has been sent
  stalled        \* the peer reads nothing, so that a send to it blocks

server == <<clients, active, acceptor>>
room == <<map, client_ct>>
peer == <<wire, heard>>
job == <<hello, line, rest, to>>
vars == <<server, room, peer, job, client_mutex, mutex, pc, leaving, stalled>>

Registered == {"lock", "text", "eol", "receive", "wait", "next", "remove"}
Labels == Registered \cup {"off", "add", "deactivate"}

(* The types; client_ct never falls below zero. *)
TypeOK ==
  /\ clients \in [Slots -> BOOLEAN]
  /\ active \in [Slots -> BOOLEAN]
  /\ map \subseteq Slots
  /\ client_ct \in Nat
  /\ client_mutex \in {0, 1}
  /\ mutex \in [Slots -> {0, 1}]
  /\ pc \in [Slots -> Labels]
  /\ hello \in [Slots -> 0 .. Greeting]
  /\ line \in [Slots -> Lines \cup {NoLine}]
  /\ rest \in [Slots -> SUBSET Slots]
  /\ to \in [Slots -> Slots]
  /\ leaving \in BOOLEAN
  /\ acceptor \in [step : {"scan", "activate", "accept"}, at : Slots]
  /\ wire \in [Slots -> Slots \cup {Eol}]
  /\ heard \in [Slots -> Lines \cup {NoLine}]
  /\ stalled \in [Slots -> BOOLEAN]

Init ==
  /\ clients = [s \in Slots |-> FALSE]
  /\ active = [s \in Slots |-> FALSE]
  /\ map = {}
  /\ client_ct = 0
  /\ client_mutex = 1
  /\ mutex = [s \in Slots |-> 1]
  /\ pc = [s \in Slots |-> "off"]
  /\ hello = [s \in Slots |-> 0]
  /\ line = [s \in Slots |-> NoLine]
  /\ rest = [s \in Slots |-> {}]
  /\ to = [s \in Slots |-> s]
  /\ leaving = FALSE
  /\ acceptor = [step |-> "scan", at |-> 0]
  /\ wire = [s \in Slots |-> Eol]
  /\ heard = [s \in Slots |-> NoLine]
  /\ stalled = [s \in Slots |-> FALSE]

Goto(s, from, label) == pc[s] = from /\ pc' = [pc EXCEPT ![s] = label]

---------------------------------------------------------------------------

(* runServer at slot i of its loop: an inactive client is deleted, an      *)
(* empty slot is filled and the loop left with it; when no slot is empty   *)
(* the loop starts over.  isActive reads active without client_mutex.      *)
Scan ==
  LET i == acceptor.at
  IN  /\ acceptor.step = "scan"
      /\ IF clients[i] /\ active[i]
         THEN /\ acceptor' = [step |-> "scan", at |-> (i + 1) % MAX_CLIENTS]
              /\ UNCHANGED <<clients, active, mutex, peer, stalled>>
         ELSE /\ acceptor' = [step |-> "activate", at |-> i]
              /\ clients' = [clients EXCEPT ![i] = TRUE]
              /\ active' = [active EXCEPT ![i] = FALSE]
              /\ mutex' = [mutex EXCEPT ![i] = 1]
              /\ wire' = [wire EXCEPT ![i] = Eol]
              /\ heard' = [heard EXCEPT ![i] = NoLine]
              /\ stalled' = [stalled EXCEPT ![i] = FALSE]
      /\ UNCHANGED <<room, job, client_mutex, pc, leaving>>

(* Mutant: accept does not set active. *)
Activate_Unset ==
  /\ acceptor.step = "activate"
  /\ client_mutex = 1
  /\ acceptor' = [step |-> "accept", at |-> acceptor.at]
  /\ UNCHANGED <<clients, active, room, peer, job, client_mutex, mutex, pc, leaving, stalled>>

(* ClientThread::accept up to server.accept.                               *)
Activate ==
  /\ acceptor.step = "activate"
  /\ client_mutex = 1
  /\ active' = [active EXCEPT ![acceptor.at] = TRUE]
  /\ acceptor' = [step |-> "accept", at |-> acceptor.at]
  /\ UNCHANGED <<clients, room, peer, job, client_mutex, mutex, pc, leaving, stalled>>

(* A peer connects: server.accept returns and the thread begins.           *)
Accept ==
  /\ acceptor.step = "accept"
  /\ Goto(acceptor.at, "off", "add")
  /\ acceptor' = [step |-> "scan", at |-> 0]
  /\ UNCHANGED <<clients, active, room, peer, job, client_mutex, mutex, leaving, stalled>>

---------------------------------------------------------------------------

(* ClientManager::addClient, its locked part; the greeting comes next,     *)
(* with client_mutex free.                                                 *)
AddClient(s) ==
  /\ client_mutex = 1
  /\ Goto(s, "add", "lock")
  /\ map' = map \cup {s}
  /\ client_ct' = client_ct + 1
  /\ hello' = [hello EXCEPT ![s] = Greeting]
  /\ UNCHANGED <<server, peer, line, rest, to, client_mutex, mutex, leaving, stalled>>

(* Mutant: send without the client's own semaphore. *)
Lock_Free(s) ==
  /\ Goto(s, "lock", "text")
  /\ mutex' = [mutex EXCEPT ![to[s]] = 0]
  /\ UNCHANGED <<server, room, peer, job, client_mutex, leaving, stalled>>

(* ClientThread::send to client to[s]: its semaphore, the text, then the   *)
(* end of line (NovaTelnetClient::sendText) and the semaphore again.  Each *)
(* send blocks while the peer reads nothing.                               *)
Lock(s) ==
  /\ Goto(s, "lock", "text")
  /\ mutex[to[s]] = 1
  /\ mutex' = [mutex EXCEPT ![to[s]] = 0]
  /\ UNCHANGED <<server, room, peer, job, client_mutex, leaving, stalled>>

SendText(s) ==
  /\ Goto(s, "text", "eol")
  /\ ~stalled[to[s]]
  /\ wire' = [wire EXCEPT ![to[s]] = s]
  /\ UNCHANGED <<server, room, heard, job, client_mutex, mutex, leaving, stalled>>

SendEol(s) ==
  /\ ~stalled[to[s]]
  /\ wire' = [wire EXCEPT ![to[s]] = Eol]
  /\ mutex' = [mutex EXCEPT ![to[s]] = 1]
  /\ IF hello[s] > 0
     THEN /\ Goto(s, "eol", IF hello[s] > 1 THEN "lock" ELSE "receive")
          /\ hello' = [hello EXCEPT ![s] = @ - 1]
          /\ UNCHANGED heard
     ELSE /\ Goto(s, "eol", "next")
          /\ heard' = [heard EXCEPT ![to[s]] = line[s]]
          /\ UNCHANGED hello
  /\ UNCHANGED <<server, room, line, rest, to, client_mutex, leaving, stalled>>

(* client.receiveText returns a line, or NULL when the peer is gone.       *)
Receive(s, l) ==
  /\ Goto(s, "receive", IF l = NoLine THEN "remove" ELSE "wait")
  /\ line' = [line EXCEPT ![s] = l]
  /\ UNCHANGED <<server, room, peer, hello, rest, to, client_mutex, mutex, leaving, stalled>>

(* ClientManager::broadcast: client_mutex is held from the first client    *)
(* of the map to the last, whatever their order.                           *)
BeginBroadcast(s) ==
  /\ client_mutex = 1
  /\ Goto(s, "wait", "next")
  /\ client_mutex' = 0
  /\ rest' = [rest EXCEPT ![s] = map]
  /\ UNCHANGED <<server, room, peer, hello, line, to, mutex, leaving, stalled>>

NextClient(s) ==
  /\ Goto(s, "next", "lock")
  /\ \E t \in rest[s] :
       /\ to' = [to EXCEPT ![s] = t]
       /\ rest' = [rest EXCEPT ![s] = @ \ {t}]
  /\ UNCHANGED <<server, room, peer, hello, line, client_mutex, mutex, leaving, stalled>>

(* Mutant: the broadcast ends with its last client on the list. *)
EndBroadcast_Early(s) ==
  /\ Goto(s, "next", "receive")
  /\ Cardinality(rest[s]) <= 1
  /\ client_mutex' = 1
  /\ line' = [line EXCEPT ![s] = NoLine]
  /\ to' = [to EXCEPT ![s] = s]
  /\ UNCHANGED <<server, room, peer, hello, rest, mutex, leaving, stalled>>

EndBroadcast(s) ==
  /\ Goto(s, "next", "receive")
  /\ rest[s] = {}
  /\ client_mutex' = 1
  /\ line' = [line EXCEPT ![s] = NoLine]
  /\ to' = [to EXCEPT ![s] = s]
  /\ UNCHANGED <<server, room, peer, hello, rest, mutex, leaving, stalled>>

(* Mutant: client_ct-- is forgotten. *)
RemoveClient_Uncounted(s) ==
  /\ client_mutex = 1
  /\ Goto(s, "remove", "deactivate")
  /\ map' = map \ {s}
  /\ UNCHANGED <<server, client_ct, peer, job, client_mutex, mutex, leaving, stalled>>

(* ClientManager::removeClient. *)
RemoveClient(s) ==
  /\ client_mutex = 1
  /\ Goto(s, "remove", "deactivate")
  /\ map' = map \ {s}
  /\ client_ct' = client_ct - 1
  /\ UNCHANGED <<server, peer, job, client_mutex, mutex, leaving, stalled>>

(* Mutant: active is cleared without client_mutex.wait(). *)
Deactivate_Unlocked(s) ==
  /\ Goto(s, "deactivate", "off")
  /\ client_mutex' = 0
  /\ active' = [active EXCEPT ![s] = FALSE]
  /\ leaving' = TRUE
  /\ UNCHANGED <<clients, acceptor, room, peer, job, mutex, stalled>>

(* The end of ClientThread::main: from the assignment to active on, the    *)
(* acceptor may delete the object, though client_mutex is not posted yet.  *)
Deactivate(s) ==
  /\ client_mutex = 1
  /\ Goto(s, "deactivate", "off")
  /\ client_mutex' = 0
  /\ active' = [active EXCEPT ![s] = FALSE]
  /\ leaving' = TRUE
  /\ UNCHANGED <<clients, acceptor, room, peer, job, mutex, stalled>>

(* Mutant: main returns without posting client_mutex. *)
Post_Forgotten ==
  /\ leaving
  /\ leaving' = FALSE
  /\ UNCHANGED <<server, room, peer, job, client_mutex, mutex, pc, stalled>>

Post ==
  /\ leaving
  /\ leaving' = FALSE
  /\ client_mutex' = 1
  /\ UNCHANGED <<server, room, peer, job, mutex, pc, stalled>>

(* A peer stops reading, and reads again. *)
Stall(s) ==
  /\ pc[s] # "off"
  /\ ~stalled[s]
  /\ stalled' = [stalled EXCEPT ![s] = TRUE]
  /\ UNCHANGED <<server, room, peer, job, client_mutex, mutex, pc, leaving>>

Drain(s) ==
  /\ stalled[s]
  /\ stalled' = [stalled EXCEPT ![s] = FALSE]
  /\ UNCHANGED <<server, room, peer, job, client_mutex, mutex, pc, leaving>>

Acceptor == Scan \/ Activate \/ Accept

(* What a thread does by itself; it waits in receiveText for its peer. *)
Work(s) ==
  \/ AddClient(s) \/ Lock(s) \/ SendText(s) \/ SendEol(s)
  \/ BeginBroadcast(s) \/ NextClient(s) \/ EndBroadcast(s)
  \/ RemoveClient(s) \/ Deactivate(s)

Peer(s) ==
  \/ Stall(s) \/ Drain(s)
  \/ \E l \in Lines \cup {NoLine} : Receive(s, l)

Next == Acceptor \/ Post \/ \E s \in Slots : Work(s) \/ Peer(s)

Spec == Init /\ [][Next]_vars

(* Threads run; peers that stopped reading read again, and what a blocked  *)
(* send has left goes out when they do, were it only for a moment (hence   *)
(* the strong fairness).  The peers owe no line and no connection, and no  *)
(* semaphore is assumed to serve in order.                                 *)
FairSpec ==
  /\ Spec
  /\ WF_vars(Post)
  /\ \A s \in Slots : /\ WF_vars(Work(s))
                      /\ WF_vars(Drain(s))
                      /\ SF_vars(SendText(s) \/ SendEol(s))

---------------------------------------------------------------------------

(* A thread between the first and the last client of a broadcast. *)
broadcasting(s) == pc[s] \in {"next", "lock", "text", "eol"} /\ line[s] # NoLine

(* No thread runs or sends on a ClientThread that was deleted, and         *)
(* broadcast's assert(clients[id]!=NULL) holds: runServer deletes what is  *)
(* not active, without looking at the map.                                 *)
NoDeletedClient ==
  /\ \A s \in map : clients[s] /\ active[s]
  /\ \A s \in Slots : pc[s] # "off" => clients[s] /\ active[s]
  /\ \A s \in Slots : pc[s] \in {"lock", "text", "eol"} => active[to[s]]

(* The number the greeting tells is the number of those logged in: no bind *)
(* finds its key taken, as it would if a slot were filled again before its *)
(* last client was removed.                                                *)
CountMatches ==
  /\ client_ct = Cardinality(map)
  /\ map = {s \in Slots : pc[s] \in Registered}

(* Each lock has at most one holder: client_mutex is held by one broadcast *)
(* or by one thread that ends, a client's semaphore by one sender.         *)
OneHolder ==
  /\ client_mutex = 1 <=> ~leaving /\ \A s \in Slots : ~broadcasting(s)
  /\ leaving => \A s \in Slots : ~broadcasting(s)
  /\ \A s, t \in Slots : broadcasting(s) /\ broadcasting(t) => s = t
  /\ \A t \in Slots : mutex[t] = 0 <=>
       \E s \in Slots : pc[s] \in {"text", "eol"} /\ to[s] = t
  /\ \A s, t \in Slots :
       pc[s] \in {"text", "eol"} /\ pc[t] \in {"text", "eol"} /\ to[s] = to[t] => s = t

(* A thread's own variables fit the place it is at: it greets itself or    *)
(* broadcasts to clients that are still logged in, never both; a text on   *)
(* the wire has a sender that is about to end its line; the acceptor works *)
(* on a slot no thread runs in; and nobody hears a line before it is       *)
(* logged in.                                                              *)
JobsFit ==
  /\ \A s \in Slots : pc[s] \in {"lock", "text", "eol"} =>
       IF line[s] = NoLine
       THEN hello[s] > 0 /\ to[s] = s
       ELSE hello[s] = 0 /\ to[s] \in map \ rest[s]
  /\ \A s \in Slots : pc[s] \in {"wait", "next"} => line[s] # NoLine /\ hello[s] = 0
  /\ \A s \in Slots : pc[s] = "receive" => hello[s] = 0
  /\ \A s \in Slots : pc[s] \in {"off", "add", "receive", "remove", "deactivate"} =>
       line[s] = NoLine
  /\ \A s \in Slots : IF broadcasting(s) THEN rest[s] \subseteq map ELSE to[s] = s
  /\ \A t \in Slots : wire[t] # Eol => pc[wire[t]] = "eol" /\ to[wire[t]] = t
  /\ acceptor.step \in {"activate", "accept"} =>
       /\ clients[acceptor.at]
       /\ pc[acceptor.at] = "off"
       /\ active[acceptor.at] <=> acceptor.step = "accept"
       /\ heard[acceptor.at] = NoLine
  /\ \A s \in Slots : pc[s] = "add" => heard[s] = NoLine

(* The invariants together are inductive: ChatServerProofs.                *)
IInv == TypeOK /\ NoDeletedClient /\ CountMatches /\ OneHolder /\ JobsFit

(* A text and its end of line reach a peer with nothing in between, though *)
(* they are two sends and a greeting and a broadcast may meet.             *)
LinesAreWhole ==
  [][\A t \in Slots : wire[t] # Eol => wire'[t] \in {wire[t], Eol}]_vars

(* client_mutex is always given back, so that logins, logouts and other    *)
(* broadcasts are not kept out for ever, if only the peers go on reading.  *)
RoomIsFreed == client_mutex = 0 ~> client_mutex = 1

(* What the peers hear. *)
said ==
  IF \E s \in Slots : broadcasting(s)
  THEN line[CHOOSE s \in Slots : broadcasting(s)]
  ELSE NoLine

waiting ==
  UNION {IF pc[s] = "next" THEN rest[s] ELSE rest[s] \cup {to[s]} :
           s \in {t \in Slots : broadcasting(t)}}

Heard == [s \in Slots |-> IF s \in map THEN heard[s] ELSE NoLine]

Room == INSTANCE Chatroom WITH
  Seats <- Slots, Silence <- NoLine, members <- map, heard <- Heard

(* Every line is said to all who are logged in before the next one.        *)
ImplementsChatroom == Room!Spec

===========================================================================

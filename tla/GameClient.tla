---------------------------- MODULE GameClient -----------------------------
(***************************************************************************)
(* game_client/main.cpp and the session game_server holds with it: main    *)
(* reads keys, a ClientThread reads what the server says and logs in, an   *)
(* UpdateThread looks four times a second, and all three send commands     *)
(* under one semaphore.                                                    *)
(*                                                                         *)
(* A command and a line are told by what the other side does with them: to *)
(* go, to fire and to say is an order.  What the user has typed and what   *)
(* is on the screen are left out.  Time passes in quarters of a second, at *)
(* any moment; `late' remembers that it did, or that main left, while a    *)
(* thread or the server had a step to take.                                *)
(***************************************************************************)
EXTENDS Integers, Sequences

CONSTANT Capacity  \* the lines a connection takes in one direction

ASSUME ClientAssumption == Capacity \in Nat \ {0}

VARIABLES
  pc,        \* where each thread is
  cmd,       \* the command it sends
  nap,       \* the quarters of a second it still sleeps
  mutex,     \* ClientThread::mutex
  mode,      \* main: how much of an arrow key has come
  stop,      \* the threads whose `stop' is set
  link,      \* the connection: "none" yet, "open" or "down"
  wire,      \* the texts sent since the last end of line
  toServer,
  toClient,
  player,    \* the server: "new", greeted and "out", "in" or "refused"
  late       \* history: somebody had a step to take and did not in time

threads == <<pc, cmd, nap, mutex, mode, stop>>
session == <<link, wire, toServer, toClient, player>>
vars == <<threads, session, late>>

Threads == {"main", "receiver", "updater"}

(* sleep(0.25) of the updater, and sleep(1), twice, of stop(). *)
updaterNap == 1
stopNap == 4

Init ==
  /\ pc = [t \in Threads |-> IF t = "main" THEN "start" ELSE "off"]
  /\ cmd = [t \in Threads |-> "none"]
  /\ nap = [t \in Threads |-> 0]
  /\ mutex = 1
  /\ mode = 0
  /\ stop = {}
  /\ link = "none"
  /\ wire = <<>>
  /\ toServer = <<>>
  /\ toClient = <<>>
  /\ player = "new"
  /\ late = FALSE

running == pc["main"] \notin {"exit", "killed"}

blocked(t) ==
  \/ pc[t] = "wait" /\ mutex = 0
  \/ pc[t] = "text" /\ link = "open" /\ Len(toServer) = Capacity

(* The server waits for a line, or for room for a greeting or an answer;   *)
(* an order may want none.                                                 *)
serverIdle ==
  \/ link # "open"
  \/ player # "new" /\ toServer = <<>>
  \/ player = "new" /\ Len(toClient) = Capacity
  \/ /\ player = "in" /\ Len(toClient) = Capacity
     /\ toServer # <<>> /\ Head(toServer) # "order"

idle(t) ==
  \/ nap[t] > 0
  \/ pc[t] \in {"off", "keys", "done", "exit", "killed"}
  \/ pc[t] = "receive" /\ toClient = <<>> /\ link = "open"
  \/ blocked(t)

(* Somebody other than t, whom it does not wait for, has a step to take. *)
busy(t) == ~serverIdle \/ \E u \in Threads \ {t} : ~idle(u)

Goto(t, from, to) ==
  /\ running
  /\ nap[t] = 0
  /\ pc[t] = from
  /\ pc' = [pc EXCEPT ![t] = to]

(* What a thread goes on with behind a command, and when its `stop' is     *)
(* looked at: the updater behind a look, the receiver behind a line.       *)
loop(t) ==
  CASE t = "main" -> "keys"
    [] t = "receiver" -> IF t \in stop THEN "done" ELSE "receive"
    [] t = "updater" -> IF t \in stop THEN "done" ELSE "sleep"
---------------------------------------------------------------------------

(* Mutant: a command is sent without mutex.wait(). *)
Wait_Free(t) ==
  /\ Goto(t, "wait", "text")
  /\ mutex' = 0
  /\ UNCHANGED <<cmd, nap, mode, stop, session, late>>

(* look, go, fire, say, and the answers of the receiver: mutex.wait(), ... *)
Wait(t) ==
  /\ Goto(t, "wait", "text")
  /\ mutex = 1
  /\ mutex' = 0
  /\ UNCHANGED <<cmd, nap, mode, stop, session, late>>

(* ... the first send of sendText, which waits for room, ... *)
SendText(t) ==
  /\ Goto(t, "text", "eol")
  /\ IF link = "open"
     THEN Len(toServer) < Capacity /\ wire' = Append(wire, cmd[t])
     ELSE UNCHANGED wire
  /\ UNCHANGED <<cmd, nap, mutex, mode, stop, link, toServer, toClient, player, late>>

(* ... the second, and mutex.post().  The server reads up to the end of    *)
(* line, whoever sent what stands before it.                               *)
SendEol(t) ==
  /\ Goto(t, "eol", loop(t))
  /\ mutex' = 1
  /\ cmd' = [cmd EXCEPT ![t] = "none"]
  /\ IF link = "open"
     THEN /\ toServer' = Append(toServer, IF Len(wire) = 1 THEN wire[1] ELSE "garbled")
          /\ wire' = <<>>
     ELSE UNCHANGED <<toServer, wire>>
  /\ UNCHANGED <<nap, mode, stop, link, toClient, player, late>>

Send(t) == Wait(t) \/ SendText(t) \/ SendEol(t)
---------------------------------------------------------------------------

(* t.connect, which may fail unnoticed, and the begin of both threads. *)
Start ==
  /\ running
  /\ pc["main"] = "start"
  /\ link' \in {"open", "down"}
  /\ pc' = [main |-> "keys", receiver |-> loop("receiver"), updater |-> loop("updater")]
  /\ UNCHANGED <<cmd, nap, mutex, mode, stop, wire, toServer, toClient, player, late>>

(* An arrow is ESC [ and a letter, or 224 and a letter: what has come of   *)
(* it by a key.  Only q leaves the mode as it was.                         *)
after(key) ==
  CASE key = "esc" -> IF mode = 0 THEN 1 ELSE 0
    [] key = "[" -> IF mode = 1 THEN 2 ELSE 0
    [] key = "224" -> IF mode = 0 THEN 2 ELSE 0
    [] key = "q" -> mode
    [] OTHER -> 0

Keys == {"esc", "[", "224", "arrow letter", "space", "return", "q", "letter"}

(* The keys that give an order: a step, a shot, or something to say. *)
ordering(key) ==
  key \in {"space", "return"} \cup (IF mode = 2 THEN {"arrow letter"} ELSE {})

Key(key) ==
  /\ mode' = after(key)
  /\ cmd' = [cmd EXCEPT !["main"] = IF ordering(key) THEN "order" ELSE "none"]
  /\ Goto("main", "keys", CASE key = "q" /\ mode = 0 -> "stop"
                            [] ordering(key) -> "wait"
                            [] OTHER -> "keys")
  /\ UNCHANGED <<nap, mutex, stop, session, late>>

(* Mutant: the updater is stopped first. *)
Stop_UpdaterFirst ==
  /\ \/ Goto("main", "stop", "stop updater") /\ stop' = stop \cup {"updater"}
     \/ Goto("main", "stop updater", "leave") /\ stop' = stop \cup {"receiver"}
  /\ nap' = [nap EXCEPT !["main"] = stopNap]
  /\ UNCHANGED <<cmd, mutex, mode, session, late>>

(* stop(): t.setStop(), a second, update_thread.setStop(), a second. *)
Stop ==
  /\ \/ Goto("main", "stop", "stop updater") /\ stop' = stop \cup {"receiver"}
     \/ Goto("main", "stop updater", "leave") /\ stop' = stop \cup {"updater"}
  /\ nap' = [nap EXCEPT !["main"] = stopNap]
  /\ UNCHANGED <<cmd, mutex, mode, session, late>>

Exit ==
  /\ Goto("main", "leave", "exit")
  /\ late' = (late \/ busy("main"))
  /\ UNCHANGED <<cmd, nap, mutex, mode, stop, session>>

(* SIGINT or SIGTERM: NovaInit::init has put its own handler in the place  *)
(* of stop(), and that one exits at once.                                  *)
Interrupt ==
  /\ running
  /\ pc' = [pc EXCEPT !["main"] = "killed"]
  /\ UNCHANGED <<cmd, nap, mutex, mode, stop, session, late>>

Main == Start \/ Stop \/ Exit \/ Interrupt \/ \E key \in Keys : Key(key)
---------------------------------------------------------------------------

(* Mutant: the client waits for the login it never asks for. *)
reply_None(said) == IF said = "login" THEN "look" ELSE "none"

(* What the receiver answers a line with. *)
reply(said) ==
  CASE said = "ready" -> "connect"
    [] said = "login" -> "look"
    [] OTHER -> "none"

(* receiveText returns a line. *)
Receive ==
  LET answer == reply(Head(toClient))
  IN  /\ toClient # <<>>
      /\ Goto("receiver", "receive", IF answer = "none" THEN loop("receiver") ELSE "wait")
      /\ cmd' = [cmd EXCEPT !["receiver"] = answer]
      /\ toClient' = Tail(toClient)
      /\ UNCHANGED <<nap, mutex, mode, stop, link, wire, toServer, player, late>>

(* receiveText returns NULL: no connection, or only half an end of line.   *)
(* The receiver reads on; `done' is never set.                             *)
ReceiveNothing ==
  /\ toClient # <<>> \/ link = "down"
  /\ Goto("receiver", "receive", loop("receiver"))
  /\ UNCHANGED <<cmd, nap, mutex, mode, stop, session, late>>

Sleep ==
  /\ Goto("updater", "sleep", "look")
  /\ nap' = [nap EXCEPT !["updater"] = updaterNap]
  /\ UNCHANGED <<cmd, mutex, mode, stop, session, late>>

Look ==
  /\ Goto("updater", "look", "wait")
  /\ cmd' = [cmd EXCEPT !["updater"] = "look"]
  /\ UNCHANGED <<nap, mutex, mode, stop, session, late>>
---------------------------------------------------------------------------

(* addClient greets. *)
Greet ==
  /\ link = "open" /\ player = "new"
  /\ Len(toClient) < Capacity
  /\ player' = "out"
  /\ toClient' = Append(toClient, "ready")
  /\ UNCHANGED <<threads, link, wire, toServer, late>>

(* Player::apply: who is not in the game gets no answer but to a connect;  *)
(* nor do we need to tell apart what the client does not look at.          *)
Serve ==
  LET answer(said) == toClient' = Append(toClient, said)
      asked == Head(toServer)
  IN  /\ link = "open" /\ player # "new"
      /\ toServer # <<>>
      /\ toServer' = Tail(toServer)
      /\ IF player = "in" \/ asked \in {"connect", "garbled"}
         THEN Len(toClient) < Capacity
         ELSE TRUE
      /\ \/ asked = "connect" /\ player = "out" /\ player' = "in" /\ answer("login")
         \/ asked = "connect" /\ player' = (IF player = "out" THEN "refused" ELSE player) /\ answer("other")
         \/ asked = "look" /\ player = "in" /\ answer("look") /\ UNCHANGED player
         \/ asked = "order" /\ player = "in" /\ answer("other") /\ UNCHANGED player
         \/ asked = "garbled" /\ answer("other") /\ UNCHANGED player
         \/ asked \notin {"connect", "garbled"} /\ player # "in" /\ UNCHANGED <<toClient, player>>
      /\ UNCHANGED <<threads, link, wire, late>>

(* The dead are not answered when they give an order (Player::move, fire), *)
(* nor who fires before a first step has given it a direction.             *)
Ignore ==
  /\ link = "open" /\ player = "in"
  /\ toServer # <<>>
  /\ Head(toServer) = "order"
  /\ toServer' = Tail(toServer)
  /\ UNCHANGED <<threads, link, wire, toClient, player, late>>

(* Somebody says something; addClient binds a client before it greets it.  *)
Broadcast ==
  /\ link = "open"
  /\ Len(toClient) < Capacity
  /\ toClient' = Append(toClient, "other")
  /\ UNCHANGED <<threads, link, wire, toServer, player, late>>

(* The server takes a NULL for the end, or its process ends. *)
HangUp ==
  /\ link = "open"
  /\ link' = "down"
  /\ UNCHANGED <<threads, wire, toServer, toClient, player, late>>

Server == Greet \/ Serve
---------------------------------------------------------------------------

(* A quarter of a second passes. *)
Tick ==
  /\ running
  /\ \E t \in Threads : nap[t] > 0
  /\ nap' = [t \in Threads |-> IF nap[t] > 0 THEN nap[t] - 1 ELSE 0]
  /\ late' = (late \/ \E t \in Threads : busy(t))
  /\ UNCHANGED <<pc, cmd, mutex, mode, stop, session>>

Receiver == Receive \/ ReceiveNothing \/ Send("receiver")
Updater == Sleep \/ Look \/ Send("updater")

Next ==
  \/ Main \/ Send("main") \/ Receiver \/ Updater
  \/ Server \/ Ignore \/ Broadcast \/ HangUp
  \/ Tick

Spec == Init /\ [][Next]_vars

(* Threads, the server and the clock go on, and a line that comes again    *)
(* and again is read.  A semaphore may starve nobody.  Users owe nothing,  *)
(* and nobody is owed to be dead.                                          *)
FairSpec ==
  /\ Spec
  /\ WF_vars(Start \/ Stop \/ Exit) /\ WF_vars(Tick) /\ SF_vars(Server)
  /\ WF_vars(Sleep \/ Look) /\ SF_vars(Receive)
  /\ \A t \in Threads : SF_vars(Send(t))
---------------------------------------------------------------------------

TypeOK ==
  /\ pc \in [Threads -> {"start", "keys", "stop", "stop updater", "leave", "exit",
                         "killed", "off", "receive", "sleep", "look", "done",
                         "wait", "text", "eol"}]
  /\ cmd \in [Threads -> {"none", "connect", "look", "order"}]
  /\ nap \in [Threads -> 0 .. stopNap]
  /\ mutex \in 0 .. 1
  /\ mode \in 0 .. 2
  /\ stop \subseteq Threads
  /\ link \in {"none", "open", "down"}
  /\ wire \in Seq({"connect", "look", "order"})
  /\ toServer \in Seq({"connect", "look", "order", "garbled"})
  /\ toClient \in Seq({"ready", "login", "look", "other"})
  /\ player \in {"new", "out", "in", "refused"}
  /\ late \in BOOLEAN

(* The server never gets a line that nobody sent, though each is two sends *)
(* and three threads send.                                                 *)
CommandsAreWhole ==
  /\ \A k \in DOMAIN toServer : toServer[k] # "garbled"
  /\ Len(wire) <= 1

(* A thread has the semaphore and waits for room on the connection; the    *)
(* receiver is that thread, or waits for it, and so reads nothing; and the *)
(* server waits for the receiver.  Both directions are full.               *)
jammed ==
  /\ Len(toServer) = Capacity /\ Len(toClient) = Capacity
  /\ pc["receiver"] \in {"wait", "text"}
  /\ \E t \in Threads : pc[t] = "text"

(* stop() joins nobody, but by the time it exits the receiver has ended:   *)
(* the updater, told a second later, goes on to look, and the answers wake *)
(* the receiver.  It takes a client that is in the game, and threads that  *)
(* are not late.                                                           *)
StopIsOrderly ==
  pc["main"] = "exit" =>
    pc["receiver"] = "done" \/ player # "in" \/ jammed \/ late

(* Who connects is shown the arena: greeted, it logs in, and what it looks *)
(* for comes, unless there is no room for it or the session ends before.   *)
ArenaIsShown ==
  link = "open" ~>
    \/ Len(toClient) > 0 /\ Head(toClient) = "look" /\ pc["receiver"] = "receive"
    \/ player = "refused" \/ link = "down"
    \/ jammed \/ stop # {} \/ ~running

============================================================================

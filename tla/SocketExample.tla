-------------------------- MODULE SocketExample ---------------------------
(***************************************************************************)
(* socker_client_server/main.cpp: a server thread and a client thread that *)
(* talk over a socket, and a main thread that starts both and tells them   *)
(* to end, the client first.                                               *)
(*                                                                         *)
(* Its sleeps order nothing here: a thread that sleeps is one that is slow.*)
(* So the client may come before the server listens, which the sleep of a  *)
(* second in main is to prevent and may not.                               *)
(***************************************************************************)
EXTENDS Integers, Sequences

CONSTANTS
  Letters,  \* the letters the client goes through: 26
  WireSize  \* the characters a connection holds before a send blocks

ASSUME SocketAssumption ==
  /\ Letters \in Nat \ {0}
  /\ WireSize \in Nat /\ WireSize >= 2

VARIABLES
  stage,      \* where each thread is
  ending,     \* the threads that isEnding() tells to stop
  listening,  \* the server has an acceptor that listens
  link,       \* the client's connection: none, in the backlog, or accepted
  letter,     \* the letter the client is at
  sent,       \* the characters sent and not received
  data        \* what the server received last

socketVars == <<stage, ending, listening, link, letter, sent, data>>

Workers == {"server", "client"}

(* A pair is a capital and a small letter, or 'q' and '!'.                 *)
Quit == 0
capital(k) == [of |-> k, part |-> 1]
small(k) == [of |-> k, part |-> 2]
pair(k) == <<capital(k), small(k)>>
Signs == [of : 0 .. Letters, part : {1, 2}]

next(k) == (k % Letters) + 1

MainLabels == {"start server", "start client", "end client", "join client",
               "end server", "join server", "exit"}
ServerLabels == {"off", "loop", "begin", "accept", "check", "receive", "leave", "done"}
ClientLabels == {"off", "connect", "check", "send", "quit", "done"}

(* The types; receive gathers at most the two characters of a pair. *)
SocketTypeOK ==
  /\ stage \in [main : MainLabels, server : ServerLabels, client : ClientLabels]
  /\ ending \subseteq Workers
  /\ listening \in BOOLEAN
  /\ link \in {"none", "backlog", "open"}
  /\ letter \in 1 .. Letters
  /\ sent \in Seq(Signs)
  /\ Len(sent) <= WireSize
  /\ data \in Seq(Signs)
  /\ Len(data) <= 2

SocketInit ==
  /\ stage = [main |-> "start server", server |-> "off", client |-> "off"]
  /\ ending = {}
  /\ listening = FALSE
  /\ link = "none"
  /\ letter = 1
  /\ sent = <<>>
  /\ data = <<>>

Goto(t, from, label) == stage[t] = from /\ stage' = [stage EXCEPT ![t] = label]

---------------------------------------------------------------------------

(* The head of the server's loop: memset clears data. *)
Loop ==
  /\ Goto("server", "loop", IF "server" \in ending THEN "done" ELSE "begin")
  /\ data' = IF "server" \in ending THEN data ELSE <<>>
  /\ UNCHANGED <<ending, listening, link, letter, sent>>

(* NovaServer::begin, again and again until the port can be had.  It       *)
(* deletes the acceptor it had; nobody is in the backlog of that one.      *)
Begin ==
  /\ \/ Goto("server", "begin", "accept") /\ listening' = TRUE
     \/ stage["server"] = "begin" /\ listening' = FALSE /\ UNCHANGED stage
  /\ UNCHANGED <<ending, link, letter, sent, data>>

Accept ==
  /\ link = "backlog"
  /\ Goto("server", "accept", "check")
  /\ link' = "open"
  /\ UNCHANGED <<ending, listening, letter, sent, data>>

(* The head of the inner loop. *)
Check ==
  /\ Goto("server", "check",
          IF "server" \in ending \/ data = pair(Quit) THEN "leave" ELSE "receive")
  /\ UNCHANGED <<ending, listening, link, letter, sent, data>>

(* Mutant: a piece that is not a whole pair is gone on with. *)
ReceivePair_Piece ==
  /\ \E n \in {1, 2} :
       /\ n <= Len(sent)
       /\ data' = SubSeq(sent, 1, n)
       /\ sent' = SubSeq(sent, n + 1, Len(sent))
       /\ Goto("server", "receive", "check")
  /\ UNCHANGED <<ending, listening, link, letter>>

(* receive waits for a character and returns one, or two if there are; of  *)
(* one alone the second place keeps what it had, but nobody reads it.      *)
ReceivePair ==
  /\ \E n \in {1, 2} :
       /\ n <= Len(sent)
       /\ data' = SubSeq(sent, 1, n)
       /\ sent' = SubSeq(sent, n + 1, Len(sent))
       /\ Goto("server", "receive", IF n = 2 THEN "check" ELSE "leave")
  /\ UNCHANGED <<ending, listening, link, letter>>

(* Told to stop, by the client or by main; else the server starts over.    *)
Leave ==
  /\ Goto("server", "leave",
          IF "server" \in ending \/ data = pair(Quit) THEN "done" ELSE "loop")
  /\ UNCHANGED <<ending, listening, link, letter, sent, data>>

Server == Loop \/ Begin \/ Accept \/ Check \/ ReceivePair \/ Leave

---------------------------------------------------------------------------

(* connect, whose failure nobody asks for. *)
Connect ==
  /\ Goto("client", "connect", "check")
  /\ link' = IF listening THEN "backlog" ELSE "none"
  /\ UNCHANGED <<ending, listening, letter, sent, data>>

(* NovaClient::send: without a connection nothing happens. *)
send(cs) ==
  IF link = "none"
  THEN UNCHANGED sent
  ELSE sent' = sent \o cs /\ Len(sent') <= WireSize

CheckClient ==
  /\ Goto("client", "check", IF "client" \in ending THEN "quit" ELSE "send")
  /\ UNCHANGED <<ending, listening, link, letter, sent, data>>

Send ==
  /\ Goto("client", "send", "check")
  /\ letter' = next(letter)
  /\ send(pair(next(letter)))
  /\ UNCHANGED <<ending, listening, link, data>>

(* Mutant: the client ends without a word. *)
SendQuit_Silent ==
  /\ Goto("client", "quit", "done")
  /\ UNCHANGED <<ending, listening, link, letter, sent, data>>

SendQuit ==
  /\ Goto("client", "quit", "done")
  /\ send(pair(Quit))
  /\ UNCHANGED <<ending, listening, link, letter, data>>

Client == Connect \/ CheckClient \/ Send \/ SendQuit

---------------------------------------------------------------------------

(* s.begin() and, a while later, c.begin(). *)
Start ==
  /\ \/ /\ stage["main"] = "start server"
        /\ stage' = [stage EXCEPT !["main"] = "start client", !["server"] = "loop"]
     \/ /\ stage["main"] = "start client"
        /\ stage' = [stage EXCEPT !["main"] = "end client", !["client"] = "connect"]
  /\ UNCHANGED <<ending, listening, link, letter, sent, data>>

(* NovaThread::end: the thread is told to stop, and joined. *)
End ==
  /\ \/ Goto("main", "end client", "join client") /\ ending' = ending \cup {"client"}
     \/ Goto("main", "end server", "join server") /\ ending' = ending \cup {"server"}
  /\ UNCHANGED <<listening, link, letter, sent, data>>

Join ==
  /\ \/ Goto("main", "join client", "end server") /\ stage["client"] = "done"
     \/ Goto("main", "join server", "exit") /\ stage["server"] = "done"
  /\ UNCHANGED <<ending, listening, link, letter, sent, data>>

Main == Start \/ End \/ Join

SocketNext == Main \/ Server \/ Client

(* Threads run, and the port can be had some day. *)
SocketSpec ==
  /\ SocketInit /\ [][SocketNext]_socketVars
  /\ WF_socketVars(Main) /\ WF_socketVars(Server) /\ WF_socketVars(Client)
  /\ SF_socketVars(Begin /\ listening')

---------------------------------------------------------------------------

(* The pairs the server takes for whole are pairs of the client, none is   *)
(* missing and none comes twice: once a pair was cut on the way the server *)
(* never reads on in the middle of the next.                               *)
PairsInOrder ==
  [][data' # data /\ Len(data') = 2 =>
       \E k \in 0 .. Letters :
         /\ data' = pair(k)
         /\ k # Quit => \/ data = <<>> /\ k = next(1)
                        \/ data # <<>> /\ k = next(data[1].of)]_socketVars

(* The program ends if the client came when the server listened and no     *)
(* pair was cut on the way.  Without the first the server waits in accept  *)
(* for ever; without the second it starts over and does the same, and a    *)
(* client with a full connection waits in send.                            *)
ProgramEnds ==
  /\ <>(link # "none")
  /\ [](Len(data) # 1)
  => <>(stage["main"] = "exit")

===========================================================================

--------------------------- MODULE TelnetSession ---------------------------
(***************************************************************************)
(* telnet_client/main.cpp, any number of them at once, talking to          *)
(* echo_server: the client connects to port 9999 of its own host, which is *)
(* the echo server's.                                                      *)
(*                                                                         *)
(* A client is two threads, a prompt that sends what is typed and a reader *)
(* that prints what comes back, and one semaphore.  It starts at 0 and is  *)
(* posted when the connection stands; then it keeps the two from using the *)
(* terminal and the connection at once.  Lines are numbered as typed; that *)
(* the prompt glues two or three words of some commands is left out.       *)
(***************************************************************************)
EXTENDS EchoServer

CONSTANT MaxLines  \* the bound of the model on the lines each user types

ASSUME SessionAssumption == MaxLines \in [Peers -> Nat]

VARIABLES
  main,     \* where main is
  reader,   \* where Client::main is
  mutex,    \* Client::mutex
  link,     \* the connection: "none" yet, "open" or "refused"
  typed,    \* the lines given to send
  line,     \* what the reader's receiveText returned
  printed   \* the lines on the terminal

local == <<main, reader, mutex, link, typed, line, printed>>
vars == <<slots, wires, local>>

(* Mutant: the semaphore starts at one. *)
gate_Open == 1

(* Client::Client. *)
gate == 0

Init ==
  /\ InitServer
  /\ backlog = <<>>
  /\ gone = {}
  /\ toServer = [p \in Peers |-> <<>>]
  /\ toClient = [p \in Peers |-> <<>>]
  /\ main = [p \in Peers |-> "begin"]
  /\ reader = [p \in Peers |-> "off"]
  /\ mutex = [p \in Peers |-> gate]
  /\ link = [p \in Peers |-> "none"]
  /\ typed = [p \in Peers |-> 0]
  /\ line = [p \in Peers |-> NoText]
  /\ printed = [p \in Peers |-> <<>>]

(* The process has not ended, and with it all of its threads. *)
runs(p) == main[p] # "exit"
---------------------------------------------------------------------------

(* c.begin() *)
Start(p) ==
  /\ main[p] = "begin"
  /\ main' = [main EXCEPT ![p] = "prompt"]
  /\ reader' = [reader EXCEPT ![p] = "connect"]
  /\ UNCHANGED <<slots, wires, mutex, link, typed, line, printed>>

(* A line is typed. *)
Type(p) ==
  /\ main[p] = "prompt"
  /\ typed[p] < MaxLines[p]
  /\ typed' = [typed EXCEPT ![p] = @ + 1]
  /\ main' = [main EXCEPT ![p] = "lock"]
  /\ UNCHANGED <<slots, wires, reader, mutex, link, line, printed>>

(* mutex.wait() in send. *)
Lock(p) ==
  /\ main[p] = "lock"
  /\ mutex[p] = 1
  /\ mutex' = [mutex EXCEPT ![p] = 0]
  /\ main' = [main EXCEPT ![p] = "send"]
  /\ UNCHANGED <<slots, wires, reader, link, typed, line, printed>>

(* sendText and mutex.post().  Without a connection it fails, unnoticed;   *)
(* with one it waits for room.                                             *)
Send(p) ==
  /\ main[p] = "send"
  /\ \/ link[p] # "open" /\ UNCHANGED toServer
     \/ /\ link[p] = "open"
        /\ Len(toServer[p]) < Capacity
        /\ toServer' = [toServer EXCEPT ![p] = Append(@, typed[p])]
  /\ mutex' = [mutex EXCEPT ![p] = 1]
  /\ main' = [main EXCEPT ![p] = "prompt"]
  /\ UNCHANGED <<slots, backlog, gone, toClient, reader, link, typed, line, printed>>

(* A word that begins with q: c.end(0) tells the reader to stop and does   *)
(* not wait for it.                                                        *)
Quit(p) ==
  /\ main[p] = "prompt"
  /\ main' = [main EXCEPT ![p] = "ending"]
  /\ UNCHANGED <<slots, wires, reader, mutex, link, typed, line, printed>>

(* The process ends, at any time: the handler NovaInit installs for SIGINT *)
(* exits.                                                                  *)
Exit(p) ==
  /\ runs(p)
  /\ main' = [main EXCEPT ![p] = "exit"]
  /\ gone' = gone \cup {p}
  /\ UNCHANGED <<slots, backlog, toServer, toClient, reader, mutex, link, typed, line, printed>>
(* main returns. *)
Return(p) == main[p] = "ending" /\ Exit(p)
---------------------------------------------------------------------------

(* client.connect, which succeeds once the server listens, accepted or     *)
(* not, and whose result nobody looks at; then mutex.post() and the test   *)
(* of isEnding.                                                            *)
Connect(p) ==
  /\ reader[p] = "connect" /\ runs(p)
  /\ IF listening
     THEN /\ link' = [link EXCEPT ![p] = "open"]
          /\ backlog' = Append(backlog, p)
     ELSE /\ link' = [link EXCEPT ![p] = "refused"]
          /\ UNCHANGED backlog
  /\ mutex' = [mutex EXCEPT ![p] = @ + 1]
  /\ reader' = [reader EXCEPT ![p] = IF main[p] = "ending" THEN "done" ELSE "receive"]
  /\ UNCHANGED <<slots, gone, toServer, toClient, main, typed, line, printed>>

(* receiveText returns a line. *)
Hear(p) ==
  /\ reader[p] = "receive" /\ runs(p)
  /\ toClient[p] # <<>>
  /\ line' = [line EXCEPT ![p] = Head(toClient[p])]
  /\ toClient' = [toClient EXCEPT ![p] = Tail(@)]
  /\ reader' = [reader EXCEPT ![p] = "print"]
  /\ UNCHANGED <<slots, backlog, gone, toServer, main, mutex, link, typed, printed>>

(* receiveText returns NULL, at once without a connection, and with one    *)
(* when a line has arrived up to its CR; the reader goes on either way.    *)
HearNothing(p) ==
  /\ reader[p] = "receive" /\ runs(p)
  /\ link[p] = "refused" \/ toClient[p] # <<>>
  /\ line' = [line EXCEPT ![p] = NoText]
  /\ reader' = [reader EXCEPT ![p] = "print"]
  /\ UNCHANGED <<slots, wires, main, mutex, link, typed, printed>>

(* Mutant: no post behind the print. *)
Show_Unposted(p) ==
  /\ reader[p] = "print" /\ runs(p)
  /\ mutex[p] = 1
  /\ mutex' = [mutex EXCEPT ![p] = 0]
  /\ printed' = [printed EXCEPT ![p] = IF line[p] = NoText THEN @ ELSE Append(@, line[p])]
  /\ line' = [line EXCEPT ![p] = NoText]
  /\ reader' = [reader EXCEPT ![p] = IF main[p] = "ending" THEN "done" ELSE "receive"]
  /\ UNCHANGED <<slots, wires, main, link, typed>>

(* mutex.wait(), the line, mutex.post(), and the test of isEnding. *)
Show(p) ==
  /\ reader[p] = "print" /\ runs(p)
  /\ mutex[p] = 1
  /\ printed' = [printed EXCEPT ![p] = IF line[p] = NoText THEN @ ELSE Append(@, line[p])]
  /\ line' = [line EXCEPT ![p] = NoText]
  /\ reader' = [reader EXCEPT ![p] = IF main[p] = "ending" THEN "done" ELSE "receive"]
  /\ UNCHANGED <<slots, wires, main, mutex, link, typed>>

Prompt(p) == Start(p) \/ Type(p) \/ Lock(p) \/ Send(p) \/ Quit(p) \/ Exit(p)

Reader(p) == Connect(p) \/ Hear(p) \/ HearNothing(p) \/ Show(p)

Next ==
  \/ Server /\ UNCHANGED local
  \/ \E p \in Peers : Prompt(p) \/ Reader(p)

Spec == Init /\ [][Next]_vars

(* Threads run.  Users owe nothing, not even an end.  A line is cut        *)
(* between CR and LF once at most, so that who calls receiveText again and *)
(* again gets it (TelnetLine).                                             *)
FairSpec ==
  /\ Spec
  /\ WF_vars(Acceptor /\ UNCHANGED local)
  /\ \A s \in Slots : WF_vars(Thread(s) /\ UNCHANGED local)
  /\ \A p \in Peers : /\ WF_vars(Lock(p)) /\ WF_vars(Send(p)) /\ WF_vars(Return(p))
                      /\ WF_vars(Reader(p)) /\ SF_vars(Hear(p))
---------------------------------------------------------------------------

TypeOK ==
  /\ acceptor \in [step : {"begin", "scan", "accept", "exit"}, at : Slots]
  /\ active \subseteq clients /\ clients \subseteq Slots
  /\ thread \in [Slots -> {"off", "receive", "send"}]
  /\ peer \in [Slots -> Peers \cup {Nobody}]
  /\ text \in [Slots -> Nat \cup {NoText}]
  /\ handles \in Nat
  /\ backlog \in Seq(Peers)
  /\ gone \subseteq Peers
  /\ toServer \in [Peers -> Seq(Nat)]
  /\ toClient \in [Peers -> Seq(Nat)]
  /\ main \in [Peers -> {"begin", "prompt", "lock", "send", "ending", "exit"}]
  /\ reader \in [Peers -> {"off", "connect", "receive", "print", "done"}]
  /\ mutex \in [Peers -> 0 .. 1]
  /\ link \in [Peers -> {"none", "open", "refused"}]
  /\ typed \in [Peers -> Nat]
  /\ line \in [Peers -> Nat \cup {NoText}]
  /\ printed \in [Peers -> Seq(Nat)]

(* The threads that serve a peer, and the line they are about to return. *)
serving(p) == {s \in Slots : thread[s] # "off" /\ peer[s] = p}
inHand(p) ==
  IF \E s \in serving(p) : text[s] # NoText
  THEN <<text[CHOOSE s \in serving(p) : text[s] # NoText]>>
  ELSE <<>>

(* The lines given to send and sent. *)
sent(p) == [k \in 1 .. typed[p] - (IF main[p] \in {"lock", "send"} THEN 1 ELSE 0) |-> k]

(* However the threads interleave, a client that got its connection finds  *)
(* every line it sent on the way, at the server, on the way back or on the *)
(* terminal, in the order typed and once; also one typed before the        *)
(* connection stood, and one the server will never look at.                *)
NothingIsLost ==
  \A p \in Peers \ gone : link[p] = "open" =>
    printed[p] \o (IF line[p] = NoText THEN <<>> ELSE <<line[p]>>)
      \o toClient[p] \o inHand(p) \o toServer[p] = sent(p)

(* A connection that waits does not go on waiting while a slot has no      *)
(* thread, whoever had it before, unless the handles are used up.          *)
WaitingIsServed ==
  \A p \in Peers :
    (\E k \in DOMAIN backlog : backlog[k] = p) /\ (\E s \in Slots : thread[s] = "off")
    ~> \/ \A k \in DOMAIN backlog : backlog[k] # p
       \/ \A s \in Slots : thread[s] # "off"
       \/ handles = 0

(* Everyone waits for everyone: main for room on the connection, with the  *)
(* semaphore taken; the reader for the semaphore; the server for room on   *)
(* the way back.  It takes both buffers of the connection to be full.      *)
jammed(p) ==
  /\ main[p] = "send" /\ reader[p] = "print"
  /\ Len(toServer[p]) = Capacity /\ Len(toClient[p]) = Capacity

(* Every line is printed some day, unless the server gives the client up   *)
(* (for NULL, or because it is gone) or both sides are jammed.             *)
Answered ==
  \A p \in Peers : \A k \in 1 .. MaxLines[p] :
    serving(p) # {} /\ Len(sent(p)) >= k
    ~> Len(printed[p]) >= k \/ serving(p) = {} \/ jammed(p)

============================================================================

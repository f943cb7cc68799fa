---------------------------- MODULE EchoServer -----------------------------
(***************************************************************************)
(* echo_server/main.cpp: a thread that accepts connections into the slots  *)
(* of clients[], and a thread per connection that sends every line back.   *)
(* There is no lock: `active' is all the two tell each other.              *)
(*                                                                         *)
(* A line is a number.  The sockets are the two queues toServer, with what *)
(* receiveText has buffered, and toClient; the peers who use their other   *)
(* ends are in TelnetSession.  Deleting a ClientThread does not close its  *)
(* connection (NovaClientHelper::close is never called, and the destructor *)
(* of an ACE stream does not call its own), so that handles are used up.   *)
(***************************************************************************)
EXTENDS Integers, Sequences

CONSTANTS
  MAX_CLIENTS,  \* the slots of clients[]: 100
  Handles,      \* what the system may let the process hold open
  Capacity,     \* the lines the kernel buffers of a connection in one direction
  Peers,        \* the processes that connect
  Nobody,       \* the peer of a thread whose accept failed
  NoText        \* receiveText's NULL, and no text to send

ASSUME EchoAssumption ==
  /\ MAX_CLIENTS \in Nat \ {0}
  /\ Handles \subseteq Nat
  /\ Capacity \in Nat \ {0}
  /\ Nobody \notin Peers
  /\ NoText \notin Nat

VARIABLES
  acceptor,  \* runServer: what it does next, and with which slot
  clients,   \* the slots that hold a ClientThread
  active,    \* the slots whose thread is, or is about to be, at work
  thread,    \* where the thread of a slot is
  peer,      \* the connection it serves
  text,      \* the line it sends back
  handles,   \* the connections the process may still open
  backlog,   \* the connections the kernel holds for accept
  gone,      \* the peers whose process has ended
  toServer,
  toClient

slots == <<acceptor, clients, active, thread, peer, text, handles>>
wires == <<backlog, gone, toServer, toClient>>

Slots == 0 .. MAX_CLIENTS - 1

InitServer ==
  /\ acceptor = [step |-> "begin", at |-> 0]
  /\ clients = {}
  /\ active = {}
  /\ thread = [s \in Slots |-> "off"]
  /\ peer = [s \in Slots |-> Nobody]
  /\ text = [s \in Slots |-> NoText]
  /\ handles \in Handles

listening == acceptor.step \in {"scan", "accept"}
---------------------------------------------------------------------------

(* NovaServer::begin; when the port is taken the server exits. *)
Begin ==
  /\ acceptor.step = "begin"
  /\ acceptor' \in [step : {"scan", "exit"}, at : {0}]
  /\ UNCHANGED <<clients, active, thread, peer, text, handles, wires>>

(* Mutant: a slot once taken is never given back. *)
Scan_Keep ==
  LET i == acceptor.at
  IN  /\ acceptor.step = "scan"
      /\ IF i \in clients
         THEN /\ acceptor' = [acceptor EXCEPT !.at = (i + 1) % MAX_CLIENTS]
              /\ UNCHANGED <<clients, active>>
         ELSE /\ acceptor' = [acceptor EXCEPT !.step = "accept"]
              /\ clients' = clients \cup {i}
              /\ active' = active \cup {i}
      /\ UNCHANGED <<thread, peer, text, handles, wires>>

(* One turn of the loop over the slots: the one whose thread is at work is *)
(* passed over, any other gets a fresh ClientThread, active from before    *)
(* the accept.  Behind the last slot the loop begins again, at once.       *)
Scan ==
  LET i == acceptor.at
  IN  /\ acceptor.step = "scan"
      /\ IF i \in clients /\ i \in active
         THEN /\ acceptor' = [acceptor EXCEPT !.at = (i + 1) % MAX_CLIENTS]
              /\ UNCHANGED <<clients, active>>
         ELSE /\ acceptor' = [acceptor EXCEPT !.step = "accept"]
              /\ clients' = clients \cup {i}
              /\ active' = active \cup {i}
      /\ UNCHANGED <<thread, peer, text, handles, wires>>

(* server.accept and begin().  With no handle left the accept fails, which *)
(* NovaServer does not report, and the thread begins without a peer.       *)
Accept ==
  /\ acceptor.step = "accept"
  /\ acceptor' = [step |-> "scan", at |-> 0]
  /\ thread' = [thread EXCEPT ![acceptor.at] = "receive"]
  /\ \/ /\ handles > 0
        /\ backlog # <<>>
        /\ peer' = [peer EXCEPT ![acceptor.at] = Head(backlog)]
        /\ backlog' = Tail(backlog)
        /\ handles' = handles - 1
     \/ /\ handles = 0
        /\ peer' = [peer EXCEPT ![acceptor.at] = Nobody]
        /\ UNCHANGED <<backlog, handles>>
  /\ UNCHANGED <<clients, active, text, gone, toServer, toClient>>

Acceptor == Begin \/ Scan \/ Accept
---------------------------------------------------------------------------

(* receiveText returns a line. *)
Receive(s) ==
  /\ thread[s] = "receive"
  /\ peer[s] \in Peers
  /\ toServer[peer[s]] # <<>>
  /\ text' = [text EXCEPT ![s] = Head(toServer[peer[s]])]
  /\ toServer' = [toServer EXCEPT ![peer[s]] = Tail(@)]
  /\ thread' = [thread EXCEPT ![s] = "send"]
  /\ UNCHANGED <<acceptor, clients, active, peer, handles, backlog, gone, toClient>>

(* receiveText returns NULL: there is no connection, or its peer is gone,  *)
(* or a line has arrived up to its CR.  The thread takes either for the    *)
(* end; the connection stays.                                              *)
GiveUp(s) ==
  /\ thread[s] = "receive"
  /\ peer[s] \in Peers \ gone => toServer[peer[s]] # <<>>
  /\ active' = active \ {s}
  /\ thread' = [thread EXCEPT ![s] = "off"]
  /\ UNCHANGED <<acceptor, clients, peer, text, handles, wires>>

(* client.sendText waits for room, and fails when the peer is gone. *)
Echo(s) ==
  /\ thread[s] = "send"
  /\ \/ peer[s] \in gone /\ UNCHANGED toClient
     \/ /\ peer[s] \notin gone
        /\ Len(toClient[peer[s]]) < Capacity
        /\ toClient' = [toClient EXCEPT ![peer[s]] = Append(@, text[s])]
  /\ text' = [text EXCEPT ![s] = NoText]
  /\ thread' = [thread EXCEPT ![s] = "receive"]
  /\ UNCHANGED <<acceptor, clients, active, peer, handles, backlog, gone, toServer>>

Thread(s) == Receive(s) \/ GiveUp(s) \/ Echo(s)

Server == Acceptor \/ \E s \in Slots : Thread(s)

============================================================================

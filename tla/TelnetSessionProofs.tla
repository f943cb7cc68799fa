----------------------- MODULE TelnetSessionProofs ------------------------
(***************************************************************************)
(* The telnet clients and the echo server of TelnetSession, for any number *)
(* of clients, slots and handles: no line is lost, doubled or overtaken.   *)
(***************************************************************************)
EXTENDS TelnetSession, SequenceTheorems, TLAPS

(* A slot has a thread only while it is active, and the acceptor is about  *)
(* to begin one where there is none.                                       *)
SlotsFit ==
  /\ \A s \in Slots : thread[s] # "off" => s \in active
  /\ acceptor.step = "accept" => thread[acceptor.at] = "off" /\ acceptor.at \in active

(* A thread has a line in hand from the receiveText to the sendText, and   *)
(* then it has a peer.                                                     *)
TextFits ==
  \A s \in Slots :
    /\ text[s] # NoText <=> thread[s] = "send"
    /\ thread[s] = "send" => peer[s] \in Peers

(* No two threads serve one peer, and none serves a peer who still waits. *)
ServedOnce ==
  /\ \A s, t \in Slots :
       thread[s] # "off" /\ thread[t] # "off" /\ peer[s] = peer[t] /\ peer[s] \in Peers => s = t
  /\ \A s \in Slots, k \in 1 .. Len(backlog) : thread[s] # "off" => peer[s] # backlog[k]
  /\ \A k, l \in 1 .. Len(backlog) : backlog[k] = backlog[l] => k = l

(* Nothing comes of a client without a connection. *)
OnlyConnected ==
  \A p \in Peers : link[p] # "open" =>
    /\ \A s \in Slots : thread[s] # "off" => peer[s] # p
    /\ \A k \in 1 .. Len(backlog) : backlog[k] # p
    /\ toServer[p] = <<>> /\ toClient[p] = <<>> /\ printed[p] = <<>> /\ line[p] = NoText

(* The semaphore holds main back until the reader has called connect. *)
Gated ==
  \A p \in Peers :
    /\ link[p] = "none" <=> reader[p] \in {"off", "connect"}
    /\ link[p] = "none" =>
         /\ mutex[p] = 0 /\ main[p] # "send"
         /\ main[p] # "exit" => typed[p] = IF main[p] = "lock" THEN 1 ELSE 0
    /\ main[p] = "begin" => reader[p] = "off"

(* The two threads of a client, and its end. *)
ClientFits ==
  \A p \in Peers :
    /\ main[p] = "exit" <=> p \in gone
    /\ main[p] \in {"lock", "send"} => typed[p] > 0
    /\ main[p] = "send" => mutex[p] = 0
    /\ reader[p] # "print" => line[p] = NoText

IInv ==
  /\ TypeOK /\ SlotsFit /\ TextFits /\ ServedOnce
  /\ OnlyConnected /\ Gated /\ ClientFits /\ NothingIsLost

---------------------------------------------------------------------------

(* What moves from one end of a stretch of the way to the other. *)
LEMMA HeadAndTail ==
  ASSUME NEW s \in Seq(Nat), s # <<>>
  PROVE  Head(s) \in Nat /\ Tail(s) \in Seq(Nat) /\ s = <<Head(s)>> \o Tail(s)
<1>1. Head(s) \in Nat /\ Tail(s) \in Seq(Nat) /\ Len(Tail(s)) = Len(s) - 1
  BY HeadTailProperties
<1>2. \A i \in 1 .. Len(Tail(s)) : Tail(s)[i] = s[i + 1]
  BY HeadTailProperties
<1>3. <<Head(s)>> \in Seq(Nat) /\ Len(<<Head(s)>>) = 1 /\ <<Head(s)>>[1] = Head(s)
  BY <1>1
<1>4. /\ <<Head(s)>> \o Tail(s) \in Seq(Nat)
      /\ Len(<<Head(s)>> \o Tail(s)) = 1 + Len(Tail(s))
      /\ \A i \in 1 .. 1 + Len(Tail(s)) :
           (<<Head(s)>> \o Tail(s))[i] = IF i <= 1 THEN <<Head(s)>>[i] ELSE Tail(s)[i - 1]
  BY <1>1, <1>3, ConcatProperties
<1>5. Len(s) \in Nat /\ Len(s) > 0 /\ Head(s) = s[1]
  BY EmptySeq, LenProperties
<1>6. \A i \in 1 .. Len(s) : (<<Head(s)>> \o Tail(s))[i] = s[i]
  BY <1>1, <1>2, <1>3, <1>4, <1>5
<1>. QED
  BY <1>1, <1>4, <1>5, <1>6, SeqEqual

LEMMA MoveReceived ==
  ASSUME NEW a \in Seq(Nat), NEW s \in Seq(Nat), s # <<>>
  PROVE  (a \o <<>>) \o s = (a \o <<Head(s)>>) \o Tail(s)
<1>1. Head(s) \in Nat /\ Tail(s) \in Seq(Nat) /\ s = <<Head(s)>> \o Tail(s)
  BY HeadAndTail
<1>2. <<Head(s)>> \in Seq(Nat)
  BY <1>1
<1>3. (a \o <<Head(s)>>) \o Tail(s) = a \o (<<Head(s)>> \o Tail(s))
  BY <1>1, <1>2, ConcatAssociative
<1>4. a \o <<>> = a
  BY ConcatEmptySeq
<1>. QED
  BY <1>1, <1>3, <1>4, Zenon

LEMMA MoveAppended ==
  ASSUME NEW b \in Seq(Nat), NEW c \in Seq(Nat), NEW x \in Nat
  PROVE  (b \o c) \o <<x>> = (b \o Append(c, x)) \o <<>>
<1>1. Append(c, x) = c \o <<x>> /\ Append(c, x) \in Seq(Nat)
  BY AppendIsConcat, AppendProperties
<1>2. <<x>> \in Seq(Nat) /\ b \o Append(c, x) \in Seq(Nat)
  BY <1>1, ConcatProperties
<1>3. (b \o c) \o <<x>> = b \o (c \o <<x>>)
  BY <1>2, ConcatAssociative
<1>4. (b \o Append(c, x)) \o <<>> = b \o Append(c, x)
  BY <1>2, ConcatEmptySeq
<1>. QED
  BY <1>1, <1>3, <1>4, Zenon

LEMMA AppendedLast ==
  ASSUME NEW a \in Seq(Nat), NEW s \in Seq(Nat), NEW x \in Nat
  PROVE  a \o Append(s, x) = Append(a \o s, x)
<1>1. Append(s, x) = s \o <<x>> /\ <<x>> \in Seq(Nat)
  BY AppendIsConcat
<1>2. a \o s \in Seq(Nat)
  BY ConcatProperties
<1>3. Append(a \o s, x) = (a \o s) \o <<x>>
  BY <1>2, AppendIsConcat
<1>4. (a \o s) \o <<x>> = a \o (s \o <<x>>)
  BY <1>1, ConcatAssociative
<1>. QED
  BY <1>1, <1>3, <1>4, Zenon

LEMMA MovePrinted ==
  ASSUME NEW a \in Seq(Nat), NEW x \in Nat
  PROVE  a \o <<x>> = Append(a, x) \o <<>>
<1>1. Append(a, x) = a \o <<x>> /\ Append(a, x) \in Seq(Nat)
  BY AppendIsConcat, AppendProperties
<1>2. Append(a, x) \o <<>> = Append(a, x)
  BY <1>1, ConcatEmptySeq
<1>. QED
  BY <1>1, <1>2, Zenon

(* The numbers from one to n, and the next. *)
upTo(n) == [k \in 1 .. n |-> k]

LEMMA CountedUp ==
  ASSUME NEW n \in Nat
  PROVE  upTo(n + 1) = Append(upTo(n), n + 1)
<1>1. upTo(n) \in Seq(Nat) /\ Len(upTo(n)) = n /\ \A i \in 1 .. n : upTo(n)[i] = i
  BY DEF upTo
<1>2. upTo(n + 1) \in Seq(Nat) /\ Len(upTo(n + 1)) = n + 1 /\ \A i \in 1 .. n + 1 : upTo(n + 1)[i] = i
  BY DEF upTo
<1>3. /\ Append(upTo(n), n + 1) \in Seq(Nat)
      /\ Len(Append(upTo(n), n + 1)) = n + 1
      /\ \A i \in 1 .. n : Append(upTo(n), n + 1)[i] = upTo(n)[i]
      /\ Append(upTo(n), n + 1)[n + 1] = n + 1
  BY <1>1, AppendProperties
<1>4. \A i \in 1 .. n + 1 : Append(upTo(n), n + 1)[i] = upTo(n + 1)[i]
  BY <1>1, <1>2, <1>3
<1>. QED
  BY <1>2, <1>3, <1>4, SeqEqual

LEMMA CountedNone == upTo(0) = <<>>
BY DEF upTo

---------------------------------------------------------------------------

(* The line in a server thread's hand, of the state before and after. *)
carries(th, pe, tx, p, s) == th[s] # "off" /\ pe[s] = p /\ tx[s] # NoText

handOf(th, pe, tx, p) ==
  IF \E s \in {t \in Slots : th[t] # "off" /\ pe[t] = p} : tx[s] # NoText
  THEN <<tx[CHOOSE s \in {t \in Slots : th[t] # "off" /\ pe[t] = p} : tx[s] # NoText]>>
  ELSE <<>>

LEMMA Mapped ==
  ASSUME NEW p
  PROVE  inHand(p) = handOf(thread, peer, text, p) /\ inHand(p)' = handOf(thread', peer', text', p)
BY DEF inHand, serving, handOf

LEMMA HandIs ==
  ASSUME NEW th, NEW pe, NEW tx, NEW p, NEW s \in Slots, carries(th, pe, tx, p, s),
         \A t \in Slots : carries(th, pe, tx, p, t) => t = s
  PROVE  handOf(th, pe, tx, p) = <<tx[s]>>
<1>1. (CHOOSE u \in {t \in Slots : th[t] # "off" /\ pe[t] = p} : tx[u] # NoText) = s
  BY DEF carries
<1>2. \E u \in {t \in Slots : th[t] # "off" /\ pe[t] = p} : tx[u] # NoText
  BY DEF carries
<1>. QED
  BY <1>1, <1>2 DEF handOf

LEMMA HandEmpty ==
  ASSUME NEW th, NEW pe, NEW tx, NEW p, \A s \in Slots : ~carries(th, pe, tx, p, s)
  PROVE  handOf(th, pe, tx, p) = <<>>
BY DEF handOf, carries

LEMMA HandSame ==
  ASSUME NEW th, NEW pe, NEW tx, NEW th2, NEW pe2, NEW tx2, NEW p,
         \A s, t \in Slots : carries(th, pe, tx, p, s) /\ carries(th, pe, tx, p, t) => s = t,
         \A s \in Slots : /\ carries(th, pe, tx, p, s) <=> carries(th2, pe2, tx2, p, s)
                          /\ carries(th, pe, tx, p, s) => tx2[s] = tx[s]
  PROVE  handOf(th2, pe2, tx2, p) = handOf(th, pe, tx, p)
<1>1. CASE \A s \in Slots : ~carries(th, pe, tx, p, s)
  <2>1. handOf(th, pe, tx, p) = <<>>
    BY <1>1, HandEmpty
  <2>2. handOf(th2, pe2, tx2, p) = <<>>
    BY <1>1, HandEmpty
  <2>. QED
    BY <2>1, <2>2
<1>2. ASSUME NEW s \in Slots, carries(th, pe, tx, p, s)
      PROVE  handOf(th2, pe2, tx2, p) = handOf(th, pe, tx, p)
  <2>1. handOf(th, pe, tx, p) = <<tx[s]>>
    BY <1>2, HandIs
  <2>2. handOf(th2, pe2, tx2, p) = <<tx2[s]>>
    <3>1. carries(th2, pe2, tx2, p, s) /\ \A t \in Slots : carries(th2, pe2, tx2, p, t) => t = s
      BY <1>2
    <3>. QED
      BY <3>1, HandIs
  <2>. QED
    BY <1>2, <2>1, <2>2
<1>. QED
  BY <1>1, <1>2

---------------------------------------------------------------------------

LEMMA TypeInit == Init => TypeOK
BY EchoAssumption DEF Init, InitServer, TypeOK, Slots, gate

LEMMA TypeKept ==
  ASSUME TypeOK, TextFits, Gated, [Next]_vars
  PROVE  TypeOK'
<1>1. ASSUME Begin, UNCHANGED local PROVE TypeOK'
  BY EchoAssumption, <1>1 DEF Begin, Slots, wires, slots, local, TypeOK
<1>2. ASSUME Scan, UNCHANGED local PROVE TypeOK'
  <2>1. (acceptor.at + 1) % MAX_CLIENTS \in Slots
    BY EchoAssumption DEF TypeOK, Slots
  <2>2. acceptor' \in [step : {"begin", "scan", "accept", "exit"}, at : Slots]
    BY <1>2, <2>1 DEF Scan, TypeOK
  <2>3. acceptor.at \in Slots
    BY DEF TypeOK
  <2>4. active' \subseteq clients' /\ clients' \subseteq Slots
    BY <1>2, <2>3 DEF Scan, TypeOK
  <2>. QED
    BY <1>2, <2>2, <2>4 DEF Scan, TypeOK, wires, local
<1>3. ASSUME Accept, UNCHANGED local PROVE TypeOK'
  <2>1. acceptor.at \in Slots /\ 0 \in Slots
    BY EchoAssumption DEF TypeOK, Slots
  <2>2. backlog # <<>> => Head(backlog) \in Peers /\ Tail(backlog) \in Seq(Peers)
    BY HeadTailProperties DEF TypeOK
  <2>3. backlog' \in Seq(Peers) /\ handles' \in Nat
    <3>1. backlog \in Seq(Peers) /\ handles \in Nat
      BY DEF TypeOK
    <3>2. \/ backlog # <<>> /\ backlog' = Tail(backlog) /\ handles > 0 /\ handles' = handles - 1
          \/ backlog' = backlog /\ handles' = handles
      BY <1>3 DEF Accept
    <3>. QED
      BY <2>2, <3>1, <3>2
  <2>4. peer' \in [Slots -> Peers \cup {Nobody}]
    <3>1. peer \in [Slots -> Peers \cup {Nobody}]
      BY DEF TypeOK
    <3>2. PICK q \in Peers \cup {Nobody} : peer' = [peer EXCEPT ![acceptor.at] = q]
      BY <1>3, <2>2 DEF Accept
    <3>. QED
      BY <3>1, <3>2
  <2>. QED
    BY <1>3, <2>1, <2>3, <2>4 DEF Accept, TypeOK, local
<1>4. ASSUME NEW s \in Slots, Receive(s), UNCHANGED local PROVE TypeOK'
  <2>1. /\ peer[s] \in Peers
        /\ Head(toServer[peer[s]]) \in Nat /\ Tail(toServer[peer[s]]) \in Seq(Nat)
    BY <1>4, HeadTailProperties DEF Receive, TypeOK
  <2>. QED
    BY <1>4, <2>1 DEF Receive, TypeOK, local
<1>5. ASSUME NEW s \in Slots, GiveUp(s), UNCHANGED local PROVE TypeOK'
  BY <1>5 DEF GiveUp, TypeOK, wires, local
<1>6. ASSUME NEW s \in Slots, Echo(s), UNCHANGED local PROVE TypeOK'
  <2>1. text[s] \in Nat /\ peer[s] \in Peers
    BY <1>6 DEF Echo, TypeOK, TextFits
  <2>2. toClient' \in [Peers -> Seq(Nat)]
    <3>1. toClient \in [Peers -> Seq(Nat)]
      BY DEF TypeOK
    <3>2. Append(toClient[peer[s]], text[s]) \in Seq(Nat)
      BY <2>1, <3>1, AppendProperties
    <3>3. \/ toClient' = toClient
          \/ toClient' = [toClient EXCEPT ![peer[s]] = Append(toClient[peer[s]], text[s])]
      BY <1>6 DEF Echo
    <3>. QED
      BY <3>1, <3>2, <3>3
  <2>. QED
    BY <1>6, <2>2 DEF Echo, TypeOK, local
<1>7. ASSUME NEW p \in Peers, Start(p) PROVE TypeOK'
  BY <1>7 DEF Start, TypeOK, slots, wires
<1>8. ASSUME NEW p \in Peers, Type(p) PROVE TypeOK'
  BY <1>8 DEF Type, TypeOK, slots, wires
<1>9. ASSUME NEW p \in Peers, Lock(p) PROVE TypeOK'
  BY <1>9 DEF Lock, TypeOK, slots, wires
<1>10. ASSUME NEW p \in Peers, Quit(p) PROVE TypeOK'
  BY <1>10 DEF Quit, TypeOK, slots, wires
<1>11. ASSUME NEW p \in Peers, Exit(p) PROVE TypeOK'
  BY <1>11 DEF Exit, TypeOK, slots, wires
<1>12. ASSUME NEW p \in Peers, Send(p) PROVE TypeOK'
  <2>1. toServer' \in [Peers -> Seq(Nat)]
    <3>1. toServer \in [Peers -> Seq(Nat)] /\ typed[p] \in Nat
      BY DEF TypeOK
    <3>2. Append(toServer[p], typed[p]) \in Seq(Nat)
      BY <3>1, AppendProperties
    <3>3. toServer' = toServer \/ toServer' = [toServer EXCEPT ![p] = Append(toServer[p], typed[p])]
      BY <1>12 DEF Send
    <3>. QED
      BY <3>1, <3>2, <3>3
  <2>2. mutex' \in [Peers -> 0 .. 1] /\ main' \in [Peers -> {"begin", "prompt", "lock", "send", "ending", "exit"}]
    BY <1>12 DEF Send, TypeOK
  <2>. QED
    BY <1>12, <2>1, <2>2 DEF Send, TypeOK, slots
<1>13. ASSUME NEW p \in Peers, Connect(p) PROVE TypeOK'
  <2>1. mutex[p] = 0
    BY <1>13 DEF Connect, Gated
  <2>2. backlog' \in Seq(Peers)
    <3>1. backlog \in Seq(Peers)
      BY DEF TypeOK
    <3>2. Append(backlog, p) \in Seq(Peers)
      BY <3>1, AppendProperties
    <3>3. backlog' = backlog \/ backlog' = Append(backlog, p)
      BY <1>13 DEF Connect
    <3>. QED
      BY <3>1, <3>2, <3>3
  <2>3. mutex' \in [Peers -> 0 .. 1]
    BY <1>13, <2>1 DEF Connect, TypeOK
  <2>4. link' \in [Peers -> {"none", "open", "refused"}]
    BY <1>13 DEF Connect, TypeOK
  <2>5. reader' \in [Peers -> {"off", "connect", "receive", "print", "done"}]
    BY <1>13 DEF Connect, TypeOK
  <2>6. UNCHANGED <<slots, gone, toServer, toClient, main, typed, line, printed>>
    BY <1>13 DEF Connect
  <2>. QED
    BY <2>2, <2>3, <2>4, <2>5, <2>6 DEF TypeOK, slots
<1>14. ASSUME NEW p \in Peers, Hear(p) PROVE TypeOK'
  <2>1. Head(toClient[p]) \in Nat /\ Tail(toClient[p]) \in Seq(Nat)
    BY <1>14, HeadTailProperties DEF Hear, TypeOK
  <2>. QED
    BY <1>14, <2>1 DEF Hear, TypeOK, slots
<1>15. ASSUME NEW p \in Peers, HearNothing(p) PROVE TypeOK'
  BY <1>15 DEF HearNothing, TypeOK, slots, wires
<1>16. ASSUME NEW p \in Peers, Show(p) PROVE TypeOK'
  <2>1. line[p] # NoText => Append(printed[p], line[p]) \in Seq(Nat)
    BY AppendProperties DEF TypeOK
  <2>2. printed' \in [Peers -> Seq(Nat)]
    BY <1>16, <2>1 DEF Show, TypeOK
  <2>. QED
    BY <1>16, <2>2 DEF Show, TypeOK, slots, wires
<1>17. CASE UNCHANGED vars
  BY <1>17 DEF vars, slots, wires, local, TypeOK
<1>. QED
  BY <1>1, <1>2, <1>3, <1>4, <1>5, <1>6, <1>7, <1>8, <1>9, <1>10, <1>11, <1>12, <1>13,
     <1>14, <1>15, <1>16, <1>17
  DEF Next, Server, Acceptor, Thread, Prompt, Reader

LEMMA SlotsFitKept ==
  ASSUME TypeOK, SlotsFit, [Next]_vars
  PROVE  SlotsFit'
<1>1. ASSUME Begin, UNCHANGED local PROVE SlotsFit'
  BY EchoAssumption, <1>1 DEF Begin, SlotsFit
<1>2. ASSUME Scan, UNCHANGED local PROVE SlotsFit'
  BY <1>2 DEF Scan, SlotsFit, TypeOK
<1>3. ASSUME Accept, UNCHANGED local PROVE SlotsFit'
  <2>1. acceptor.at \in active
    BY <1>3 DEF Accept, SlotsFit
  <2>. QED
    BY <1>3, <2>1 DEF Accept, SlotsFit, TypeOK
<1>4. ASSUME NEW s \in Slots, Receive(s), UNCHANGED local PROVE SlotsFit'
  BY <1>4 DEF Receive, SlotsFit, TypeOK
<1>5. ASSUME NEW s \in Slots, GiveUp(s), UNCHANGED local PROVE SlotsFit'
  BY <1>5 DEF GiveUp, SlotsFit, TypeOK
<1>6. ASSUME NEW s \in Slots, Echo(s), UNCHANGED local PROVE SlotsFit'
  BY <1>6 DEF Echo, SlotsFit, TypeOK
<1>7. ASSUME NEW p \in Peers,
            \/ Start(p) \/ Type(p) \/ Lock(p) \/ Send(p) \/ Quit(p) \/ Exit(p)
            \/ Connect(p) \/ Hear(p) \/ HearNothing(p) \/ Show(p)
      PROVE  SlotsFit'
  <2>1. UNCHANGED slots
    BY <1>7 DEF Start, Type, Lock, Send, Quit, Exit, Connect, Hear, HearNothing, Show
  <2>. QED
    BY <2>1 DEF slots, SlotsFit
<1>8. CASE UNCHANGED vars
  BY <1>8 DEF vars, slots, SlotsFit
<1>. QED
  BY <1>1, <1>2, <1>3, <1>4, <1>5, <1>6, <1>7, <1>8
  DEF Next, Server, Acceptor, Thread, Prompt, Reader

LEMMA TextFitsKept ==
  ASSUME TypeOK, SlotsFit, TextFits, [Next]_vars
  PROVE  TextFits'
<1>1. ASSUME Begin \/ Scan, UNCHANGED local PROVE TextFits'
  BY <1>1 DEF Begin, Scan, TextFits
<1>2. ASSUME Accept, UNCHANGED local PROVE TextFits'
  BY <1>2 DEF Accept, SlotsFit, TextFits, TypeOK
<1>3. ASSUME NEW s \in Slots, Receive(s), UNCHANGED local PROVE TextFits'
  <2>1. Head(toServer[peer[s]]) \in Nat
    BY <1>3, HeadTailProperties DEF Receive, TypeOK
  <2>2. Head(toServer[peer[s]]) # NoText
    BY <2>1, EchoAssumption
  <2>. QED
    BY <1>3, <2>2 DEF Receive, TextFits, TypeOK
<1>4. ASSUME NEW s \in Slots, GiveUp(s) \/ Echo(s), UNCHANGED local PROVE TextFits'
  BY <1>4 DEF GiveUp, Echo, TextFits, TypeOK
<1>5. ASSUME NEW p \in Peers,
            \/ Start(p) \/ Type(p) \/ Lock(p) \/ Send(p) \/ Quit(p) \/ Exit(p)
            \/ Connect(p) \/ Hear(p) \/ HearNothing(p) \/ Show(p)
      PROVE  TextFits'
  <2>1. UNCHANGED slots
    BY <1>5 DEF Start, Type, Lock, Send, Quit, Exit, Connect, Hear, HearNothing, Show
  <2>. QED
    BY <2>1 DEF slots, TextFits
<1>6. CASE UNCHANGED vars
  BY <1>6 DEF vars, slots, TextFits
<1>. QED
  BY <1>1, <1>2, <1>3, <1>4, <1>5, <1>6
  DEF Next, Server, Acceptor, Thread, Prompt, Reader

LEMMA ServedOnceKept ==
  ASSUME TypeOK, SlotsFit, ServedOnce, OnlyConnected, Gated, [Next]_vars
  PROVE  ServedOnce'
<1>1. ASSUME Begin \/ Scan, UNCHANGED local PROVE ServedOnce'
  BY <1>1 DEF Begin, Scan, ServedOnce, wires
<1>2. ASSUME Accept, UNCHANGED local PROVE ServedOnce'
  <2>1. acceptor.at \in Slots /\ thread[acceptor.at] = "off"
    BY <1>2 DEF Accept, TypeOK, SlotsFit
  <2>2. CASE backlog # <<>> /\ peer' = [peer EXCEPT ![acceptor.at] = Head(backlog)] /\ backlog' = Tail(backlog)
    <3>1. /\ Len(backlog) \in Nat \ {0} /\ Head(backlog) = backlog[1] /\ Head(backlog) \in Peers
          /\ Len(backlog') = Len(backlog) - 1
          /\ \A k \in 1 .. Len(backlog') : backlog'[k] = backlog[k + 1]
      BY <2>2, EmptySeq, HeadTailProperties DEF TypeOK
    <3>2. /\ peer'[acceptor.at] = backlog[1] /\ \A s \in Slots : s # acceptor.at => peer'[s] = peer[s]
          /\ thread'[acceptor.at] = "receive" /\ \A s \in Slots : s # acceptor.at => thread'[s] = thread[s]
      BY <1>2, <2>1, <2>2, <3>1 DEF Accept, TypeOK
    <3>3. \A s, t \in Slots : thread'[s] # "off" /\ thread'[t] # "off" /\ peer'[s] = peer'[t]
                              /\ peer'[s] \in Peers => s = t
      BY <3>1, <3>2 DEF ServedOnce
    <3>4. \A s \in Slots, k \in 1 .. Len(backlog') : thread'[s] # "off" => peer'[s] # backlog'[k]
      <4> SUFFICES ASSUME NEW s \in Slots, NEW k \in 1 .. Len(backlog'), thread'[s] # "off"
                   PROVE  peer'[s] # backlog'[k]
        OBVIOUS
      <4>1. k + 1 \in 1 .. Len(backlog) /\ 1 \in 1 .. Len(backlog) /\ k + 1 # 1 /\ backlog'[k] = backlog[k + 1]
        BY <3>1
      <4>. QED
        BY <3>2, <4>1 DEF ServedOnce
    <3>5. \A k, l \in 1 .. Len(backlog') : backlog'[k] = backlog'[l] => k = l
      <4> SUFFICES ASSUME NEW k \in 1 .. Len(backlog'), NEW l \in 1 .. Len(backlog'), backlog'[k] = backlog'[l]
                   PROVE  k = l
        OBVIOUS
      <4>1. k + 1 \in 1 .. Len(backlog) /\ l + 1 \in 1 .. Len(backlog) /\ backlog[k + 1] = backlog[l + 1]
        BY <3>1
      <4>2. k + 1 = l + 1
        BY <4>1 DEF ServedOnce
      <4>. QED
        BY <4>2
    <3>. QED
      BY <3>3, <3>4, <3>5 DEF ServedOnce
  <2>3. CASE peer' = [peer EXCEPT ![acceptor.at] = Nobody] /\ backlog' = backlog
    <3>1. /\ peer'[acceptor.at] = Nobody /\ \A s \in Slots : s # acceptor.at => peer'[s] = peer[s]
          /\ \A s \in Slots : s # acceptor.at => thread'[s] = thread[s]
      BY <1>2, <2>1, <2>3 DEF Accept, TypeOK
    <3>2. \A k \in 1 .. Len(backlog) : backlog[k] # Nobody
      BY EchoAssumption, ElementOfSeq DEF TypeOK
    <3>3. \A s, t \in Slots : thread'[s] # "off" /\ thread'[t] # "off" /\ peer'[s] = peer'[t]
                              /\ peer'[s] \in Peers => s = t
      BY <3>1, EchoAssumption DEF ServedOnce
    <3>. QED
      BY <2>3, <3>1, <3>2, <3>3 DEF ServedOnce
  <2>. QED
    BY <1>2, <2>2, <2>3 DEF Accept
<1>3. ASSUME NEW s \in Slots, Receive(s) \/ GiveUp(s) \/ Echo(s), UNCHANGED local
      PROVE  ServedOnce'
  <2>1. UNCHANGED <<peer, backlog>> /\ \A t \in Slots : thread'[t] # "off" => thread[t] # "off"
    BY <1>3 DEF Receive, GiveUp, Echo, TypeOK, wires
  <2>. QED
    BY <2>1 DEF ServedOnce
<1>4. ASSUME NEW p \in Peers, Connect(p) PROVE ServedOnce'
  <2>1. UNCHANGED <<thread, peer>>
    BY <1>4 DEF Connect, slots
  <2>2. CASE UNCHANGED backlog
    BY <2>1, <2>2 DEF ServedOnce
  <2>3. CASE backlog' = Append(backlog, p)
    <3>1. link[p] # "open"
      BY <1>4 DEF Connect, Gated
    <3>2. /\ \A s \in Slots : thread[s] # "off" => peer[s] # p
          /\ \A k \in 1 .. Len(backlog) : backlog[k] # p
      BY <3>1 DEF OnlyConnected
    <3>3. /\ Len(backlog) \in Nat /\ Len(backlog') = Len(backlog) + 1
          /\ \A k \in 1 .. Len(backlog) : backlog'[k] = backlog[k]
          /\ backlog'[Len(backlog) + 1] = p
      BY <2>3, AppendProperties, LenProperties DEF TypeOK
    <3>. QED
      BY <2>1, <3>2, <3>3 DEF ServedOnce
  <2>. QED
    BY <1>4, <2>2, <2>3 DEF Connect
<1>5. ASSUME NEW p \in Peers,
            \/ Start(p) \/ Type(p) \/ Lock(p) \/ Send(p) \/ Quit(p) \/ Exit(p)
            \/ Hear(p) \/ HearNothing(p) \/ Show(p)
      PROVE  ServedOnce'
  <2>1. UNCHANGED <<thread, peer, backlog>>
    BY <1>5 DEF Start, Type, Lock, Send, Quit, Exit, Hear, HearNothing, Show, slots, wires
  <2>. QED
    BY <2>1 DEF ServedOnce
<1>6. CASE UNCHANGED vars
  BY <1>6 DEF vars, slots, wires, ServedOnce
<1>. QED
  BY <1>1, <1>2, <1>3, <1>4, <1>5, <1>6
  DEF Next, Server, Acceptor, Thread, Prompt, Reader

LEMMA OnlyConnectedKept ==
  ASSUME TypeOK, TextFits, OnlyConnected, Gated, [Next]_vars
  PROVE  OnlyConnected'
<1>1. ASSUME Begin \/ Scan, UNCHANGED local PROVE OnlyConnected'
  BY <1>1 DEF Begin, Scan, OnlyConnected, local, wires
<1>2. ASSUME Accept, UNCHANGED local PROVE OnlyConnected'
  <2>1. ASSUME NEW q \in Peers, link'[q] # "open"
        PROVE  /\ \A t \in Slots : thread'[t] # "off" => peer'[t] # q
               /\ \A k \in 1 .. Len(backlog') : backlog'[k] # q
               /\ toServer'[q] = <<>> /\ toClient'[q] = <<>> /\ printed'[q] = <<>> /\ line'[q] = NoText
    <3>1. /\ link'[q] = link[q] /\ UNCHANGED <<toServer, toClient, printed, line>>
          /\ acceptor.at \in Slots
      BY <1>2 DEF Accept, local, TypeOK
    <3>2. /\ \A t \in Slots : thread[t] # "off" => peer[t] # q
          /\ \A k \in 1 .. Len(backlog) : backlog[k] # q
          /\ toServer[q] = <<>> /\ toClient[q] = <<>> /\ printed[q] = <<>> /\ line[q] = NoText
      BY <2>1, <3>1 DEF OnlyConnected
    <3>3. \A t \in Slots : t # acceptor.at => thread'[t] = thread[t] /\ peer'[t] = peer[t]
      BY <1>2 DEF Accept, TypeOK
    <3>4. backlog # <<>> =>
            /\ Len(backlog) \in Nat \ {0} /\ Head(backlog) = backlog[1]
            /\ Len(Tail(backlog)) = Len(backlog) - 1
            /\ \A k \in 1 .. Len(Tail(backlog)) : Tail(backlog)[k] = backlog[k + 1]
      BY EmptySeq, HeadTailProperties DEF TypeOK
    <3>5. CASE backlog # <<>> /\ peer' = [peer EXCEPT ![acceptor.at] = Head(backlog)] /\ backlog' = Tail(backlog)
      <4>1. Head(backlog) # q
        BY <3>2, <3>4, <3>5
      <4>2. peer'[acceptor.at] # q
        BY <3>1, <3>5, <4>1 DEF TypeOK
      <4>3. \A k \in 1 .. Len(backlog') : backlog'[k] # q
        <5> SUFFICES ASSUME NEW k \in 1 .. Len(Tail(backlog)) PROVE Tail(backlog)[k] # q
          BY <3>5
        <5>1. k + 1 \in 1 .. Len(backlog)
          BY <3>4, <3>5
        <5>. QED
          BY <3>2, <3>4, <3>5, <5>1
      <4>. QED
        BY <3>1, <3>2, <3>3, <4>2, <4>3
    <3>6. CASE peer' = [peer EXCEPT ![acceptor.at] = Nobody] /\ backlog' = backlog
      <4>1. peer'[acceptor.at] # q
        BY <3>1, <3>6, EchoAssumption DEF TypeOK
      <4>. QED
        BY <3>1, <3>2, <3>3, <3>6, <4>1
    <3>. QED
      BY <1>2, <3>5, <3>6 DEF Accept
  <2>. QED
    BY <2>1 DEF OnlyConnected
<1>3. ASSUME NEW s \in Slots, Receive(s), UNCHANGED local PROVE OnlyConnected'
  <2>1. ASSUME NEW q \in Peers, link'[q] # "open"
        PROVE  /\ \A t \in Slots : thread'[t] # "off" => peer'[t] # q
               /\ \A k \in 1 .. Len(backlog') : backlog'[k] # q
               /\ toServer'[q] = <<>> /\ toClient'[q] = <<>> /\ printed'[q] = <<>> /\ line'[q] = NoText
    <3>1. UNCHANGED <<link, peer, backlog, toClient, printed, line>>
      BY <1>3 DEF Receive, local
    <3>2. \A t \in Slots : thread'[t] # "off" => thread[t] # "off"
      BY <1>3 DEF Receive, TypeOK
    <3>3. peer[s] # q
      BY <1>3, <2>1, <3>1 DEF Receive, OnlyConnected
    <3>4. toServer'[q] = toServer[q]
      BY <1>3, <3>3 DEF Receive, TypeOK
    <3>. QED
      BY <2>1, <3>1, <3>2, <3>4 DEF OnlyConnected
  <2>. QED
    BY <2>1 DEF OnlyConnected
<1>4. ASSUME NEW s \in Slots, GiveUp(s), UNCHANGED local PROVE OnlyConnected'
  <2>1. UNCHANGED <<link, peer, backlog, toServer, toClient, printed, line>>
    BY <1>4 DEF GiveUp, local, wires
  <2>2. \A t \in Slots : thread'[t] # "off" => thread[t] # "off"
    BY <1>4 DEF GiveUp, TypeOK
  <2>. QED
    BY <2>1, <2>2 DEF OnlyConnected
<1>5. ASSUME NEW s \in Slots, Echo(s), UNCHANGED local PROVE OnlyConnected'
  <2>1. ASSUME NEW q \in Peers, link'[q] # "open"
        PROVE  /\ \A t \in Slots : thread'[t] # "off" => peer'[t] # q
               /\ \A k \in 1 .. Len(backlog') : backlog'[k] # q
               /\ toServer'[q] = <<>> /\ toClient'[q] = <<>> /\ printed'[q] = <<>> /\ line'[q] = NoText
    <3>1. UNCHANGED <<link, peer, backlog, toServer, printed, line>>
      BY <1>5 DEF Echo, local
    <3>2. \A t \in Slots : thread'[t] # "off" => thread[t] # "off"
      BY <1>5 DEF Echo, TypeOK
    <3>3. peer[s] # q
      BY <1>5, <2>1, <3>1 DEF Echo, OnlyConnected
    <3>4. toClient'[q] = toClient[q]
      BY <1>5, <3>3 DEF Echo, TypeOK
    <3>. QED
      BY <2>1, <3>1, <3>2, <3>4 DEF OnlyConnected
  <2>. QED
    BY <2>1 DEF OnlyConnected
<1>6. ASSUME NEW p \in Peers, Start(p) \/ Type(p) \/ Lock(p) \/ Quit(p) \/ Exit(p)
      PROVE  OnlyConnected'
  <2>1. UNCHANGED <<thread, peer, backlog, toServer, toClient, link, printed, line>>
    BY <1>6 DEF Start, Type, Lock, Quit, Exit, slots, wires
  <2>. QED
    BY <2>1 DEF OnlyConnected
<1>7. ASSUME NEW p \in Peers, Send(p) PROVE OnlyConnected'
  <2>1. ASSUME NEW q \in Peers, link'[q] # "open"
        PROVE  /\ \A t \in Slots : thread'[t] # "off" => peer'[t] # q
               /\ \A k \in 1 .. Len(backlog') : backlog'[k] # q
               /\ toServer'[q] = <<>> /\ toClient'[q] = <<>> /\ printed'[q] = <<>> /\ line'[q] = NoText
    <3>1. UNCHANGED <<thread, peer, backlog, toClient, link, printed, line>>
      BY <1>7 DEF Send, slots
    <3>2. toServer'[q] = toServer[q]
      BY <1>7, <2>1, <3>1 DEF Send, TypeOK
    <3>. QED
      BY <2>1, <3>1, <3>2 DEF OnlyConnected
  <2>. QED
    BY <2>1 DEF OnlyConnected
<1>8. ASSUME NEW p \in Peers, Connect(p) PROVE OnlyConnected'
  <2>1. ASSUME NEW q \in Peers, link'[q] # "open"
        PROVE  /\ \A t \in Slots : thread'[t] # "off" => peer'[t] # q
               /\ \A k \in 1 .. Len(backlog') : backlog'[k] # q
               /\ toServer'[q] = <<>> /\ toClient'[q] = <<>> /\ printed'[q] = <<>> /\ line'[q] = NoText
    <3>1. UNCHANGED <<thread, peer, toServer, toClient, printed, line>>
      BY <1>8 DEF Connect, slots
    <3>2. CASE backlog' = Append(backlog, p) /\ link' = [link EXCEPT ![p] = "open"]
      <4>1. q # p /\ link[q] # "open"
        BY <2>1, <3>2 DEF TypeOK
      <4>2. /\ Len(backlog) \in Nat /\ Len(backlog') = Len(backlog) + 1
            /\ \A k \in 1 .. Len(backlog) : backlog'[k] = backlog[k]
            /\ backlog'[Len(backlog) + 1] = p
        BY <3>2, AppendProperties, LenProperties DEF TypeOK
      <4>3. \A k \in 1 .. Len(backlog') : backlog'[k] # q
        BY <4>1, <4>2 DEF OnlyConnected
      <4>. QED
        BY <3>1, <4>1, <4>3 DEF OnlyConnected
    <3>3. CASE backlog' = backlog /\ link' = [link EXCEPT ![p] = "refused"]
      <4>1. link[p] # "open"
        BY <1>8 DEF Connect, Gated
      <4>2. link[q] # "open"
        BY <2>1, <3>3, <4>1 DEF TypeOK
      <4>. QED
        BY <3>1, <3>3, <4>2 DEF OnlyConnected
    <3>. QED
      BY <1>8, <3>2, <3>3 DEF Connect
  <2>. QED
    BY <2>1 DEF OnlyConnected
<1>9. ASSUME NEW p \in Peers, Hear(p) PROVE OnlyConnected'
  <2>1. ASSUME NEW q \in Peers, link'[q] # "open"
        PROVE  /\ \A t \in Slots : thread'[t] # "off" => peer'[t] # q
               /\ \A k \in 1 .. Len(backlog') : backlog'[k] # q
               /\ toServer'[q] = <<>> /\ toClient'[q] = <<>> /\ printed'[q] = <<>> /\ line'[q] = NoText
    <3>1. UNCHANGED <<thread, peer, backlog, toServer, link, printed>>
      BY <1>9 DEF Hear, slots
    <3>2. q # p
      BY <1>9, <2>1, <3>1 DEF Hear, OnlyConnected
    <3>3. toClient'[q] = toClient[q] /\ line'[q] = line[q]
      BY <1>9, <3>2 DEF Hear, TypeOK
    <3>. QED
      BY <2>1, <3>1, <3>3 DEF OnlyConnected
  <2>. QED
    BY <2>1 DEF OnlyConnected
<1>10. ASSUME NEW p \in Peers, HearNothing(p) PROVE OnlyConnected'
  <2>1. ASSUME NEW q \in Peers, link'[q] # "open"
        PROVE  /\ \A t \in Slots : thread'[t] # "off" => peer'[t] # q
               /\ \A k \in 1 .. Len(backlog') : backlog'[k] # q
               /\ toServer'[q] = <<>> /\ toClient'[q] = <<>> /\ printed'[q] = <<>> /\ line'[q] = NoText
    <3>1. UNCHANGED <<thread, peer, backlog, toServer, toClient, link, printed>>
      BY <1>10 DEF HearNothing, slots, wires
    <3>2. line'[q] = NoText \/ line'[q] = line[q]
      BY <1>10 DEF HearNothing, TypeOK
    <3>. QED
      BY <2>1, <3>1, <3>2 DEF OnlyConnected
  <2>. QED
    BY <2>1 DEF OnlyConnected
<1>11. ASSUME NEW p \in Peers, Show(p) PROVE OnlyConnected'
  <2>1. ASSUME NEW q \in Peers, link'[q] # "open"
        PROVE  /\ \A t \in Slots : thread'[t] # "off" => peer'[t] # q
               /\ \A k \in 1 .. Len(backlog') : backlog'[k] # q
               /\ toServer'[q] = <<>> /\ toClient'[q] = <<>> /\ printed'[q] = <<>> /\ line'[q] = NoText
    <3>1. UNCHANGED <<thread, peer, backlog, toServer, toClient, link>>
      BY <1>11 DEF Show, slots, wires
    <3>2. line[q] = NoText /\ printed[q] = <<>>
      BY <2>1, <3>1 DEF OnlyConnected
    <3>3. line'[q] = NoText /\ printed'[q] = printed[q]
      BY <1>11, <3>2 DEF Show, TypeOK
    <3>. QED
      BY <2>1, <3>1, <3>2, <3>3 DEF OnlyConnected
  <2>. QED
    BY <2>1 DEF OnlyConnected
<1>12. CASE UNCHANGED vars
  BY <1>12 DEF vars, slots, wires, local, OnlyConnected
<1>. QED
  BY <1>1, <1>2, <1>3, <1>4, <1>5, <1>6, <1>7, <1>8, <1>9, <1>10, <1>11, <1>12
  DEF Next, Server, Acceptor, Thread, Prompt, Reader

LEMMA GatedKept ==
  ASSUME TypeOK, Gated, ClientFits, [Next]_vars
  PROVE  Gated'
<1>1. ASSUME Begin \/ Scan \/ Accept, UNCHANGED local PROVE Gated'
  <2>1. UNCHANGED local /\ gone' = gone
    BY <1>1 DEF Begin, Scan, Accept, wires
  <2>. QED
    BY <2>1 DEF local, Gated
<1>2. ASSUME NEW s \in Slots, Receive(s) \/ GiveUp(s) \/ Echo(s), UNCHANGED local
      PROVE  Gated'
  <2>1. UNCHANGED local /\ gone' = gone
    BY <1>2 DEF Receive, GiveUp, Echo, wires
  <2>. QED
    BY <2>1 DEF local, Gated
<1>3. ASSUME NEW p \in Peers, Start(p) PROVE Gated'
  BY <1>3 DEF Start, Gated, TypeOK
<1>4. ASSUME NEW p \in Peers, Type(p) PROVE Gated'
  BY <1>4 DEF Type, Gated, TypeOK
<1>5. ASSUME NEW p \in Peers, Lock(p) PROVE Gated'
  BY <1>5 DEF Lock, Gated, TypeOK
<1>6. ASSUME NEW p \in Peers, Send(p) PROVE Gated'
  BY <1>6 DEF Send, Gated, TypeOK
<1>7. ASSUME NEW p \in Peers, Quit(p) PROVE Gated'
  BY <1>7 DEF Quit, Gated, TypeOK
<1>8. ASSUME NEW p \in Peers, Exit(p) PROVE Gated'
  BY <1>8 DEF Exit, Gated, TypeOK, runs
<1>9. ASSUME NEW p \in Peers, Connect(p) PROVE Gated'
  BY <1>9 DEF Connect, Gated, TypeOK, runs, listening
<1>10. ASSUME NEW p \in Peers, Hear(p) PROVE Gated'
  BY <1>10 DEF Hear, Gated, TypeOK, runs
<1>11. ASSUME NEW p \in Peers, HearNothing(p) PROVE Gated'
  BY <1>11 DEF HearNothing, Gated, TypeOK, runs
<1>12. ASSUME NEW p \in Peers, Show(p) PROVE Gated'
  BY <1>12 DEF Show, Gated, TypeOK, runs
<1>13. CASE UNCHANGED vars
  BY <1>13 DEF vars, local, Gated
<1>. QED
  BY <1>1, <1>2, <1>3, <1>4, <1>5, <1>6, <1>7, <1>8, <1>9, <1>10, <1>11, <1>12, <1>13
  DEF Next, Server, Acceptor, Thread, Prompt, Reader

LEMMA ClientFitsKept ==
  ASSUME TypeOK, Gated, ClientFits, [Next]_vars
  PROVE  ClientFits'
<1>1. ASSUME Begin \/ Scan \/ Accept, UNCHANGED local PROVE ClientFits'
  <2>1. UNCHANGED local /\ gone' = gone
    BY <1>1 DEF Begin, Scan, Accept, wires
  <2>. QED
    BY <2>1 DEF local, ClientFits
<1>2. ASSUME NEW s \in Slots, Receive(s) \/ GiveUp(s) \/ Echo(s), UNCHANGED local
      PROVE  ClientFits'
  <2>1. UNCHANGED local /\ gone' = gone
    BY <1>2 DEF Receive, GiveUp, Echo, wires
  <2>. QED
    BY <2>1 DEF local, ClientFits
<1>3. ASSUME NEW p \in Peers, Start(p) PROVE ClientFits'
  BY <1>3 DEF Start, Gated, ClientFits, TypeOK, wires
<1>4. ASSUME NEW p \in Peers, Type(p) PROVE ClientFits'
  BY <1>4 DEF Type, Gated, ClientFits, TypeOK, wires
<1>5. ASSUME NEW p \in Peers, Lock(p) PROVE ClientFits'
  BY <1>5 DEF Lock, Gated, ClientFits, TypeOK, wires
<1>6. ASSUME NEW p \in Peers, Send(p) PROVE ClientFits'
  BY <1>6 DEF Send, Gated, ClientFits, TypeOK
<1>7. ASSUME NEW p \in Peers, Quit(p) PROVE ClientFits'
  BY <1>7 DEF Quit, Gated, ClientFits, TypeOK, wires
<1>8. ASSUME NEW p \in Peers, Exit(p) PROVE ClientFits'
  BY <1>8 DEF Exit, Gated, ClientFits, TypeOK, runs
<1>9. ASSUME NEW p \in Peers, Connect(p) PROVE ClientFits'
  BY <1>9 DEF Connect, Gated, ClientFits, TypeOK, runs
<1>10. ASSUME NEW p \in Peers, Hear(p) PROVE ClientFits'
  BY <1>10 DEF Hear, Gated, ClientFits, TypeOK, runs
<1>11. ASSUME NEW p \in Peers, HearNothing(p) PROVE ClientFits'
  BY <1>11 DEF HearNothing, Gated, ClientFits, TypeOK, wires, runs
<1>12. ASSUME NEW p \in Peers, Show(p) PROVE ClientFits'
  BY <1>12 DEF Show, Gated, ClientFits, TypeOK, wires, runs
<1>13. CASE UNCHANGED vars
  BY <1>13 DEF vars, local, wires, ClientFits
<1>. QED
  BY <1>1, <1>2, <1>3, <1>4, <1>5, <1>6, <1>7, <1>8, <1>9, <1>10, <1>11, <1>12, <1>13
  DEF Next, Server, Acceptor, Thread, Prompt, Reader

---------------------------------------------------------------------------

(* The way of a line, and the number of those sent. *)
shown(p) == IF line[p] = NoText THEN <<>> ELSE <<line[p]>>
way(p) == printed[p] \o shown(p) \o toClient[p] \o inHand(p) \o toServer[p]
count(p) == typed[p] - (IF main[p] \in {"lock", "send"} THEN 1 ELSE 0)

LEMMA Reworded ==
  /\ NothingIsLost <=> \A p \in Peers \ gone : link[p] = "open" => way(p) = upTo(count(p))
  /\ NothingIsLost' <=> \A p \in Peers \ gone' : link'[p] = "open" => way(p)' = upTo(count(p)')
BY DEF NothingIsLost, way, shown, sent, upTo, count

LEMMA SameWay ==
  ASSUME NEW p \in Peers,
         printed'[p] = printed[p], line'[p] = line[p], toClient'[p] = toClient[p],
         inHand(p)' = inHand(p), toServer'[p] = toServer[p], count(p)' = count(p)
  PROVE  way(p) = upTo(count(p)) => way(p)' = upTo(count(p)')
<1>1. shown(p)' = shown(p)
  BY DEF shown
<1>2. way(p)' = way(p)
  BY <1>1, Zenon DEF way
<1>. QED
  BY <1>2, Zenon

LEMMA OneCarries ==
  ASSUME ServedOnce, NEW p \in Peers
  PROVE  \A s, t \in Slots : carries(thread, peer, text, p, s) /\ carries(thread, peer, text, p, t) => s = t
BY DEF ServedOnce, carries

LEMMA HandUnchanged ==
  ASSUME ServedOnce, NEW p \in Peers,
         \A s \in Slots : carries(thread, peer, text, p, s) <=> carries(thread', peer', text', p, s),
         \A s \in Slots : carries(thread, peer, text, p, s) => text'[s] = text[s]
  PROVE  inHand(p)' = inHand(p)
<1>1. handOf(thread', peer', text', p) = handOf(thread, peer, text, p)
  BY OneCarries, HandSame
<1>. QED
  BY <1>1, Mapped, Zenon

LEMMA SameThreads ==
  ASSUME UNCHANGED <<thread, peer, text>>, NEW p
  PROVE  inHand(p)' = inHand(p)
BY DEF inHand, serving

LEMMA Parts ==
  ASSUME TypeOK, NEW p \in Peers
  PROVE  /\ printed[p] \in Seq(Nat) /\ shown(p) \in Seq(Nat) /\ toClient[p] \in Seq(Nat)
         /\ inHand(p) \in Seq(Nat) /\ toServer[p] \in Seq(Nat)
         /\ printed[p] \o shown(p) \in Seq(Nat)
         /\ printed[p] \o shown(p) \o toClient[p] \in Seq(Nat)
         /\ printed[p] \o shown(p) \o toClient[p] \o inHand(p) \in Seq(Nat)
<1>1. printed[p] \in Seq(Nat) /\ toClient[p] \in Seq(Nat) /\ toServer[p] \in Seq(Nat)
  BY DEF TypeOK
<1>2. shown(p) \in Seq(Nat)
  BY DEF TypeOK, shown
<1>3. inHand(p) \in Seq(Nat)
  <2>1. CASE \E s \in serving(p) : text[s] # NoText
    <3>1. PICK s \in serving(p) : s = (CHOOSE t \in serving(p) : text[t] # NoText) /\ text[s] # NoText
      BY <2>1
    <3>2. text[s] \in Nat
      BY <3>1 DEF TypeOK, serving
    <3>3. inHand(p) = <<text[s]>>
      BY <2>1, <3>1, Zenon DEF inHand
    <3>. QED
      BY <3>2, <3>3
  <2>2. CASE ~ \E s \in serving(p) : text[s] # NoText
    BY <2>2 DEF inHand
  <2>. QED
    BY <2>1, <2>2
<1>4. printed[p] \o shown(p) \in Seq(Nat)
  BY <1>1, <1>2, ConcatProperties
<1>5. printed[p] \o shown(p) \o toClient[p] \in Seq(Nat)
  BY <1>1, <1>4, ConcatProperties
<1>6. printed[p] \o shown(p) \o toClient[p] \o inHand(p) \in Seq(Nat)
  BY <1>3, <1>5, ConcatProperties
<1>. QED
  BY <1>1, <1>2, <1>3, <1>4, <1>5, <1>6

(* A line goes from the connection to the hand of the thread, *)
LEMMA ReceiveMoves ==
  ASSUME TypeOK, TextFits, ServedOnce, NEW s \in Slots, NEW p \in Peers, p = peer[s],
         Receive(s), UNCHANGED local
  PROVE  way(p)' = way(p)
<1>1. /\ toServer[p] # <<>> /\ thread[s] = "receive" /\ peer' = peer /\ toClient' = toClient
      /\ thread' = [thread EXCEPT ![s] = "send"]
      /\ text' = [text EXCEPT ![s] = Head(toServer[p])]
      /\ toServer' = [toServer EXCEPT ![p] = Tail(toServer[p])]
  BY DEF Receive
<1>2. toServer[p] \in Seq(Nat) /\ Head(toServer[p]) \in Nat
  BY <1>1, HeadTailProperties DEF TypeOK
<1>3. \A t \in Slots : thread[t] # "off" /\ peer[t] = p => t = s
  BY <1>1 DEF ServedOnce
<1>4. inHand(p) = <<>>
  <2>1. \A t \in Slots : ~carries(thread, peer, text, p, t)
    BY <1>1, <1>3 DEF carries, TextFits
  <2>2. handOf(thread, peer, text, p) = <<>>
    BY <2>1, HandEmpty
  <2>. QED
    BY <2>2, Mapped, Zenon
<1>5. inHand(p)' = <<Head(toServer[p])>>
  <2>1. text'[s] = Head(toServer[p]) /\ thread'[s] = "send" /\ peer'[s] = p
    BY <1>1 DEF TypeOK
  <2>2. \A t \in Slots : thread'[t] # "off" => thread[t] # "off"
    BY <1>1 DEF TypeOK
  <2>3. carries(thread', peer', text', p, s)
    BY <1>2, <2>1, EchoAssumption DEF carries
  <2>4. \A t \in Slots : carries(thread', peer', text', p, t) => t = s
    BY <1>1, <1>3, <2>2 DEF carries
  <2>5. handOf(thread', peer', text', p) = <<text'[s]>>
    BY <2>3, <2>4, HandIs
  <2>. QED
    BY <2>1, <2>5, Mapped, Zenon
<1>6. /\ printed'[p] = printed[p] /\ shown(p)' = shown(p) /\ toClient'[p] = toClient[p]
      /\ toServer'[p] = Tail(toServer[p])
  BY <1>1 DEF local, shown, TypeOK
<1>7. (printed[p] \o shown(p) \o toClient[p] \o <<>>) \o toServer[p]
        = (printed[p] \o shown(p) \o toClient[p] \o <<Head(toServer[p])>>) \o Tail(toServer[p])
  BY <1>1, <1>2, Parts, MoveReceived
<1>8. way(p) = (printed[p] \o shown(p) \o toClient[p] \o <<>>) \o toServer[p]
  BY <1>4, Zenon DEF way
<1>9. way(p)' = (printed[p] \o shown(p) \o toClient[p] \o <<Head(toServer[p])>>) \o Tail(toServer[p])
  BY <1>5, <1>6, Zenon DEF way
<1>. QED
  BY <1>7, <1>8, <1>9, Zenon

(* and from there back to the connection. *)
LEMMA EchoMoves ==
  ASSUME TypeOK, TextFits, ServedOnce, NEW s \in Slots, NEW p \in Peers \ gone, p = peer[s],
         Echo(s), UNCHANGED local
  PROVE  way(p)' = way(p)
<1>1. /\ thread[s] = "send" /\ peer' = peer /\ toServer' = toServer
      /\ thread' = [thread EXCEPT ![s] = "receive"]
      /\ text' = [text EXCEPT ![s] = NoText]
      /\ toClient' = [toClient EXCEPT ![p] = Append(toClient[p], text[s])]
  BY DEF Echo
<1>2. text[s] \in Nat /\ text[s] # NoText
  BY <1>1 DEF TypeOK, TextFits
<1>3. \A t \in Slots : thread[t] # "off" /\ peer[t] = p => t = s
  BY <1>1 DEF ServedOnce
<1>4. inHand(p) = <<text[s]>>
  <2>1. carries(thread, peer, text, p, s) /\ \A t \in Slots : carries(thread, peer, text, p, t) => t = s
    BY <1>1, <1>2, <1>3 DEF carries
  <2>2. handOf(thread, peer, text, p) = <<text[s]>>
    BY <2>1, HandIs
  <2>. QED
    BY <2>2, Mapped, Zenon
<1>5. inHand(p)' = <<>>
  <2>1. text'[s] = NoText
    BY <1>1 DEF TypeOK
  <2>2. \A t \in Slots : thread'[t] # "off" => thread[t] # "off"
    BY <1>1 DEF TypeOK
  <2>3. \A t \in Slots : ~carries(thread', peer', text', p, t)
    BY <1>1, <1>3, <2>1, <2>2 DEF carries
  <2>4. handOf(thread', peer', text', p) = <<>>
    BY <2>3, HandEmpty
  <2>. QED
    BY <2>4, Mapped, Zenon
<1>6. /\ printed'[p] = printed[p] /\ shown(p)' = shown(p) /\ toServer'[p] = toServer[p]
      /\ toClient'[p] = Append(toClient[p], text[s])
  BY <1>1 DEF local, shown, TypeOK
<1>7. ((printed[p] \o shown(p)) \o toClient[p]) \o <<text[s]>>
        = ((printed[p] \o shown(p)) \o Append(toClient[p], text[s])) \o <<>>
  <2>1. printed[p] \o shown(p) \in Seq(Nat) /\ toClient[p] \in Seq(Nat)
    BY Parts
  <2>. QED
    BY <1>2, <2>1, MoveAppended, Zenon
<1>8. way(p) = (((printed[p] \o shown(p)) \o toClient[p]) \o <<text[s]>>) \o toServer[p]
  BY <1>4, Zenon DEF way
<1>9. way(p)' = (((printed[p] \o shown(p)) \o Append(toClient[p], text[s])) \o <<>>) \o toServer[p]
  BY <1>5, <1>6, Zenon DEF way
<1>. QED
  BY <1>7, <1>8, <1>9, Zenon

(* The same at the other end: into the hand of the reader, *)
LEMMA HearMoves ==
  ASSUME TypeOK, ClientFits, NEW p \in Peers, Hear(p)
  PROVE  way(p)' = way(p)
<1>1. /\ reader[p] = "receive" /\ toClient[p] # <<>>
      /\ toClient'[p] = Tail(toClient[p]) /\ line'[p] = Head(toClient[p])
      /\ printed'[p] = printed[p] /\ toServer'[p] = toServer[p]
      /\ UNCHANGED <<thread, peer, text>>
  BY DEF Hear, TypeOK, slots
<1>2. toClient[p] \in Seq(Nat) /\ Head(toClient[p]) \in Nat
  BY <1>1, HeadTailProperties DEF TypeOK
<1>3. shown(p) = <<>>
  BY <1>1 DEF shown, ClientFits
<1>4. shown(p)' = <<Head(toClient[p])>>
  BY <1>1, <1>2, EchoAssumption DEF shown
<1>5. inHand(p)' = inHand(p)
  BY <1>1, SameThreads
<1>6. (printed[p] \o <<>>) \o toClient[p] = (printed[p] \o <<Head(toClient[p])>>) \o Tail(toClient[p])
  BY <1>1, <1>2, Parts, MoveReceived
<1>7. way(p) = (((printed[p] \o <<>>) \o toClient[p]) \o inHand(p)) \o toServer[p]
  BY <1>3, Zenon DEF way
<1>8. way(p)' = (((printed[p] \o <<Head(toClient[p])>>) \o Tail(toClient[p])) \o inHand(p)) \o toServer[p]
  BY <1>1, <1>4, <1>5, Zenon DEF way
<1>. QED
  BY <1>6, <1>7, <1>8, Zenon

(* and onto the terminal. *)
LEMMA ShowMoves ==
  ASSUME TypeOK, NEW p \in Peers, Show(p)
  PROVE  way(p)' = way(p)
<1>1. /\ toClient'[p] = toClient[p] /\ toServer'[p] = toServer[p] /\ line'[p] = NoText
      /\ printed'[p] = (IF line[p] = NoText THEN printed[p] ELSE Append(printed[p], line[p]))
      /\ UNCHANGED <<thread, peer, text>>
  BY DEF Show, TypeOK, slots, wires
<1>2. shown(p)' = <<>>
  BY <1>1 DEF shown
<1>3. inHand(p)' = inHand(p)
  BY <1>1, SameThreads
<1>4. printed[p] \o shown(p) = printed'[p] \o <<>>
  <2>1. CASE line[p] = NoText
    BY <1>1, <2>1 DEF shown
  <2>2. CASE line[p] # NoText
    <3>1. line[p] \in Nat /\ printed[p] \in Seq(Nat)
      BY <2>2 DEF TypeOK
    <3>2. printed[p] \o <<line[p]>> = Append(printed[p], line[p]) \o <<>>
      BY <3>1, MovePrinted
    <3>. QED
      BY <1>1, <2>2, <3>2 DEF shown
  <2>. QED
    BY <2>1, <2>2
<1>5. way(p)' = (((printed'[p] \o <<>>) \o toClient[p]) \o inHand(p)) \o toServer[p]
  BY <1>1, <1>2, <1>3, Zenon DEF way
<1>6. way(p) = (((printed[p] \o shown(p)) \o toClient[p]) \o inHand(p)) \o toServer[p]
  BY DEF way
<1>. QED
  BY <1>4, <1>5, <1>6, Zenon

(* A line sent on a connection is the next of those on their way. *)
LEMMA SendAdds ==
  ASSUME TypeOK, ClientFits, NEW p \in Peers, Send(p), link[p] = "open", way(p) = upTo(count(p))
  PROVE  way(p)' = upTo(count(p)')
<1>1. /\ main[p] = "send" /\ main'[p] = "prompt" /\ typed'[p] = typed[p]
      /\ toServer'[p] = Append(toServer[p], typed[p])
      /\ printed'[p] = printed[p] /\ line'[p] = line[p] /\ toClient'[p] = toClient[p]
      /\ UNCHANGED <<thread, peer, text>>
  BY DEF Send, TypeOK, slots
<1>2. typed[p] \in Nat /\ typed[p] > 0
  BY <1>1 DEF TypeOK, ClientFits
<1>3. /\ count(p) = typed[p] - 1 /\ count(p)' = typed[p]
      /\ count(p) \in Nat /\ count(p)' = count(p) + 1 /\ typed[p] = count(p) + 1
  BY <1>1, <1>2 DEF count
<1>4. upTo(count(p)') = Append(upTo(count(p)), typed[p])
  BY <1>3, CountedUp
<1>5. inHand(p)' = inHand(p) /\ shown(p)' = shown(p)
  BY <1>1, SameThreads DEF shown
<1>6. (printed[p] \o shown(p) \o toClient[p] \o inHand(p)) \o Append(toServer[p], typed[p])
        = Append((printed[p] \o shown(p) \o toClient[p] \o inHand(p)) \o toServer[p], typed[p])
  BY <1>2, Parts, AppendedLast
<1>7. way(p)' = (printed[p] \o shown(p) \o toClient[p] \o inHand(p)) \o Append(toServer[p], typed[p])
  BY <1>1, <1>5, Zenon DEF way
<1>8. way(p) = (printed[p] \o shown(p) \o toClient[p] \o inHand(p)) \o toServer[p]
  BY DEF way
<1>. QED
  BY <1>4, <1>6, <1>7, <1>8, Zenon

(* A connection stands before anything is sent on it. *)
LEMMA ConnectBegins ==
  ASSUME TypeOK, OnlyConnected, Gated, NEW p \in Peers, Connect(p)
  PROVE  way(p)' = upTo(count(p)')
<1>1. /\ reader[p] = "connect" /\ main[p] # "exit" /\ link[p] = "none"
      /\ printed'[p] = printed[p] /\ line'[p] = line[p] /\ toClient'[p] = toClient[p]
      /\ toServer'[p] = toServer[p] /\ count(p)' = count(p)
      /\ UNCHANGED <<thread, peer, text>>
  BY DEF Connect, runs, Gated, slots, count
<1>2. printed[p] = <<>> /\ line[p] = NoText /\ toClient[p] = <<>> /\ toServer[p] = <<>>
  BY <1>1 DEF OnlyConnected
<1>3. inHand(p) = <<>>
  <2>1. \A s \in Slots : ~carries(thread, peer, text, p, s)
    BY <1>1 DEF OnlyConnected, carries
  <2>2. handOf(thread, peer, text, p) = <<>>
    BY <2>1, HandEmpty
  <2>. QED
    BY <2>2, Mapped, Zenon
<1>4. way(p)' = <<>>
  <2>1. printed'[p] = <<>> /\ shown(p)' = <<>> /\ toClient'[p] = <<>> /\ inHand(p)' = <<>> /\ toServer'[p] = <<>>
    BY <1>1, <1>2, <1>3, SameThreads DEF shown
  <2>2. way(p)' = <<>> \o <<>> \o <<>> \o <<>> \o <<>>
    BY <2>1, Zenon DEF way
  <2>. QED
    BY <2>2
<1>5. count(p) = 0
  BY <1>1 DEF Gated, count
<1>. QED
  BY <1>1, <1>4, <1>5, CountedNone, Zenon

LEMMA LostKept ==
  ASSUME TypeOK, SlotsFit, TextFits, ServedOnce, OnlyConnected,
         Gated, ClientFits, NothingIsLost, [Next]_vars
  PROVE  NothingIsLost'
<1>1. ASSUME Begin \/ Scan, UNCHANGED local PROVE NothingIsLost'
  <2> SUFFICES ASSUME NEW q \in Peers \ gone', link'[q] = "open"
               PROVE  way(q)' = upTo(count(q)')
    BY Reworded
  <2>1. /\ UNCHANGED <<thread, peer, text>> /\ UNCHANGED local
        /\ UNCHANGED <<gone, toServer, toClient>>
    BY <1>1 DEF Begin, Scan, wires
  <2>2. way(q) = upTo(count(q))
    BY <2>1, Reworded DEF local
  <2>3. inHand(q)' = inHand(q)
    BY <2>1, SameThreads
  <2>4. count(q)' = count(q)
    BY <2>1 DEF local, count
  <2>. QED
    BY <2>1, <2>2, <2>3, <2>4, SameWay DEF local
<1>2. ASSUME Accept, UNCHANGED local PROVE NothingIsLost'
  <2> SUFFICES ASSUME NEW q \in Peers \ gone', link'[q] = "open"
               PROVE  way(q)' = upTo(count(q)')
    BY Reworded
  <2>1. UNCHANGED <<text, gone, toServer, toClient>> /\ UNCHANGED local
    BY <1>2 DEF Accept
  <2>2. way(q) = upTo(count(q))
    BY <2>1, Reworded DEF local
  <2>3. inHand(q)' = inHand(q)
    <3>1. acceptor.at \in Slots /\ thread[acceptor.at] = "off" /\ text[acceptor.at] = NoText
      BY <1>2 DEF Accept, TypeOK, SlotsFit, TextFits
    <3>2. \A t \in Slots : t # acceptor.at => thread'[t] = thread[t] /\ peer'[t] = peer[t]
      BY <1>2 DEF Accept, TypeOK
    <3>3. \A t \in Slots : carries(thread, peer, text, q, t) <=> carries(thread', peer', text', q, t)
      BY <2>1, <3>1, <3>2 DEF carries
    <3>. QED
      BY <2>1, <3>3, HandUnchanged
  <2>4. count(q)' = count(q)
    BY <2>1 DEF local, count
  <2>. QED
    BY <2>1, <2>2, <2>3, <2>4, SameWay DEF local
<1>3. ASSUME NEW s \in Slots, GiveUp(s), UNCHANGED local PROVE NothingIsLost'
  <2> SUFFICES ASSUME NEW q \in Peers \ gone', link'[q] = "open"
               PROVE  way(q)' = upTo(count(q)')
    BY Reworded
  <2>1. UNCHANGED <<text, peer, gone, toServer, toClient>> /\ UNCHANGED local
    BY <1>3 DEF GiveUp, wires
  <2>2. way(q) = upTo(count(q))
    BY <2>1, Reworded DEF local
  <2>3. inHand(q)' = inHand(q)
    <3>1. thread[s] = "receive" /\ text[s] = NoText
      BY <1>3 DEF GiveUp, TextFits
    <3>2. \A t \in Slots : t # s => thread'[t] = thread[t]
      BY <1>3 DEF GiveUp, TypeOK
    <3>3. \A t \in Slots : carries(thread, peer, text, q, t) <=> carries(thread', peer', text', q, t)
      BY <2>1, <3>1, <3>2 DEF carries
    <3>. QED
      BY <2>1, <3>3, HandUnchanged
  <2>4. count(q)' = count(q)
    BY <2>1 DEF local, count
  <2>. QED
    BY <2>1, <2>2, <2>3, <2>4, SameWay DEF local
<1>4. ASSUME NEW s \in Slots, Receive(s), UNCHANGED local PROVE NothingIsLost'
  <2> SUFFICES ASSUME NEW q \in Peers \ gone', link'[q] = "open"
               PROVE  way(q)' = upTo(count(q)')
    BY Reworded
  <2>1. UNCHANGED <<peer, gone, toClient>> /\ UNCHANGED local
    BY <1>4 DEF Receive
  <2>2. way(q) = upTo(count(q)) /\ q \in Peers \ gone
    BY <2>1, Reworded DEF local
  <2>3. count(q)' = count(q)
    BY <2>1 DEF local, count
  <2>4. CASE q = peer[s]
    <3>1. way(q)' = way(q)
      BY <1>4, <2>2, <2>4, ReceiveMoves
    <3>. QED
      BY <2>2, <2>3, <3>1, Zenon
  <2>5. CASE q # peer[s]
    <3>1. /\ toServer'[q] = toServer[q]
          /\ \A t \in Slots : t # s => thread'[t] = thread[t] /\ text'[t] = text[t]
      BY <1>4, <2>5 DEF Receive, TypeOK
    <3>2. \A t \in Slots : carries(thread, peer, text, q, t) <=> carries(thread', peer', text', q, t)
      BY <2>1, <2>5, <3>1 DEF carries
    <3>3. inHand(q)' = inHand(q)
      <4>1. \A t \in Slots : carries(thread, peer, text, q, t) => text'[t] = text[t]
        BY <2>5, <3>1 DEF carries
      <4>. QED
        BY <3>2, <4>1, HandUnchanged
    <3>. QED
      BY <2>1, <2>2, <2>3, <3>1, <3>3, SameWay DEF local
  <2>. QED
    BY <2>4, <2>5
<1>5. ASSUME NEW s \in Slots, Echo(s), UNCHANGED local PROVE NothingIsLost'
  <2> SUFFICES ASSUME NEW q \in Peers \ gone', link'[q] = "open"
               PROVE  way(q)' = upTo(count(q)')
    BY Reworded
  <2>1. UNCHANGED <<peer, gone, toServer>> /\ UNCHANGED local
    BY <1>5 DEF Echo
  <2>2. way(q) = upTo(count(q)) /\ q \in Peers \ gone
    BY <2>1, Reworded DEF local
  <2>3. count(q)' = count(q)
    BY <2>1 DEF local, count
  <2>4. CASE q = peer[s]
    <3>1. way(q)' = way(q)
      BY <1>5, <2>2, <2>4, EchoMoves
    <3>. QED
      BY <2>2, <2>3, <3>1, Zenon
  <2>5. CASE q # peer[s]
    <3>1. /\ toClient'[q] = toClient[q]
          /\ \A t \in Slots : t # s => thread'[t] = thread[t] /\ text'[t] = text[t]
      BY <1>5, <2>5 DEF Echo, TypeOK
    <3>2. \A t \in Slots : carries(thread, peer, text, q, t) <=> carries(thread', peer', text', q, t)
      BY <2>1, <2>5, <3>1 DEF carries
    <3>3. inHand(q)' = inHand(q)
      <4>1. \A t \in Slots : carries(thread, peer, text, q, t) => text'[t] = text[t]
        BY <2>5, <3>1 DEF carries
      <4>. QED
        BY <3>2, <4>1, HandUnchanged
    <3>. QED
      BY <2>1, <2>2, <2>3, <3>1, <3>3, SameWay DEF local
  <2>. QED
    BY <2>4, <2>5
<1>6. ASSUME NEW p \in Peers, Start(p) \/ Type(p) \/ Lock(p) \/ Quit(p) PROVE NothingIsLost'
  <2> SUFFICES ASSUME NEW q \in Peers \ gone', link'[q] = "open"
               PROVE  way(q)' = upTo(count(q)')
    BY Reworded
  <2>1. /\ UNCHANGED <<thread, peer, text, gone, toServer, toClient, link, printed, line>>
    BY <1>6 DEF Start, Type, Lock, Quit, slots, wires
  <2>2. way(q) = upTo(count(q))
    BY <2>1, Reworded
  <2>3. inHand(q)' = inHand(q)
    BY <2>1, SameThreads
  <2>4. count(q)' = count(q)
    BY <1>6 DEF Start, Type, Lock, Quit, count, TypeOK
  <2>. QED
    BY <2>1, <2>2, <2>3, <2>4, SameWay
<1>7. ASSUME NEW p \in Peers, Exit(p) PROVE NothingIsLost'
  <2> SUFFICES ASSUME NEW q \in Peers \ gone', link'[q] = "open"
               PROVE  way(q)' = upTo(count(q)')
    BY Reworded
  <2>1. /\ UNCHANGED <<thread, peer, text, toServer, toClient, link, printed, line>>
        /\ q # p /\ q \in Peers \ gone
    BY <1>7 DEF Exit, slots
  <2>2. way(q) = upTo(count(q))
    BY <2>1, Reworded
  <2>3. inHand(q)' = inHand(q)
    BY <2>1, SameThreads
  <2>4. count(q)' = count(q)
    BY <1>7, <2>1 DEF Exit, count, TypeOK
  <2>. QED
    BY <2>1, <2>2, <2>3, <2>4, SameWay
<1>8. ASSUME NEW p \in Peers, Send(p) PROVE NothingIsLost'
  <2> SUFFICES ASSUME NEW q \in Peers \ gone', link'[q] = "open"
               PROVE  way(q)' = upTo(count(q)')
    BY Reworded
  <2>1. UNCHANGED <<thread, peer, text, gone, toClient, printed, line, link>>
    BY <1>8 DEF Send, slots
  <2>2. CASE q = p
    <3>1. way(q) = upTo(count(q)) /\ link[p] = "open"
      BY <2>1, <2>2, Reworded
    <3>. QED
      BY <1>8, <2>2, <3>1, SendAdds
  <2>3. CASE q # p
    <3>1. /\ printed'[q] = printed[q] /\ line'[q] = line[q] /\ toClient'[q] = toClient[q]
          /\ toServer'[q] = toServer[q] /\ link'[q] = link[q] /\ main'[q] = main[q] /\ typed'[q] = typed[q]
      BY <1>8, <2>3 DEF Send, TypeOK
    <3>2. inHand(q)' = inHand(q)
      BY <2>1, SameThreads
    <3>3. way(q) = upTo(count(q))
      BY <2>1, <3>1, Reworded
    <3>4. count(q)' = count(q)
      BY <3>1 DEF count
    <3>. QED
      BY <3>1, <3>2, <3>3, <3>4, SameWay
  <2>. QED
    BY <2>2, <2>3
<1>9. ASSUME NEW p \in Peers, Connect(p) PROVE NothingIsLost'
  <2> SUFFICES ASSUME NEW q \in Peers \ gone', link'[q] = "open"
               PROVE  way(q)' = upTo(count(q)')
    BY Reworded
  <2>1. UNCHANGED <<thread, peer, text, gone, toServer, toClient, printed, line>>
    BY <1>9 DEF Connect, slots
  <2>2. CASE q = p
    BY <1>9, <2>2, ConnectBegins
  <2>3. CASE q # p
    <3>1. /\ printed'[q] = printed[q] /\ line'[q] = line[q] /\ toClient'[q] = toClient[q]
          /\ toServer'[q] = toServer[q] /\ link'[q] = link[q] /\ main'[q] = main[q] /\ typed'[q] = typed[q]
      BY <1>9, <2>3 DEF Connect, TypeOK
    <3>2. inHand(q)' = inHand(q)
      BY <2>1, SameThreads
    <3>3. way(q) = upTo(count(q))
      BY <2>1, <3>1, Reworded
    <3>4. count(q)' = count(q)
      BY <3>1 DEF count
    <3>. QED
      BY <3>1, <3>2, <3>3, <3>4, SameWay
  <2>. QED
    BY <2>2, <2>3
<1>10. ASSUME NEW p \in Peers, Hear(p) PROVE NothingIsLost'
  <2> SUFFICES ASSUME NEW q \in Peers \ gone', link'[q] = "open"
               PROVE  way(q)' = upTo(count(q)')
    BY Reworded
  <2>1. UNCHANGED <<thread, peer, text, gone, toServer, printed, link>>
    BY <1>10 DEF Hear, slots
  <2>2. CASE q = p
    <3>1. way(q) = upTo(count(q))
      BY <2>1, <2>2, Reworded
    <3>2. way(q)' = way(q)
      BY <1>10, <2>2, HearMoves
    <3>3. count(q)' = count(q)
      BY <1>10 DEF Hear, count
    <3>. QED
      BY <3>1, <3>2, <3>3, Zenon
  <2>3. CASE q # p
    <3>1. /\ printed'[q] = printed[q] /\ line'[q] = line[q] /\ toClient'[q] = toClient[q]
          /\ toServer'[q] = toServer[q] /\ link'[q] = link[q] /\ main'[q] = main[q] /\ typed'[q] = typed[q]
      BY <1>10, <2>3 DEF Hear, TypeOK
    <3>2. inHand(q)' = inHand(q)
      BY <2>1, SameThreads
    <3>3. way(q) = upTo(count(q))
      BY <2>1, <3>1, Reworded
    <3>4. count(q)' = count(q)
      BY <3>1 DEF count
    <3>. QED
      BY <3>1, <3>2, <3>3, <3>4, SameWay
  <2>. QED
    BY <2>2, <2>3
<1>11. ASSUME NEW p \in Peers, Show(p) PROVE NothingIsLost'
  <2> SUFFICES ASSUME NEW q \in Peers \ gone', link'[q] = "open"
               PROVE  way(q)' = upTo(count(q)')
    BY Reworded
  <2>1. UNCHANGED <<thread, peer, text, gone, toServer, toClient, link>>
    BY <1>11 DEF Show, slots, wires
  <2>2. CASE q = p
    <3>1. way(q) = upTo(count(q))
      BY <2>1, <2>2, Reworded
    <3>2. way(q)' = way(q)
      BY <1>11, <2>2, ShowMoves
    <3>3. count(q)' = count(q)
      BY <1>11 DEF Show, count
    <3>. QED
      BY <3>1, <3>2, <3>3, Zenon
  <2>3. CASE q # p
    <3>1. /\ printed'[q] = printed[q] /\ line'[q] = line[q] /\ toClient'[q] = toClient[q]
          /\ toServer'[q] = toServer[q] /\ link'[q] = link[q] /\ main'[q] = main[q] /\ typed'[q] = typed[q]
      BY <1>11, <2>3 DEF Show, TypeOK, wires
    <3>2. inHand(q)' = inHand(q)
      BY <2>1, SameThreads
    <3>3. way(q) = upTo(count(q))
      BY <2>1, <3>1, Reworded
    <3>4. count(q)' = count(q)
      BY <3>1 DEF count
    <3>. QED
      BY <3>1, <3>2, <3>3, <3>4, SameWay
  <2>. QED
    BY <2>2, <2>3
<1>12. ASSUME NEW p \in Peers, HearNothing(p) PROVE NothingIsLost'
  <2> SUFFICES ASSUME NEW q \in Peers \ gone', link'[q] = "open"
               PROVE  way(q)' = upTo(count(q)')
    BY Reworded
  <2>1. UNCHANGED <<thread, peer, text, gone, toServer, toClient, link, printed, main, typed>>
    BY <1>12 DEF HearNothing, slots, wires
  <2>2. line'[q] = line[q]
    BY <1>12 DEF HearNothing, ClientFits, TypeOK
  <2>3. way(q) = upTo(count(q))
    BY <2>1, Reworded
  <2>4. inHand(q)' = inHand(q)
    BY <2>1, SameThreads
  <2>5. count(q)' = count(q)
    BY <2>1 DEF count
  <2>. QED
    BY <2>1, <2>2, <2>3, <2>4, <2>5, SameWay
<1>13. CASE UNCHANGED vars
  <2>1. UNCHANGED <<thread, peer, text, gone, toServer, toClient, link, printed, line, main, typed>>
    BY <1>13 DEF vars, slots, wires, local
  <2>2. \A q \in Peers : inHand(q)' = inHand(q) /\ count(q)' = count(q)
    BY <2>1, SameThreads DEF count
  <2>3. ASSUME NEW q \in Peers \ gone', link'[q] = "open" PROVE way(q)' = upTo(count(q)')
    <3>1. way(q) = upTo(count(q))
      BY <2>1, <2>3, Reworded
    <3>. QED
      BY <2>1, <2>2, <3>1, SameWay
  <2>. QED
    BY <2>3, Reworded
<1>. QED
  BY <1>1, <1>2, <1>3, <1>4, <1>5, <1>6, <1>7, <1>8, <1>9, <1>10, <1>11, <1>12, <1>13
  DEF Next, Server, Acceptor, Thread, Prompt, Reader

---------------------------------------------------------------------------

LEMMA InvariantsBegin == Init => IInv
<1> SUFFICES ASSUME Init PROVE IInv
  OBVIOUS
<1>1. TypeOK
  BY TypeInit
<1>2. SlotsFit /\ TextFits /\ ServedOnce /\ OnlyConnected
  BY EchoAssumption DEF Init, InitServer, SlotsFit, TextFits, ServedOnce, OnlyConnected
<1>3. Gated /\ ClientFits /\ NothingIsLost
  BY DEF Init, InitServer, Gated, ClientFits, NothingIsLost, gate
<1>. QED
  BY <1>1, <1>2, <1>3 DEF IInv

LEMMA InvariantsKept == IInv /\ [Next]_vars => IInv'
BY TypeKept, SlotsFitKept, TextFitsKept, ServedOnceKept, OnlyConnectedKept, GatedKept, ClientFitsKept,
   LostKept, Zenon DEF IInv

(* The inductive invariant, of every step of the clients and the server.   *)
THEOREM InvariantsHold == Spec => []IInv
BY InvariantsBegin, InvariantsKept, PTL DEF Spec

(* Every variable of TelnetSession keeps its type; in particular the       *)
(* semaphore Client::mutex is never posted above one.                      *)
THEOREM TypeCorrect == Spec => []TypeOK
BY InvariantsHold, PTL DEF IInv

(* For any number of clients and slots, with the buffers and the handles   *)
(* the system happens to have: every line a client sent on its connection  *)
(* is on its way or printed, once and in the order typed, although sendText *)
(* and receiveText of its two threads share the connection.                *)
THEOREM NoLineIsLost == Spec => []NothingIsLost
BY InvariantsHold, PTL DEF IInv

===========================================================================

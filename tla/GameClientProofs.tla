------------------------- MODULE GameClientProofs -------------------------
(***************************************************************************)
(* The threads of the game client and its session with the server, for a   *)
(* connection of any capacity: the commands of three threads are never     *)
(* mixed up, and what stop() may rely on although it joins no thread.      *)
(***************************************************************************)
EXTENDS GameClient, SequenceTheorems, TLAPS

Sending == {"wait", "text", "eol"}
Holding == {"text", "eol"}

(* Where each of the three threads can be. *)
PlacesFit ==
  /\ pc["main"] \in {"start", "keys", "stop", "stop updater", "leave", "exit", "killed"} \cup Sending
  /\ pc["receiver"] \in {"off", "receive", "done"} \cup Sending
  /\ pc["updater"] \in {"off", "sleep", "look", "done"} \cup Sending

(* Nothing happens before main has connected and begun the others. *)
Started ==
  /\ pc["main"] = "start" =>
       link = "none" /\ mutex = 1 /\ pc["receiver"] = "off" /\ pc["updater"] = "off"
  /\ link = "none" => pc["main"] \in {"start", "killed"} /\ wire = <<>> /\ player = "new"
  /\ pc["main"] \notin {"start", "killed"} => pc["receiver"] # "off" /\ pc["updater"] # "off"

(* The semaphore is taken exactly while one thread is between its wait and *)
(* its post; unless main was killed there, and all with it.                *)
OneSends ==
  pc["main"] # "killed" =>
    /\ \A t, u \in Threads : pc[t] \in Holding /\ pc[u] \in Holding => t = u
    /\ mutex = 0 <=> \E t \in Threads : pc[t] \in Holding

(* Who sends has something to send. *)
Commanded ==
  /\ \A t \in Threads : pc[t] \in Sending => cmd[t] # "none"
  /\ pc["updater"] \in Sending => cmd["updater"] = "look"

(* Between the two sends of a sendText there is its text on the wire and   *)
(* nothing else.                                                           *)
WireFits ==
  /\ Len(wire) <= 1
  /\ link = "open" /\ pc["main"] # "killed" =>
       /\ wire # <<>> => \E t \in Threads : pc[t] = "eol"
       /\ \A t \in Threads : pc[t] = "eol" => wire = <<cmd[t]>>

(* Who has been told to stop, and when. *)
StopFits ==
  /\ "receiver" \in stop => pc["main"] \in {"stop updater", "leave", "exit", "killed"}
  /\ pc["main"] \in {"stop updater", "leave", "exit"} => "receiver" \in stop
  /\ "updater" \in stop => pc["main"] \in {"leave", "exit", "killed"}
  /\ pc["updater"] = "done" => "updater" \in stop

(* Who sleeps. *)
NapsFit ==
  /\ nap["receiver"] = 0
  /\ nap["updater"] \in 0 .. updaterNap
  /\ nap["updater"] > 0 => pc["updater"] = "look"

among(x, s) == \E k \in DOMAIN s : s[k] = x

(* A greeting is answered with a login. *)
LoginComes ==
  player = "out" /\ link = "open" =>
    \/ among("ready", toClient)
    \/ pc["receiver"] \in Sending /\ cmd["receiver"] = "connect"
    \/ among("connect", toServer)

(* A quarter of a second behind the first setStop the updater is about to  *)
(* look, or has, and the server's answer is about to wake the receiver; if *)
(* nobody is late.                                                         *)
LookComes ==
  /\ pc["main"] = "stop updater" /\ nap["main"] = 3
  /\ pc["receiver"] = "receive" /\ ~late /\ link = "open"
  => \/ pc["updater"] \in {"look"} \cup Sending /\ nap["updater"] = 0
     \/ among("look", toServer)
     \/ toClient # <<>>
     \/ player # "in"

(* Another quarter later it has woken the receiver, which then does not    *)
(* begin to receive again.                                                 *)
stoppedLong ==
  \/ pc["main"] = "stop updater" /\ nap["main"] <= 2
  \/ pc["main"] \in {"leave", "exit"}
ReceiverWoken ==
  pc["receiver"] = "receive" /\ stoppedLong /\ ~late => player = "refused"

(* The server takes nothing before the client reads. *)
stuck == player = "new" \/ (player = "in" /\ Head(toServer) # "order")

(* What is left when main has returned. *)
SessionOver ==
  pc["main"] = "exit" /\ ~late =>
    \/ pc["receiver"] = "done"
    \/ jammed /\ stuck
    \/ player # "in" /\ (player = "refused" \/ link # "open" \/ toServer = <<>>)

(* The types of TypeOK, of the threads and of the session. *)
Places == {"start", "keys", "stop", "stop updater", "leave", "exit", "killed", "off",
           "receive", "sleep", "look", "done", "wait", "text", "eol"}
Texts == {"connect", "look", "order"}
Said == {"ready", "login", "look", "other"}

ThreadsTyped ==
  /\ pc \in [Threads -> Places]
  /\ cmd \in [Threads -> Texts \cup {"none"}]
  /\ nap \in [Threads -> 0 .. stopNap]
  /\ mutex \in 0 .. 1 /\ mode \in 0 .. 2 /\ stop \subseteq Threads /\ late \in BOOLEAN

SessionTyped ==
  /\ link \in {"none", "open", "down"} /\ player \in {"new", "out", "in", "refused"}
  /\ wire \in Seq(Texts) /\ toServer \in Seq(Texts \cup {"garbled"}) /\ toClient \in Seq(Said)

IInv ==
  /\ TypeOK /\ PlacesFit /\ Started /\ OneSends /\ Commanded /\ WireFits
  /\ StopFits /\ NapsFit /\ LoginComes /\ LookComes /\ ReceiverWoken
  /\ SessionOver /\ CommandsAreWhole

---------------------------------------------------------------------------

(* What is in a queue that has been added to, or taken from. *)
LEMMA AmongAppended ==
  ASSUME NEW S, NEW s \in Seq(S), NEW e \in S, NEW x
  PROVE  /\ Append(s, e) \in Seq(S) /\ Append(s, e) # <<>> /\ Len(Append(s, e)) = Len(s) + 1
         /\ among(x, Append(s, e)) <=> among(x, s) \/ x = e
<1>1. /\ Append(s, e) \in Seq(S) /\ Append(s, e) # <<>> /\ Len(Append(s, e)) = Len(s) + 1
      /\ \A i \in 1 .. Len(s) : Append(s, e)[i] = s[i]
      /\ Append(s, e)[Len(s) + 1] = e
  BY AppendProperties
<1>2. Len(s) \in Nat /\ DOMAIN s = 1 .. Len(s) /\ DOMAIN Append(s, e) = 1 .. Len(s) + 1
  BY <1>1, LenProperties
<1>3. ASSUME among(x, Append(s, e)) PROVE among(x, s) \/ x = e
  BY <1>1, <1>2, <1>3 DEF among
<1>4. ASSUME among(x, s) \/ x = e PROVE among(x, Append(s, e))
  <2>1. Len(s) + 1 \in DOMAIN Append(s, e) /\ \A i \in DOMAIN s : i \in DOMAIN Append(s, e)
    BY <1>2
  <2>. QED
    BY <1>1, <1>2, <1>4, <2>1 DEF among
<1>. QED
  BY <1>1, <1>3, <1>4

LEMMA AmongTail ==
  ASSUME NEW S, NEW s \in Seq(S), s # <<>>, NEW x
  PROVE  /\ Head(s) \in S /\ Tail(s) \in Seq(S) /\ Len(Tail(s)) = Len(s) - 1
         /\ among(x, s) <=> Head(s) = x \/ among(x, Tail(s))
<1>1. /\ Head(s) \in S /\ Tail(s) \in Seq(S) /\ Len(Tail(s)) = Len(s) - 1
      /\ \A i \in 1 .. Len(Tail(s)) : Tail(s)[i] = s[i + 1]
  BY HeadTailProperties
<1>2. /\ Len(s) \in Nat \ {0} /\ Head(s) = s[1]
      /\ DOMAIN s = 1 .. Len(s) /\ DOMAIN Tail(s) = 1 .. Len(s) - 1
  BY <1>1, EmptySeq, LenProperties
<1>3. ASSUME NEW k \in DOMAIN s, s[k] = x PROVE Head(s) = x \/ among(x, Tail(s))
  <2>1. CASE k = 1
    BY <1>2, <1>3, <2>1
  <2>2. CASE k # 1
    <3>1. k - 1 \in DOMAIN Tail(s) /\ Tail(s)[k - 1] = s[k]
      BY <1>1, <1>2, <2>2
    <3>. QED
      BY <1>3, <3>1 DEF among
  <2>. QED
    BY <2>1, <2>2
<1>4. ASSUME Head(s) = x \/ among(x, Tail(s)) PROVE among(x, s)
  <2>1. CASE Head(s) = x
    BY <1>2, <2>1 DEF among
  <2>2. ASSUME NEW k \in DOMAIN Tail(s), Tail(s)[k] = x PROVE among(x, s)
    <3>1. k + 1 \in DOMAIN s /\ s[k + 1] = x
      BY <1>1, <1>2, <2>2
    <3>. QED
      BY <3>1 DEF among
  <2>. QED
    BY <1>4, <2>1, <2>2 DEF among
<1>. QED
  BY <1>1, <1>3, <1>4 DEF among

LEMMA AmongNone == \A x : ~among(x, <<>>)
BY DEF among

LEMMA WholeMeans ==
  /\ CommandsAreWhole <=> ~among("garbled", toServer) /\ Len(wire) <= 1
  /\ CommandsAreWhole' <=> ~among("garbled", toServer') /\ Len(wire') <= 1
BY DEF CommandsAreWhole, among

LEMMA TypesAre ==
  /\ TypeOK <=> ThreadsTyped /\ SessionTyped
  /\ TypeOK' <=> ThreadsTyped' /\ SessionTyped'
<1>1. Texts \cup {"none"} = {"none", "connect", "look", "order"}
  BY DEF Texts
<1>2. Texts \cup {"garbled"} = {"connect", "look", "order", "garbled"}
  BY DEF Texts
<1>. QED
  BY <1>1, <1>2, Zenon DEF TypeOK, ThreadsTyped, SessionTyped, Places, Texts, Said

LEMMA Names == "main" \in Threads /\ "receiver" \in Threads /\ "updater" \in Threads
BY DEF Threads

LEMMA LoopIs ==
  /\ loop("main") = "keys"
  /\ loop("receiver") = IF "receiver" \in stop THEN "done" ELSE "receive"
  /\ loop("updater") = IF "updater" \in stop THEN "done" ELSE "sleep"
BY DEF loop

LEMMA NapIs == stopNap = 4 /\ updaterNap = 1 /\ stopNap \in 0 .. stopNap
<1>1. stopNap = 4 /\ updaterNap = 1
  BY DEF stopNap, updaterNap
<1>. QED
  BY <1>1

(* A quarter of a second less. *)
less(n) == IF n > 0 THEN n - 1 ELSE 0

LEMMA LessIs ==
  /\ ~(0 > 0) /\ 0 <= 2 /\ ~(4 <= 2) /\ 4 # 3 /\ less(0) = 0
  /\ \A n \in 0 .. 1 : n = 0 \/ (n > 0 /\ less(n) = 0)
  /\ \A n \in 0 .. 4 : ~(n <= 2) /\ less(n) <= 2 => n = 3
BY DEF less

(* Where a key takes main. *)
goes(key) ==
  CASE key = "q" /\ mode = 0 -> "stop"
    [] ordering(key) -> "wait"
    [] OTHER -> "keys"

LEMMA KeyGoes ==
  ASSUME NEW key \in Keys
  PROVE  /\ Key(key) => Goto("main", "keys", goes(key))
         /\ goes(key) = IF key = "q" /\ mode = 0 THEN "stop" ELSE IF ordering(key) THEN "wait" ELSE "keys"
<1>1. Key(key) => Goto("main", "keys", goes(key))
  BY Zenon DEF Key, goes
<1>2. CASE key = "q" /\ mode = 0
  <2>1. ~ordering(key)
    BY <1>2 DEF ordering
  <2>2. goes(key) = "stop"
    BY <1>2, <2>1, Zenon DEF goes
  <2>. QED
    BY <1>1, <1>2, <2>2
<1>3. CASE ~(key = "q" /\ mode = 0) /\ ordering(key)
  BY <1>1, <1>3, Zenon DEF goes
<1>4. CASE ~(key = "q" /\ mode = 0) /\ ~ordering(key)
  BY <1>1, <1>4, Zenon DEF goes
<1>. QED
  BY <1>2, <1>3, <1>4

LEMMA ReplyIs ==
  ASSUME NEW x
  PROVE  /\ reply(x) \in {"connect", "look", "none"}
         /\ x = "ready" => reply(x) = "connect"
BY DEF reply

---------------------------------------------------------------------------

LEMMA ThreadsTypedKept ==
  ASSUME ThreadsTyped, SessionTyped, PlacesFit, Commanded, [Next]_vars
  PROVE  ThreadsTyped'
<1>1. ASSUME NEW t \in Threads, Wait(t) PROVE ThreadsTyped'
  <2>1. pc' = [pc EXCEPT ![t] = "text"] /\ "text" \in Places
    BY <1>1 DEF Wait, Goto, Places
  <2>2. mutex' = 0 /\ UNCHANGED <<cmd, nap, mode, stop, late>>
    BY <1>1 DEF Wait
  <2>. QED
    BY <2>1, <2>2 DEF ThreadsTyped
<1>2. ASSUME NEW t \in Threads, SendText(t) PROVE ThreadsTyped'
  BY <1>2, LoopIs, ReplyIs, Names
  DEF SendText, Goto, ThreadsTyped, Places, stopNap, updaterNap, Texts
<1>3. ASSUME NEW t \in Threads, SendEol(t) PROVE ThreadsTyped'
  <2>1. loop(t) \in Places
    BY LoopIs DEF Threads, Places
  <2>2. pc' = [pc EXCEPT ![t] = loop(t)] /\ cmd' = [cmd EXCEPT ![t] = "none"]
    BY <1>3 DEF SendEol, Goto
  <2>3. mutex' = 1 /\ UNCHANGED <<nap, mode, stop, late>>
    BY <1>3 DEF SendEol
  <2>4. pc' \in [Threads -> Places]
    BY <2>1, <2>2 DEF ThreadsTyped
  <2>5. cmd' \in [Threads -> Texts \cup {"none"}]
    BY <2>2 DEF ThreadsTyped
  <2>. QED
    BY <2>3, <2>4, <2>5 DEF ThreadsTyped
<1>4. CASE Start
  <2>1. /\ "keys" \in Places /\ loop("receiver") \in Places /\ loop("updater") \in Places
        /\ Threads = {"main", "receiver", "updater"}
    BY LoopIs DEF Places, Threads
  <2>2. pc' = [main |-> "keys", receiver |-> loop("receiver"), updater |-> loop("updater")]
    BY <1>4 DEF Start
  <2>3. pc' \in [Threads -> Places]
    BY <2>1, <2>2
  <2>. QED
    BY <1>4, <2>3 DEF Start, ThreadsTyped
<1>5. ASSUME NEW key \in Keys, Key(key) PROVE ThreadsTyped'
  <2>1. PICK label \in {"stop", "wait", "keys"}, text \in {"order", "none"} :
          pc' = [pc EXCEPT !["main"] = label] /\ cmd' = [cmd EXCEPT !["main"] = text]
    <3>1. pc' = [pc EXCEPT !["main"] = goes(key)] /\ goes(key) \in {"stop", "wait", "keys"}
      BY <1>5, KeyGoes DEF Goto
    <3>2. cmd' = [cmd EXCEPT !["main"] = IF ordering(key) THEN "order" ELSE "none"]
      BY <1>5 DEF Key
    <3>. QED
      BY <3>1, <3>2
  <2>2. label \in Places /\ text \in Texts \cup {"none"}
    BY DEF Places, Texts
  <2>3. pc' \in [Threads -> Places] /\ cmd' \in [Threads -> Texts \cup {"none"}]
    BY <2>1, <2>2, Names DEF ThreadsTyped
  <2>4. mode' \in 0 .. 2
    BY <1>5 DEF Key, after, ThreadsTyped
  <2>. QED
    BY <1>5, <2>3, <2>4 DEF Key, ThreadsTyped
<1>6. CASE Stop
  <2>1. PICK label \in {"stop updater", "leave"}, u \in {"receiver", "updater"} :
          pc' = [pc EXCEPT !["main"] = label] /\ stop' = stop \cup {u}
    BY <1>6 DEF Stop, Goto
  <2>2. label \in Places /\ u \in Threads
    BY DEF Places, Threads
  <2>3. pc' \in [Threads -> Places] /\ stop' \subseteq Threads
    BY <2>1, <2>2, Names DEF ThreadsTyped
  <2>4. nap' \in [Threads -> 0 .. stopNap]
    <3>1. nap' = [nap EXCEPT !["main"] = stopNap]
      BY <1>6 DEF Stop
    <3>. QED
      BY <3>1, NapIs, Names DEF ThreadsTyped
  <2>. QED
    BY <1>6, <2>3, <2>4 DEF Stop, ThreadsTyped
<1>7. CASE Exit
  BY <1>7, LoopIs, ReplyIs, Names
  DEF Exit, Goto, session, ThreadsTyped, Places, stopNap, updaterNap, Texts
<1>8. CASE Interrupt
  BY <1>8, LoopIs, ReplyIs, Names
  DEF Interrupt, session, ThreadsTyped, Places, stopNap, updaterNap, Texts
<1>9. CASE Receive
  BY <1>9, LoopIs, ReplyIs, Names
  DEF Receive, Goto, ThreadsTyped, Places, stopNap, updaterNap, Texts
<1>10. CASE ReceiveNothing
  BY <1>10, LoopIs, ReplyIs, Names
  DEF ReceiveNothing, Goto, session, ThreadsTyped, Places, stopNap, updaterNap,
    Texts
<1>11. CASE Sleep
  <2>1. pc' = [pc EXCEPT !["updater"] = "look"] /\ "look" \in Places
    BY <1>11 DEF Sleep, Goto, Places
  <2>2. pc' \in [Threads -> Places]
    BY <2>1, Names DEF ThreadsTyped
  <2>3. nap' \in [Threads -> 0 .. stopNap]
    BY <1>11, Names DEF Sleep, ThreadsTyped, stopNap, updaterNap
  <2>. QED
    BY <1>11, <2>2, <2>3 DEF Sleep, ThreadsTyped
<1>12. CASE Look
  BY <1>12, LoopIs, ReplyIs, Names
  DEF Look, Goto, session, ThreadsTyped, Places, stopNap, updaterNap, Texts
<1>13. CASE Greet \/ Serve \/ Ignore \/ Broadcast \/ HangUp
  BY <1>13, LoopIs, ReplyIs, Names
  DEF Greet, threads, Serve, Ignore, Broadcast, HangUp, ThreadsTyped, Places, stopNap,
    updaterNap, Texts
<1>14. CASE Tick
  <2>1. nap' \in [Threads -> 0 .. stopNap]
    <3>1. ASSUME NEW t \in Threads PROVE (IF nap[t] > 0 THEN nap[t] - 1 ELSE 0) \in 0 .. stopNap
      BY DEF ThreadsTyped, stopNap
    <3>. QED
      BY <1>14, <3>1 DEF Tick
  <2>2. late' \in BOOLEAN
    <3>1. late' = (late \/ \E t \in Threads : busy(t))
      BY <1>14 DEF Tick
    <3>. QED
      BY <3>1, Zenon
  <2>. QED
    BY <1>14, <2>1, <2>2 DEF Tick, ThreadsTyped
<1>15. CASE UNCHANGED vars
  BY <1>15 DEF vars, threads, session, ThreadsTyped
<1>. QED
  BY <1>1, <1>2, <1>3, <1>4, <1>5, <1>6, <1>7, <1>8, <1>9, <1>10, <1>11, <1>12,
     <1>13, <1>14, <1>15
  DEF Next, Main, Send, Receiver, Updater, Server, Threads

LEMMA SessionTypedKept ==
  ASSUME ThreadsTyped, SessionTyped, Commanded, [Next]_vars
  PROVE  SessionTyped'
<1>1. ASSUME NEW t \in Threads, Wait(t) PROVE SessionTyped'
  BY <1>1
  DEF Wait, Goto, session, SessionTyped
<1>2. ASSUME NEW t \in Threads, SendText(t) PROVE SessionTyped'
  <2>1. cmd[t] \in Texts
    BY <1>2 DEF SendText, Goto, ThreadsTyped, Commanded, Sending
  <2>2. wire' = wire \/ wire' = Append(wire, cmd[t])
    BY <1>2 DEF SendText
  <2>3. Append(wire, cmd[t]) \in Seq(Texts)
    BY <2>1, AmongAppended DEF SessionTyped
  <2>. QED
    BY <1>2, <2>2, <2>3 DEF SendText, SessionTyped
<1>3. ASSUME NEW t \in Threads, SendEol(t) PROVE SessionTyped'
  <2>1. ASSUME Len(wire) = 1 PROVE wire[1] \in Texts
    <3>1. 1 \in 1 .. Len(wire)
      BY <2>1
    <3>. QED
      BY <3>1, ElementOfSeq DEF SessionTyped
  <2>2. PICK x \in Texts \cup {"garbled"} :
          \/ toServer' = toServer /\ wire' = wire
          \/ toServer' = Append(toServer, x) /\ wire' = <<>>
    BY <1>3, <2>1 DEF SendEol
  <2>3. Append(toServer, x) \in Seq(Texts \cup {"garbled"})
    BY AmongAppended DEF SessionTyped
  <2>4. link' = link /\ toClient' = toClient /\ player' = player
    BY <1>3 DEF SendEol
  <2>5. <<>> \in Seq(Texts)
    BY EmptySeq
  <2>6. wire' \in Seq(Texts) /\ toServer' \in Seq(Texts \cup {"garbled"})
    BY <2>2, <2>3, <2>5 DEF SessionTyped
  <2>. QED
    BY <2>4, <2>6 DEF SessionTyped
<1>4. CASE Start
  BY <1>4
  DEF Start, SessionTyped
<1>5. ASSUME NEW key \in Keys, Key(key) PROVE SessionTyped'
  BY <1>5
  DEF Key, Goto, session, SessionTyped
<1>6. CASE Stop \/ Exit \/ Interrupt \/ Sleep \/ Look \/ ReceiveNothing \/ Tick
  BY <1>6
  DEF Stop, Goto, session, Exit, Interrupt, Sleep, Look, ReceiveNothing, Tick,
    SessionTyped
<1>7. CASE Receive
  <2>1. toClient # <<>> /\ toClient' = Tail(toClient)
    BY <1>7 DEF Receive
  <2>2. toClient' \in Seq(Said)
    BY <2>1, AmongTail DEF SessionTyped
  <2>. QED
    BY <1>7, <2>2 DEF Receive, SessionTyped
<1>8. CASE Greet
  <2>1. toClient' = Append(toClient, "ready") /\ "ready" \in Said
    BY <1>8 DEF Greet, Said
  <2>2. toClient' \in Seq(Said)
    BY <2>1, AmongAppended DEF SessionTyped
  <2>. QED
    BY <1>8, <2>2 DEF Greet, SessionTyped
<1>9. CASE Serve
  <2>1. toServer # <<>> /\ toServer' = Tail(toServer)
    BY <1>9 DEF Serve
  <2>2. toServer' \in Seq(Texts \cup {"garbled"})
    BY <2>1, AmongTail DEF SessionTyped
  <2>3. PICK x \in Said : toClient' = toClient \/ toClient' = Append(toClient, x)
    <3>1. "login" \in Said /\ "look" \in Said /\ "other" \in Said
      BY DEF Said
    <3>. QED
      BY <1>9, <3>1, Zenon DEF Serve
  <2>4. Append(toClient, x) \in Seq(Said)
    BY AmongAppended DEF SessionTyped
  <2>5. player' \in {"new", "out", "in", "refused"} /\ link' = link /\ wire' = wire
    BY <1>9 DEF Serve, SessionTyped
  <2>. QED
    BY <2>2, <2>3, <2>4, <2>5 DEF SessionTyped
<1>10. CASE Broadcast
  <2>1. toClient' = Append(toClient, "other") /\ "other" \in Said
    BY <1>10 DEF Broadcast, Said
  <2>2. toClient' \in Seq(Said)
    BY <2>1, AmongAppended DEF SessionTyped
  <2>. QED
    BY <1>10, <2>2 DEF Broadcast, SessionTyped
<1>11. CASE HangUp
  BY <1>11
  DEF HangUp, threads, SessionTyped
<1>12. CASE Ignore
  <2>1. toServer # <<>> /\ toServer' = Tail(toServer)
    BY <1>12 DEF Ignore
  <2>2. toServer' \in Seq(Texts \cup {"garbled"})
    BY <2>1, AmongTail DEF SessionTyped
  <2>. QED
    BY <1>12, <2>2 DEF Ignore, SessionTyped
<1>13. CASE UNCHANGED vars
  BY <1>13 DEF vars, threads, session, SessionTyped
<1>. QED
  BY <1>1, <1>2, <1>3, <1>4, <1>5, <1>6, <1>7, <1>8, <1>9, <1>10, <1>11, <1>12,
     <1>13
  DEF Next, Main, Send, Receiver, Updater, Server, Threads

LEMMA PlacesFitKept ==
  ASSUME ThreadsTyped, PlacesFit, StopFits, [Next]_vars
  PROVE  PlacesFit'
<1>1. ASSUME NEW t \in Threads, Wait(t) PROVE PlacesFit'
  BY <1>1, LoopIs, ReplyIs, Names, KeyGoes
  DEF Wait, Goto, session, PlacesFit, Sending, ThreadsTyped, Threads
<1>2. ASSUME NEW t \in Threads, SendText(t) PROVE PlacesFit'
  BY <1>2, LoopIs, ReplyIs, Names, KeyGoes
  DEF SendText, Goto, PlacesFit, Sending, ThreadsTyped, Threads
<1>3. ASSUME NEW t \in Threads, SendEol(t) PROVE PlacesFit'
  BY <1>3, LoopIs, ReplyIs, Names, KeyGoes
  DEF SendEol, Goto, PlacesFit, Sending, ThreadsTyped, Threads
<1>4. CASE Start
  BY <1>4, LoopIs, ReplyIs, Names, KeyGoes
  DEF Start, PlacesFit, Sending, ThreadsTyped, Threads
<1>5. ASSUME NEW key \in Keys, Key(key) PROVE PlacesFit'
  BY <1>5, LoopIs, ReplyIs, Names, KeyGoes
  DEF Key, Goto, session, PlacesFit, Sending, ThreadsTyped, Threads
<1>6. CASE Stop
  BY <1>6, LoopIs, ReplyIs, Names, KeyGoes
  DEF Stop, Goto, session, PlacesFit, Sending, ThreadsTyped, Threads
<1>7. CASE Exit
  BY <1>7, LoopIs, ReplyIs, Names, KeyGoes
  DEF Exit, Goto, session, PlacesFit, Sending, ThreadsTyped, Threads
<1>8. CASE Interrupt
  BY <1>8, LoopIs, ReplyIs, Names, KeyGoes
  DEF Interrupt, session, PlacesFit, Sending, ThreadsTyped, Threads
<1>9. CASE Receive
  BY <1>9, LoopIs, ReplyIs, Names, KeyGoes
  DEF Receive, Goto, PlacesFit, Sending, ThreadsTyped, Threads
<1>10. CASE ReceiveNothing
  BY <1>10, LoopIs, ReplyIs, Names, KeyGoes
  DEF ReceiveNothing, Goto, session, PlacesFit, Sending, ThreadsTyped, Threads
<1>11. CASE Sleep
  BY <1>11, LoopIs, ReplyIs, Names, KeyGoes
  DEF Sleep, Goto, session, PlacesFit, Sending, ThreadsTyped, Threads
<1>12. CASE Look
  BY <1>12, LoopIs, ReplyIs, Names, KeyGoes
  DEF Look, Goto, session, PlacesFit, Sending, ThreadsTyped, Threads
<1>13. CASE Greet \/ Serve \/ Ignore \/ Broadcast \/ HangUp
  BY <1>13, LoopIs, ReplyIs, Names, KeyGoes
  DEF Greet, threads, Serve, Ignore, Broadcast, HangUp, PlacesFit, Sending, ThreadsTyped,
    Threads
<1>14. CASE Tick
  BY <1>14, LoopIs, ReplyIs, Names, KeyGoes
  DEF Tick, session, PlacesFit, Sending, ThreadsTyped, Threads
<1>15. CASE UNCHANGED vars
  BY <1>15 DEF vars, threads, session, PlacesFit
<1>. QED
  BY <1>1, <1>2, <1>3, <1>4, <1>5, <1>6, <1>7, <1>8, <1>9, <1>10, <1>11, <1>12,
     <1>13, <1>14, <1>15
  DEF Next, Main, Send, Receiver, Updater, Server, Threads

LEMMA StartedKept ==
  ASSUME ThreadsTyped, PlacesFit, Started, [Next]_vars
  PROVE  Started'
<1>1. ASSUME NEW t \in Threads, Wait(t) PROVE Started'
  BY <1>1, LoopIs, ReplyIs, Names, KeyGoes
  DEF Wait, Goto, session, Started, PlacesFit, Sending, ThreadsTyped, Threads,
    running
<1>2. ASSUME NEW t \in Threads, SendText(t) PROVE Started'
  BY <1>2, LoopIs, ReplyIs, Names, KeyGoes
  DEF SendText, Goto, Started, PlacesFit, Sending, ThreadsTyped, Threads, running
<1>3. ASSUME NEW t \in Threads, SendEol(t) PROVE Started'
  BY <1>3, LoopIs, ReplyIs, Names, KeyGoes
  DEF SendEol, Goto, Started, PlacesFit, Sending, ThreadsTyped, Threads, running
<1>4. CASE Start
  BY <1>4, LoopIs, ReplyIs, Names, KeyGoes
  DEF Start, Started, PlacesFit, Sending, ThreadsTyped, Threads, running
<1>5. ASSUME NEW key \in Keys, Key(key) PROVE Started'
  BY <1>5, LoopIs, ReplyIs, Names, KeyGoes
  DEF Key, Goto, session, Started, PlacesFit, Sending, ThreadsTyped, Threads,
    running
<1>6. CASE Stop
  BY <1>6, LoopIs, ReplyIs, Names, KeyGoes
  DEF Stop, Goto, session, Started, PlacesFit, Sending, ThreadsTyped, Threads,
    running
<1>7. CASE Exit
  BY <1>7, LoopIs, ReplyIs, Names, KeyGoes
  DEF Exit, Goto, session, Started, PlacesFit, Sending, ThreadsTyped, Threads,
    running
<1>8. CASE Interrupt
  BY <1>8, LoopIs, ReplyIs, Names, KeyGoes
  DEF Interrupt, session, Started, PlacesFit, Sending, ThreadsTyped, Threads,
    running
<1>9. CASE Receive
  BY <1>9, LoopIs, ReplyIs, Names, KeyGoes
  DEF Receive, Goto, Started, PlacesFit, Sending, ThreadsTyped, Threads, running
<1>10. CASE ReceiveNothing
  BY <1>10, LoopIs, ReplyIs, Names, KeyGoes
  DEF ReceiveNothing, Goto, session, Started, PlacesFit, Sending, ThreadsTyped,
    Threads, running
<1>11. CASE Sleep
  BY <1>11, LoopIs, ReplyIs, Names, KeyGoes
  DEF Sleep, Goto, session, Started, PlacesFit, Sending, ThreadsTyped, Threads,
    running
<1>12. CASE Look
  BY <1>12, LoopIs, ReplyIs, Names, KeyGoes
  DEF Look, Goto, session, Started, PlacesFit, Sending, ThreadsTyped, Threads,
    running
<1>13. CASE Greet
  BY <1>13, LoopIs, ReplyIs, Names, KeyGoes
  DEF Greet, threads, Started, PlacesFit, Sending, ThreadsTyped, Threads, running
<1>14. CASE Serve
  BY <1>14, LoopIs, ReplyIs, Names, KeyGoes
  DEF Serve, threads, Started, PlacesFit, Sending, ThreadsTyped, Threads, running
<1>15. CASE Broadcast
  BY <1>15, LoopIs, ReplyIs, Names, KeyGoes
  DEF Broadcast, threads, Started, PlacesFit, Sending, ThreadsTyped, Threads,
    running
<1>16. CASE HangUp
  BY <1>16, LoopIs, ReplyIs, Names, KeyGoes
  DEF HangUp, threads, Started, PlacesFit, Sending, ThreadsTyped, Threads, running
<1>17. CASE Tick
  BY <1>17, LoopIs, ReplyIs, Names, KeyGoes
  DEF Tick, session, Started, PlacesFit, Sending, ThreadsTyped, Threads, running
<1>18. CASE Ignore
  BY <1>18
  DEF Ignore, threads, Started, PlacesFit, Sending, ThreadsTyped, Threads, running
<1>19. CASE UNCHANGED vars
  BY <1>19 DEF vars, threads, session, Started
<1>. QED
  BY <1>1, <1>2, <1>3, <1>4, <1>5, <1>6, <1>7, <1>8, <1>9, <1>10, <1>11, <1>12,
     <1>13, <1>14, <1>15, <1>16, <1>17, <1>18, <1>19
  DEF Next, Main, Send, Receiver, Updater, Server, Threads

LEMMA OneSendsKept ==
  ASSUME ThreadsTyped, PlacesFit, Started, OneSends, [Next]_vars
  PROVE  OneSends'
<1>1. ASSUME NEW t \in Threads, Wait(t) PROVE OneSends'
  <2>1. pc' = [pc EXCEPT ![t] = "text"] /\ mutex = 1 /\ mutex' = 0 /\ pc["main"] # "killed"
    BY <1>1 DEF Wait, Goto, running
  <2>2. \A u \in Threads : pc[u] \notin Holding
    BY <2>1 DEF OneSends
  <2>3. \A u \in Threads : pc'[u] \in Holding <=> u = t
    BY <2>1, <2>2 DEF ThreadsTyped, Holding
  <2>. QED
    BY <2>1, <2>3 DEF OneSends
<1>2. ASSUME NEW t \in Threads, SendText(t) PROVE OneSends'
  BY <1>2, LoopIs, ReplyIs, Names, KeyGoes
  DEF SendText, Goto, OneSends, PlacesFit, Holding, ThreadsTyped, Threads,
    running, Started
<1>3. ASSUME NEW t \in Threads, SendEol(t) PROVE OneSends'
  <2>1. pc[t] = "eol" /\ pc' = [pc EXCEPT ![t] = loop(t)] /\ mutex' = 1 /\ pc["main"] # "killed"
    BY <1>3 DEF SendEol, Goto, running
  <2>2. \A u \in Threads : pc[u] \in Holding => u = t
    BY <2>1 DEF OneSends, Holding
  <2>3. loop(t) \notin Holding
    BY LoopIs DEF Threads, Holding
  <2>4. \A u \in Threads : pc'[u] \notin Holding
    BY <2>1, <2>2, <2>3 DEF ThreadsTyped
  <2>. QED
    BY <2>1, <2>4 DEF OneSends
<1>4. CASE Start
  BY <1>4, LoopIs, ReplyIs, Names, KeyGoes
  DEF Start, OneSends, PlacesFit, Holding, ThreadsTyped, Threads, running, Started
<1>5. ASSUME NEW key \in Keys, Key(key) PROVE OneSends'
  BY <1>5, LoopIs, ReplyIs, Names, KeyGoes
  DEF Key, Goto, session, OneSends, PlacesFit, Holding, ThreadsTyped, Threads,
    running, Started
<1>6. CASE Stop
  BY <1>6, LoopIs, ReplyIs, Names, KeyGoes
  DEF Stop, Goto, session, OneSends, PlacesFit, Holding, ThreadsTyped, Threads,
    running, Started
<1>7. CASE Exit
  BY <1>7, LoopIs, ReplyIs, Names, KeyGoes
  DEF Exit, Goto, session, OneSends, PlacesFit, Holding, ThreadsTyped, Threads,
    running, Started
<1>8. CASE Interrupt
  BY <1>8, LoopIs, ReplyIs, Names, KeyGoes
  DEF Interrupt, session, OneSends, PlacesFit, Holding, ThreadsTyped, Threads,
    running, Started
<1>9. CASE Receive
  BY <1>9, LoopIs, ReplyIs, Names, KeyGoes
  DEF Receive, Goto, OneSends, PlacesFit, Holding, ThreadsTyped, Threads,
    running, Started
<1>10. CASE ReceiveNothing
  BY <1>10, LoopIs, ReplyIs, Names, KeyGoes
  DEF ReceiveNothing, Goto, session, OneSends, PlacesFit, Holding, ThreadsTyped,
    Threads, running, Started
<1>11. CASE Sleep
  BY <1>11, LoopIs, ReplyIs, Names, KeyGoes
  DEF Sleep, Goto, session, OneSends, PlacesFit, Holding, ThreadsTyped, Threads,
    running, Started
<1>12. CASE Look
  BY <1>12, LoopIs, ReplyIs, Names, KeyGoes
  DEF Look, Goto, session, OneSends, PlacesFit, Holding, ThreadsTyped, Threads,
    running, Started
<1>13. CASE Greet \/ Serve \/ Ignore \/ Broadcast \/ HangUp
  BY <1>13, LoopIs, ReplyIs, Names, KeyGoes
  DEF Greet, threads, Serve, Ignore, Broadcast, HangUp, OneSends, PlacesFit, Holding,
    ThreadsTyped, Threads, running, Started
<1>14. CASE Tick
  BY <1>14, LoopIs, ReplyIs, Names, KeyGoes
  DEF Tick, session, OneSends, PlacesFit, Holding, ThreadsTyped, Threads,
    running, Started
<1>15. CASE UNCHANGED vars
  BY <1>15 DEF vars, threads, session, OneSends
<1>. QED
  BY <1>1, <1>2, <1>3, <1>4, <1>5, <1>6, <1>7, <1>8, <1>9, <1>10, <1>11, <1>12,
     <1>13, <1>14, <1>15
  DEF Next, Main, Send, Receiver, Updater, Server, Threads

LEMMA CommandedKept ==
  ASSUME ThreadsTyped, PlacesFit, Commanded, [Next]_vars
  PROVE  Commanded'
<1>1. ASSUME NEW t \in Threads, Wait(t) PROVE Commanded'
  BY <1>1, LoopIs, ReplyIs, Names, KeyGoes
  DEF Wait, Goto, session, Commanded, PlacesFit, Sending, ThreadsTyped, Threads,
    running
<1>2. ASSUME NEW t \in Threads, SendText(t) PROVE Commanded'
  BY <1>2, LoopIs, ReplyIs, Names, KeyGoes
  DEF SendText, Goto, Commanded, PlacesFit, Sending, ThreadsTyped, Threads,
    running
<1>3. ASSUME NEW t \in Threads, SendEol(t) PROVE Commanded'
  BY <1>3, LoopIs, ReplyIs, Names, KeyGoes
  DEF SendEol, Goto, Commanded, PlacesFit, Sending, ThreadsTyped, Threads, running
<1>4. CASE Start
  BY <1>4, LoopIs, ReplyIs, Names, KeyGoes
  DEF Start, Commanded, PlacesFit, Sending, ThreadsTyped, Threads, running
<1>5. ASSUME NEW key \in Keys, Key(key) PROVE Commanded'
  BY <1>5, LoopIs, ReplyIs, Names, KeyGoes
  DEF Key, Goto, session, Commanded, PlacesFit, Sending, ThreadsTyped, Threads,
    running
<1>6. CASE Stop
  BY <1>6, LoopIs, ReplyIs, Names, KeyGoes
  DEF Stop, Goto, session, Commanded, PlacesFit, Sending, ThreadsTyped, Threads,
    running
<1>7. CASE Exit
  BY <1>7, LoopIs, ReplyIs, Names, KeyGoes
  DEF Exit, Goto, session, Commanded, PlacesFit, Sending, ThreadsTyped, Threads,
    running
<1>8. CASE Interrupt
  BY <1>8, LoopIs, ReplyIs, Names, KeyGoes
  DEF Interrupt, session, Commanded, PlacesFit, Sending, ThreadsTyped, Threads,
    running
<1>9. CASE Receive
  BY <1>9, LoopIs, ReplyIs, Names, KeyGoes
  DEF Receive, Goto, Commanded, PlacesFit, Sending, ThreadsTyped, Threads, running
<1>10. CASE ReceiveNothing
  BY <1>10, LoopIs, ReplyIs, Names, KeyGoes
  DEF ReceiveNothing, Goto, session, Commanded, PlacesFit, Sending, ThreadsTyped,
    Threads, running
<1>11. CASE Sleep
  BY <1>11, LoopIs, ReplyIs, Names, KeyGoes
  DEF Sleep, Goto, session, Commanded, PlacesFit, Sending, ThreadsTyped, Threads,
    running
<1>12. CASE Look
  BY <1>12, LoopIs, ReplyIs, Names, KeyGoes
  DEF Look, Goto, session, Commanded, PlacesFit, Sending, ThreadsTyped, Threads,
    running
<1>13. CASE Greet \/ Serve \/ Ignore \/ Broadcast \/ HangUp
  BY <1>13, LoopIs, ReplyIs, Names, KeyGoes
  DEF Greet, threads, Serve, Ignore, Broadcast, HangUp, Commanded, PlacesFit, Sending,
    ThreadsTyped, Threads, running
<1>14. CASE Tick
  BY <1>14, LoopIs, ReplyIs, Names, KeyGoes
  DEF Tick, session, Commanded, PlacesFit, Sending, ThreadsTyped, Threads, running
<1>15. CASE UNCHANGED vars
  BY <1>15 DEF vars, threads, session, Commanded
<1>. QED
  BY <1>1, <1>2, <1>3, <1>4, <1>5, <1>6, <1>7, <1>8, <1>9, <1>10, <1>11, <1>12,
     <1>13, <1>14, <1>15
  DEF Next, Main, Send, Receiver, Updater, Server, Threads

LEMMA StopFitsKept ==
  ASSUME ThreadsTyped, PlacesFit, Started, StopFits, [Next]_vars
  PROVE  StopFits'
<1>1. ASSUME NEW t \in Threads, Wait(t) PROVE StopFits'
  BY <1>1, LoopIs, ReplyIs, Names, KeyGoes
  DEF Wait, Goto, session, StopFits, PlacesFit, Sending, ThreadsTyped, Threads,
    running
<1>2. ASSUME NEW t \in Threads, SendText(t) PROVE StopFits'
  BY <1>2, LoopIs, ReplyIs, Names, KeyGoes
  DEF SendText, Goto, StopFits, PlacesFit, Sending, ThreadsTyped, Threads, running
<1>3. ASSUME NEW t \in Threads, SendEol(t) PROVE StopFits'
  BY <1>3, LoopIs, ReplyIs, Names, KeyGoes
  DEF SendEol, Goto, StopFits, PlacesFit, Sending, ThreadsTyped, Threads, running
<1>4. CASE Start
  BY <1>4, LoopIs, ReplyIs, Names, KeyGoes
  DEF Start, StopFits, PlacesFit, Sending, ThreadsTyped, Threads, running
<1>5. ASSUME NEW key \in Keys, Key(key) PROVE StopFits'
  BY <1>5, LoopIs, ReplyIs, Names, KeyGoes
  DEF Key, Goto, session, StopFits, PlacesFit, Sending, ThreadsTyped, Threads,
    running
<1>6. CASE Stop
  BY <1>6, LoopIs, ReplyIs, Names, KeyGoes
  DEF Stop, Goto, session, StopFits, PlacesFit, Sending, ThreadsTyped, Threads,
    running
<1>7. CASE Exit
  BY <1>7, LoopIs, ReplyIs, Names, KeyGoes
  DEF Exit, Goto, session, StopFits, PlacesFit, Sending, ThreadsTyped, Threads,
    running
<1>8. CASE Interrupt
  BY <1>8, LoopIs, ReplyIs, Names, KeyGoes
  DEF Interrupt, session, StopFits, PlacesFit, Sending, ThreadsTyped, Threads,
    running
<1>9. CASE Receive
  BY <1>9, LoopIs, ReplyIs, Names, KeyGoes
  DEF Receive, Goto, StopFits, PlacesFit, Sending, ThreadsTyped, Threads, running
<1>10. CASE ReceiveNothing
  BY <1>10, LoopIs, ReplyIs, Names, KeyGoes
  DEF ReceiveNothing, Goto, session, StopFits, PlacesFit, Sending, ThreadsTyped,
    Threads, running
<1>11. CASE Sleep
  BY <1>11, LoopIs, ReplyIs, Names, KeyGoes
  DEF Sleep, Goto, session, StopFits, PlacesFit, Sending, ThreadsTyped, Threads,
    running
<1>12. CASE Look
  BY <1>12, LoopIs, ReplyIs, Names, KeyGoes
  DEF Look, Goto, session, StopFits, PlacesFit, Sending, ThreadsTyped, Threads,
    running
<1>13. CASE Greet \/ Serve \/ Ignore \/ Broadcast \/ HangUp
  BY <1>13, LoopIs, ReplyIs, Names, KeyGoes
  DEF Greet, threads, Serve, Ignore, Broadcast, HangUp, StopFits, PlacesFit, Sending,
    ThreadsTyped, Threads, running
<1>14. CASE Tick
  BY <1>14, LoopIs, ReplyIs, Names, KeyGoes
  DEF Tick, session, StopFits, PlacesFit, Sending, ThreadsTyped, Threads, running
<1>15. CASE UNCHANGED vars
  BY <1>15 DEF vars, threads, session, StopFits
<1>. QED
  BY <1>1, <1>2, <1>3, <1>4, <1>5, <1>6, <1>7, <1>8, <1>9, <1>10, <1>11, <1>12,
     <1>13, <1>14, <1>15
  DEF Next, Main, Send, Receiver, Updater, Server, Threads

LEMMA NapsFitKept ==
  ASSUME ThreadsTyped, PlacesFit, Started, NapsFit, [Next]_vars
  PROVE  NapsFit'
<1>1. ASSUME NEW t \in Threads, Wait(t) PROVE NapsFit'
  BY <1>1, LoopIs, ReplyIs, Names, KeyGoes
  DEF Wait, Goto, session, NapsFit, PlacesFit, Sending, ThreadsTyped, Threads,
    running, Started, updaterNap
<1>2. ASSUME NEW t \in Threads, SendText(t) PROVE NapsFit'
  BY <1>2, LoopIs, ReplyIs, Names, KeyGoes
  DEF SendText, Goto, NapsFit, PlacesFit, Sending, ThreadsTyped, Threads,
    running, Started, updaterNap
<1>3. ASSUME NEW t \in Threads, SendEol(t) PROVE NapsFit'
  BY <1>3, LoopIs, ReplyIs, Names, KeyGoes
  DEF SendEol, Goto, NapsFit, PlacesFit, Sending, ThreadsTyped, Threads, running,
    Started, updaterNap
<1>4. CASE Start
  BY <1>4, LoopIs, ReplyIs, Names, KeyGoes
  DEF Start, NapsFit, PlacesFit, Sending, ThreadsTyped, Threads, running,
    Started, updaterNap
<1>5. ASSUME NEW key \in Keys, Key(key) PROVE NapsFit'
  BY <1>5, LoopIs, ReplyIs, Names, KeyGoes
  DEF Key, Goto, session, NapsFit, PlacesFit, Sending, ThreadsTyped, Threads,
    running, Started, updaterNap
<1>6. CASE Stop
  BY <1>6, LoopIs, ReplyIs, Names, KeyGoes
  DEF Stop, Goto, session, NapsFit, PlacesFit, Sending, ThreadsTyped, Threads,
    running, Started, updaterNap
<1>7. CASE Exit
  BY <1>7, LoopIs, ReplyIs, Names, KeyGoes
  DEF Exit, Goto, session, NapsFit, PlacesFit, Sending, ThreadsTyped, Threads,
    running, Started, updaterNap
<1>8. CASE Interrupt
  BY <1>8, LoopIs, ReplyIs, Names, KeyGoes
  DEF Interrupt, session, NapsFit, PlacesFit, Sending, ThreadsTyped, Threads,
    running, Started, updaterNap
<1>9. CASE Receive
  BY <1>9, LoopIs, ReplyIs, Names, KeyGoes
  DEF Receive, Goto, NapsFit, PlacesFit, Sending, ThreadsTyped, Threads, running,
    Started, updaterNap
<1>10. CASE ReceiveNothing
  BY <1>10, LoopIs, ReplyIs, Names, KeyGoes
  DEF ReceiveNothing, Goto, session, NapsFit, PlacesFit, Sending, ThreadsTyped,
    Threads, running, Started, updaterNap
<1>11. CASE Sleep
  <2>1. pc' = [pc EXCEPT !["updater"] = "look"] /\ nap' = [nap EXCEPT !["updater"] = 1]
    BY <1>11 DEF Sleep, Goto, updaterNap
  <2>2. pc'["updater"] = "look" /\ nap'["updater"] = 1 /\ nap'["receiver"] = nap["receiver"]
    BY <2>1, Names DEF ThreadsTyped
  <2>. QED
    BY <2>2 DEF NapsFit, updaterNap
<1>12. CASE Look
  <2>1. nap["updater"] = 0 /\ nap' = nap
    BY <1>12 DEF Look, Goto
  <2>. QED
    BY <2>1 DEF NapsFit, updaterNap
<1>13. CASE Greet \/ Serve \/ Ignore \/ Broadcast \/ HangUp
  BY <1>13, LoopIs, ReplyIs, Names, KeyGoes
  DEF Greet, threads, Serve, Ignore, Broadcast, HangUp, NapsFit, PlacesFit, Sending,
    ThreadsTyped, Threads, running, Started, updaterNap
<1>14. CASE Tick
  <2>1. /\ nap'["updater"] = IF nap["updater"] > 0 THEN nap["updater"] - 1 ELSE 0
        /\ nap'["receiver"] = IF nap["receiver"] > 0 THEN nap["receiver"] - 1 ELSE 0
        /\ pc' = pc
    BY <1>14, Names DEF Tick
  <2>. QED
    BY <2>1 DEF NapsFit, updaterNap
<1>15. CASE UNCHANGED vars
  BY <1>15 DEF vars, threads, session, NapsFit
<1>. QED
  BY <1>1, <1>2, <1>3, <1>4, <1>5, <1>6, <1>7, <1>8, <1>9, <1>10, <1>11, <1>12,
     <1>13, <1>14, <1>15
  DEF Next, Main, Send, Receiver, Updater, Server, Threads

LEMMA WireFitsKept ==
  ASSUME ThreadsTyped, SessionTyped, PlacesFit, Started, OneSends, WireFits, [Next]_vars
  PROVE  WireFits'
<1>1. ASSUME NEW t \in Threads, Wait(t) PROVE WireFits'
  <2>1. pc[t] = "wait" /\ pc' = [pc EXCEPT ![t] = "text"] /\ UNCHANGED <<wire, link, cmd>>
    BY <1>1 DEF Wait, Goto, session
  <2>2. /\ \A u \in Threads : pc'[u] = "eol" <=> pc[u] = "eol"
        /\ pc'["main"] # "killed" => pc["main"] # "killed"
    BY <2>1, Names DEF ThreadsTyped
  <2>. QED
    BY <2>1, <2>2 DEF WireFits
<1>2. ASSUME NEW t \in Threads, SendText(t) PROVE WireFits'
  <2>1. /\ pc[t] = "text" /\ pc' = [pc EXCEPT ![t] = "eol"] /\ link' = link /\ cmd' = cmd
        /\ pc["main"] # "killed"
        /\ IF link = "open" THEN wire' = Append(wire, cmd[t]) ELSE wire' = wire
    BY <1>2 DEF SendText, Goto, running
  <2>2. CASE link = "open"
    <3>1. \A u \in Threads : pc[u] \in Holding => u = t
      BY <2>1 DEF OneSends, Holding
    <3>2. wire = <<>>
      BY <2>1, <2>2, <3>1 DEF WireFits, Holding
    <3>3. wire' = <<cmd[t]>>
      BY <2>1, <2>2, <3>2
    <3>4. \A u \in Threads : pc'[u] = "eol" <=> u = t
      BY <2>1, <3>1 DEF ThreadsTyped, Holding
    <3>5. Len(wire') = 1 /\ wire' = <<cmd'[t]>>
      BY <2>1, <3>3
    <3>. QED
      BY <3>4, <3>5 DEF WireFits
  <2>3. CASE link # "open"
    BY <2>1, <2>3 DEF WireFits
  <2>. QED
    BY <2>2, <2>3
<1>3. ASSUME NEW t \in Threads, SendEol(t) PROVE WireFits'
  <2>1. /\ pc[t] = "eol" /\ pc' = [pc EXCEPT ![t] = loop(t)] /\ link' = link
        /\ pc["main"] # "killed"
        /\ IF link = "open" THEN wire' = <<>> ELSE wire' = wire
    BY <1>3 DEF SendEol, Goto, running
  <2>2. CASE link = "open"
    <3>1. \A u \in Threads : pc[u] \in Holding => u = t
      BY <2>1 DEF OneSends, Holding
    <3>2. loop(t) # "eol"
      BY LoopIs DEF Threads
    <3>3. \A u \in Threads : pc'[u] # "eol"
      BY <2>1, <3>1, <3>2 DEF ThreadsTyped, Holding
    <3>4. wire' = <<>> /\ Len(wire') = 0
      BY <2>1, <2>2
    <3>. QED
      BY <3>3, <3>4 DEF WireFits
  <2>3. CASE link # "open"
    BY <2>1, <2>3 DEF WireFits
  <2>. QED
    BY <2>2, <2>3
<1>4. CASE Start
  <2>1. link = "none" /\ wire = <<>> /\ wire' = wire /\ Len(wire) = 0
    BY <1>4 DEF Start, Started
  <2>2. pc' = [main |-> "keys", receiver |-> loop("receiver"), updater |-> loop("updater")]
    BY <1>4 DEF Start
  <2>3. \A u \in Threads : pc'[u] # "eol"
    BY <2>2, LoopIs DEF Threads
  <2>. QED
    BY <2>1, <2>3 DEF WireFits
<1>5. ASSUME NEW key \in Keys, Key(key) PROVE WireFits'
  <2>1. /\ UNCHANGED <<wire, link>>
        /\ \A u \in Threads : pc'[u] = "eol" <=> pc[u] = "eol"
        /\ \A u \in Threads : pc'[u] = "eol" => cmd'[u] = cmd[u]
        /\ pc'["main"] # "killed" => pc["main"] # "killed"
    BY <1>5, Names, LoopIs, ReplyIs, KeyGoes DEF Key, Goto, session, ThreadsTyped
  <2>. QED
    BY <2>1 DEF WireFits
<1>6. CASE Stop
  <2>1. /\ UNCHANGED <<wire, link>>
        /\ \A u \in Threads : pc'[u] = "eol" <=> pc[u] = "eol"
        /\ \A u \in Threads : pc'[u] = "eol" => cmd'[u] = cmd[u]
        /\ pc'["main"] # "killed" => pc["main"] # "killed"
    BY <1>6, Names, LoopIs, ReplyIs, KeyGoes DEF Stop, Goto, session, ThreadsTyped
  <2>. QED
    BY <2>1 DEF WireFits
<1>7. CASE Exit
  <2>1. /\ UNCHANGED <<wire, link>>
        /\ \A u \in Threads : pc'[u] = "eol" <=> pc[u] = "eol"
        /\ \A u \in Threads : pc'[u] = "eol" => cmd'[u] = cmd[u]
        /\ pc'["main"] # "killed" => pc["main"] # "killed"
    BY <1>7, Names, LoopIs, ReplyIs, KeyGoes DEF Exit, Goto, session, ThreadsTyped
  <2>. QED
    BY <2>1 DEF WireFits
<1>8. CASE Interrupt
  <2>1. wire' = wire /\ pc'["main"] = "killed"
    BY <1>8, Names DEF Interrupt, session, ThreadsTyped
  <2>. QED
    BY <2>1 DEF WireFits
<1>9. CASE Receive
  <2>1. /\ UNCHANGED <<wire, link>>
        /\ \A u \in Threads : pc'[u] = "eol" <=> pc[u] = "eol"
        /\ \A u \in Threads : pc'[u] = "eol" => cmd'[u] = cmd[u]
        /\ pc'["main"] # "killed" => pc["main"] # "killed"
    BY <1>9, Names, LoopIs, ReplyIs, KeyGoes DEF Receive, Goto, ThreadsTyped
  <2>. QED
    BY <2>1 DEF WireFits
<1>10. CASE ReceiveNothing
  <2>1. /\ UNCHANGED <<wire, link>>
        /\ \A u \in Threads : pc'[u] = "eol" <=> pc[u] = "eol"
        /\ \A u \in Threads : pc'[u] = "eol" => cmd'[u] = cmd[u]
        /\ pc'["main"] # "killed" => pc["main"] # "killed"
    BY <1>10, Names, LoopIs, ReplyIs, KeyGoes DEF ReceiveNothing, Goto, session, ThreadsTyped
  <2>. QED
    BY <2>1 DEF WireFits
<1>11. CASE Sleep
  <2>1. /\ UNCHANGED <<wire, link>>
        /\ \A u \in Threads : pc'[u] = "eol" <=> pc[u] = "eol"
        /\ \A u \in Threads : pc'[u] = "eol" => cmd'[u] = cmd[u]
        /\ pc'["main"] # "killed" => pc["main"] # "killed"
    BY <1>11, Names, LoopIs, ReplyIs, KeyGoes DEF Sleep, Goto, session, ThreadsTyped
  <2>. QED
    BY <2>1 DEF WireFits
<1>12. CASE Look
  <2>1. /\ UNCHANGED <<wire, link>>
        /\ \A u \in Threads : pc'[u] = "eol" <=> pc[u] = "eol"
        /\ \A u \in Threads : pc'[u] = "eol" => cmd'[u] = cmd[u]
        /\ pc'["main"] # "killed" => pc["main"] # "killed"
    BY <1>12, Names, LoopIs, ReplyIs, KeyGoes DEF Look, Goto, session, ThreadsTyped
  <2>. QED
    BY <2>1 DEF WireFits
<1>13. CASE Greet \/ Serve \/ Ignore \/ Broadcast \/ HangUp
  BY <1>13
  DEF Greet, threads, Serve, Ignore, Broadcast, HangUp, WireFits
<1>14. CASE Tick
  BY <1>14
  DEF Tick, session, WireFits
<1>15. CASE UNCHANGED vars
  BY <1>15 DEF vars, threads, session, WireFits
<1>. QED
  BY <1>1, <1>2, <1>3, <1>4, <1>5, <1>6, <1>7, <1>8, <1>9, <1>10, <1>11, <1>12,
     <1>13, <1>14, <1>15
  DEF Next, Main, Send, Receiver, Updater, Server, Threads

(* What SendEol sends, and what Serve takes. *)
LEMMA EolSends ==
  ASSUME ThreadsTyped, SessionTyped, Commanded, WireFits,
         NEW t \in Threads, SendEol(t)
  PROVE  /\ link' = link
         /\ link # "open" => toServer' = toServer
         /\ link = "open" => \A x : among(x, toServer') <=> among(x, toServer) \/ x = cmd[t]
         /\ cmd[t] \in Texts
<1>1. /\ pc[t] = "eol" /\ pc["main"] # "killed" /\ link' = link
      /\ link # "open" => toServer' = toServer
  BY DEF SendEol, Goto, running
<1>2. cmd[t] \in Texts
  BY <1>1 DEF ThreadsTyped, Commanded, Sending
<1>3. CASE link = "open"
  <2>1. wire = <<cmd[t]>>
    BY <1>1, <1>3 DEF WireFits
  <2>2. Len(wire) = 1 /\ wire[1] = cmd[t]
    BY <2>1
  <2>3. toServer' = Append(toServer, cmd[t])
    BY <1>3, <2>2 DEF SendEol
  <2>4. cmd[t] \in Texts \cup {"garbled"}
    BY <1>2
  <2>5. \A x : among(x, toServer') <=> among(x, toServer) \/ x = cmd[t]
    BY <2>3, <2>4, AmongAppended DEF SessionTyped
  <2>. QED
    BY <1>1, <1>2, <1>3, <2>5
<1>. QED
  BY <1>1, <1>2, <1>3

LEMMA ServeTakes ==
  ASSUME SessionTyped, Serve
  PROVE  /\ \A x : among(x, toServer) <=> Head(toServer) = x \/ among(x, toServer')
         /\ \A x : among(x, toClient) => among(x, toClient')
         /\ toClient # <<>> => toClient' # <<>>
         /\ toClient' = toClient \/ toClient' # <<>>
<1>1. toServer # <<>> /\ toServer' = Tail(toServer)
  BY DEF Serve
<1>2. \A x : among(x, toServer) <=> Head(toServer) = x \/ among(x, toServer')
  BY <1>1, AmongTail DEF SessionTyped
<1>3. PICK y \in Said : toClient' = toClient \/ toClient' = Append(toClient, y)
  <2>1. "login" \in Said /\ "look" \in Said /\ "other" \in Said
    BY DEF Said
  <2>. QED
    BY <2>1, Zenon DEF Serve
<1>4. Append(toClient, y) # <<>> /\ \A x : among(x, Append(toClient, y)) <=> among(x, toClient) \/ x = y
  BY AmongAppended DEF SessionTyped
<1>. QED
  BY <1>2, <1>3, <1>4

LEMMA IgnoreTakes ==
  ASSUME SessionTyped, Ignore
  PROVE  /\ UNCHANGED <<pc, cmd, nap, stop, late, link, toClient, player>>
         /\ player = "in" /\ Head(toServer) = "order"
         /\ \A x : among(x, toServer) <=> Head(toServer) = x \/ among(x, toServer')
<1>1. toServer # <<>> /\ toServer' = Tail(toServer)
  BY DEF Ignore
<1>2. \A x : among(x, toServer) <=> Head(toServer) = x \/ among(x, toServer')
  BY <1>1, AmongTail DEF SessionTyped
<1>. QED
  BY <1>2 DEF Ignore, threads

LEMMA CommandsAreWholeKept ==
  ASSUME ThreadsTyped, SessionTyped, Commanded, WireFits, WireFits', CommandsAreWhole, [Next]_vars
  PROVE  CommandsAreWhole'
<1>1. ASSUME NEW t \in Threads, Wait(t) PROVE CommandsAreWhole'
  BY <1>1
  DEF Wait, Goto, session, CommandsAreWhole
<1>2. ASSUME NEW t \in Threads, SendText(t) PROVE CommandsAreWhole'
  <2>1. toServer' = toServer
    BY <1>2 DEF SendText
  <2>. QED
    BY <2>1, WholeMeans DEF WireFits
<1>3. ASSUME NEW t \in Threads, SendEol(t) PROVE CommandsAreWhole'
  <2>1. among("garbled", toServer') => among("garbled", toServer)
    BY <1>3, EolSends DEF Texts
  <2>. QED
    BY <2>1, WholeMeans DEF WireFits
<1>4. CASE \/ Start \/ Stop \/ Exit \/ Interrupt \/ Sleep \/ Look
            \/ Receive \/ ReceiveNothing \/ Tick
  BY <1>4
  DEF Start, Stop, Goto, session, Exit, Interrupt, Sleep, Look, Receive,
    ReceiveNothing, Tick, CommandsAreWhole
<1>5. ASSUME NEW key \in Keys, Key(key) PROVE CommandsAreWhole'
  BY <1>5
  DEF Key, Goto, session, CommandsAreWhole
<1>6. CASE Greet \/ Broadcast \/ HangUp
  BY <1>6
  DEF Greet, threads, Broadcast, HangUp, CommandsAreWhole
<1>7. CASE Serve
  <2>1. among("garbled", toServer') => among("garbled", toServer)
    BY <1>7, ServeTakes
  <2>. QED
    BY <2>1, WholeMeans DEF WireFits
<1>8. CASE Ignore
  <2>1. among("garbled", toServer') => among("garbled", toServer)
    BY <1>8, IgnoreTakes
  <2>. QED
    BY <2>1, WholeMeans DEF WireFits
<1>9. CASE UNCHANGED vars
  BY <1>9 DEF vars, threads, session, CommandsAreWhole
<1>. QED
  BY <1>1, <1>2, <1>3, <1>4, <1>5, <1>6, <1>7, <1>8, <1>9
  DEF Next, Main, Send, Receiver, Updater, Server, Threads

LEMMA LoginComesKept ==
  ASSUME ThreadsTyped, SessionTyped, PlacesFit, Started, Commanded, WireFits, LoginComes, [Next]_vars
  PROVE  LoginComes'
<1>1. ASSUME NEW t \in Threads, Wait(t) PROVE LoginComes'
  <2>1. /\ pc'["receiver"] \in Sending <=> pc["receiver"] \in Sending
        /\ cmd'["receiver"] = cmd["receiver"]
        /\ UNCHANGED <<player, link, toClient, toServer>>
    BY <1>1, Names, KeyGoes DEF Wait, Goto, session, ThreadsTyped, PlacesFit, Sending
  <2>. QED
    BY <2>1, Zenon DEF LoginComes
<1>2. ASSUME NEW t \in Threads, SendText(t) PROVE LoginComes'
  <2>1. /\ pc'["receiver"] \in Sending <=> pc["receiver"] \in Sending
        /\ cmd'["receiver"] = cmd["receiver"]
        /\ UNCHANGED <<player, link, toClient, toServer>>
    BY <1>2, Names, KeyGoes DEF SendText, Goto, ThreadsTyped, PlacesFit, Sending
  <2>. QED
    BY <2>1, Zenon DEF LoginComes
<1>3. ASSUME NEW t \in Threads, SendEol(t) PROVE LoginComes'
  <2>1. /\ link' = link
        /\ link # "open" => toServer' = toServer
        /\ link = "open" =>
             (among("connect", toServer') <=> among("connect", toServer) \/ "connect" = cmd[t])
    BY <1>3, EolSends
  <2>2. UNCHANGED <<player, toClient>>
    BY <1>3 DEF SendEol
  <2>3. CASE t = "receiver"
    BY <2>1, <2>2, <2>3, Zenon DEF LoginComes
  <2>4. CASE t # "receiver"
    <3>1. pc'["receiver"] = pc["receiver"] /\ cmd'["receiver"] = cmd["receiver"]
      BY <1>3, <2>4, Names DEF SendEol, Goto, ThreadsTyped
    <3>. QED
      BY <2>1, <2>2, <3>1, Zenon DEF LoginComes
  <2>. QED
    BY <2>3, <2>4
<1>4. CASE Start
  <2>1. link = "none" /\ player' = player
    BY <1>4 DEF Start, Started
  <2>. QED
    BY <2>1 DEF LoginComes, Started
<1>5. ASSUME NEW key \in Keys, Key(key) PROVE LoginComes'
  <2>1. /\ pc'["receiver"] \in Sending <=> pc["receiver"] \in Sending
        /\ cmd'["receiver"] = cmd["receiver"]
        /\ UNCHANGED <<player, link, toClient, toServer>>
    BY <1>5, Names, KeyGoes DEF Key, Goto, session, ThreadsTyped, PlacesFit, Sending
  <2>. QED
    BY <2>1, Zenon DEF LoginComes
<1>6. CASE Stop
  <2>1. /\ pc'["receiver"] \in Sending <=> pc["receiver"] \in Sending
        /\ cmd'["receiver"] = cmd["receiver"]
        /\ UNCHANGED <<player, link, toClient, toServer>>
    BY <1>6, Names, KeyGoes DEF Stop, Goto, session, ThreadsTyped, PlacesFit, Sending
  <2>. QED
    BY <2>1, Zenon DEF LoginComes
<1>7. CASE Exit
  <2>1. /\ pc'["receiver"] \in Sending <=> pc["receiver"] \in Sending
        /\ cmd'["receiver"] = cmd["receiver"]
        /\ UNCHANGED <<player, link, toClient, toServer>>
    BY <1>7, Names, KeyGoes DEF Exit, Goto, session, ThreadsTyped, PlacesFit, Sending
  <2>. QED
    BY <2>1, Zenon DEF LoginComes
<1>8. CASE Interrupt
  <2>1. /\ pc'["receiver"] \in Sending <=> pc["receiver"] \in Sending
        /\ cmd'["receiver"] = cmd["receiver"]
        /\ UNCHANGED <<player, link, toClient, toServer>>
    BY <1>8, Names, KeyGoes DEF Interrupt, session, ThreadsTyped, PlacesFit, Sending
  <2>. QED
    BY <2>1, Zenon DEF LoginComes
<1>9. CASE Receive
  <2>1. /\ toClient # <<>> /\ toClient' = Tail(toClient)
        /\ UNCHANGED <<player, link, toServer>>
        /\ pc["receiver"] = "receive"
        /\ cmd' = [cmd EXCEPT !["receiver"] = reply(Head(toClient))]
        /\ pc' = [pc EXCEPT !["receiver"] =
                     IF reply(Head(toClient)) = "none" THEN loop("receiver") ELSE "wait"]
    BY <1>9 DEF Receive, Goto
  <2>2. among("ready", toClient) <=> Head(toClient) = "ready" \/ among("ready", toClient')
    BY <2>1, AmongTail DEF SessionTyped
  <2>3. Head(toClient) = "ready" => pc'["receiver"] = "wait" /\ cmd'["receiver"] = "connect"
    BY <2>1, ReplyIs, Names DEF ThreadsTyped
  <2>. QED
    BY <2>1, <2>2, <2>3 DEF LoginComes, Sending
<1>10. CASE ReceiveNothing
  <2>1. pc["receiver"] = "receive" /\ UNCHANGED <<player, link, toClient, toServer>>
    BY <1>10 DEF ReceiveNothing, Goto, session
  <2>. QED
    BY <2>1 DEF LoginComes, Sending
<1>11. CASE Sleep
  <2>1. /\ pc'["receiver"] \in Sending <=> pc["receiver"] \in Sending
        /\ cmd'["receiver"] = cmd["receiver"]
        /\ UNCHANGED <<player, link, toClient, toServer>>
    BY <1>11, Names, KeyGoes DEF Sleep, Goto, session, ThreadsTyped, PlacesFit, Sending
  <2>. QED
    BY <2>1, Zenon DEF LoginComes
<1>12. CASE Look
  <2>1. /\ pc'["receiver"] \in Sending <=> pc["receiver"] \in Sending
        /\ cmd'["receiver"] = cmd["receiver"]
        /\ UNCHANGED <<player, link, toClient, toServer>>
    BY <1>12, Names, KeyGoes DEF Look, Goto, session, ThreadsTyped, PlacesFit, Sending
  <2>. QED
    BY <2>1, Zenon DEF LoginComes
<1>13. CASE Greet
  <2>1. toClient' = Append(toClient, "ready") /\ "ready" \in Said /\ UNCHANGED <<pc, cmd, link, toServer>>
    BY <1>13 DEF Greet, threads, Said
  <2>2. among("ready", toClient') <=> among("ready", toClient) \/ "ready" = "ready"
    BY <2>1, AmongAppended DEF SessionTyped
  <2>. QED
    BY <1>13, <2>1, <2>2 DEF LoginComes, Greet
<1>14. CASE Serve
  <2>1. UNCHANGED <<pc, cmd, link>>
    BY <1>14 DEF Serve, threads
  <2>2. player' = "out" => player = "out" /\ Head(toServer) # "connect"
    BY <1>14 DEF Serve
  <2>3. /\ among("ready", toClient) => among("ready", toClient')
        /\ among("connect", toServer) => Head(toServer) = "connect" \/ among("connect", toServer')
    BY <1>14, ServeTakes
  <2>. QED
    BY <2>1, <2>2, <2>3, Zenon DEF LoginComes
<1>15. CASE Broadcast
  <2>1. toClient' = Append(toClient, "other") /\ "other" \in Said /\ UNCHANGED <<pc, cmd, link, toServer>>
    BY <1>15 DEF Broadcast, threads, Said
  <2>2. among("ready", toClient') <=> among("ready", toClient) \/ "ready" = "other"
    BY <2>1, AmongAppended DEF SessionTyped
  <2>. QED
    BY <1>15, <2>1, <2>2 DEF LoginComes, Broadcast
<1>16. CASE HangUp
  BY <1>16
  DEF HangUp, threads, LoginComes
<1>17. CASE Tick
  <2>1. /\ pc'["receiver"] \in Sending <=> pc["receiver"] \in Sending
        /\ cmd'["receiver"] = cmd["receiver"]
        /\ UNCHANGED <<player, link, toClient, toServer>>
    BY <1>17, Names, KeyGoes DEF Tick, session, ThreadsTyped, PlacesFit, Sending
  <2>. QED
    BY <2>1, Zenon DEF LoginComes
<1>18. CASE Ignore
  BY <1>18, IgnoreTakes DEF LoginComes
<1>19. CASE UNCHANGED vars
  BY <1>19 DEF vars, threads, session, LoginComes
<1>. QED
  BY <1>1, <1>2, <1>3, <1>4, <1>5, <1>6, <1>7, <1>8, <1>9, <1>10, <1>11, <1>12,
     <1>13, <1>14, <1>15, <1>16, <1>17, <1>18, <1>19
  DEF Next, Main, Send, Receiver, Updater, Server, Threads

(* When a quarter of a second passes and nobody is late, nobody had a step *)
(* to take.                                                                *)
LEMMA QuietTick ==
  ASSUME Tick, ~late'
  PROVE  ~late /\ serverIdle /\ \A u \in Threads : idle(u)
<1>1. ~late /\ \A t \in Threads : ~busy(t)
  BY Zenon DEF Tick
<1>2. serverIdle
  BY <1>1, Names DEF busy
<1>3. ASSUME NEW u \in Threads PROVE idle(u)
  <2>1. PICK t \in Threads : t # u
    BY DEF Threads
  <2>. QED
    BY <1>1, <2>1 DEF busy
<1>. QED
  BY <1>1, <1>2, <1>3

(* What it means that the receiver has no step to take, ... *)
LEMMA ReceiverIdle ==
  ASSUME NapsFit, idle("receiver"), pc["receiver"] = "receive"
  PROVE  toClient = <<>> /\ link = "open"
BY DEF idle, blocked, NapsFit

(* ... and a thread that sends: main is not among those that do. *)
LEMMA SenderIdle ==
  ASSUME ThreadsTyped, SessionTyped, PlacesFit, OneSends,
         pc["main"] \in {"stop updater", "leave"}, serverIdle,
         NEW t \in {"receiver", "updater"}, NEW u \in {"receiver", "updater"}, u # t,
         pc[t] \in Sending, nap[t] = 0, idle(t)
  PROVE  \/ pc[t] = "wait" /\ pc[u] \in Holding
         \/ /\ pc[t] = "text" /\ link = "open" /\ stuck
            /\ Len(toServer) = Capacity /\ Len(toClient) = Capacity
<1>1. blocked(t)
  <2>1. ~(nap[t] > 0)
    BY LessIs, Zenon
  <2>2. pc[t] \notin {"off", "keys", "done", "exit", "killed"} /\ pc[t] # "receive"
    BY DEF Sending
  <2>. QED
    BY <2>1, <2>2, Zenon DEF idle
<1>2. CASE pc[t] = "wait" /\ mutex = 0
  <2>1. PICK v \in Threads : pc[v] \in Holding
    BY <1>2 DEF OneSends
  <2>2. v # "main" /\ v # t
    BY <1>2, <2>1 DEF Holding
  <2>. QED
    BY <1>2, <2>1, <2>2 DEF Threads
<1>3. CASE pc[t] = "text" /\ link = "open" /\ Len(toServer) = Capacity
  <2>1. toServer # <<>>
    BY <1>3, ClientAssumption, EmptySeq DEF SessionTyped
  <2>. QED
    BY <1>3, <2>1 DEF serverIdle, stuck
<1>. QED
  BY <1>1, <1>2, <1>3 DEF blocked

LEMMA FullIsNotEmpty ==
  ASSUME Len(toClient) = Capacity
  PROVE  toClient # <<>>
BY ClientAssumption

LEMMA LookComesKept ==
  ASSUME ThreadsTyped, SessionTyped, PlacesFit, Started, OneSends, Commanded,
         WireFits, StopFits, NapsFit, LookComes, [Next]_vars
  PROVE  LookComes'
<1>1. ASSUME NEW t \in Threads, Wait(t) PROVE LookComes'
  <2>1. /\ pc[t] = "wait" /\ pc' = [pc EXCEPT ![t] = "text"]
        /\ UNCHANGED <<nap, late, link, toServer, toClient, player>>
    BY <1>1 DEF Wait, Goto, session
  <2>2. /\ pc'["main"] = "stop updater" => pc["main"] = "stop updater"
        /\ pc'["receiver"] = "receive" => pc["receiver"] = "receive"
        /\ pc["updater"] \in {"look"} \cup Sending => pc'["updater"] \in {"look"} \cup Sending
    BY <2>1, Names DEF ThreadsTyped, Sending
  <2>. QED
    BY <2>1, <2>2, Zenon DEF LookComes
<1>2. ASSUME NEW t \in Threads, SendText(t) PROVE LookComes'
  <2>1. /\ pc[t] = "text" /\ pc' = [pc EXCEPT ![t] = "eol"]
        /\ UNCHANGED <<nap, late, link, toServer, toClient, player>>
    BY <1>2 DEF SendText, Goto
  <2>2. /\ pc'["main"] = "stop updater" => pc["main"] = "stop updater"
        /\ pc'["receiver"] = "receive" => pc["receiver"] = "receive"
        /\ pc["updater"] \in {"look"} \cup Sending => pc'["updater"] \in {"look"} \cup Sending
    BY <2>1, Names DEF ThreadsTyped, Sending
  <2>. QED
    BY <2>1, <2>2, Zenon DEF LookComes
<1>3. ASSUME NEW t \in Threads, SendEol(t) PROVE LookComes'
  <2>1. /\ pc[t] = "eol" /\ pc' = [pc EXCEPT ![t] = loop(t)]
        /\ UNCHANGED <<nap, late, link, toClient, player>>
    BY <1>3 DEF SendEol, Goto
  <2>2. CASE t = "main"
    BY <2>1, <2>2, LoopIs, Names DEF ThreadsTyped, LookComes
  <2>3. CASE t = "receiver"
    <3>1. pc'["main"] = pc["main"] /\ pc'["receiver"] = loop("receiver")
      BY <2>1, <2>3, Names DEF ThreadsTyped
    <3>2. pc["main"] = "stop updater" => loop("receiver") = "done"
      BY LoopIs DEF StopFits
    <3>. QED
      BY <3>1, <3>2 DEF LookComes
  <2>4. CASE t = "updater"
    <3>1. cmd[t] = "look"
      BY <2>1, <2>4 DEF Commanded, Sending
    <3>2. link = "open" => among("look", toServer')
      BY <1>3, EolSends, <3>1
    <3>. QED
      BY <2>1, <3>2 DEF LookComes
  <2>. QED
    BY <2>2, <2>3, <2>4 DEF Threads
<1>4. CASE Start
  <2>1. pc'["main"] # "stop updater"
    BY <1>4, Names, KeyGoes DEF Start, ThreadsTyped
  <2>. QED
    BY <2>1, Zenon DEF LookComes
<1>5. ASSUME NEW key \in Keys, Key(key) PROVE LookComes'
  <2>1. pc'["main"] # "stop updater"
    BY <1>5, Names, KeyGoes DEF Goto, ThreadsTyped
  <2>. QED
    BY <2>1, Zenon DEF LookComes
<1>6. CASE Stop
  <2>1. nap'["main"] = 4
    BY <1>6, Names, NapIs DEF Stop, ThreadsTyped
  <2>. QED
    BY <2>1, LessIs, Zenon DEF LookComes
<1>7. CASE Exit
  <2>1. pc'["main"] # "stop updater"
    BY <1>7, Names, KeyGoes DEF Exit, Goto, ThreadsTyped
  <2>. QED
    BY <2>1, Zenon DEF LookComes
<1>8. CASE Interrupt
  <2>1. pc'["main"] # "stop updater"
    BY <1>8, Names, KeyGoes DEF Interrupt, ThreadsTyped
  <2>. QED
    BY <2>1, Zenon DEF LookComes
<1>9. CASE Receive
  <2>1. /\ pc' = [pc EXCEPT !["receiver"] =
                     IF reply(Head(toClient)) = "none" THEN loop("receiver") ELSE "wait"]
    BY <1>9 DEF Receive, Goto
  <2>2. pc'["main"] = "stop updater" => pc'["receiver"] # "receive"
    BY <2>1, LoopIs, Names DEF ThreadsTyped, StopFits
  <2>. QED
    BY <2>2 DEF LookComes
<1>10. CASE ReceiveNothing
  <2>1. pc' = [pc EXCEPT !["receiver"] = loop("receiver")]
    BY <1>10 DEF ReceiveNothing, Goto
  <2>2. pc'["main"] = "stop updater" => pc'["receiver"] # "receive"
    BY <2>1, LoopIs, Names DEF ThreadsTyped, StopFits
  <2>. QED
    BY <2>2 DEF LookComes
<1>11. CASE Sleep
  <2>1. /\ pc["updater"] = "sleep" /\ pc' = [pc EXCEPT !["updater"] = "look"]
        /\ UNCHANGED <<late, link, toServer, toClient, player>>
        /\ nap'["main"] = nap["main"]
    BY <1>11, Names DEF Sleep, Goto, session, ThreadsTyped
  <2>2. pc'["main"] = pc["main"] /\ pc'["receiver"] = pc["receiver"] /\ pc'["updater"] = "look"
    BY <2>1, Names DEF ThreadsTyped
  <2>. QED
    BY <2>1, <2>2 DEF LookComes, Sending
<1>12. CASE Look
  <2>1. /\ pc["updater"] = "look" /\ pc' = [pc EXCEPT !["updater"] = "wait"]
        /\ UNCHANGED <<late, link, toServer, toClient, player>>
        /\ nap' = nap
    BY <1>12, Names DEF Look, Goto, session, ThreadsTyped
  <2>2. pc'["main"] = pc["main"] /\ pc'["receiver"] = pc["receiver"] /\ pc'["updater"] = "wait"
    BY <2>1, Names DEF ThreadsTyped
  <2>. QED
    BY <2>1, <2>2 DEF LookComes, Sending
<1>13. CASE Greet
  <2>1. toClient' = Append(toClient, "ready") /\ "ready" \in Said
    BY <1>13 DEF Greet, Said
  <2>2. toClient' # <<>>
    BY <2>1, AmongAppended DEF SessionTyped
  <2>. QED
    BY <2>2, Zenon DEF LookComes
<1>14. CASE Serve
  <2>1. UNCHANGED <<pc, nap, late, link>>
    BY <1>14 DEF Serve, threads
  <2>2. /\ toClient # <<>> => toClient' # <<>>
        /\ among("look", toServer) => Head(toServer) = "look" \/ among("look", toServer')
        /\ toClient' = toClient \/ toClient' # <<>>
    BY <1>14, ServeTakes
  <2>3. CASE toClient' # <<>>
    BY <2>3, Zenon DEF LookComes
  <2>4. CASE toClient' = toClient
    <3>1. (player' = player /\ (Head(toServer) = "look" => player # "in")) \/ toClient' # <<>>
      <4>1. ASSUME NEW x \in Said, toClient' = Append(toClient, x) PROVE toClient' # <<>>
        BY <4>1, AmongAppended DEF SessionTyped
      <4>2. "login" \in Said /\ "look" \in Said /\ "other" \in Said
        BY DEF Said
      <4>. QED
        BY <1>14, <4>1, <4>2 DEF Serve
    <3>. QED
      BY <2>1, <2>2, <3>1, Zenon DEF LookComes
  <2>. QED
    BY <2>2, <2>3, <2>4
<1>15. CASE Broadcast
  <2>1. toClient' = Append(toClient, "other") /\ "other" \in Said
    BY <1>15 DEF Broadcast, Said
  <2>2. toClient' # <<>>
    BY <2>1, AmongAppended DEF SessionTyped
  <2>. QED
    BY <2>2, Zenon DEF LookComes
<1>16. CASE HangUp
  BY <1>16
  DEF HangUp, threads, LookComes
<1>17. CASE Tick
  <2>. SUFFICES ASSUME pc'["main"] = "stop updater", nap'["main"] = 3,
                      pc'["receiver"] = "receive", ~late', link' = "open"
               PROVE  pc'["updater"] \in {"look"} \cup Sending /\ nap'["updater"] = 0
    BY Zenon DEF LookComes
  <2>1. /\ UNCHANGED <<pc, link, toServer, toClient, player>>
        /\ nap'["updater"] = less(nap["updater"])
    BY <1>17, Names DEF Tick, session, less
  <2>2. ~late /\ serverIdle /\ idle("receiver") /\ idle("updater")
    BY <1>17, QuietTick, Names
  <2>3. toClient = <<>>
    BY <2>1, <2>2, ReceiverIdle
  <2>4. CASE nap["updater"] > 0
    <3>1. nap["updater"] \in 0 .. 1 /\ pc["updater"] = "look"
      BY <2>4, NapIs DEF NapsFit
    <3>2. nap'["updater"] = 0
      BY <2>1, <2>4, <3>1, LessIs, Zenon
    <3>. QED
      BY <2>1, <3>1, <3>2
  <2>5. CASE nap["updater"] = 0
    <3>1. pc["updater"] \notin {"off", "done"}
      BY <2>1 DEF Started, StopFits
    <3>2. blocked("updater")
      <4>1. ~(nap["updater"] > 0)
        BY <2>5, LessIs, Zenon
      <4>2. pc["updater"] \notin {"off", "keys", "done", "exit", "killed", "receive"}
        BY <3>1 DEF PlacesFit, Sending
      <4>. QED
        BY <2>2, <4>1, <4>2, Zenon DEF idle
    <3>3. pc["updater"] \in Sending
      BY <3>2 DEF blocked, Sending
    <3>4. nap'["updater"] = 0
      BY <2>1, <2>5, LessIs, Zenon
    <3>. QED
      BY <2>1, <3>3, <3>4
  <2>. QED
    <3>1. nap["updater"] \in 0 .. 1
      BY NapIs DEF NapsFit
    <3>. QED
      BY <2>4, <2>5, <3>1, LessIs, Zenon
<1>18. CASE Ignore
  <2>1. /\ UNCHANGED <<pc, nap, late, link, toClient, player>>
        /\ among("look", toServer) => among("look", toServer')
    BY <1>18, IgnoreTakes
  <2>. QED
    BY <2>1, Zenon DEF LookComes
<1>19. CASE UNCHANGED vars
  BY <1>19 DEF vars, threads, session, LookComes
<1>. QED
  BY <1>1, <1>2, <1>3, <1>4, <1>5, <1>6, <1>7, <1>8, <1>9, <1>10, <1>11, <1>12,
     <1>13, <1>14, <1>15, <1>16, <1>17, <1>18, <1>19
  DEF Next, Main, Send, Receiver, Updater, Server, Threads

LEMMA ReceiverWokenKept ==
  ASSUME ThreadsTyped, SessionTyped, PlacesFit, Started, OneSends, StopFits,
         NapsFit, LoginComes, LookComes, ReceiverWoken, [Next]_vars
  PROVE  ReceiverWoken'
<1>1. ASSUME NEW t \in Threads, Wait(t) PROVE ReceiverWoken'
  <2>1. /\ UNCHANGED <<late, player>>
        /\ stoppedLong' => stoppedLong
        /\ pc'["receiver"] = "receive" => pc["receiver"] = "receive"
    BY <1>1, Names, KeyGoes DEF Wait, Goto, session, stoppedLong, ThreadsTyped, NapsFit
  <2>. QED
    BY <2>1 DEF ReceiverWoken
<1>2. ASSUME NEW t \in Threads, SendText(t) PROVE ReceiverWoken'
  <2>1. /\ UNCHANGED <<late, player>>
        /\ stoppedLong' => stoppedLong
        /\ pc'["receiver"] = "receive" => pc["receiver"] = "receive"
    BY <1>2, Names, KeyGoes DEF SendText, Goto, stoppedLong, ThreadsTyped, NapsFit
  <2>. QED
    BY <2>1 DEF ReceiverWoken
<1>3. ASSUME NEW t \in Threads, SendEol(t) PROVE ReceiverWoken'
  <2>1. /\ pc[t] = "eol" /\ pc' = [pc EXCEPT ![t] = loop(t)]
        /\ UNCHANGED <<nap, late, stop, player>>
    BY <1>3 DEF SendEol, Goto
  <2>2. CASE t = "main"
    BY <2>1, <2>2, LoopIs, Names DEF ThreadsTyped, ReceiverWoken, stoppedLong
  <2>3. CASE t # "main"
    <3>1. pc'["main"] = pc["main"]
      BY <2>1, <2>3, Names DEF ThreadsTyped
    <3>2. stoppedLong' => stoppedLong /\ "receiver" \in stop
      BY <2>1, <3>1 DEF stoppedLong, StopFits
    <3>3. pc'["receiver"] = "receive" => pc["receiver"] = "receive" \/ "receiver" \notin stop
      BY <2>1, LoopIs, Names DEF ThreadsTyped
    <3>. QED
      BY <2>1, <3>2, <3>3 DEF ReceiverWoken
  <2>. QED
    BY <2>2, <2>3
<1>4. CASE Start
  <2>1. pc'["main"] \notin {"stop updater", "leave", "exit"}
    BY <1>4, Names, KeyGoes DEF Start, ThreadsTyped
  <2>. QED
    BY <2>1 DEF ReceiverWoken, stoppedLong
<1>5. ASSUME NEW key \in Keys, Key(key) PROVE ReceiverWoken'
  <2>1. pc'["main"] \notin {"stop updater", "leave", "exit"}
    BY <1>5, Names, KeyGoes DEF Goto, ThreadsTyped
  <2>. QED
    BY <2>1 DEF ReceiverWoken, stoppedLong
<1>6. CASE Stop
  <2>1. CASE pc["main"] = "stop updater"
    <3>1. nap["main"] = 0 /\ UNCHANGED <<late, player>> /\ pc'["receiver"] = pc["receiver"]
      BY <1>6, Names DEF Stop, Goto, session, ThreadsTyped
    <3>2. stoppedLong
      <4>1. nap["main"] <= 2
        BY <3>1, LessIs, Zenon
      <4>. QED
        BY <2>1, <4>1, Zenon DEF stoppedLong
    <3>. QED
      BY <3>1, <3>2 DEF ReceiverWoken
  <2>2. CASE pc["main"] # "stop updater"
    <3>1. pc'["main"] = "stop updater" /\ nap'["main"] = 4
      BY <1>6, <2>2, NapIs, Names DEF Stop, Goto, ThreadsTyped
    <3>2. ~stoppedLong'
      <4>1. ~(nap'["main"] <= 2)
        BY <3>1, LessIs, Zenon
      <4>. QED
        BY <3>1, <4>1 DEF stoppedLong
    <3>. QED
      BY <3>2, Zenon DEF ReceiverWoken
  <2>. QED
    BY <2>1, <2>2
<1>7. CASE Exit
  <2>1. /\ pc["main"] = "leave" /\ pc'["receiver"] = pc["receiver"] /\ player' = player
    BY <1>7, Names DEF Exit, Goto, session, ThreadsTyped
  <2>2. ~late' => ~late
    BY <1>7, Zenon DEF Exit
  <2>. QED
    BY <2>1, <2>2 DEF ReceiverWoken, stoppedLong
<1>8. CASE Interrupt
  <2>1. pc'["main"] \notin {"stop updater", "leave", "exit"}
    BY <1>8, Names, KeyGoes DEF Interrupt, ThreadsTyped
  <2>. QED
    BY <2>1 DEF ReceiverWoken, stoppedLong
<1>9. CASE Receive
  <2>1. /\ UNCHANGED <<nap, late, stop, player>>
        /\ pc["receiver"] = "receive"
        /\ pc' = [pc EXCEPT !["receiver"] =
                     IF reply(Head(toClient)) = "none" THEN loop("receiver") ELSE "wait"]
    BY <1>9 DEF Receive, Goto
  <2>2. pc'["main"] = pc["main"] /\ (pc'["receiver"] = "receive" => "receiver" \notin stop)
    BY <2>1, LoopIs, Names DEF ThreadsTyped
  <2>. QED
    BY <2>1, <2>2 DEF ReceiverWoken, stoppedLong, StopFits
<1>10. CASE ReceiveNothing
  <2>1. pc' = [pc EXCEPT !["receiver"] = loop("receiver")]
    BY <1>10 DEF ReceiveNothing, Goto
  <2>2. pc'["main"] = pc["main"] /\ (pc'["receiver"] = "receive" => "receiver" \notin stop)
    BY <2>1, LoopIs, Names DEF ThreadsTyped
  <2>. QED
    BY <2>2 DEF ReceiverWoken, stoppedLong, StopFits
<1>11. CASE Sleep
  <2>1. /\ UNCHANGED <<late, player>>
        /\ stoppedLong' => stoppedLong
        /\ pc'["receiver"] = "receive" => pc["receiver"] = "receive"
    BY <1>11, Names, KeyGoes DEF Sleep, Goto, session, stoppedLong, ThreadsTyped, NapsFit
  <2>. QED
    BY <2>1 DEF ReceiverWoken
<1>12. CASE Look
  <2>1. /\ UNCHANGED <<late, player>>
        /\ stoppedLong' => stoppedLong
        /\ pc'["receiver"] = "receive" => pc["receiver"] = "receive"
    BY <1>12, Names, KeyGoes DEF Look, Goto, session, stoppedLong, ThreadsTyped, NapsFit
  <2>. QED
    BY <2>1 DEF ReceiverWoken
<1>13. CASE Greet
  <2>1. UNCHANGED <<pc, nap, late>> /\ player # "refused"
    BY <1>13 DEF Greet, threads
  <2>. QED
    BY <2>1 DEF ReceiverWoken, stoppedLong
<1>14. CASE Serve
  <2>1. UNCHANGED <<pc, nap, late>> /\ (player = "refused" => player' = "refused")
    BY <1>14 DEF Serve, threads
  <2>. QED
    BY <2>1 DEF ReceiverWoken, stoppedLong
<1>15. CASE Broadcast \/ HangUp
  BY <1>15
  DEF Broadcast, threads, HangUp, ReceiverWoken, stoppedLong, session
<1>16. CASE Tick
  <2>. SUFFICES ASSUME pc'["receiver"] = "receive", stoppedLong', ~late'
               PROVE  player' = "refused"
    BY Zenon DEF ReceiverWoken
  <2>1. /\ UNCHANGED <<pc, link, toServer, toClient, player>>
        /\ nap'["main"] = less(nap["main"])
    BY <1>16, Names DEF Tick, session, less
  <2>2. ~late /\ serverIdle /\ idle("receiver") /\ idle("updater")
    BY <1>16, QuietTick, Names
  <2>3. CASE stoppedLong
    BY <2>1, <2>2, <2>3 DEF ReceiverWoken
  <2>4. CASE ~stoppedLong
    <3>1. nap["main"] = 3 /\ pc["main"] = "stop updater"
      <4>1. nap["main"] \in 0 .. 4
        BY Names, NapIs DEF ThreadsTyped
      <4>2. pc["main"] = "stop updater" /\ ~(nap["main"] <= 2) /\ nap'["main"] <= 2
        BY <2>1, <2>4, Zenon DEF stoppedLong
      <4>. QED
        BY <2>1, <4>1, <4>2, LessIs, Zenon
    <3>2. toClient = <<>> /\ link = "open"
      BY <2>1, <2>2, ReceiverIdle
    <3>3. Len(toClient) # Capacity
      BY <3>2, ClientAssumption
    <3>4. toServer = <<>> /\ player # "new"
      BY <2>2, <3>2, <3>3 DEF serverIdle
    <3>5. ~among("look", toServer) /\ ~among("connect", toServer) /\ ~among("ready", toClient)
      BY <3>2, <3>4, AmongNone
    <3>6. ~(pc["updater"] \in {"look"} \cup Sending /\ nap["updater"] = 0)
      <4>1. ASSUME pc["updater"] \in Sending, nap["updater"] = 0 PROVE FALSE
        BY <2>1, <2>2, <3>1, <3>3, <4>1, SenderIdle DEF Holding
      <4>2. ASSUME pc["updater"] = "look", nap["updater"] = 0 PROVE FALSE
        BY <2>2, <4>2 DEF idle, blocked
      <4>. QED
        BY <4>1, <4>2
    <3>7. player # "in"
      BY <2>1, <2>2, <3>1, <3>2, <3>5, <3>6, Zenon DEF LookComes
    <3>8. player # "out"
      BY <2>1, <3>2, <3>5 DEF LoginComes, Sending
    <3>. QED
      BY <2>1, <3>4, <3>7, <3>8 DEF SessionTyped
  <2>. QED
    BY <2>3, <2>4
<1>17. CASE Ignore
  BY <1>17, IgnoreTakes DEF ReceiverWoken, stoppedLong
<1>18. CASE UNCHANGED vars
  BY <1>18 DEF vars, threads, session, ReceiverWoken, stoppedLong
<1>. QED
  BY <1>1, <1>2, <1>3, <1>4, <1>5, <1>6, <1>7, <1>8, <1>9, <1>10, <1>11, <1>12,
     <1>13, <1>14, <1>15, <1>16, <1>17, <1>18
  DEF Next, Main, Send, Receiver, Updater, Server, Threads

LEMMA SessionOverKept ==
  ASSUME ThreadsTyped, SessionTyped, PlacesFit, Started, OneSends, NapsFit,
         ReceiverWoken, SessionOver, [Next]_vars
  PROVE  SessionOver'
<1>1. ASSUME NEW t \in Threads, Wait(t) PROVE SessionOver'
  <2>1. pc'["main"] # "exit"
    BY <1>1, Names DEF Wait, Goto, running, ThreadsTyped
  <2>. QED
    BY <2>1, Zenon DEF SessionOver
<1>2. ASSUME NEW t \in Threads, SendText(t) PROVE SessionOver'
  <2>1. pc'["main"] # "exit"
    BY <1>2, Names DEF SendText, Goto, running, ThreadsTyped
  <2>. QED
    BY <2>1, Zenon DEF SessionOver
<1>3. ASSUME NEW t \in Threads, SendEol(t) PROVE SessionOver'
  <2>1. pc'["main"] # "exit"
    BY <1>3, Names, LoopIs DEF SendEol, Goto, running, ThreadsTyped
  <2>. QED
    BY <2>1, Zenon DEF SessionOver
<1>4. CASE Start
  <2>1. pc'["main"] # "exit"
    BY <1>4, Names DEF Start, running, ThreadsTyped
  <2>. QED
    BY <2>1, Zenon DEF SessionOver
<1>5. ASSUME NEW key \in Keys, Key(key) PROVE SessionOver'
  <2>1. pc'["main"] # "exit"
    BY <1>5, Names, KeyGoes DEF Goto, running, ThreadsTyped
  <2>. QED
    BY <2>1, Zenon DEF SessionOver
<1>6. CASE Stop
  <2>1. pc'["main"] # "exit"
    BY <1>6, Names DEF Stop, Goto, running, ThreadsTyped
  <2>. QED
    BY <2>1, Zenon DEF SessionOver
<1>7. CASE Exit
  <2>. SUFFICES ASSUME ~late'
               PROVE  pc'["receiver"] = "done" \/ player' = "refused" \/ (jammed' /\ stuck')
    BY Zenon DEF SessionOver
  <2>1. /\ pc["main"] = "leave" /\ pc' = [pc EXCEPT !["main"] = "exit"]
        /\ UNCHANGED <<nap, link, toServer, toClient, player>>
    BY <1>7 DEF Exit, Goto, session
  <2>2. ~late /\ ~busy("main")
    BY <1>7, Zenon DEF Exit
  <2>3. serverIdle /\ idle("receiver") /\ idle("updater")
    BY <2>2, Names DEF busy
  <2>4. pc'["receiver"] = pc["receiver"] /\ pc'["updater"] = pc["updater"]
    BY <2>1, Names DEF ThreadsTyped
  <2>5. CASE pc["receiver"] = "receive"
    BY <2>1, <2>2, <2>5, Zenon DEF ReceiverWoken, stoppedLong
  <2>6. CASE pc["receiver"] \in Sending
    <3>1. \/ pc["receiver"] = "wait" /\ pc["updater"] \in Holding
          \/ /\ pc["receiver"] = "text" /\ stuck
             /\ Len(toServer) = Capacity /\ Len(toClient) = Capacity
      <4>1. nap["receiver"] = 0
        BY DEF NapsFit
      <4>. QED
        BY <2>1, <2>3, <2>6, <4>1, SenderIdle
    <3>2. CASE pc["receiver"] = "wait" /\ pc["updater"] \in Holding
      <4>1. nap["updater"] = 0
        <5>1. nap["updater"] \in 0 .. 1 /\ ~(nap["updater"] > 0)
          BY <3>2, NapIs DEF NapsFit, Holding
        <5>. QED
          BY <5>1, LessIs, Zenon
      <4>2. pc["updater"] \in Sending /\ pc["receiver"] \notin Holding
        BY <3>2 DEF Holding, Sending
      <4>3. /\ pc["updater"] = "text" /\ stuck
            /\ Len(toServer) = Capacity /\ Len(toClient) = Capacity
        BY <2>1, <2>3, <3>2, <4>1, <4>2, SenderIdle
      <4>. QED
        BY <2>1, <2>4, <3>2, <4>3, Names DEF jammed, stuck
    <3>3. CASE /\ pc["receiver"] = "text" /\ stuck
               /\ Len(toServer) = Capacity /\ Len(toClient) = Capacity
      BY <2>1, <2>4, <3>3, Names DEF jammed, stuck
    <3>. QED
      BY <3>1, <3>2, <3>3
  <2>7. CASE pc["receiver"] = "done"
    BY <2>4, <2>7, Zenon
  <2>. QED
    BY <2>1, <2>5, <2>6, <2>7 DEF PlacesFit, Started
<1>8. CASE Interrupt
  <2>1. pc'["main"] # "exit"
    BY <1>8, Names DEF Interrupt, running, ThreadsTyped
  <2>. QED
    BY <2>1, Zenon DEF SessionOver
<1>9. CASE Receive
  <2>1. pc'["main"] # "exit"
    BY <1>9, Names DEF Receive, Goto, running, ThreadsTyped
  <2>. QED
    BY <2>1, Zenon DEF SessionOver
<1>10. CASE ReceiveNothing
  <2>1. pc'["main"] # "exit"
    BY <1>10, Names DEF ReceiveNothing, Goto, running, ThreadsTyped
  <2>. QED
    BY <2>1, Zenon DEF SessionOver
<1>11. CASE Sleep
  <2>1. pc'["main"] # "exit"
    BY <1>11, Names DEF Sleep, Goto, running, ThreadsTyped
  <2>. QED
    BY <2>1, Zenon DEF SessionOver
<1>12. CASE Look
  <2>1. pc'["main"] # "exit"
    BY <1>12, Names DEF Look, Goto, running, ThreadsTyped
  <2>. QED
    BY <2>1, Zenon DEF SessionOver
<1>13. CASE Greet
  <2>1. /\ UNCHANGED <<pc, late, link, toServer>> /\ Len(toClient) < Capacity
        /\ player = "new" /\ player' = "out" /\ link = "open"
    BY <1>13 DEF Greet, threads
  <2>2. ~jammed
    <3>1. Len(toClient) \in Nat
      BY LenProperties DEF SessionTyped
    <3>. QED
      BY <2>1, <3>1 DEF jammed
  <2>. QED
    BY <2>1, <2>2 DEF SessionOver
<1>14. CASE Serve
  <2>. SUFFICES ASSUME pc["main"] = "exit", ~late
               PROVE  pc["receiver"] = "done" \/ (player = "refused" /\ player' = "refused")
    BY <1>14, Zenon DEF SessionOver, Serve, threads
  <2>1. /\ link = "open" /\ toServer # <<>> /\ player # "new"
        /\ player = "in" => Len(toClient) < Capacity
    BY <1>14 DEF Serve
  <2>2. player = "refused" => player' = "refused"
    BY <1>14 DEF Serve
  <2>3. SessionOver => pc["receiver"] = "done" \/ (jammed /\ stuck) \/ player = "refused"
    BY <2>1, Zenon DEF SessionOver
  <2>4. ~(jammed /\ stuck)
    <3>1. Len(toClient) \in Nat
      BY LenProperties DEF SessionTyped
    <3>. QED
      BY <2>1, <3>1 DEF jammed, stuck
  <2>. QED
    BY <2>2, <2>3, <2>4, Zenon
<1>15. CASE Broadcast
  <2>1. UNCHANGED <<pc, late, player, link, toServer>> /\ Len(toClient) < Capacity
    BY <1>15 DEF Broadcast, threads
  <2>2. ~jammed
    <3>1. Len(toClient) \in Nat
      BY LenProperties DEF SessionTyped
    <3>. QED
      BY <2>1, <3>1 DEF jammed
  <2>. QED
    BY <2>1, <2>2 DEF SessionOver
<1>16. CASE HangUp
  <2>1. UNCHANGED <<pc, late, player, toServer, toClient>> /\ link' = "down"
    BY <1>16 DEF HangUp, threads
  <2>2. (jammed' <=> jammed) /\ (stuck' <=> stuck)
    BY <2>1 DEF jammed, stuck
  <2>. QED
    BY <2>1, <2>2 DEF SessionOver
<1>17. CASE Tick
  <2>1. pc'["main"] # "exit"
    BY <1>17, Names DEF Tick, running, ThreadsTyped
  <2>. QED
    BY <2>1, Zenon DEF SessionOver
<1>18. CASE Ignore
  <2>1. UNCHANGED <<pc, late, player>> /\ player = "in" /\ Head(toServer) = "order"
    BY <1>18, IgnoreTakes
  <2>. QED
    BY <2>1 DEF SessionOver, stuck
<1>19. CASE UNCHANGED vars
  BY <1>19 DEF vars, threads, session, SessionOver, jammed, stuck
<1>. QED
  BY <1>1, <1>2, <1>3, <1>4, <1>5, <1>6, <1>7, <1>8, <1>9, <1>10, <1>11, <1>12,
     <1>13, <1>14, <1>15, <1>16, <1>17, <1>18, <1>19
  DEF Next, Main, Send, Receiver, Updater, Server, Threads

---------------------------------------------------------------------------

LEMMA InitFits == Init => IInv
<1>. SUFFICES ASSUME Init PROVE IInv
  OBVIOUS
<1>1. /\ pc["main"] = "start" /\ pc["receiver"] = "off" /\ pc["updater"] = "off"
      /\ \A t \in Threads : pc[t] \in {"start", "off"} /\ cmd[t] = "none" /\ nap[t] = 0
      /\ nap["receiver"] = 0 /\ nap["updater"] = 0
      /\ mutex = 1 /\ mode = 0 /\ stop = {} /\ link = "none" /\ wire = <<>>
      /\ toServer = <<>> /\ toClient = <<>> /\ player = "new" /\ late = FALSE
  BY Names DEF Init, Threads
<1>2. SessionTyped
  <2>1. <<>> \in Seq(Texts) /\ <<>> \in Seq(Texts \cup {"garbled"}) /\ <<>> \in Seq(Said)
    BY EmptySeq
  <2>. QED
    BY <1>1, <2>1 DEF SessionTyped
<1>3. ThreadsTyped
  <2>1. 0 \in 0 .. stopNap /\ 0 \in 0 .. 2 /\ 1 \in 0 .. 1
    BY NapIs
  <2>2. pc \in [Threads -> Places]
    BY DEF Init, Places
  <2>3. cmd \in [Threads -> Texts \cup {"none"}] /\ nap \in [Threads -> 0 .. stopNap]
    BY <2>1 DEF Init
  <2>. QED
    BY <1>1, <2>1, <2>2, <2>3 DEF ThreadsTyped
<1>4. PlacesFit /\ Started /\ StopFits
  BY <1>1 DEF PlacesFit, Started, StopFits
<1>5. OneSends /\ Commanded
  BY <1>1 DEF OneSends, Commanded, Holding, Sending
<1>6. WireFits /\ CommandsAreWhole
  <2>1. Len(wire) = 0
    BY <1>1
  <2>. QED
    BY <1>1, <2>1, AmongNone, WholeMeans DEF WireFits
<1>7. NapsFit
  BY <1>1, NapIs, LessIs DEF NapsFit
<1>8. LoginComes /\ LookComes /\ ReceiverWoken /\ SessionOver
  BY <1>1 DEF LoginComes, LookComes, ReceiverWoken, SessionOver
<1>. QED
  BY <1>2, <1>3, <1>4, <1>5, <1>6, <1>7, <1>8, TypesAre DEF IInv

LEMMA StepFits == IInv /\ [Next]_vars => IInv'
<1>. SUFFICES ASSUME IInv, [Next]_vars PROVE IInv'
  OBVIOUS
<1>1. /\ ThreadsTyped /\ SessionTyped /\ PlacesFit /\ Started /\ OneSends /\ Commanded
      /\ WireFits /\ StopFits /\ NapsFit /\ LoginComes /\ LookComes /\ ReceiverWoken
      /\ SessionOver /\ CommandsAreWhole
  BY TypesAre DEF IInv
<1>2. ThreadsTyped' /\ SessionTyped'
  BY <1>1, ThreadsTypedKept, SessionTypedKept
<1>3. PlacesFit' /\ Started' /\ OneSends' /\ Commanded'
  BY <1>1, PlacesFitKept, StartedKept, OneSendsKept, CommandedKept
<1>4. StopFits' /\ NapsFit' /\ WireFits'
  BY <1>1, StopFitsKept, NapsFitKept, WireFitsKept
<1>5. CommandsAreWhole'
  BY <1>1, <1>4, CommandsAreWholeKept
<1>6. LoginComes' /\ LookComes'
  BY <1>1, LoginComesKept, LookComesKept
<1>7. ReceiverWoken' /\ SessionOver'
  BY <1>1, ReceiverWokenKept, SessionOverKept
<1>. QED
  BY <1>2, <1>3, <1>4, <1>5, <1>6, <1>7, TypesAre DEF IInv

(* The client, the server's side of its session and the clock keep all of  *)
(* the above.                                                              *)
THEOREM InvariantsHold == Spec => []IInv
<1>. QED
  BY InitFits, StepFits, PTL DEF Spec

(* Every variable of the client stays of its type; the semaphore of        *)
(* ClientThread among them, which is never posted twice.                   *)
THEOREM TypeCorrect == Spec => []TypeOK
<1>1. IInv => TypeOK
  BY DEF IInv
<1>. QED
  BY <1>1, InvariantsHold, PTL

(* ClientThread::mutex does what it is for: though a command is two sends  *)
(* and three threads send, the server reads what one of them said.         *)
THEOREM CommandsStayWhole == Spec => []CommandsAreWhole
<1>1. IInv => CommandsAreWhole
  BY DEF IInv
<1>. QED
  BY <1>1, InvariantsHold, PTL

(* stop() sleeps instead of joining, and that is enough: when main exits   *)
(* the receiver has ended, unless the player was not in the game, both     *)
(* directions are full, or a thread was late.                              *)
THEOREM StopEndsTheReceiver == Spec => []StopIsOrderly
<1>1. IInv => StopIsOrderly
  BY DEF IInv, SessionOver, StopIsOrderly
<1>. QED
  BY <1>1, InvariantsHold, PTL

===========================================================================

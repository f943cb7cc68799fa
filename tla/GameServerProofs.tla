------------------------ MODULE GameServerProofs --------------------------
(***************************************************************************)
(* The locks of the game server, for any number of clients, replies and    *)
(* texts: they are taken in one order, nobody waits in a circle, answers   *)
(* stay whole, and what is said is said to all.                            *)
(***************************************************************************)
EXTENDS GameServer, FiniteSetTheorems, SequenceTheorems, TLAPS

(* The locks the thread of a slot holds, bottom first, wherever it is. *)
stack(s) ==
  CASE pc[s] = "greeting" -> <<lineMutex(s)>>
    [] pc[s] \in {"reply", "say", "done"} -> <<gameMutex>>
    [] pc[s] \in {"reply locked", "say locked"} -> <<gameMutex, playerMutex(s)>>
    [] pc[s] = "replying" -> <<gameMutex, playerMutex(s), lineMutex(s)>>
    [] pc[s] = "saying" -> <<gameMutex, playerMutex(s), clientMutex>>
    [] pc[s] = "say to" -> <<gameMutex, playerMutex(s), clientMutex, lineMutex(to[s])>>
    [] OTHER -> <<>>

HoldsFit ==
  /\ \A s \in Slots : holds[s] = stack(s)
  /\ holds[gameThread] \in {<<>>, <<gameMutex>>}
  /\ holds[leaver] \in {<<>>, <<clientMutex>>}

OneHolder == \A t, u \in Threads : t # u => ToSet(holds[t]) \cap ToSet(holds[u]) = {}

(* The room is who is registered. *)
CountMatches ==
  /\ map = {s \in Slots : pc[s] \in Registered}
  /\ client_ct = Cardinality(map)

(* The slot of a thread is taken, and the one the acceptor is about to     *)
(* give away has no thread; nobody has heard a thing before it joined.     *)
SlotsFit ==
  /\ \A s \in Slots : pc[s] # "off" => clients[s] /\ active[s]
  /\ \A s \in Slots : pc[s] = "add" => heard[s] = NoText
  /\ acceptor.step # "scan" =>
       clients[acceptor.at] /\ pc[acceptor.at] = "off" /\ heard[acceptor.at] = NoText
  /\ acceptor.step = "accept" => active[acceptor.at]

(* What a thread has left to send is there to be sent. *)
JobsFit ==
  \A s \in Slots :
    /\ pc[s] \in {"greet", "greeting"} \cup Replying => left[s] > 0
    /\ pc[s] \in Saying => text[s] \in Texts
    /\ inBroadcast(s) => rest[s] \subseteq map
    /\ pc[s] = "say to" => to[s] \in map \ rest[s]

IInv == TypeOK /\ HoldsFit /\ OneHolder /\ CountMatches /\ SlotsFit /\ JobsFit

---------------------------------------------------------------------------

LEMMA ThreadsDiffer ==
  /\ Slots \subseteq Threads
  /\ gameThread \in Threads \ Slots
  /\ leaver \in Threads \ Slots
  /\ gameThread # leaver
BY ServerAssumption DEF Slots, Threads, gameThread, leaver

LEMMA Ranks ==
  /\ rank(gameMutex) = 1
  /\ rank(clientMutex) = 3
  /\ \A s : rank(playerMutex(s)) = 2 /\ rank(lineMutex(s)) = 4
BY DEF rank, gameMutex, clientMutex, playerMutex, lineMutex

LEMMA LocksTyped ==
  /\ gameMutex \in Locks
  /\ clientMutex \in Locks
  /\ \A s \in Slots : playerMutex(s) \in Locks /\ lineMutex(s) \in Locks
BY DEF Locks

(* The locks on a stack, and the stack when one is taken or posted. *)
LEMMA SetOfStack ==
  /\ ToSet(<<>>) = {}
  /\ \A a : ToSet(<<a>>) = {a}
  /\ \A a, b : ToSet(<<a, b>>) = {a, b}
  /\ \A a, b, c : ToSet(<<a, b, c>>) = {a, b, c}
  /\ \A a, b, c, d : ToSet(<<a, b, c, d>>) = {a, b, c, d}
BY DEF ToSet

LEMMA BottomOfStack ==
  \A a, b, c, d : a \in ToSet(<<a>>) /\ a \in ToSet(<<a, b>>)
                /\ a \in ToSet(<<a, b, c>>) /\ a \in ToSet(<<a, b, c, d>>)
<1>1. ASSUME NEW a, NEW b, NEW c, NEW d
      PROVE  /\ a \in ToSet(<<a>>) /\ a \in ToSet(<<a, b>>)
             /\ a \in ToSet(<<a, b, c>>) /\ a \in ToSet(<<a, b, c, d>>)
  BY DEF ToSet
<1>. QED
  BY <1>1

LEMMA Pushed ==
  /\ \A a : Append(<<>>, a) = <<a>>
  /\ \A a, b : Append(<<a>>, b) = <<a, b>>
  /\ \A a, b, c : Append(<<a, b>>, c) = <<a, b, c>>
  /\ \A a, b, c, d : Append(<<a, b, c>>, d) = <<a, b, c, d>>
<1>1. \A a : Append(<<>>, a) = <<a>>
  OBVIOUS
<1>2. ASSUME NEW a, NEW b PROVE Append(<<a>>, b) = <<a, b>>
  <2> DEFINE S == {a, b}
  <2>1. <<a>> \in Seq(S) /\ <<a, b>> \in Seq(S) /\ b \in S
    OBVIOUS
  <2>2. Append(<<a>>, b) \in Seq(S) /\ Len(Append(<<a>>, b)) = 2
    BY <2>1, AppendProperties
  <2>3. \A i \in 1 .. 2 : Append(<<a>>, b)[i] = <<a, b>>[i]
    BY <2>1, AppendProperties
  <2>. QED
    BY <2>1, <2>2, <2>3, SeqEqual
<1>3. ASSUME NEW a, NEW b, NEW c PROVE Append(<<a, b>>, c) = <<a, b, c>>
  <2> DEFINE S == {a, b, c}
  <2>1. <<a, b>> \in Seq(S) /\ <<a, b, c>> \in Seq(S) /\ c \in S
    OBVIOUS
  <2>2. Append(<<a, b>>, c) \in Seq(S) /\ Len(Append(<<a, b>>, c)) = 3
    BY <2>1, AppendProperties
  <2>3. \A i \in 1 .. 3 : Append(<<a, b>>, c)[i] = <<a, b, c>>[i]
    BY <2>1, AppendProperties
  <2>. QED
    BY <2>1, <2>2, <2>3, SeqEqual
<1>4. ASSUME NEW a, NEW b, NEW c, NEW d PROVE Append(<<a, b, c>>, d) = <<a, b, c, d>>
  <2> DEFINE S == {a, b, c, d}
  <2>1. <<a, b, c>> \in Seq(S) /\ <<a, b, c, d>> \in Seq(S) /\ d \in S
    OBVIOUS
  <2>2. Append(<<a, b, c>>, d) \in Seq(S) /\ Len(Append(<<a, b, c>>, d)) = 4
    BY <2>1, AppendProperties
  <2>3. \A i \in 1 .. 4 : Append(<<a, b, c>>, d)[i] = <<a, b, c, d>>[i]
    BY <2>1, AppendProperties
  <2>. QED
    BY <2>1, <2>2, <2>3, SeqEqual
<1>. QED
  BY <1>1, <1>2, <1>3, <1>4, Zenon

LEMMA Popped ==
  /\ \A a : SubSeq(<<a>>, 1, Len(<<a>>) - 1) = <<>>
  /\ \A a, b, c : SubSeq(<<a, b, c>>, 1, Len(<<a, b, c>>) - 2) = <<a>>
  /\ \A a, b, c, d : SubSeq(<<a, b, c, d>>, 1, Len(<<a, b, c, d>>) - 1) = <<a, b, c>>
<1>1. ASSUME NEW a PROVE SubSeq(<<a>>, 1, 0) = <<>>
  OBVIOUS
<1>2. ASSUME NEW a, NEW b, NEW c PROVE SubSeq(<<a, b, c>>, 1, 1) = <<a>>
  <2> DEFINE S == {a, b, c}
  <2>1. <<a>> \in Seq(S) /\ <<a, b, c>> \in Seq(S)
    OBVIOUS
  <2>2. SubSeq(<<a, b, c>>, 1, 1) \in Seq(S) /\ Len(SubSeq(<<a, b, c>>, 1, 1)) = 1
    BY <2>1
  <2>3. \A i \in 1 .. 1 : SubSeq(<<a, b, c>>, 1, 1)[i] = <<a>>[i]
    BY <2>1
  <2>. QED
    BY <2>1, <2>2, <2>3, SeqEqual
<1>3. ASSUME NEW a, NEW b, NEW c, NEW d PROVE SubSeq(<<a, b, c, d>>, 1, 3) = <<a, b, c>>
  <2> DEFINE S == {a, b, c, d}
  <2>1. <<a, b, c>> \in Seq(S) /\ <<a, b, c, d>> \in Seq(S)
    OBVIOUS
  <2>2. SubSeq(<<a, b, c, d>>, 1, 3) \in Seq(S) /\ Len(SubSeq(<<a, b, c, d>>, 1, 3)) = 3
    BY <2>1
  <2>3. \A i \in 1 .. 3 : SubSeq(<<a, b, c, d>>, 1, 3)[i] = <<a, b, c>>[i]
    BY <2>1
  <2>. QED
    BY <2>1, <2>2, <2>3, SeqEqual
<1>4. /\ \A a : Len(<<a>>) - 1 = 0
      /\ \A a, b, c : Len(<<a, b, c>>) - 2 = 1
      /\ \A a, b, c, d : Len(<<a, b, c, d>>) - 1 = 3
  OBVIOUS
<1>. QED
  BY <1>1, <1>2, <1>3, <1>4, Zenon

LEMMA SetOfPushed ==
  ASSUME NEW S, NEW q \in Seq(S), NEW l
  PROVE  ToSet(Append(q, l)) = ToSet(q) \cup {l}
BY DEF ToSet

LEMMA SetOfPopped ==
  ASSUME NEW S, NEW q \in Seq(S), NEW n \in Nat
  PROVE  ToSet(SubSeq(q, 1, Len(q) - n)) \subseteq ToSet(q)
BY DEF ToSet

---------------------------------------------------------------------------

(* A lock is taken by one thread only, and posted by the one that has it.  *)
LEMMA WaitKeepsOneHolder ==
  ASSUME TypeOK, OneHolder, NEW t \in Threads, NEW l, Wait(t, l)
  PROVE  OneHolder'
<1>1. /\ \A u \in Threads : l \notin ToSet(holds[u])
      /\ \A u \in Threads : ToSet(holds'[u]) = IF u = t THEN ToSet(holds[t]) \cup {l} ELSE ToSet(holds[u])
  BY SetOfPushed DEF Wait, free, TypeOK
<1>. QED
  BY <1>1 DEF OneHolder

LEMMA PostKeepsOneHolder ==
  ASSUME TypeOK, OneHolder, NEW t \in Threads, NEW n \in Nat, Post(t, n)
  PROVE  OneHolder'
<1>1. /\ \A u \in Threads \ {t} : holds'[u] = holds[u]
      /\ holds'[t] = SubSeq(holds[t], 1, Len(holds[t]) - n)
  BY DEF Post, TypeOK
<1>2. \A u \in Threads : ToSet(holds'[u]) \subseteq ToSet(holds[u])
  BY <1>1, SetOfPopped DEF TypeOK
<1>. QED
  BY <1>2 DEF OneHolder

(* A step that leaves every other slot's thread where it is.               *)
LEMMA HoldsFitLocally ==
  ASSUME HoldsFit, NEW s \in Slots,
         \A t \in Threads \ {s} : holds'[t] = holds[t],
         \A t \in Slots \ {s} : pc'[t] = pc[t] /\ to'[t] = to[t],
         holds'[s] = stack(s)'
  PROVE  HoldsFit'
<1>1. ASSUME NEW t \in Slots \ {s} PROVE holds'[t] = stack(t)'
  <2>1. stack(t)' = stack(t)
    BY <1>1 DEF stack
  <2>. QED
    BY <1>1, <2>1, ThreadsDiffer DEF HoldsFit
<1>. QED
  BY <1>1, ThreadsDiffer DEF HoldsFit

LEMMA CountStays ==
  ASSUME CountMatches, UNCHANGED room,
         \A t \in Slots : pc'[t] \in Registered <=> pc[t] \in Registered
  PROVE  CountMatches'
BY DEF CountMatches, room

LEMMA MapIsFinite == ASSUME TypeOK PROVE IsFiniteSet(map)
<1>1. IsFiniteSet(Slots)
  BY ServerAssumption, FS_Interval DEF Slots
<1>. QED
  BY <1>1, FS_Subset DEF TypeOK

(* Who goes round the clients holds client_mutex. *)
LEMMA SpeakerHolds ==
  ASSUME HoldsFit, NEW s \in Slots, inBroadcast(s)
  PROVE  clientMutex \in ToSet(holds[s])
<1>1. holds[s] = IF pc[s] = "saying" THEN <<gameMutex, playerMutex(s), clientMutex>>
                 ELSE <<gameMutex, playerMutex(s), clientMutex, lineMutex(to[s])>>
  BY DEF HoldsFit, stack, inBroadcast
<1>. QED
  BY <1>1, SetOfStack

LEMMA NobodySpeaks ==
  ASSUME HoldsFit, free(clientMutex)
  PROVE  \A t \in Slots : ~inBroadcast(t)
BY SpeakerHolds, ThreadsDiffer DEF free

LEMMA WantsAreLocks == ASSUME TypeOK, NEW s \in Slots PROVE wants(s) \subseteq Locks
<1>1. {lineMutex(t) : t \in rest[s]} \subseteq Locks
  BY LocksTyped DEF TypeOK
<1>2. /\ {clientMutex} \subseteq Locks /\ {gameMutex} \subseteq Locks /\ {} \subseteq Locks
      /\ {playerMutex(s)} \subseteq Locks /\ {lineMutex(s)} \subseteq Locks
  BY LocksTyped
<1>. QED
  BY <1>1, <1>2 DEF wants

(* The stack of a thread after it took a lock, or posted some. *)
LEMMA TakePushes ==
  ASSUME TypeOK, HoldsFit, NEW s \in Slots, NEW l \in Locks, Wait(s, l)
  PROVE  /\ \A t \in Threads \ {s} : holds'[t] = holds[t]
         /\ holds'[s] = Append(stack(s), l)
         /\ holds' \in [Threads -> Seq(Locks)]
<1>1. Append(holds[s], l) \in Seq(Locks)
  BY ThreadsDiffer, AppendProperties DEF TypeOK
<1>. QED
  BY <1>1, ThreadsDiffer DEF TypeOK, HoldsFit, Wait

LEMMA PostPops ==
  ASSUME TypeOK, HoldsFit, NEW s \in Slots, NEW n \in Nat, Post(s, n)
  PROVE  /\ \A t \in Threads \ {s} : holds'[t] = holds[t]
         /\ holds'[s] = SubSeq(stack(s), 1, Len(stack(s)) - n)
         /\ holds' \in [Threads -> Seq(Locks)]
<1>1. SubSeq(holds[s], 1, Len(holds[s]) - n) \in Seq(Locks)
  BY ThreadsDiffer DEF TypeOK
<1>. QED
  BY <1>1, ThreadsDiffer DEF TypeOK, HoldsFit, Post

LEMMA ScanKeeps ==
  ASSUME IInv, Scan
  PROVE  IInv'
<1> USE ServerAssumption DEF IInv, Scan, Goto, server, room, peer, job
<1>1. TypeOK'
  <2>1. pc' \in [Slots -> Labels]
    BY DEF TypeOK, Labels, Registered, Replying, Saying
  <2>2. \A i \in Slots : (i + 1) % MAX_CLIENTS \in Slots
    BY DEF Slots
  <2>3. acceptor' \in [step : {"scan", "activate", "accept"}, at : Slots]
    BY <2>2 DEF TypeOK
  <2>4. /\ clients' \in [Slots -> BOOLEAN] /\ active' \in [Slots -> BOOLEAN]
        /\ embodied' \in [Slots -> BOOLEAN] /\ stalled' \in [Slots -> BOOLEAN]
        /\ heard' \in [Slots -> Texts \cup {NoText}]
    BY DEF TypeOK
  <2>. QED
    BY <2>1, <2>2, <2>3, <2>4 DEF TypeOK
<1>2. HoldsFit'
  BY ThreadsDiffer DEF TypeOK, HoldsFit, stack
<1>3. OneHolder'
  BY DEF OneHolder
<1>4. CountMatches'
  BY CountStays DEF TypeOK, Registered, Replying, Saying
<1>5. SlotsFit'
  BY DEF TypeOK, SlotsFit
<1>6. JobsFit'
  BY DEF TypeOK, JobsFit, Replying, Saying, inBroadcast
<1>. QED
  BY <1>1, <1>2, <1>3, <1>4, <1>5, <1>6

LEMMA ActivateKeeps ==
  ASSUME IInv, Activate
  PROVE  IInv'
<1> USE ServerAssumption DEF IInv, Activate, Goto, server, room, peer, job
<1>1. TypeOK'
  BY DEF TypeOK
<1>2. HoldsFit'
  BY ThreadsDiffer DEF TypeOK, HoldsFit, stack
<1>3. OneHolder'
  BY DEF OneHolder
<1>4. CountMatches'
  BY CountStays DEF TypeOK, Registered, Replying, Saying
<1>5. SlotsFit'
  BY DEF TypeOK, SlotsFit
<1>6. JobsFit'
  BY DEF TypeOK, JobsFit, Replying, Saying, inBroadcast
<1>. QED
  BY <1>1, <1>2, <1>3, <1>4, <1>5, <1>6

LEMMA AcceptKeeps ==
  ASSUME IInv, Accept
  PROVE  IInv'
<1> USE ServerAssumption DEF IInv, Accept, Goto, server, room, peer, job
<1>1. TypeOK'
  <2>1. pc' \in [Slots -> Labels]
    BY DEF TypeOK, Labels, Registered, Replying, Saying
  <2>2. 0 \in Slots
    BY DEF Slots
  <2>. QED
    BY <2>1, <2>2 DEF TypeOK
<1>2. HoldsFit'
  BY ThreadsDiffer DEF TypeOK, HoldsFit, stack
<1>3. OneHolder'
  BY DEF OneHolder
<1>4. CountMatches'
  BY CountStays DEF TypeOK, Registered, Replying, Saying
<1>5. SlotsFit'
  BY DEF TypeOK, SlotsFit
<1>6. JobsFit'
  BY DEF TypeOK, JobsFit, Replying, Saying, inBroadcast
<1>. QED
  BY <1>1, <1>2, <1>3, <1>4, <1>5, <1>6

LEMMA AddClientKeeps ==
  ASSUME IInv, NEW s \in Slots, AddClient(s)
  PROVE  IInv'
<1> USE ServerAssumption DEF IInv, AddClient, Goto, server, room, peer, job
<1>1. TypeOK'
  <2>1. pc' \in [Slots -> Labels]
    BY DEF TypeOK, Labels, Registered, Replying, Saying
  <2>2. Greeting \in 0 .. (Greeting + Replies) /\ map' \subseteq Slots /\ client_ct' \in Nat
    BY DEF TypeOK
  <2>. QED
    BY <2>1, <2>2 DEF TypeOK
<1>2. HoldsFit'
  BY ThreadsDiffer DEF TypeOK, HoldsFit, stack
<1>3. OneHolder'
  BY DEF OneHolder
<1>4. CountMatches'
  <2>1. s \notin map /\ IsFiniteSet(map)
    BY MapIsFinite DEF TypeOK, CountMatches, Registered, Replying, Saying
  <2>2. Cardinality(map \cup {s}) = Cardinality(map) + 1
    BY <2>1, FS_AddElement
  <2>3. map' = {t \in Slots : pc'[t] \in Registered}
    BY DEF TypeOK, CountMatches, Registered, Replying, Saying
  <2>. QED
    BY <2>2, <2>3 DEF CountMatches
<1>5. SlotsFit'
  BY DEF TypeOK, SlotsFit
<1>6. JobsFit'
  <2>1. left'[s] > 0 /\ pc'[s] = "greet"
    BY DEF TypeOK
  <2>2. map \subseteq map'
    BY DEF TypeOK
  <2>3. ASSUME NEW t \in Slots, t # s
        PROVE  pc'[t] = pc[t] /\ left'[t] = left[t]
    BY <2>3 DEF TypeOK
  <2>. QED
    BY <2>1, <2>2, <2>3 DEF TypeOK, JobsFit, Replying, Saying, inBroadcast
<1>. QED
  BY <1>1, <1>2, <1>3, <1>4, <1>5, <1>6

LEMMA SetReplierKeeps ==
  ASSUME IInv, NEW s \in Slots, SetReplier(s)
  PROVE  IInv'
<1> USE ServerAssumption DEF IInv, SetReplier, Goto, server, room, peer, job
<1>1. TypeOK'
  <2>1. pc' \in [Slots -> Labels]
    BY DEF TypeOK, Labels, Registered, Replying, Saying
  <2>. QED
    BY <2>1 DEF TypeOK
<1>2. HoldsFit'
  BY ThreadsDiffer DEF TypeOK, HoldsFit, stack
<1>3. OneHolder'
  BY DEF OneHolder
<1>4. CountMatches'
  BY CountStays DEF TypeOK, Registered, Replying, Saying
<1>5. SlotsFit'
  BY DEF TypeOK, SlotsFit
<1>6. JobsFit'
  BY DEF TypeOK, JobsFit, Replying, Saying, inBroadcast
<1>. QED
  BY <1>1, <1>2, <1>3, <1>4, <1>5, <1>6

LEMMA ReceiveKeeps ==
  ASSUME IInv, NEW s \in Slots, Receive(s)
  PROVE  IInv'
<1> USE ServerAssumption DEF IInv, Receive, Goto, server, room, peer, job
<1>1. TypeOK'
  <2>1. pc' \in [Slots -> Labels]
    BY DEF TypeOK, Labels, Registered, Replying, Saying
  <2>. QED
    BY <2>1 DEF TypeOK
<1>2. HoldsFit'
  BY ThreadsDiffer DEF TypeOK, HoldsFit, stack
<1>3. OneHolder'
  BY DEF OneHolder
<1>4. CountMatches'
  BY CountStays DEF TypeOK, Registered, Replying, Saying
<1>5. SlotsFit'
  BY DEF TypeOK, SlotsFit
<1>6. JobsFit'
  BY DEF TypeOK, JobsFit, Replying, Saying, inBroadcast
<1>. QED
  BY <1>1, <1>2, <1>3, <1>4, <1>5, <1>6

LEMMA ShutdownKeeps ==
  ASSUME IInv, NEW s \in Slots, Shutdown(s)
  PROVE  IInv'
<1> USE ServerAssumption DEF IInv, Shutdown, Goto, server, room, peer, job
<1>1. TypeOK'
  <2>1. pc' \in [Slots -> Labels]
    BY DEF TypeOK, Labels, Registered, Replying, Saying
  <2>. QED
    BY <2>1 DEF TypeOK
<1>2. HoldsFit'
  BY ThreadsDiffer DEF TypeOK, HoldsFit, stack
<1>3. OneHolder'
  BY DEF OneHolder
<1>4. CountMatches'
  BY CountStays DEF TypeOK, Registered, Replying, Saying
<1>5. SlotsFit'
  BY DEF TypeOK, SlotsFit
<1>6. JobsFit'
  BY DEF TypeOK, JobsFit, Replying, Saying, inBroadcast
<1>. QED
  BY <1>1, <1>2, <1>3, <1>4, <1>5, <1>6

LEMMA RemoveClientKeeps ==
  ASSUME IInv, NEW s \in Slots, RemoveClient(s)
  PROVE  IInv'
<1> USE ServerAssumption DEF IInv, RemoveClient, Goto, server, room, peer, job
<1>1. TypeOK'
  <2>1. pc' \in [Slots -> Labels]
    BY DEF TypeOK, Labels, Registered, Replying, Saying
  <2>2. map' \subseteq Slots /\ client_ct' \in Nat
    <3>1. s \in map /\ IsFiniteSet(map)
      BY MapIsFinite DEF TypeOK, CountMatches, Registered
    <3>2. Cardinality(map) \in Nat /\ Cardinality(map \ {s}) = Cardinality(map) - 1
      BY <3>1, FS_RemoveElement, FS_CardinalityType
    <3>3. IsFiniteSet(map \ {s})
      BY <3>1, FS_Subset
    <3>4. Cardinality(map \ {s}) \in Nat
      BY <3>3, FS_CardinalityType
    <3>. QED
      BY <3>2, <3>4 DEF TypeOK, CountMatches
  <2>. QED
    BY <2>1, <2>2 DEF TypeOK
<1>2. HoldsFit'
  BY ThreadsDiffer DEF TypeOK, HoldsFit, stack
<1>3. OneHolder'
  BY DEF OneHolder
<1>4. CountMatches'
  <2>1. s \in map /\ IsFiniteSet(map)
    BY MapIsFinite DEF TypeOK, CountMatches, Registered
  <2>2. Cardinality(map \ {s}) = Cardinality(map) - 1
    BY <2>1, FS_RemoveElement
  <2>3. map' = {t \in Slots : pc'[t] \in Registered}
    BY DEF TypeOK, CountMatches, Registered, Replying, Saying
  <2>. QED
    BY <2>2, <2>3 DEF CountMatches
<1>5. SlotsFit'
  BY DEF TypeOK, SlotsFit
<1>6. JobsFit'
  <2>1. \A t \in Slots : ~inBroadcast(t)
    BY NobodySpeaks DEF Pass, wants
  <2>. QED
    BY <2>1 DEF TypeOK, JobsFit, Replying, Saying, inBroadcast
<1>. QED
  BY <1>1, <1>2, <1>3, <1>4, <1>5, <1>6

LEMMA StallKeeps ==
  ASSUME IInv, NEW s \in Slots, Stall(s)
  PROVE  IInv'
<1> USE ServerAssumption DEF IInv, Stall, Goto, server, room, peer, job
<1>1. TypeOK'
  <2>1. pc' \in [Slots -> Labels]
    BY DEF TypeOK, Labels, Registered, Replying, Saying
  <2>. QED
    BY <2>1 DEF TypeOK
<1>2. HoldsFit'
  BY ThreadsDiffer DEF TypeOK, HoldsFit, stack
<1>3. OneHolder'
  BY DEF OneHolder
<1>4. CountMatches'
  BY CountStays DEF TypeOK, Registered, Replying, Saying
<1>5. SlotsFit'
  BY DEF TypeOK, SlotsFit
<1>6. JobsFit'
  BY DEF TypeOK, JobsFit, Replying, Saying, inBroadcast
<1>. QED
  BY <1>1, <1>2, <1>3, <1>4, <1>5, <1>6

LEMMA DrainKeeps ==
  ASSUME IInv, NEW s \in Slots, Drain(s)
  PROVE  IInv'
<1> USE ServerAssumption DEF IInv, Drain, Goto, server, room, peer, job
<1>1. TypeOK'
  <2>1. pc' \in [Slots -> Labels]
    BY DEF TypeOK, Labels, Registered, Replying, Saying
  <2>. QED
    BY <2>1 DEF TypeOK
<1>2. HoldsFit'
  BY ThreadsDiffer DEF TypeOK, HoldsFit, stack
<1>3. OneHolder'
  BY DEF OneHolder
<1>4. CountMatches'
  BY CountStays DEF TypeOK, Registered, Replying, Saying
<1>5. SlotsFit'
  BY DEF TypeOK, SlotsFit
<1>6. JobsFit'
  BY DEF TypeOK, JobsFit, Replying, Saying, inBroadcast
<1>. QED
  BY <1>1, <1>2, <1>3, <1>4, <1>5, <1>6

LEMMA GreetKeeps ==
  ASSUME IInv, NEW s \in Slots, Greet(s)
  PROVE  IInv'
<1> USE ServerAssumption DEF IInv, Greet, Goto, server, room, peer, job
<1>0. PICK l \in wants(s) : Wait(s, l)
  BY DEF Take
<1>1. /\ \A t \in Threads \ {s} : holds'[t] = holds[t]
      /\ holds'[s] = Append(stack(s), l)
      /\ holds' \in [Threads -> Seq(Locks)]
  BY <1>0, WantsAreLocks, TakePushes
<1>2. TypeOK'
  <2>1. pc' \in [Slots -> Labels]
    BY DEF TypeOK, Labels, Registered, Replying, Saying
  <2>. QED
    BY <1>1, <2>1 DEF TypeOK
<1>3. HoldsFit'
  <2>1. holds'[s] = stack(s)'
    BY <1>0, <1>1, Pushed DEF TypeOK, wants, stack
  <2>. QED
    BY <1>1, <2>1, HoldsFitLocally, ThreadsDiffer DEF TypeOK
<1>4. OneHolder'
  BY <1>0, WaitKeepsOneHolder, ThreadsDiffer
<1>5. CountMatches'
  BY CountStays DEF TypeOK, Registered, Replying, Saying
<1>6. SlotsFit'
  BY DEF TypeOK, SlotsFit
<1>7. JobsFit'
  BY DEF TypeOK, JobsFit, Replying, Saying, inBroadcast
<1>. QED
  BY <1>2, <1>3, <1>4, <1>5, <1>6, <1>7

LEMMA GreetedKeeps ==
  ASSUME IInv, NEW s \in Slots, Greeted(s)
  PROVE  IInv'
<1> USE ServerAssumption DEF IInv, Greeted, Goto, server, room, peer, job
<1>1. /\ \A t \in Threads \ {s} : holds'[t] = holds[t]
      /\ holds'[s] = SubSeq(stack(s), 1, Len(stack(s)) - 1)
      /\ holds' \in [Threads -> Seq(Locks)]
  BY PostPops
<1>2. TypeOK'
  <2>1. pc' \in [Slots -> Labels]
    BY DEF TypeOK, Labels, Registered, Replying, Saying
  <2>2. left' \in [Slots -> 0 .. (Greeting + Replies)]
    <3>1. left[s] > 0
      BY DEF JobsFit, Replying
    <3>2. left[s] - 1 \in 0 .. (Greeting + Replies)
      BY <3>1 DEF TypeOK
    <3>. QED
      BY <3>2 DEF TypeOK
  <2>. QED
    BY <1>1, <2>1, <2>2 DEF TypeOK
<1>3. HoldsFit'
  <2>1. stack(s) = <<lineMutex(s)>>
    BY DEF stack
  <2>2. pc'[s] \in {"greet", "set"}
    BY DEF TypeOK
  <2>3. stack(s)' = <<>>
    BY <2>2 DEF stack
  <2>4. SubSeq(<<lineMutex(s)>>, 1, Len(<<lineMutex(s)>>) - 1) = <<>>
    BY Popped, Zenon
  <2>5. holds'[s] = stack(s)'
    BY <1>1, <2>1, <2>3, <2>4, Zenon
  <2>. QED
    BY <1>1, <2>5, HoldsFitLocally, ThreadsDiffer DEF TypeOK
<1>4. OneHolder'
  BY PostKeepsOneHolder, ThreadsDiffer
<1>5. CountMatches'
  BY CountStays DEF TypeOK, Registered, Replying, Saying
<1>6. SlotsFit'
  BY DEF TypeOK, SlotsFit
<1>7. JobsFit'
  <2>1. ASSUME NEW t \in Slots, t # s
        PROVE  UNCHANGED <<pc[t], left[t], text[t], rest[t], to[t]>>
    BY <2>1 DEF TypeOK
  <2>2. (pc'[s] = "greet" /\ left'[s] > 0) \/ pc'[s] = "set"
    BY DEF TypeOK
  <2>. QED
    BY <2>1, <2>2 DEF TypeOK, JobsFit, Replying, Saying, inBroadcast
<1>. QED
  BY <1>2, <1>3, <1>4, <1>5, <1>6, <1>7

LEMMA BeginCommandKeeps ==
  ASSUME IInv, NEW s \in Slots, BeginCommand(s)
  PROVE  IInv'
<1> USE ServerAssumption DEF IInv, BeginCommand, Goto, server, room, peer, job, Dispatch
<1>0. PICK l \in wants(s) : Wait(s, l)
  BY DEF Take
<1>1. /\ \A t \in Threads \ {s} : holds'[t] = holds[t]
      /\ holds'[s] = Append(stack(s), l)
      /\ holds' \in [Threads -> Seq(Locks)]
  BY <1>0, WantsAreLocks, TakePushes
<1>2. TypeOK'
  <2>1. pc' \in [Slots -> Labels]
    BY DEF TypeOK, Labels, Registered, Replying, Saying
  <2>2. /\ left' \in [Slots -> 0 .. (Greeting + Replies)]
        /\ text' \in [Slots -> Texts \cup {NoText}] /\ embodied' \in [Slots -> BOOLEAN]
    <3>1. \A n \in 0 .. Replies : n \in 0 .. (Greeting + Replies)
      OBVIOUS
    <3>2. CASE (\E t \in Texts : text' = [text EXCEPT ![s] = t]) /\ UNCHANGED <<embodied, left>>
      BY <3>2 DEF TypeOK
    <3>3. CASE \E n \in 0 .. Replies, body \in BOOLEAN :
                 /\ embodied' = [embodied EXCEPT ![s] = body]
                 /\ left' = [left EXCEPT ![s] = n]
                 /\ text' = text
      BY <3>1, <3>3 DEF TypeOK
    <3>. QED
      BY <3>2, <3>3
  <2>. QED
    BY <1>1, <2>1, <2>2 DEF TypeOK
<1>3. HoldsFit'
  <2>1. holds'[s] = stack(s)'
    BY <1>0, <1>1, Pushed DEF TypeOK, wants, stack
  <2>. QED
    BY <1>1, <2>1, HoldsFitLocally, ThreadsDiffer DEF TypeOK
<1>4. OneHolder'
  BY <1>0, WaitKeepsOneHolder, ThreadsDiffer
<1>5. CountMatches'
  BY CountStays DEF TypeOK, Registered, Replying, Saying
<1>6. SlotsFit'
  BY DEF TypeOK, SlotsFit
<1>7. JobsFit'
  <2>1. ASSUME NEW t \in Slots, t # s
        PROVE  UNCHANGED <<pc[t], left[t], text[t], rest[t], to[t]>>
    BY <2>1 DEF TypeOK
  <2>2. \/ pc'[s] = "say" /\ text'[s] \in Texts
        \/ pc'[s] = "reply" /\ left'[s] > 0
        \/ pc'[s] = "done"
    BY DEF TypeOK
  <2>. QED
    BY <2>1, <2>2 DEF TypeOK, JobsFit, Replying, Saying, inBroadcast
<1>. QED
  BY <1>2, <1>3, <1>4, <1>5, <1>6, <1>7

LEMMA ReplyKeeps ==
  ASSUME IInv, NEW s \in Slots, Reply(s)
  PROVE  IInv'
<1> USE ServerAssumption DEF IInv, Reply, Goto, server, room, peer, job
<1>0. PICK l \in wants(s) : Wait(s, l)
  BY DEF Take
<1>1. /\ \A t \in Threads \ {s} : holds'[t] = holds[t]
      /\ holds'[s] = Append(stack(s), l)
      /\ holds' \in [Threads -> Seq(Locks)]
  BY <1>0, WantsAreLocks, TakePushes
<1>2. TypeOK'
  <2>1. pc' \in [Slots -> Labels]
    BY DEF TypeOK, Labels, Registered, Replying, Saying
  <2>. QED
    BY <1>1, <2>1 DEF TypeOK
<1>3. HoldsFit'
  <2>1. CASE pc[s] = "reply"
    <3>1. wants(s) = {playerMutex(s)} /\ stack(s) = <<gameMutex>>
      BY <2>1 DEF wants, stack
    <3>2. pc'[s] = "reply locked"
      BY <2>1 DEF TypeOK
    <3>3. stack(s)' = <<gameMutex, playerMutex(s)>>
      BY <3>2 DEF stack
    <3>4. l = playerMutex(s)
      BY <1>0, <3>1
    <3>5. Append(<<gameMutex>>, playerMutex(s)) = <<gameMutex, playerMutex(s)>>
      BY Pushed, Zenon
    <3>6. holds'[s] = stack(s)'
      BY <1>1, <3>1, <3>3, <3>4, <3>5, Zenon
    <3>. QED
      BY <1>1, <3>6, HoldsFitLocally, ThreadsDiffer DEF TypeOK
  <2>2. CASE pc[s] = "reply locked"
    <3>1. wants(s) = {lineMutex(s)} /\ stack(s) = <<gameMutex, playerMutex(s)>>
      BY <2>2 DEF wants, stack
    <3>2. pc'[s] = "replying"
      BY <2>2 DEF TypeOK
    <3>3. stack(s)' = <<gameMutex, playerMutex(s), lineMutex(s)>>
      BY <3>2 DEF stack
    <3>4. l = lineMutex(s)
      BY <1>0, <3>1
    <3>5. Append(<<gameMutex, playerMutex(s)>>, lineMutex(s)) = <<gameMutex, playerMutex(s), lineMutex(s)>>
      BY Pushed, Zenon
    <3>6. holds'[s] = stack(s)'
      BY <1>1, <3>1, <3>3, <3>4, <3>5, Zenon
    <3>. QED
      BY <1>1, <3>6, HoldsFitLocally, ThreadsDiffer DEF TypeOK
  <2>. QED
    BY <2>1, <2>2
<1>4. OneHolder'
  BY <1>0, WaitKeepsOneHolder, ThreadsDiffer
<1>5. CountMatches'
  BY CountStays DEF TypeOK, Registered, Replying, Saying
<1>6. SlotsFit'
  BY DEF TypeOK, SlotsFit
<1>7. JobsFit'
  BY DEF TypeOK, JobsFit, Replying, Saying, inBroadcast
<1>. QED
  BY <1>2, <1>3, <1>4, <1>5, <1>6, <1>7

LEMMA RepliedKeeps ==
  ASSUME IInv, NEW s \in Slots, Replied(s)
  PROVE  IInv'
<1> USE ServerAssumption DEF IInv, Replied, Goto, server, room, peer, job
<1>1. /\ \A t \in Threads \ {s} : holds'[t] = holds[t]
      /\ holds'[s] = SubSeq(stack(s), 1, Len(stack(s)) - 2)
      /\ holds' \in [Threads -> Seq(Locks)]
  BY PostPops
<1>2. TypeOK'
  <2>1. pc' \in [Slots -> Labels]
    BY DEF TypeOK, Labels, Registered, Replying, Saying
  <2>2. left' \in [Slots -> 0 .. (Greeting + Replies)]
    <3>1. left[s] > 0
      BY DEF JobsFit, Replying
    <3>2. left[s] - 1 \in 0 .. (Greeting + Replies)
      BY <3>1 DEF TypeOK
    <3>. QED
      BY <3>2 DEF TypeOK
  <2>. QED
    BY <1>1, <2>1, <2>2 DEF TypeOK
<1>3. HoldsFit'
  <2>1. stack(s) = <<gameMutex, playerMutex(s), lineMutex(s)>>
    BY DEF stack
  <2>2. pc'[s] \in {"reply", "done"}
    BY DEF TypeOK
  <2>3. stack(s)' = <<gameMutex>>
    BY <2>2 DEF stack
  <2>4. SubSeq(<<gameMutex, playerMutex(s), lineMutex(s)>>, 1, Len(<<gameMutex, playerMutex(s), lineMutex(s)>>) - 2) = <<gameMutex>>
    BY Popped, Zenon
  <2>5. holds'[s] = stack(s)'
    BY <1>1, <2>1, <2>3, <2>4, Zenon
  <2>. QED
    BY <1>1, <2>5, HoldsFitLocally, ThreadsDiffer DEF TypeOK
<1>4. OneHolder'
  BY PostKeepsOneHolder, ThreadsDiffer
<1>5. CountMatches'
  BY CountStays DEF TypeOK, Registered, Replying, Saying
<1>6. SlotsFit'
  BY DEF TypeOK, SlotsFit
<1>7. JobsFit'
  <2>1. ASSUME NEW t \in Slots, t # s
        PROVE  UNCHANGED <<pc[t], left[t], text[t], rest[t], to[t]>>
    BY <2>1 DEF TypeOK
  <2>2. (pc'[s] = "reply" /\ left'[s] > 0) \/ pc'[s] = "done"
    BY DEF TypeOK
  <2>. QED
    BY <2>1, <2>2 DEF TypeOK, JobsFit, Replying, Saying, inBroadcast
<1>. QED
  BY <1>2, <1>3, <1>4, <1>5, <1>6, <1>7

LEMMA BeginSayKeeps ==
  ASSUME IInv, NEW s \in Slots, BeginSay(s)
  PROVE  IInv'
<1> USE ServerAssumption DEF IInv, BeginSay, Goto, server, room, peer, job
<1>0. PICK l \in wants(s) : Wait(s, l)
  BY DEF Take
<1>1. /\ \A t \in Threads \ {s} : holds'[t] = holds[t]
      /\ holds'[s] = Append(stack(s), l)
      /\ holds' \in [Threads -> Seq(Locks)]
  BY <1>0, WantsAreLocks, TakePushes
<1>2. TypeOK'
  <2>1. pc' \in [Slots -> Labels]
    BY DEF TypeOK, Labels, Registered, Replying, Saying
  <2>. QED
    BY <1>1, <2>1 DEF TypeOK
<1>3. HoldsFit'
  <2>1. CASE pc[s] = "say"
    <3>1. wants(s) = {playerMutex(s)} /\ stack(s) = <<gameMutex>>
      BY <2>1 DEF wants, stack
    <3>2. pc'[s] = "say locked"
      BY <2>1 DEF TypeOK
    <3>3. stack(s)' = <<gameMutex, playerMutex(s)>>
      BY <3>2 DEF stack
    <3>4. l = playerMutex(s)
      BY <1>0, <3>1
    <3>5. Append(<<gameMutex>>, playerMutex(s)) = <<gameMutex, playerMutex(s)>>
      BY Pushed, Zenon
    <3>6. holds'[s] = stack(s)'
      BY <1>1, <3>1, <3>3, <3>4, <3>5, Zenon
    <3>. QED
      BY <1>1, <3>6, HoldsFitLocally, ThreadsDiffer DEF TypeOK
  <2>2. CASE pc[s] = "say locked"
    <3>1. wants(s) = {clientMutex} /\ stack(s) = <<gameMutex, playerMutex(s)>>
      BY <2>2 DEF wants, stack
    <3>2. pc'[s] = "saying"
      BY <2>2 DEF TypeOK
    <3>3. stack(s)' = <<gameMutex, playerMutex(s), clientMutex>>
      BY <3>2 DEF stack
    <3>4. l = clientMutex
      BY <1>0, <3>1
    <3>5. Append(<<gameMutex, playerMutex(s)>>, clientMutex) = <<gameMutex, playerMutex(s), clientMutex>>
      BY Pushed, Zenon
    <3>6. holds'[s] = stack(s)'
      BY <1>1, <3>1, <3>3, <3>4, <3>5, Zenon
    <3>. QED
      BY <1>1, <3>6, HoldsFitLocally, ThreadsDiffer DEF TypeOK
  <2>. QED
    BY <2>1, <2>2
<1>4. OneHolder'
  BY <1>0, WaitKeepsOneHolder, ThreadsDiffer
<1>5. CountMatches'
  BY CountStays DEF TypeOK, Registered, Replying, Saying
<1>6. SlotsFit'
  BY DEF TypeOK, SlotsFit
<1>7. JobsFit'
  <2>1. ASSUME NEW t \in Slots, t # s
        PROVE  UNCHANGED <<pc[t], left[t], text[t], rest[t], to[t]>>
    BY <2>1 DEF TypeOK
  <2>2. /\ text'[s] \in Texts
        /\ \/ pc'[s] = "say locked"
           \/ pc'[s] = "saying" /\ rest'[s] \subseteq map
    BY DEF TypeOK, JobsFit, Saying
  <2>. QED
    BY <2>1, <2>2 DEF TypeOK, JobsFit, Replying, Saying, inBroadcast
<1>. QED
  BY <1>2, <1>3, <1>4, <1>5, <1>6, <1>7

LEMMA SaidKeeps ==
  ASSUME IInv, NEW s \in Slots, Said(s)
  PROVE  IInv'
<1> USE ServerAssumption DEF IInv, Said, Goto, server, room, peer, job
<1>1. /\ \A t \in Threads \ {s} : holds'[t] = holds[t]
      /\ holds'[s] = SubSeq(stack(s), 1, Len(stack(s)) - 1)
      /\ holds' \in [Threads -> Seq(Locks)]
  BY PostPops
<1>2. TypeOK'
  <2>1. pc' \in [Slots -> Labels]
    BY DEF TypeOK, Labels, Registered, Replying, Saying
  <2>. QED
    BY <1>1, <2>1 DEF TypeOK
<1>3. HoldsFit'
  <2>1. stack(s) = <<gameMutex, playerMutex(s), clientMutex, lineMutex(to[s])>>
    BY DEF stack
  <2>2. pc'[s] \in {"saying"}
    BY DEF TypeOK
  <2>3. stack(s)' = <<gameMutex, playerMutex(s), clientMutex>>
    BY <2>2 DEF stack
  <2>4. SubSeq(<<gameMutex, playerMutex(s), clientMutex, lineMutex(to[s])>>, 1, Len(<<gameMutex, playerMutex(s), clientMutex, lineMutex(to[s])>>) - 1) = <<gameMutex, playerMutex(s), clientMutex>>
    BY Popped, Zenon
  <2>5. holds'[s] = stack(s)'
    BY <1>1, <2>1, <2>3, <2>4, Zenon
  <2>. QED
    BY <1>1, <2>5, HoldsFitLocally, ThreadsDiffer DEF TypeOK
<1>4. OneHolder'
  BY PostKeepsOneHolder, ThreadsDiffer
<1>5. CountMatches'
  BY CountStays DEF TypeOK, Registered, Replying, Saying
<1>6. SlotsFit'
  <2>1. pc[to[s]] \notin {"off", "add"}
    BY DEF JobsFit, CountMatches, Registered, Replying, Saying
  <2>. QED
    BY <2>1 DEF TypeOK, SlotsFit
<1>7. JobsFit'
  BY DEF TypeOK, JobsFit, Replying, Saying, inBroadcast
<1>. QED
  BY <1>2, <1>3, <1>4, <1>5, <1>6, <1>7

LEMMA EndSayKeeps ==
  ASSUME IInv, NEW s \in Slots, EndSay(s)
  PROVE  IInv'
<1> USE ServerAssumption DEF IInv, EndSay, Goto, server, room, peer, job
<1>1. /\ \A t \in Threads \ {s} : holds'[t] = holds[t]
      /\ holds'[s] = SubSeq(stack(s), 1, Len(stack(s)) - 2)
      /\ holds' \in [Threads -> Seq(Locks)]
  BY PostPops
<1>2. TypeOK'
  <2>1. pc' \in [Slots -> Labels]
    BY DEF TypeOK, Labels, Registered, Replying, Saying
  <2>. QED
    BY <1>1, <2>1 DEF TypeOK
<1>3. HoldsFit'
  <2>1. stack(s) = <<gameMutex, playerMutex(s), clientMutex>>
    BY DEF stack
  <2>2. pc'[s] \in {"done"}
    BY DEF TypeOK
  <2>3. stack(s)' = <<gameMutex>>
    BY <2>2 DEF stack
  <2>4. SubSeq(<<gameMutex, playerMutex(s), clientMutex>>, 1, Len(<<gameMutex, playerMutex(s), clientMutex>>) - 2) = <<gameMutex>>
    BY Popped, Zenon
  <2>5. holds'[s] = stack(s)'
    BY <1>1, <2>1, <2>3, <2>4, Zenon
  <2>. QED
    BY <1>1, <2>5, HoldsFitLocally, ThreadsDiffer DEF TypeOK
<1>4. OneHolder'
  BY PostKeepsOneHolder, ThreadsDiffer
<1>5. CountMatches'
  BY CountStays DEF TypeOK, Registered, Replying, Saying
<1>6. SlotsFit'
  BY DEF TypeOK, SlotsFit
<1>7. JobsFit'
  BY DEF TypeOK, JobsFit, Replying, Saying, inBroadcast
<1>. QED
  BY <1>2, <1>3, <1>4, <1>5, <1>6, <1>7

LEMMA EndCommandKeeps ==
  ASSUME IInv, NEW s \in Slots, EndCommand(s)
  PROVE  IInv'
<1> USE ServerAssumption DEF IInv, EndCommand, Goto, server, room, peer, job
<1>1. /\ \A t \in Threads \ {s} : holds'[t] = holds[t]
      /\ holds'[s] = SubSeq(stack(s), 1, Len(stack(s)) - 1)
      /\ holds' \in [Threads -> Seq(Locks)]
  BY PostPops
<1>2. TypeOK'
  <2>1. pc' \in [Slots -> Labels]
    BY DEF TypeOK, Labels, Registered, Replying, Saying
  <2>. QED
    BY <1>1, <2>1 DEF TypeOK
<1>3. HoldsFit'
  <2>1. stack(s) = <<gameMutex>>
    BY DEF stack
  <2>2. pc'[s] \in {"receive"}
    BY DEF TypeOK
  <2>3. stack(s)' = <<>>
    BY <2>2 DEF stack
  <2>4. SubSeq(<<gameMutex>>, 1, Len(<<gameMutex>>) - 1) = <<>>
    BY Popped, Zenon
  <2>5. holds'[s] = stack(s)'
    BY <1>1, <2>1, <2>3, <2>4, Zenon
  <2>. QED
    BY <1>1, <2>5, HoldsFitLocally, ThreadsDiffer DEF TypeOK
<1>4. OneHolder'
  BY PostKeepsOneHolder, ThreadsDiffer
<1>5. CountMatches'
  BY CountStays DEF TypeOK, Registered, Replying, Saying
<1>6. SlotsFit'
  BY DEF TypeOK, SlotsFit
<1>7. JobsFit'
  BY DEF TypeOK, JobsFit, Replying, Saying, inBroadcast
<1>. QED
  BY <1>2, <1>3, <1>4, <1>5, <1>6, <1>7

LEMMA SayToKeeps ==
  ASSUME IInv, NEW s \in Slots, SayTo(s)
  PROVE  IInv'
<1>0. PICK t \in rest[s] : /\ Wait(s, lineMutex(t))
                           /\ to' = [to EXCEPT ![s] = t]
                           /\ rest' = [rest EXCEPT ![s] = @ \ {t}]
  BY DEF SayTo
<1>1. pc[s] = "saying" /\ pc' = [pc EXCEPT ![s] = "say to"]
  BY DEF SayTo, Goto
<1>2. UNCHANGED <<clients, active, acceptor, map, client_ct, embodied, left, text, heard, stalled>>
  BY DEF SayTo, server, room, peer
<1>3. TypeOK /\ HoldsFit /\ OneHolder /\ CountMatches /\ SlotsFit /\ JobsFit
  BY DEF IInv
<1>4. t \in Slots /\ t \in map /\ lineMutex(t) \in Locks
  BY <1>1, <1>3, LocksTyped DEF TypeOK, JobsFit, inBroadcast
<1>5. /\ \A u \in Threads \ {s} : holds'[u] = holds[u]
      /\ holds'[s] = Append(stack(s), lineMutex(t))
      /\ holds' \in [Threads -> Seq(Locks)]
  BY <1>0, <1>3, <1>4, TakePushes
<1>6. pc'[s] = "say to" /\ to'[s] = t
  BY <1>0, <1>1, <1>3 DEF TypeOK
<1>7. TypeOK'
  <2>1. pc' \in [Slots -> Labels]
    BY <1>1, <1>3 DEF TypeOK, Labels, Registered, Saying
  <2>2. to' \in [Slots -> Slots] /\ rest' \in [Slots -> SUBSET Slots]
    BY <1>0, <1>3, <1>4 DEF TypeOK
  <2>. QED
    BY <1>2, <1>3, <1>5, <2>1, <2>2 DEF TypeOK
<1>8. HoldsFit'
  <2>1. stack(s) = <<gameMutex, playerMutex(s), clientMutex>>
    BY <1>1 DEF stack
  <2>2. stack(s)' = <<gameMutex, playerMutex(s), clientMutex, lineMutex(t)>>
    BY <1>6 DEF stack
  <2>3. Append(<<gameMutex, playerMutex(s), clientMutex>>, lineMutex(t))
          = <<gameMutex, playerMutex(s), clientMutex, lineMutex(t)>>
    BY Pushed, Zenon
  <2>4. holds'[s] = stack(s)'
    BY <1>5, <2>1, <2>2, <2>3, Zenon
  <2>. QED
    BY <1>0, <1>1, <1>3, <1>5, <2>4, HoldsFitLocally, ThreadsDiffer DEF TypeOK
<1>9. OneHolder'
  BY <1>0, <1>3, WaitKeepsOneHolder, ThreadsDiffer
<1>10. CountMatches'
  <2>1. \A u \in Slots : pc'[u] \in Registered <=> pc[u] \in Registered
    BY <1>1, <1>3 DEF TypeOK, Registered, Saying
  <2>. QED
    BY <1>2, <1>3, <2>1, CountStays DEF room
<1>11. SlotsFit'
  BY <1>1, <1>2, <1>3 DEF TypeOK, SlotsFit
<1>12. JobsFit'
  <2>1. ASSUME NEW u \in Slots, u # s
        PROVE  UNCHANGED <<pc[u], left[u], text[u], rest[u], to[u]>>
    BY <1>0, <1>1, <1>2, <1>3, <2>1 DEF TypeOK
  <2>2. /\ rest'[s] = rest[s] \ {t} /\ rest[s] \subseteq map
        /\ text'[s] \in Texts
    BY <1>0, <1>1, <1>2, <1>3 DEF TypeOK, JobsFit, inBroadcast, Saying
  <2>. QED
    BY <1>2, <1>3, <1>4, <1>6, <2>1, <2>2 DEF TypeOK, JobsFit, Replying, Saying, inBroadcast
<1>. QED
  BY <1>7, <1>8, <1>9, <1>10, <1>11, <1>12 DEF IInv

(* The locks of the two threads that are not a slot's. *)
LEMMA LeaverTakes ==
  ASSUME TypeOK, HoldsFit, Wait(leaver, clientMutex)
  PROVE  /\ \A t \in Threads \ {leaver} : holds'[t] = holds[t]
         /\ holds'[leaver] = <<clientMutex>>
         /\ holds' \in [Threads -> Seq(Locks)]
<1>1. ToSet(<<clientMutex>>) = {clientMutex}
  BY SetOfStack
<1>2. clientMutex \notin ToSet(holds[leaver])
  BY ThreadsDiffer DEF Wait, free
<1>3. holds[leaver] = <<>>
  BY <1>1, <1>2 DEF HoldsFit
<1>4. Append(holds[leaver], clientMutex) = <<clientMutex>>
  BY <1>3, Pushed, Zenon
<1>5. <<clientMutex>> \in Seq(Locks)
  BY LocksTyped
<1>. QED
  BY <1>4, <1>5, ThreadsDiffer DEF TypeOK, Wait

LEMMA LeaverPosts ==
  ASSUME TypeOK, HoldsFit, holds[leaver] # <<>>, Post(leaver, 1)
  PROVE  /\ \A t \in Threads \ {leaver} : holds'[t] = holds[t]
         /\ holds'[leaver] = <<>>
         /\ holds' \in [Threads -> Seq(Locks)]
<1>1. holds[leaver] = <<clientMutex>>
  BY DEF HoldsFit
<1>2. SubSeq(<<clientMutex>>, 1, Len(<<clientMutex>>) - 1) = <<>>
  BY Popped, Zenon
<1>3. SubSeq(holds[leaver], 1, Len(holds[leaver]) - 1) = <<>>
  BY <1>1, <1>2, Zenon
<1>. QED
  BY <1>3, ThreadsDiffer DEF TypeOK, Post

LEMMA GameThreadTurns ==
  ASSUME TypeOK, HoldsFit, Turn
  PROVE  /\ \A t \in Threads \ {gameThread} : holds'[t] = holds[t]
         /\ holds'[gameThread] \in {<<>>, <<gameMutex>>}
         /\ holds' \in [Threads -> Seq(Locks)]
<1>1. CASE holds[gameThread] = <<>>
  <2>1. Append(holds[gameThread], gameMutex) = <<gameMutex>>
    BY <1>1, Pushed, Zenon
  <2>2. <<gameMutex>> \in Seq(Locks)
    BY LocksTyped
  <2>3. holds' = [holds EXCEPT ![gameThread] = <<gameMutex>>]
    BY <1>1, <2>1 DEF Turn, Wait
  <2>. QED
    BY <2>2, <2>3, ThreadsDiffer DEF TypeOK
<1>2. CASE holds[gameThread] # <<>>
  <2>1. holds[gameThread] = <<gameMutex>>
    BY <1>2 DEF HoldsFit
  <2>2. SubSeq(<<gameMutex>>, 1, Len(<<gameMutex>>) - 1) = <<>>
    BY Popped, Zenon
  <2>3. SubSeq(holds[gameThread], 1, Len(holds[gameThread]) - 1) = <<>>
    BY <2>1, <2>2, Zenon
  <2>4. holds' = [holds EXCEPT ![gameThread] = <<>>]
    BY <1>2, <2>3 DEF Turn, Post
  <2>5. <<>> \in Seq(Locks)
    OBVIOUS
  <2>. QED
    BY <2>4, <2>5, ThreadsDiffer DEF TypeOK
<1>. QED
  BY <1>1, <1>2

LEMMA DeactivateKeeps ==
  ASSUME IInv, NEW s \in Slots, Deactivate(s)
  PROVE  IInv'
<1> USE ServerAssumption DEF IInv, Deactivate, Goto, server, room, peer, job
<1>1. /\ \A t \in Threads \ {leaver} : holds'[t] = holds[t]
      /\ holds'[leaver] = <<clientMutex>>
      /\ holds' \in [Threads -> Seq(Locks)]
  BY LeaverTakes
<1>2. TypeOK'
  <2>1. pc' \in [Slots -> Labels]
    BY DEF TypeOK, Labels, Registered, Replying, Saying
  <2>. QED
    BY <1>1, <2>1 DEF TypeOK
<1>3. HoldsFit'
  <2>1. ASSUME NEW t \in Slots PROVE holds'[t] = stack(t)'
    BY <1>1, ThreadsDiffer DEF TypeOK, HoldsFit, stack
  <2>. QED
    BY <1>1, <2>1, ThreadsDiffer DEF HoldsFit
<1>4. OneHolder'
  BY WaitKeepsOneHolder, ThreadsDiffer
<1>5. CountMatches'
  BY CountStays DEF TypeOK, Registered, Replying, Saying
<1>6. SlotsFit'
  BY DEF TypeOK, SlotsFit
<1>7. JobsFit'
  BY DEF TypeOK, JobsFit, Replying, Saying, inBroadcast
<1>. QED
  BY <1>2, <1>3, <1>4, <1>5, <1>6, <1>7

LEMMA LeaveAndTurnKeep ==
  ASSUME IInv, Leave \/ Turn
  PROVE  IInv'
<1> USE ServerAssumption DEF IInv, Leave, Turn, server, room, peer, job
<1>1. /\ \A t \in Slots : holds'[t] = holds[t]
      /\ holds'[gameThread] \in {<<>>, <<gameMutex>>}
      /\ holds'[leaver] \in {<<>>, <<clientMutex>>}
      /\ holds' \in [Threads -> Seq(Locks)]
  <2>1. CASE Leave
    BY <2>1, LeaverPosts, ThreadsDiffer DEF HoldsFit
  <2>2. CASE Turn
    BY <2>2, GameThreadTurns, ThreadsDiffer DEF HoldsFit
  <2>. QED
    BY <2>1, <2>2
<1>2. OneHolder'
  BY WaitKeepsOneHolder, PostKeepsOneHolder, ThreadsDiffer
<1>3. UNCHANGED <<server, room, pc, job, peer>>
  OBVIOUS
<1>4. TypeOK' /\ CountMatches' /\ SlotsFit' /\ JobsFit'
  BY <1>1, <1>3 DEF TypeOK, CountMatches, SlotsFit, JobsFit, inBroadcast
<1>5. HoldsFit'
  BY <1>1, <1>3 DEF HoldsFit, stack
<1>. QED
  BY <1>2, <1>4, <1>5

LEMMA StartHolds == ASSUME Init PROVE IInv
<1> USE ServerAssumption DEF Init
<1>1. TypeOK
  <2>1. 0 \in Slots /\ 0 \in 0 .. (Greeting + Replies) /\ "off" \in Labels
    BY DEF Slots, Labels
  <2>2. <<>> \in Seq(Locks)
    OBVIOUS
  <2>3. /\ acceptor \in [step : {"scan", "activate", "accept"}, at : Slots]
        /\ pc \in [Slots -> Labels]
        /\ holds \in [Threads -> Seq(Locks)]
        /\ left \in [Slots -> 0 .. (Greeting + Replies)]
        /\ to \in [Slots -> Slots]
    BY <2>1, <2>2
  <2>. QED
    BY <2>3 DEF TypeOK
<1>2. HoldsFit
  BY ThreadsDiffer DEF HoldsFit, stack
<1>3. OneHolder
  BY SetOfStack DEF OneHolder
<1>4. CountMatches
  BY FS_EmptySet DEF CountMatches, Registered, Replying, Saying
<1>5. SlotsFit /\ JobsFit
  BY DEF SlotsFit, JobsFit, Replying, Saying, inBroadcast
<1>. QED
  BY <1>1, <1>2, <1>3, <1>4, <1>5 DEF IInv

---------------------------------------------------------------------------

(* The invariant: where a thread is tells the locks it holds, no two hold  *)
(* the same, and what it still has to send is there.                       *)
THEOREM InvariantsHold == Spec => []IInv
<1>1. Init => IInv
  BY StartHolds
<1>2. IInv /\ [Next]_vars => IInv'
  <2> SUFFICES ASSUME IInv, [Next]_vars PROVE IInv'
    OBVIOUS
  <2>1. CASE Acceptor
    BY <2>1, ScanKeeps, ActivateKeeps, AcceptKeeps DEF Acceptor
  <2>2. CASE Leave \/ Turn
    BY <2>2, LeaveAndTurnKeep
  <2>3. ASSUME NEW s \in Slots, Command(s) PROVE IInv'
    BY <2>3, BeginCommandKeeps, ReplyKeeps, RepliedKeeps, BeginSayKeeps, SayToKeeps, SaidKeeps,
       EndSayKeeps, EndCommandKeeps DEF Command
  <2>4. ASSUME NEW s \in Slots, Work(s) \/ Peer(s) PROVE IInv'
    BY <2>3, <2>4, AddClientKeeps, GreetKeeps, GreetedKeeps, SetReplierKeeps, ShutdownKeeps,
       RemoveClientKeeps, DeactivateKeeps, ReceiveKeeps, StallKeeps, DrainKeeps DEF Work, Peer
  <2>5. CASE UNCHANGED vars
    BY <2>5 DEF IInv, TypeOK, HoldsFit, stack, OneHolder, CountMatches, SlotsFit, JobsFit,
       inBroadcast, vars, server, room, job, peer
  <2>. QED
    BY <2>1, <2>2, <2>4, <2>5 DEF Next
<1>. QED
  BY <1>1, <1>2, PTL DEF Spec

(* No count or pointer of the server leaves its range: in particular       *)
(* client_ct never falls below zero.                                       *)
THEOREM TypeCorrect == Spec => []TypeOK
BY InvariantsHold, PTL DEF IInv

---------------------------------------------------------------------------

ascending(q) == \A i, j \in DOMAIN q : i < j => rank(q[i]) < rank(q[j])

LEMMA StacksAscend ==
  /\ ascending(<<>>) /\ ascending(<<gameMutex>>) /\ ascending(<<clientMutex>>)
  /\ \A s : ascending(<<lineMutex(s)>>)
  /\ \A s : ascending(<<gameMutex, playerMutex(s)>>)
  /\ \A s : ascending(<<gameMutex, playerMutex(s), lineMutex(s)>>)
  /\ \A s : ascending(<<gameMutex, playerMutex(s), clientMutex>>)
  /\ \A s, t : ascending(<<gameMutex, playerMutex(s), clientMutex, lineMutex(t)>>)
BY Ranks DEF ascending

(* A thread that waits, and the ranks of what it holds. *)
LEMMA WantsAscend ==
  ASSUME HoldsFit, NEW s \in Slots, NEW l \in ToSet(holds[s]), NEW m \in wants(s)
  PROVE  rank(l) < rank(m)
<1>0. holds[s] = stack(s)
  BY DEF HoldsFit
<1>1. CASE pc[s] \in {"reply", "say", "done"}
  <2>1. stack(s) = <<gameMutex>> /\ (m = playerMutex(s) \/ wants(s) = {})
    BY <1>1 DEF stack, wants
  <2>2. ToSet(<<gameMutex>>) = {gameMutex}
    BY SetOfStack, Zenon
  <2>. QED
    BY <1>0, <2>1, <2>2, Ranks
<1>2. CASE pc[s] \in {"reply locked", "say locked"}
  <2>1. stack(s) = <<gameMutex, playerMutex(s)>> /\ m \in {clientMutex, lineMutex(s)}
    BY <1>2 DEF stack, wants
  <2>2. ToSet(<<gameMutex, playerMutex(s)>>) = {gameMutex, playerMutex(s)}
    BY SetOfStack, Zenon
  <2>. QED
    BY <1>0, <2>1, <2>2, Ranks
<1>3. CASE pc[s] = "saying"
  <2>1. l \in {gameMutex, playerMutex(s), clientMutex} /\ \E t \in rest[s] : m = lineMutex(t)
    BY <1>0, <1>3, SetOfStack DEF stack, wants
  <2>. QED
    BY <2>1, Ranks
<1>4. CASE pc[s] \in {"greeting", "replying", "say to"}
  BY <1>4 DEF wants
<1>5. CASE pc[s] \notin {"reply", "say", "done", "reply locked", "say locked", "saying",
                       "greeting", "replying", "say to"}
  <2>1. holds[s] = <<>>
    BY <1>0, <1>5 DEF stack
  <2>. QED
    BY <2>1, SetOfStack
<1>. QED
  BY <1>1, <1>2, <1>3, <1>4, <1>5

LEMMA LocksAscendNow == ASSUME HoldsFit, OneHolder PROVE LocksAscend
<1>1. ASSUME NEW t \in Threads PROVE ascending(holds[t])
  <2>1. CASE t \in Slots
    <3>1. ascending(stack(t))
      BY StacksAscend DEF stack
    <3>. QED
      BY <2>1, <3>1 DEF HoldsFit
  <2>2. CASE t \notin Slots
    <3>1. t \in {gameThread, leaver}
      BY <2>2, ServerAssumption DEF Threads, Slots, gameThread, leaver
    <3>. QED
      BY <3>1, StacksAscend DEF HoldsFit
  <2>. QED
    BY <2>1, <2>2
<1>. QED
  BY <1>1, WantsAscend DEF LocksAscend, OneHolder, ascending

(* Player::apply, Player::send, Player::broadcast, ClientManager::broadcast *)
(* and ClientThread::send nest their locks in one order, and no two threads *)
(* ever hold the same.                                                     *)
THEOREM LocksAreOrdered == Spec => []LocksAscend
BY InvariantsHold, LocksAscendNow, PTL DEF IInv

LEMMA LockRanked == ASSUME NEW l \in Locks PROVE rank(l) \in 1 .. 4
BY Ranks DEF Locks

LEMMA HoldsLocks ==
  ASSUME TypeOK, NEW t \in Threads, NEW l \in ToSet(holds[t])
  PROVE  rank(l) \in 1 .. 4
<1>1. l \in Locks
  BY DEF TypeOK, ToSet
<1>. QED
  BY <1>1, LockRanked

(* Were everyone in T waiting for one of T, there would be in T a holder   *)
(* of a lock of each rank, and of one more.                                *)
LEMMA NoCircle == ASSUME TypeOK, LocksAscend PROVE NoCircularWait
<1> SUFFICES ASSUME NEW T \in (SUBSET Threads) \ {{}},
                    \A t \in T : \E u \in T : waitsFor(t, u)
             PROVE  FALSE
  BY DEF NoCircularWait
<1> DEFINE above(k) == \E t \in T : \E l \in ToSet(holds[t]) : rank(l) > k
<1>1. \A t \in T : \A l \in ToSet(holds[t]) : rank(l) \in 1 .. 4
  BY HoldsLocks
<1>2. ASSUME NEW t \in T
      PROVE  \E u \in T : \E m \in ToSet(holds[u]) :
               \A l \in ToSet(holds[t]) : rank(l) < rank(m)
  <2>1. PICK u \in T : waitsFor(t, u)
    OBVIOUS
  <2>2. t \in Slots /\ \E m \in ToSet(holds[u]) : m \in wants(t)
    BY <2>1 DEF waitsFor
  <2>. QED
    BY <2>2 DEF LocksAscend
<1>3. above(0)
  <2>1. PICK t \in T : TRUE
    OBVIOUS
  <2>2. PICK u \in T : \E m \in ToSet(holds[u]) : TRUE
    BY <1>2, <2>1
  <2>3. PICK m \in ToSet(holds[u]) : TRUE
    BY <2>2
  <2>4. rank(m) > 0
    BY <1>1, <2>3
  <2>. QED
    BY <2>4
<1>4. ASSUME NEW k \in Nat, above(k) PROVE above(k + 1)
  <2>1. PICK t \in T : \E l \in ToSet(holds[t]) : rank(l) > k
    BY <1>4
  <2>2. PICK l \in ToSet(holds[t]) : rank(l) > k
    BY <2>1
  <2>3. PICK u \in T : \E m \in ToSet(holds[u]) : rank(l) < rank(m)
    BY <1>2
  <2>4. PICK m \in ToSet(holds[u]) : rank(l) < rank(m)
    BY <2>3
  <2>5. rank(l) \in 1 .. 4 /\ rank(m) \in 1 .. 4
    BY <1>1
  <2>6. rank(m) > k + 1
    BY <2>2, <2>4, <2>5
  <2>. QED
    BY <2>6
<1>5. above(4)
  <2>. HIDE DEF above
  <2>1. above(1) /\ above(2) /\ above(3)
    BY <1>3, <1>4
  <2>. QED
    BY <2>1, <1>4
<1>. QED
  BY <1>1, <1>5

(* No thread of the game server waits for itself or for one that waits for *)
(* it, through any number of others.                                       *)
THEOREM NobodyWaitsInACircle == Spec => []NoCircularWait
BY InvariantsHold, LocksAscendNow, NoCircle, PTL DEF IInv

LEMMA AnswersWholeNow == ASSUME TypeOK, HoldsFit, OneHolder PROVE AnswersAreWhole
<1> SUFFICES ASSUME NEW s \in Slots, pc[s] = "say to", pc[to[s]] \in Replying
             PROVE  FALSE
  BY DEF AnswersAreWhole
<1>1. to[s] \in Slots /\ to[s] # s
  BY DEF TypeOK, Replying
<1>2. gameMutex \in ToSet(holds[s])
  <2>1. holds[s] = <<gameMutex, playerMutex(s), clientMutex, lineMutex(to[s])>>
    BY DEF HoldsFit, stack
  <2>2. gameMutex \in ToSet(<<gameMutex, playerMutex(s), clientMutex, lineMutex(to[s])>>)
    BY BottomOfStack, Zenon
  <2>. QED
    BY <2>1, <2>2, Zenon
<1>3. gameMutex \in ToSet(holds[to[s]])
  <2>1. \/ holds[to[s]] = <<gameMutex>>
        \/ holds[to[s]] = <<gameMutex, playerMutex(to[s])>>
        \/ holds[to[s]] = <<gameMutex, playerMutex(to[s]), lineMutex(to[s])>>
    BY <1>1 DEF HoldsFit, stack, Replying
  <2>2. /\ gameMutex \in ToSet(<<gameMutex>>)
        /\ gameMutex \in ToSet(<<gameMutex, playerMutex(to[s])>>)
        /\ gameMutex \in ToSet(<<gameMutex, playerMutex(to[s]), lineMutex(to[s])>>)
    BY BottomOfStack, Zenon
  <2>. QED
    BY <2>1, <2>2, Zenon
<1>. QED
  BY <1>1, <1>2, <1>3, ThreadsDiffer DEF OneHolder

(* Nothing said by others comes between the lines of an answer, because    *)
(* Player::apply keeps game_mutex from the first to the last of them.      *)
THEOREM AnswersStayWhole == Spec => []AnswersAreWhole
BY InvariantsHold, AnswersWholeNow, PTL DEF IInv

---------------------------------------------------------------------------

(* The refinement mapping, of the state before and after a step alike. *)
saidOf(p, tx) ==
  IF \E s \in Slots : p[s] \in {"saying", "say to"}
  THEN tx[CHOOSE s \in Slots : p[s] \in {"saying", "say to"}]
  ELSE NoText

waitingOf(p, r, o) ==
  UNION {IF p[s] = "say to" THEN r[s] \cup {o[s]} ELSE r[s] :
           s \in {t \in Slots : p[t] \in {"saying", "say to"}}}

LEMMA Mapped ==
  /\ said = saidOf(pc, text) /\ waiting = waitingOf(pc, rest, to)
  /\ said' = saidOf(pc', text') /\ waiting' = waitingOf(pc', rest', to')
BY DEF said, waiting, inBroadcast, saidOf, waitingOf

LEMMA NobodySays ==
  ASSUME NEW p, NEW tx, NEW r, NEW o, \A s \in Slots : p[s] \notin {"saying", "say to"}
  PROVE  saidOf(p, tx) = NoText /\ waitingOf(p, r, o) = {}
BY DEF saidOf, waitingOf

LEMMA SomebodySays ==
  ASSUME NEW p, NEW tx, NEW s \in Slots, p[s] \in {"saying", "say to"},
         \A t \in Slots : p[t] \in {"saying", "say to"} => t = s
  PROVE  saidOf(p, tx) = tx[s]
<1>1. (CHOOSE t \in Slots : p[t] \in {"saying", "say to"}) = s
  OBVIOUS
<1>. QED
  BY <1>1 DEF saidOf

(* The same of the state before and after a step. *)
LEMMA SpeakerSays ==
  ASSUME NEW s \in Slots, inBroadcast(s), \A t \in Slots : inBroadcast(t) => t = s
  PROVE  said = text[s] /\ waiting = IF pc[s] = "say to" THEN rest[s] \cup {to[s]} ELSE rest[s]
<1>1. pc[s] \in {"saying", "say to"} /\ \A t \in Slots : pc[t] \in {"saying", "say to"} => t = s
  BY DEF inBroadcast
<1>2. saidOf(pc, text) = text[s]
  BY <1>1, SomebodySays
<1>3. {t \in Slots : pc[t] \in {"saying", "say to"}} = {s}
  BY <1>1
<1>4. waitingOf(pc, rest, to)
        = UNION {IF pc[u] = "say to" THEN rest[u] \cup {to[u]} ELSE rest[u] : u \in {s}}
  BY <1>3, Zenon DEF waitingOf
<1>5. waitingOf(pc, rest, to) = IF pc[s] = "say to" THEN rest[s] \cup {to[s]} ELSE rest[s]
  BY <1>4
<1>. QED
  BY <1>2, <1>5, Mapped, Zenon

LEMMA SpeakerSaysNext ==
  ASSUME NEW s \in Slots, pc'[s] \in {"saying", "say to"},
         \A t \in Slots : pc'[t] \in {"saying", "say to"} => t = s
  PROVE  said' = text'[s] /\ waiting' = IF pc'[s] = "say to" THEN rest'[s] \cup {to'[s]} ELSE rest'[s]
<1>1. saidOf(pc', text') = text'[s]
  BY SomebodySays
<1>2. {t \in Slots : pc'[t] \in {"saying", "say to"}} = {s}
  OBVIOUS
<1>3. waitingOf(pc', rest', to')
        = UNION {IF pc'[u] = "say to" THEN rest'[u] \cup {to'[u]} ELSE rest'[u] : u \in {s}}
  BY <1>2, Zenon DEF waitingOf
<1>4. waitingOf(pc', rest', to') = IF pc'[s] = "say to" THEN rest'[s] \cup {to'[s]} ELSE rest'[s]
  BY <1>3
<1>. QED
  BY <1>1, <1>4, Mapped, Zenon

LEMMA OneSpeaker ==
  ASSUME HoldsFit, OneHolder, NEW s \in Slots, inBroadcast(s)
  PROVE  \A t \in Slots : pc[t] \in {"saying", "say to"} => t = s
BY SpeakerHolds, ThreadsDiffer DEF OneHolder, inBroadcast

(* A step that is none of the room's. *)
LEMMA RoomStutters ==
  ASSUME HoldsFit, OneHolder, map' = map, \A t \in map : heard'[t] = heard[t],
         \A t \in Slots : inBroadcast(t) <=> inBroadcast(t)',
         \A t \in Slots : inBroadcast(t) =>
           /\ text'[t] = text[t]
           /\ (IF pc'[t] = "say to" THEN rest'[t] \cup {to'[t]} ELSE rest'[t])
                = (IF pc[t] = "say to" THEN rest[t] \cup {to[t]} ELSE rest[t])
  PROVE  UNCHANGED Room!vars
<1>1. Heard' = Heard
  BY DEF Heard
<1>2. said' = said /\ waiting' = waiting
  <2>1. CASE \A t \in Slots : ~inBroadcast(t)
    <3>1. \A t \in Slots : pc[t] \notin {"saying", "say to"} /\ pc'[t] \notin {"saying", "say to"}
      BY <2>1 DEF inBroadcast
    <3>. QED
      BY <3>1, NobodySays, Mapped
  <2>2. ASSUME NEW s \in Slots, inBroadcast(s) PROVE said' = said /\ waiting' = waiting
    <3>1. /\ pc[s] \in {"saying", "say to"} /\ pc'[s] \in {"saying", "say to"}
          /\ \A t \in Slots : pc[t] \in {"saying", "say to"} => t = s
          /\ \A t \in Slots : pc'[t] \in {"saying", "say to"} => t = s
      BY <2>2, OneSpeaker DEF inBroadcast
    <3>2. /\ said = text[s] /\ said' = text'[s]
          /\ waiting = IF pc[s] = "say to" THEN rest[s] \cup {to[s]} ELSE rest[s]
          /\ waiting' = IF pc'[s] = "say to" THEN rest'[s] \cup {to'[s]} ELSE rest'[s]
      BY <2>2, <3>1, SpeakerSays, SpeakerSaysNext DEF inBroadcast
    <3>. QED
      BY <2>2, <3>2
  <2>. QED
    BY <2>1, <2>2
<1>. QED
  BY <1>1, <1>2 DEF Room!vars

LEMMA NobodyIsHeard ==
  ASSUME HoldsFit, free(clientMutex)
  PROVE  said = NoText /\ waiting = {} /\ \A t \in Slots : pc[t] \notin {"saying", "say to"}
<1>1. \A t \in Slots : pc[t] \notin {"saying", "say to"}
  BY NobodySpeaks DEF inBroadcast
<1>. QED
  BY <1>1, NobodySays, Mapped

LEMMA AddJoins ==
  ASSUME IInv, NEW s \in Slots, AddClient(s)
  PROVE  Room!Join(s)
<1>0. TypeOK /\ HoldsFit /\ CountMatches /\ SlotsFit
  BY DEF IInv
<1>1. /\ pc[s] = "add" /\ pc' = [pc EXCEPT ![s] = "greet"]
      /\ map' = map \cup {s} /\ heard' = heard
      /\ free(clientMutex)
  BY DEF AddClient, Goto, peer, Pass, wants
<1>2. said = NoText /\ waiting = {} /\ \A t \in Slots : pc[t] \notin {"saying", "say to"}
  BY <1>0, <1>1, NobodyIsHeard
<1>3. \A t \in Slots : pc'[t] \notin {"saying", "say to"}
  BY <1>0, <1>1, <1>2 DEF TypeOK
<1>4. said' = NoText /\ waiting' = {}
  BY <1>3, NobodySays, Mapped
<1>5. s \notin map /\ heard[s] = NoText
  BY <1>0, <1>1 DEF CountMatches, SlotsFit, Registered, Replying, Saying
<1>6. Heard' = Heard
  BY <1>1, <1>5 DEF Heard
<1>. QED
  BY <1>1, <1>2, <1>4, <1>5, <1>6 DEF Room!Join

LEMMA RemoveLeaves ==
  ASSUME IInv, NEW s \in Slots, RemoveClient(s)
  PROVE  Room!Leave(s)
<1>0. TypeOK /\ HoldsFit /\ CountMatches
  BY DEF IInv
<1>1. /\ pc[s] = "remove" /\ pc' = [pc EXCEPT ![s] = "deactivate"]
      /\ map' = map \ {s} /\ heard' = heard
      /\ free(clientMutex)
  BY DEF RemoveClient, Goto, peer, Pass, wants
<1>2. said = NoText /\ waiting = {} /\ \A t \in Slots : pc[t] \notin {"saying", "say to"}
  BY <1>0, <1>1, NobodyIsHeard
<1>3. \A t \in Slots : pc'[t] \notin {"saying", "say to"}
  BY <1>0, <1>1, <1>2 DEF TypeOK
<1>4. said' = NoText /\ waiting' = {}
  BY <1>3, NobodySays, Mapped
<1>5. s \in map
  BY <1>0, <1>1 DEF CountMatches, Registered
<1>6. Heard' = [Heard EXCEPT ![s] = NoText]
  BY <1>1, <1>5 DEF Heard
<1>. QED
  BY <1>1, <1>2, <1>4, <1>5, <1>6 DEF Room!Leave

LEMMA BeginSays ==
  ASSUME IInv, NEW s \in Slots, BeginSay(s), pc[s] = "say locked"
  PROVE  \E l \in Texts : Room!Say(s, l)
<1>0. TypeOK /\ HoldsFit /\ CountMatches /\ JobsFit
  BY DEF IInv
<1>1. /\ pc' = [pc EXCEPT ![s] = "saying"] /\ rest' = [rest EXCEPT ![s] = map]
      /\ UNCHANGED <<map, heard, text>>
      /\ Take(s)
  BY DEF BeginSay, Goto, room, peer
<1>2. free(clientMutex)
  BY <1>1 DEF Take, Wait, wants
<1>3. said = NoText /\ waiting = {} /\ \A t \in Slots : pc[t] \notin {"saying", "say to"}
  BY <1>0, <1>2, NobodyIsHeard
<1>4. pc'[s] = "saying" /\ \A t \in Slots : pc'[t] \in {"saying", "say to"} => t = s
  BY <1>0, <1>1, <1>3 DEF TypeOK
<1>5. said' = text[s] /\ waiting' = map
  <2>1. said' = text'[s] /\ waiting' = rest'[s]
    BY <1>4, SpeakerSaysNext
  <2>. QED
    BY <1>0, <1>1, <2>1 DEF TypeOK
<1>6. s \in map /\ text[s] \in Texts
  BY <1>0 DEF CountMatches, JobsFit, Registered, Saying
<1>7. Heard' = Heard
  BY <1>1 DEF Heard
<1>. QED
  BY <1>1, <1>3, <1>5, <1>6, <1>7 DEF Room!Say

LEMMA SaidHears ==
  ASSUME IInv, NEW s \in Slots, Said(s)
  PROVE  Room!Hear(to[s])
<1>0. TypeOK /\ HoldsFit /\ OneHolder /\ JobsFit
  BY DEF IInv
<1>1. /\ pc[s] = "say to" /\ pc' = [pc EXCEPT ![s] = "saying"]
      /\ heard' = [heard EXCEPT ![to[s]] = text[s]]
      /\ UNCHANGED <<map, text, rest>>
  BY DEF Said, Goto, room
<1>2. \A t \in Slots : pc[t] \in {"saying", "say to"} => t = s
  BY <1>0, <1>1, OneSpeaker DEF inBroadcast
<1>3. pc'[s] = "saying" /\ \A t \in Slots : pc'[t] \in {"saying", "say to"} => t = s
  BY <1>0, <1>1, <1>2 DEF TypeOK
<1>4. said = text[s] /\ waiting = rest[s] \cup {to[s]}
  BY <1>1, <1>2, SpeakerSays DEF inBroadcast
<1>5. said' = text'[s] /\ waiting' = rest'[s]
  BY <1>3, SpeakerSaysNext
<1>6. to[s] \in map /\ to[s] \notin rest[s] /\ to[s] \in Slots
  BY <1>0, <1>1 DEF JobsFit, TypeOK
<1>7. Heard' = [Heard EXCEPT ![to[s]] = said]
  BY <1>0, <1>1, <1>4, <1>6 DEF Heard, TypeOK
<1>. QED
  BY <1>1, <1>4, <1>5, <1>6, <1>7 DEF Room!Hear

LEMMA EndHushes ==
  ASSUME IInv, NEW s \in Slots, EndSay(s)
  PROVE  Room!Hush
<1>0. TypeOK /\ HoldsFit /\ OneHolder /\ JobsFit
  BY DEF IInv
<1>1. /\ pc[s] = "saying" /\ pc' = [pc EXCEPT ![s] = "done"]
      /\ rest[s] = {} /\ UNCHANGED <<map, heard>>
  BY DEF EndSay, Goto, room, peer
<1>2. \A t \in Slots : pc[t] \in {"saying", "say to"} => t = s
  BY <1>0, <1>1, OneSpeaker DEF inBroadcast
<1>3. \A t \in Slots : pc'[t] \notin {"saying", "say to"}
  BY <1>0, <1>1, <1>2 DEF TypeOK
<1>4. said = text[s] /\ waiting = rest[s]
  BY <1>1, <1>2, SpeakerSays DEF inBroadcast
<1>5. said' = NoText /\ waiting' = {}
  BY <1>3, NobodySays, Mapped
<1>6. text[s] \in Texts
  BY <1>0, <1>1 DEF JobsFit, Saying
<1>7. text[s] # NoText
  BY <1>6, ServerAssumption
<1>8. Heard' = Heard
  BY <1>1 DEF Heard
<1>. QED
  BY <1>1, <1>4, <1>5, <1>7, <1>8 DEF Room!Hush

LEMMA SayToStutters ==
  ASSUME IInv, NEW s \in Slots, SayTo(s)
  PROVE  UNCHANGED Room!vars
<1>0. TypeOK /\ HoldsFit /\ OneHolder
  BY DEF IInv
<1>1. PICK t \in rest[s] : /\ to' = [to EXCEPT ![s] = t]
                           /\ rest' = [rest EXCEPT ![s] = @ \ {t}]
  BY DEF SayTo
<1>2. /\ pc[s] = "saying" /\ pc' = [pc EXCEPT ![s] = "say to"]
      /\ UNCHANGED <<map, heard, text>>
  BY DEF SayTo, Goto, room, peer
<1>3. \A u \in Slots : inBroadcast(u) <=> inBroadcast(u)'
  BY <1>0, <1>2 DEF TypeOK, inBroadcast
<1>4. \A u \in Slots : inBroadcast(u) => u = s
  BY <1>0, <1>2, OneSpeaker DEF inBroadcast
<1>5. /\ pc'[s] = "say to" /\ to'[s] = t /\ rest'[s] = rest[s] \ {t}
  BY <1>0, <1>1, <1>2 DEF TypeOK
<1>6. rest'[s] \cup {to'[s]} = rest[s]
  BY <1>5
<1>. QED
  BY <1>0, <1>2, <1>3, <1>4, <1>5, <1>6, RoomStutters

LEMMA ScanStutters ==
  ASSUME IInv, Scan
  PROVE  UNCHANGED Room!vars
<1>0. TypeOK /\ HoldsFit /\ OneHolder /\ CountMatches /\ SlotsFit
  BY DEF IInv
<1>1. UNCHANGED <<map, pc, text, rest, to>>
  BY DEF Scan, room
<1>2. ASSUME NEW t \in map PROVE heard'[t] = heard[t]
  <2>1. t \in Slots /\ pc[t] # "off"
    BY <1>0 DEF CountMatches, Registered, Replying, Saying
  <2>2. clients[t] /\ active[t]
    BY <1>0, <2>1 DEF SlotsFit
  <2>3. heard' = heard \/ (acceptor.at # t /\ heard' = [heard EXCEPT ![acceptor.at] = NoText])
    <3>1. CASE acceptor.at = t
      <4>1. clients[acceptor.at] /\ active[acceptor.at]
        BY <2>2, <3>1, Zenon
      <4>2. heard' = heard
        BY <4>1, Zenon DEF Scan, peer
      <4>. QED
        BY <4>2
    <3>2. CASE acceptor.at # t
      <4>1. CASE clients[acceptor.at] /\ active[acceptor.at]
        BY <4>1 DEF Scan, peer
      <4>2. CASE ~(clients[acceptor.at] /\ active[acceptor.at])
        <5>1. heard' = [heard EXCEPT ![acceptor.at] = NoText]
          BY <4>2 DEF Scan
        <5>. QED
          BY <3>2, <5>1
      <4>. QED
        BY <4>1, <4>2
    <3>. QED
      BY <3>1, <3>2
  <2>. QED
    BY <1>0, <2>1, <2>3 DEF TypeOK
<1>3. \A t \in Slots : inBroadcast(t) <=> inBroadcast(t)'
  BY <1>1 DEF inBroadcast
<1>. QED
  BY <1>0, <1>1, <1>2, <1>3, RoomStutters

(* Everything else leaves the room and those who speak alone. *)
otherStep(s) ==
  \/ Activate \/ Accept \/ Leave \/ Turn
  \/ Greet(s) \/ Greeted(s) \/ SetReplier(s) \/ Receive(s) \/ BeginCommand(s)
  \/ Reply(s) \/ Replied(s) \/ EndCommand(s) \/ (BeginSay(s) /\ pc[s] = "say")
  \/ Shutdown(s) \/ Deactivate(s) \/ Stall(s) \/ Drain(s)

LEMMA OtherStepsStutter ==
  ASSUME IInv, NEW s \in Slots, otherStep(s)
  PROVE  UNCHANGED Room!vars
<1>0. TypeOK /\ HoldsFit /\ OneHolder /\ SlotsFit
  BY DEF IInv
<1>1. /\ UNCHANGED <<map, heard, rest, to>>
      /\ \/ UNCHANGED <<pc, text>>
         \/ \E u \in Slots, label \in Labels \ {"saying", "say to"} :
              /\ pc[u] \notin {"saying", "say to"}
              /\ pc' = [pc EXCEPT ![u] = label]
              /\ \A t \in Slots : t # u => text'[t] = text[t]
  <2>1. CASE Activate \/ Leave \/ Turn \/ Stall(s) \/ Drain(s)
    BY <2>1 DEF Activate, Leave, Turn, Stall, Drain, room, job, peer
  <2>2. CASE Accept
    BY <1>0, <2>2 DEF Accept, Goto, room, job, peer, TypeOK, Labels
  <2>3. CASE BeginCommand(s)
    <3>1. UNCHANGED <<map, heard, rest, to>> /\ pc[s] = "command" /\ Dispatch(s)
      BY <2>3 DEF BeginCommand, room, peer
    <3>2. PICK label \in {"say", "reply", "done"} : pc' = [pc EXCEPT ![s] = label]
      BY <3>1 DEF Dispatch
    <3>3. \A t \in Slots : t # s => text'[t] = text[t]
      BY <1>0, <3>1 DEF Dispatch, TypeOK
    <3>4. label \in Labels \ {"saying", "say to"}
      BY DEF Labels, Registered, Replying, Saying
    <3>. QED
      BY <3>1, <3>2, <3>3, <3>4
  <2>4. CASE \/ Greet(s) \/ SetReplier(s) \/ Receive(s) \/ EndCommand(s) \/ Deactivate(s)
             \/ Greeted(s) \/ Replied(s) \/ Shutdown(s) \/ Reply(s)
             \/ BeginSay(s) /\ pc[s] = "say"
    <3>1. UNCHANGED <<map, heard, rest, to, text>> /\ pc[s] \notin {"saying", "say to"}
      BY <2>4 DEF Greet, SetReplier, Receive, EndCommand, Deactivate, Greeted, Replied, Shutdown,
         Reply, BeginSay, Goto, room, job, peer
    <3>2. PICK label \in {"greeting", "greet", "set", "receive", "shutdown", "command", "unset", "off",
                          "done", "reply", "reply locked", "replying", "remove", "say locked"} :
            pc' = [pc EXCEPT ![s] = label]
      BY <2>4 DEF Greet, SetReplier, Receive, EndCommand, Deactivate, Greeted, Replied, Shutdown,
         Reply, BeginSay, Goto
    <3>3. label \in Labels \ {"saying", "say to"}
      BY DEF Labels, Registered, Replying, Saying
    <3>. QED
      BY <3>1, <3>2, <3>3
  <2>. QED
    BY <2>1, <2>2, <2>3, <2>4, Zenon DEF otherStep
<1>2. /\ \A t \in Slots : inBroadcast(t) <=> inBroadcast(t)'
      /\ \A t \in Slots : inBroadcast(t) => pc'[t] = pc[t] /\ text'[t] = text[t]
  <2>1. CASE UNCHANGED <<pc, text>>
    BY <2>1 DEF inBroadcast
  <2>2. ASSUME NEW u \in Slots, NEW label \in Labels \ {"saying", "say to"},
               pc[u] \notin {"saying", "say to"},
               pc' = [pc EXCEPT ![u] = label],
               \A t \in Slots : t # u => text'[t] = text[t]
        PROVE  /\ \A t \in Slots : inBroadcast(t) <=> inBroadcast(t)'
               /\ \A t \in Slots : inBroadcast(t) => pc'[t] = pc[t] /\ text'[t] = text[t]
    BY <1>0, <2>2 DEF inBroadcast, TypeOK
  <2>. QED
    BY <1>1, <2>1, <2>2
<1>. QED
  BY <1>0, <1>1, <1>2, RoomStutters

(* ClientManager::broadcast under client_mutex, which addClient and        *)
(* removeClient take too, is the abstract chat room's: what is said is     *)
(* said to all who are in the room, before anyone speaks, joins or leaves. *)
THEOREM ServerImplementsChatroom == Spec => ImplementsChatroom
<1>1. Init => Room!Init
  <2> SUFFICES ASSUME Init PROVE Room!Init
    OBVIOUS
  <2>1. \A s \in Slots : pc[s] \notin {"saying", "say to"}
    BY DEF Init
  <2>2. said = NoText /\ waiting = {}
    BY <2>1, NobodySays, Mapped
  <2>3. Heard = [s \in Slots |-> NoText]
    BY DEF Heard, Init
  <2>. QED
    BY <2>2, <2>3 DEF Init, Room!Init
<1>2. IInv /\ [Next]_vars => [Room!Next]_(Room!vars)
  <2> SUFFICES ASSUME IInv, [Next]_vars PROVE [Room!Next]_(Room!vars)
    OBVIOUS
  <2>0. PICK z \in Slots : TRUE
    BY ServerAssumption DEF Slots
  <2>1. CASE Acceptor \/ Leave \/ Turn
    BY <2>0, <2>1, ScanStutters, OtherStepsStutter DEF Acceptor, otherStep
  <2>2. ASSUME NEW s \in Slots, Command(s) PROVE [Room!Next]_(Room!vars)
    <3>1. CASE BeginSay(s)
      <4>1. pc[s] = "say" \/ pc[s] = "say locked"
        BY <3>1 DEF BeginSay, Goto
      <4>2. CASE pc[s] = "say"
        BY <3>1, <4>2, OtherStepsStutter DEF otherStep
      <4>3. CASE pc[s] = "say locked"
        BY <3>1, <4>3, BeginSays DEF Room!Next
      <4>. QED
        BY <4>1, <4>2, <4>3
    <3>2. CASE Said(s)
      <4>1. to[s] \in Slots
        BY DEF IInv, TypeOK
      <4>. QED
        BY <3>2, <4>1, SaidHears DEF Room!Next
    <3>3. CASE EndSay(s)
      BY <3>3, EndHushes DEF Room!Next
    <3>4. CASE SayTo(s)
      BY <3>4, SayToStutters
    <3>5. CASE BeginCommand(s) \/ Reply(s) \/ Replied(s) \/ EndCommand(s)
      <4>1. otherStep(s)
        BY <3>5, Zenon DEF otherStep
      <4>. QED
        BY <4>1, OtherStepsStutter
    <3>. QED
      BY <2>2, <3>1, <3>2, <3>3, <3>4, <3>5 DEF Command
  <2>3. ASSUME NEW s \in Slots, Work(s) \/ Peer(s) PROVE [Room!Next]_(Room!vars)
    <3>1. CASE AddClient(s)
      BY <3>1, AddJoins DEF Room!Next
    <3>2. CASE RemoveClient(s)
      BY <3>2, RemoveLeaves DEF Room!Next
    <3>3. CASE \/ Greet(s) \/ Greeted(s) \/ SetReplier(s) \/ Receive(s)
               \/ Shutdown(s) \/ Deactivate(s) \/ Stall(s) \/ Drain(s)
      <4>1. otherStep(s)
        BY <3>3, Zenon DEF otherStep
      <4>. QED
        BY <4>1, OtherStepsStutter
    <3>4. CASE Command(s)
      BY <2>2, <3>4
    <3>5. \/ AddClient(s) \/ RemoveClient(s) \/ Command(s)
          \/ Greet(s) \/ Greeted(s) \/ SetReplier(s) \/ Receive(s)
          \/ Shutdown(s) \/ Deactivate(s) \/ Stall(s) \/ Drain(s)
      BY <2>3, Zenon DEF Work, Peer
    <3>. QED
      BY <3>1, <3>2, <3>3, <3>4, <3>5, Zenon
  <2>4. CASE UNCHANGED vars
    BY <2>4 DEF vars, server, room, job, peer, Room!vars, said, waiting, Heard, inBroadcast
  <2>. QED
    BY <2>1, <2>2, <2>3, <2>4 DEF Next
<1>. QED
  BY <1>1, <1>2, InvariantsHold, PTL DEF Spec, ImplementsChatroom, Room!Spec

===========================================================================

------------------------- MODULE ChatServerProofs -------------------------
(***************************************************************************)
(* The locking and the bookkeeping of ChatServer for any number of slots,  *)
(* and that it implements Chatroom.                                        *)
(***************************************************************************)
EXTENDS ChatServer, FiniteSetTheorems, TLAPS

(* The map is a finite set, so that counting it makes sense.               *)
LEMMA MapIsFinite ==
  ASSUME map \subseteq Slots
  PROVE  IsFiniteSet(map)
<1>1. IsFiniteSet(Slots)
  BY ChatAssumption, FS_Interval DEF Slots
<1>. QED
  BY <1>1, FS_Subset

LEMMA StartHolds == Init => IInv
<1> SUFFICES ASSUME Init
             PROVE  IInv
  OBVIOUS
<1>1. 0 \in Slots
  BY ChatAssumption DEF Slots
<1>2. TypeOK
  <2>1. acceptor \in [step : {"scan", "activate", "accept"}, at : Slots]
    BY <1>1 DEF Init
  <2>2. hello \in [Slots -> 0 .. Greeting]
    BY ChatAssumption DEF Init
  <2>3. pc \in [Slots -> Labels]
    BY DEF Init, Labels
  <2>. QED
    BY <2>1, <2>2, <2>3 DEF Init, TypeOK
<1>3. NoDeletedClient /\ JobsFit
  BY DEF Init, NoDeletedClient, JobsFit, broadcasting
<1>4. CountMatches
  BY FS_EmptySet DEF Init, CountMatches, Registered
<1>5. OneHolder
  BY DEF Init, OneHolder, broadcasting
<1>. QED
  BY <1>2, <1>3, <1>4, <1>5 DEF IInv

LEMMA ScanKeeps ==
  ASSUME IInv, Scan
  PROVE  IInv'
<1> USE ChatAssumption DEF Scan, Goto, server, room, peer, job, IInv
<1>1. TypeOK'
  <2>1. acceptor.at \in Slots /\ (acceptor.at + 1) % MAX_CLIENTS \in Slots
    <3>1. acceptor.at \in Slots
      BY DEF TypeOK
    <3>2. \A a \in Int : a % MAX_CLIENTS \in 0 .. MAX_CLIENTS - 1
      OBVIOUS
    <3>. QED
      BY <3>1, <3>2 DEF Slots
  <2>2. CASE clients[acceptor.at] /\ active[acceptor.at]
    BY <2>1, <2>2 DEF TypeOK
  <2>3. CASE ~(clients[acceptor.at] /\ active[acceptor.at])
    <3>1. acceptor' \in [step : {"scan", "activate", "accept"}, at : Slots]
      BY <2>1, <2>3
    <3>2. /\ clients' \in [Slots -> BOOLEAN]
          /\ active' \in [Slots -> BOOLEAN]
          /\ stalled' \in [Slots -> BOOLEAN]
      BY <2>3, Zenon DEF TypeOK
    <3>3. /\ mutex' \in [Slots -> {0, 1}]
          /\ wire' \in [Slots -> Slots \cup {Eol}]
          /\ heard' \in [Slots -> Lines \cup {NoLine}]
      BY <2>3 DEF TypeOK
    <3>. QED
      BY <2>3, <3>1, <3>2, <3>3 DEF TypeOK
  <2>. QED
    BY <2>2, <2>3
<1>2. NoDeletedClient'
  BY DEF TypeOK, NoDeletedClient, CountMatches, Registered, OneHolder, JobsFit, broadcasting
<1>3. CountMatches'
  BY DEF TypeOK, CountMatches, Registered
<1>4. OneHolder'
  BY DEF TypeOK, OneHolder, JobsFit, NoDeletedClient, broadcasting
<1>5. JobsFit'
  BY DEF TypeOK, OneHolder, JobsFit, NoDeletedClient, CountMatches, Registered, broadcasting
<1>. QED
  BY <1>1, <1>2, <1>3, <1>4, <1>5

LEMMA ActivateKeeps ==
  ASSUME IInv, Activate
  PROVE  IInv'
<1> USE ChatAssumption DEF Activate, Goto, server, room, peer, job, IInv
<1>1. TypeOK'
  BY DEF TypeOK, Registered, Labels, CountMatches
<1>2. NoDeletedClient'
  BY DEF TypeOK, NoDeletedClient, CountMatches, Registered, OneHolder, JobsFit, broadcasting
<1>3. CountMatches'
  BY DEF TypeOK, CountMatches, Registered
<1>4. OneHolder'
  BY DEF TypeOK, OneHolder, JobsFit, NoDeletedClient, broadcasting
<1>5. JobsFit'
  BY DEF TypeOK, OneHolder, JobsFit, NoDeletedClient, CountMatches, Registered, broadcasting
<1>. QED
  BY <1>1, <1>2, <1>3, <1>4, <1>5

LEMMA AcceptKeeps ==
  ASSUME IInv, Accept
  PROVE  IInv'
<1> USE ChatAssumption DEF Accept, Goto, server, room, peer, job, IInv
<1>1. TypeOK'
  <2>1. 0 \in Slots /\ "add" \in Labels
    BY DEF Slots, Labels
  <2>. QED
    BY <2>1 DEF TypeOK
<1>2. NoDeletedClient'
  BY DEF TypeOK, NoDeletedClient, CountMatches, Registered, OneHolder, JobsFit, broadcasting
<1>3. CountMatches'
  BY DEF TypeOK, CountMatches, Registered
<1>4. OneHolder'
  BY DEF TypeOK, OneHolder, JobsFit, NoDeletedClient, broadcasting
<1>5. JobsFit'
  BY DEF TypeOK, OneHolder, JobsFit, NoDeletedClient, CountMatches, Registered, broadcasting
<1>. QED
  BY <1>1, <1>2, <1>3, <1>4, <1>5

LEMMA PostKeeps ==
  ASSUME IInv, Post
  PROVE  IInv'
<1> USE ChatAssumption DEF Post, Goto, server, room, peer, job, IInv
<1>1. TypeOK'
  BY DEF TypeOK, Registered, Labels, CountMatches
<1>2. NoDeletedClient'
  BY DEF TypeOK, NoDeletedClient, CountMatches, Registered, OneHolder, JobsFit, broadcasting
<1>3. CountMatches'
  BY DEF TypeOK, CountMatches, Registered
<1>4. OneHolder'
  BY DEF TypeOK, OneHolder, JobsFit, NoDeletedClient, broadcasting
<1>5. JobsFit'
  BY DEF TypeOK, OneHolder, JobsFit, NoDeletedClient, CountMatches, Registered, broadcasting
<1>. QED
  BY <1>1, <1>2, <1>3, <1>4, <1>5

LEMMA AddClientKeeps ==
  ASSUME IInv, NEW s \in Slots, AddClient(s)
  PROVE  IInv'
<1> USE ChatAssumption DEF AddClient, Goto, server, room, peer, job, IInv
<1>1. TypeOK'
  <2>1. /\ client_ct + 1 \in Nat
        /\ Greeting \in 0 .. Greeting
        /\ "lock" \in Labels
    BY DEF TypeOK, Registered, Labels
  <2>. QED
    BY <2>1 DEF TypeOK
<1>2. NoDeletedClient'
  BY DEF TypeOK, NoDeletedClient, CountMatches, Registered, OneHolder, JobsFit, broadcasting
<1>3. CountMatches'
  <2>1. s \notin map
    BY DEF CountMatches, Registered
  <2>2. Cardinality(map \cup {s}) = Cardinality(map) + 1
    BY <2>1, MapIsFinite, FS_AddElement DEF TypeOK
  <2>3. client_ct' = Cardinality(map')
    BY <2>2 DEF CountMatches
  <2>4. map' = {t \in Slots : pc'[t] \in Registered}
    BY DEF TypeOK, CountMatches, Registered
  <2>. QED
    BY <2>3, <2>4 DEF CountMatches
<1>4. OneHolder'
  BY DEF TypeOK, OneHolder, JobsFit, NoDeletedClient, broadcasting
<1>5. JobsFit'
  BY DEF TypeOK, OneHolder, JobsFit, NoDeletedClient, CountMatches, Registered, broadcasting
<1>. QED
  BY <1>1, <1>2, <1>3, <1>4, <1>5

LEMMA LockKeeps ==
  ASSUME IInv, NEW s \in Slots, Lock(s)
  PROVE  IInv'
<1> USE ChatAssumption DEF Lock, Goto, server, room, peer, job, IInv
<1>1. TypeOK'
  BY DEF TypeOK, Registered, Labels, CountMatches
<1>2. NoDeletedClient'
  BY DEF TypeOK, NoDeletedClient, CountMatches, Registered, OneHolder, JobsFit, broadcasting
<1>3. CountMatches'
  BY DEF TypeOK, CountMatches, Registered
<1>4. OneHolder'
  BY DEF TypeOK, OneHolder, JobsFit, NoDeletedClient, broadcasting
<1>5. JobsFit'
  BY DEF TypeOK, OneHolder, JobsFit, NoDeletedClient, CountMatches, Registered, broadcasting
<1>. QED
  BY <1>1, <1>2, <1>3, <1>4, <1>5

LEMMA SendTextKeeps ==
  ASSUME IInv, NEW s \in Slots, SendText(s)
  PROVE  IInv'
<1> USE ChatAssumption DEF SendText, Goto, server, room, peer, job, IInv
<1>1. TypeOK'
  BY DEF TypeOK, Registered, Labels, CountMatches
<1>2. NoDeletedClient'
  BY DEF TypeOK, NoDeletedClient, CountMatches, Registered, OneHolder, JobsFit, broadcasting
<1>3. CountMatches'
  BY DEF TypeOK, CountMatches, Registered
<1>4. OneHolder'
  BY DEF TypeOK, OneHolder, JobsFit, NoDeletedClient, broadcasting
<1>5. JobsFit'
  BY DEF TypeOK, OneHolder, JobsFit, NoDeletedClient, CountMatches, Registered, broadcasting
<1>. QED
  BY <1>1, <1>2, <1>3, <1>4, <1>5

LEMMA SendEolKeeps ==
  ASSUME IInv, NEW s \in Slots, SendEol(s)
  PROVE  IInv'
<1> USE ChatAssumption DEF SendEol, Goto, server, room, peer, job, IInv
<1>1. TypeOK'
  <2>1. {"lock", "receive", "next"} \subseteq Labels
    BY DEF Registered, Labels
  <2>2. CASE hello[s] > 0
    <3>1. hello[s] - 1 \in 0 .. Greeting
      BY <2>2 DEF TypeOK
    <3>. QED
      BY <2>1, <2>2, <3>1 DEF TypeOK
  <2>3. CASE ~(hello[s] > 0)
    BY <2>1, <2>3 DEF TypeOK
  <2>. QED
    BY <2>2, <2>3
<1>2. NoDeletedClient'
  BY DEF TypeOK, NoDeletedClient, CountMatches, Registered, OneHolder, JobsFit, broadcasting
<1>3. CountMatches'
  <2>1. UNCHANGED <<map, client_ct>>
    OBVIOUS
  <2>2. pc'[s] \in Registered
    BY DEF TypeOK, Registered
  <2>3. map' = {t \in Slots : pc'[t] \in Registered}
    BY <2>1, <2>2 DEF TypeOK, CountMatches, Registered
  <2>. QED
    BY <2>1, <2>3 DEF CountMatches
<1>4. OneHolder'
  <2>1. /\ pc[s] = "eol" /\ pc'[s] \in {"lock", "receive", "next"}
        /\ \A t \in Slots : t # s => pc'[t] = pc[t]
        /\ mutex' = [mutex EXCEPT ![to[s]] = 1]
        /\ to[s] \in Slots
        /\ UNCHANGED <<line, to, client_mutex, leaving>>
    BY DEF TypeOK
  <2>2. broadcasting(s)' <=> broadcasting(s)
    BY <2>1 DEF TypeOK, JobsFit, broadcasting
  <2>3. \A t \in Slots : broadcasting(t)' <=> broadcasting(t)
    BY <2>1, <2>2 DEF broadcasting
  <2>4. \A t \in Slots : mutex'[t] = 0 <=>
          \E r \in Slots : pc'[r] \in {"text", "eol"} /\ to'[r] = t
    BY <2>1 DEF TypeOK, OneHolder
  <2>5. \A r, t \in Slots :
          pc'[r] \in {"text", "eol"} /\ pc'[t] \in {"text", "eol"} /\ to'[r] = to'[t]
            => r = t
    BY <2>1 DEF OneHolder
  <2>. QED
    BY <2>1, <2>3, <2>4, <2>5 DEF OneHolder
<1>5. JobsFit'
  <2>1. /\ pc[s] = "eol" /\ pc'[s] \in {"lock", "receive", "next"}
        /\ \A t \in Slots : t # s => pc'[t] = pc[t]
        /\ UNCHANGED <<clients, active, acceptor, map, line, rest, to>>
        /\ wire' = [wire EXCEPT ![to[s]] = Eol]
        /\ to[s] \in Slots
        /\ \A t \in Slots : t # s => hello'[t] = hello[t]
    BY DEF TypeOK
  <2>2. pc'[s] = "lock" => hello'[s] > 0 /\ line[s] = NoLine
    BY DEF TypeOK, JobsFit
  <2>3. pc'[s] = "receive" => hello'[s] = 0 /\ line[s] = NoLine
    BY DEF TypeOK, JobsFit
  <2>4. pc'[s] = "next" => hello'[s] = 0 /\ line[s] # NoLine
    BY DEF TypeOK, JobsFit
  <2>5. \A t \in Slots : wire'[t] # Eol => pc'[wire'[t]] = "eol" /\ to'[wire'[t]] = t
    BY <2>1 DEF TypeOK, JobsFit
  <2>6. \A t \in Slots : broadcasting(t)' <=> broadcasting(t)
    BY <2>1, <2>2, <2>3, <2>4 DEF JobsFit, broadcasting
  <2>7. acceptor.step \in {"activate", "accept"} => pc'[acceptor.at] = "off"
    BY <2>1 DEF TypeOK, JobsFit
  <2>8. \A t \in Slots : t # to[s] \/ hello[s] > 0 => heard'[t] = heard[t]
    BY <2>1 DEF TypeOK
  <2>9. hello[s] > 0 \/ to[s] \in map
    BY <2>1 DEF TypeOK, JobsFit
  <2>10. \A t \in map : pc[t] \in Registered
    BY DEF CountMatches
  <2>11. \A t \in Slots : pc'[t] = "add" => heard'[t] = NoLine
    <3> SUFFICES ASSUME NEW t \in Slots, pc'[t] = "add"
                 PROVE  heard'[t] = NoLine
      OBVIOUS
    <3>1. t # s /\ pc[t] = "add"
      BY <2>1
    <3>2. heard[t] = NoLine /\ t \notin map
      BY <2>10, <3>1 DEF JobsFit, Registered
    <3>. QED
      BY <2>8, <2>9, <3>2
  <2>12. acceptor.step \in {"activate", "accept"} => heard'[acceptor.at] = NoLine
    <3> SUFFICES ASSUME acceptor.step \in {"activate", "accept"}
                 PROVE  heard'[acceptor.at] = NoLine
      OBVIOUS
    <3>1. /\ acceptor.at \in Slots
          /\ pc[acceptor.at] = "off"
          /\ heard[acceptor.at] = NoLine
      BY DEF TypeOK, JobsFit
    <3>2. acceptor.at \notin map
      BY <2>10, <3>1 DEF Registered
    <3>. QED
      BY <2>8, <2>9, <3>1, <3>2
  <2>. QED
    BY <2>1, <2>2, <2>3, <2>4, <2>5, <2>6, <2>7, <2>11, <2>12 DEF JobsFit
<1>. QED
  BY <1>1, <1>2, <1>3, <1>4, <1>5

LEMMA ReceiveKeeps ==
  ASSUME IInv, NEW s \in Slots, NEW l \in Lines \cup {NoLine}, Receive(s, l)
  PROVE  IInv'
<1> USE ChatAssumption DEF Receive, Goto, server, room, peer, job, IInv
<1>1. TypeOK'
  BY DEF TypeOK, Registered, Labels, CountMatches
<1>2. NoDeletedClient'
  BY DEF TypeOK, NoDeletedClient, CountMatches, Registered, OneHolder, JobsFit, broadcasting
<1>3. CountMatches'
  BY DEF TypeOK, CountMatches, Registered
<1>4. OneHolder'
  BY DEF TypeOK, OneHolder, JobsFit, NoDeletedClient, broadcasting
<1>5. JobsFit'
  BY DEF TypeOK, OneHolder, JobsFit, NoDeletedClient, CountMatches, Registered, broadcasting
<1>. QED
  BY <1>1, <1>2, <1>3, <1>4, <1>5

LEMMA BeginBroadcastKeeps ==
  ASSUME IInv, NEW s \in Slots, BeginBroadcast(s)
  PROVE  IInv'
<1> USE ChatAssumption DEF BeginBroadcast, Goto, server, room, peer, job, IInv
<1>1. TypeOK'
  BY DEF TypeOK, Registered, Labels, CountMatches
<1>2. NoDeletedClient'
  BY DEF TypeOK, NoDeletedClient, CountMatches, Registered, OneHolder, JobsFit, broadcasting
<1>3. CountMatches'
  BY DEF TypeOK, CountMatches, Registered
<1>4. OneHolder'
  BY DEF TypeOK, OneHolder, JobsFit, NoDeletedClient, broadcasting
<1>5. JobsFit'
  BY DEF TypeOK, OneHolder, JobsFit, NoDeletedClient, CountMatches, Registered, broadcasting
<1>. QED
  BY <1>1, <1>2, <1>3, <1>4, <1>5

LEMMA NextClientKeeps ==
  ASSUME IInv, NEW s \in Slots, NextClient(s)
  PROVE  IInv'
<1> USE ChatAssumption DEF NextClient, Goto, server, room, peer, job, IInv
<1>1. TypeOK'
  <2>1. PICK t \in rest[s] :
          /\ to' = [to EXCEPT ![s] = t]
          /\ rest' = [rest EXCEPT ![s] = @ \ {t}]
    OBVIOUS
  <2>2. t \in Slots /\ rest[s] \ {t} \in SUBSET Slots /\ "lock" \in Labels
    BY <2>1 DEF TypeOK, Registered, Labels
  <2>. QED
    BY <2>1, <2>2 DEF TypeOK
<1>2. NoDeletedClient'
  BY DEF TypeOK, NoDeletedClient, CountMatches, Registered, OneHolder, JobsFit, broadcasting
<1>3. CountMatches'
  <2>1. UNCHANGED <<map, client_ct>>
    OBVIOUS
  <2>2. map' = {t \in Slots : pc'[t] \in Registered}
    BY <2>1 DEF TypeOK, CountMatches, Registered
  <2>. QED
    BY <2>1, <2>2 DEF CountMatches
<1>4. OneHolder'
  BY DEF TypeOK, OneHolder, JobsFit, NoDeletedClient, broadcasting
<1>5. JobsFit'
  BY DEF TypeOK, OneHolder, JobsFit, NoDeletedClient, CountMatches, Registered, broadcasting
<1>. QED
  BY <1>1, <1>2, <1>3, <1>4, <1>5

LEMMA EndBroadcastKeeps ==
  ASSUME IInv, NEW s \in Slots, EndBroadcast(s)
  PROVE  IInv'
<1> USE ChatAssumption DEF EndBroadcast, Goto, server, room, peer, job, IInv
<1>1. TypeOK'
  BY DEF TypeOK, Registered, Labels, CountMatches
<1>2. NoDeletedClient'
  BY DEF TypeOK, NoDeletedClient, CountMatches, Registered, OneHolder, JobsFit, broadcasting
<1>3. CountMatches'
  BY DEF TypeOK, CountMatches, Registered
<1>4. OneHolder'
  BY DEF TypeOK, OneHolder, JobsFit, NoDeletedClient, broadcasting
<1>5. JobsFit'
  BY DEF TypeOK, OneHolder, JobsFit, NoDeletedClient, CountMatches, Registered, broadcasting
<1>. QED
  BY <1>1, <1>2, <1>3, <1>4, <1>5

LEMMA RemoveClientKeeps ==
  ASSUME IInv, NEW s \in Slots, RemoveClient(s)
  PROVE  IInv'
<1> USE ChatAssumption DEF RemoveClient, Goto, server, room, peer, job, IInv
<1>0. /\ s \in map
      /\ client_ct \in Nat \ {0}
      /\ Cardinality(map \ {s}) = client_ct - 1
  <2>1. s \in map
    BY DEF CountMatches, Registered
  <2>2. Cardinality(map) \in Nat /\ Cardinality(map \ {s}) = Cardinality(map) - 1
    BY <2>1, MapIsFinite, FS_RemoveElement, FS_CardinalityType DEF TypeOK
  <2>3. Cardinality(map) # 0
    BY <2>1, MapIsFinite, FS_EmptySet DEF TypeOK
  <2>. QED
    BY <2>1, <2>2, <2>3 DEF CountMatches
<1>1. TypeOK'
  <2>1. client_ct - 1 \in Nat
    BY <1>0
  <2>. QED
    BY <2>1 DEF TypeOK, Labels
<1>2. NoDeletedClient'
  BY DEF TypeOK, NoDeletedClient, CountMatches, Registered, OneHolder, JobsFit, broadcasting
<1>3. CountMatches'
  <2>1. map' = {t \in Slots : pc'[t] \in Registered}
    BY DEF TypeOK, CountMatches, Registered
  <2>. QED
    BY <1>0, <2>1 DEF CountMatches
<1>4. OneHolder'
  BY DEF TypeOK, OneHolder, JobsFit, NoDeletedClient, broadcasting
<1>5. JobsFit'
  BY DEF TypeOK, OneHolder, JobsFit, NoDeletedClient, CountMatches, Registered, broadcasting
<1>. QED
  BY <1>1, <1>2, <1>3, <1>4, <1>5

LEMMA DeactivateKeeps ==
  ASSUME IInv, NEW s \in Slots, Deactivate(s)
  PROVE  IInv'
<1> USE ChatAssumption DEF Deactivate, Goto, server, room, peer, job, IInv
<1>1. TypeOK'
  BY DEF TypeOK, Registered, Labels, CountMatches
<1>2. NoDeletedClient'
  BY DEF TypeOK, NoDeletedClient, CountMatches, Registered, OneHolder, JobsFit, broadcasting
<1>3. CountMatches'
  BY DEF TypeOK, CountMatches, Registered
<1>4. OneHolder'
  BY DEF TypeOK, OneHolder, JobsFit, NoDeletedClient, broadcasting
<1>5. JobsFit'
  BY DEF TypeOK, OneHolder, JobsFit, NoDeletedClient, CountMatches, Registered, broadcasting
<1>. QED
  BY <1>1, <1>2, <1>3, <1>4, <1>5

LEMMA StallKeeps ==
  ASSUME IInv, NEW s \in Slots, Stall(s)
  PROVE  IInv'
<1> USE ChatAssumption DEF Stall, Goto, server, room, peer, job, IInv
<1>1. TypeOK'
  BY DEF TypeOK, Registered, Labels, CountMatches
<1>2. NoDeletedClient'
  BY DEF TypeOK, NoDeletedClient, CountMatches, Registered, OneHolder, JobsFit, broadcasting
<1>3. CountMatches'
  BY DEF TypeOK, CountMatches, Registered
<1>4. OneHolder'
  BY DEF TypeOK, OneHolder, JobsFit, NoDeletedClient, broadcasting
<1>5. JobsFit'
  BY DEF TypeOK, OneHolder, JobsFit, NoDeletedClient, CountMatches, Registered, broadcasting
<1>. QED
  BY <1>1, <1>2, <1>3, <1>4, <1>5

LEMMA DrainKeeps ==
  ASSUME IInv, NEW s \in Slots, Drain(s)
  PROVE  IInv'
<1> USE ChatAssumption DEF Drain, Goto, server, room, peer, job, IInv
<1>1. TypeOK'
  BY DEF TypeOK, Registered, Labels, CountMatches
<1>2. NoDeletedClient'
  BY DEF TypeOK, NoDeletedClient, CountMatches, Registered, OneHolder, JobsFit, broadcasting
<1>3. CountMatches'
  BY DEF TypeOK, CountMatches, Registered
<1>4. OneHolder'
  BY DEF TypeOK, OneHolder, JobsFit, NoDeletedClient, broadcasting
<1>5. JobsFit'
  BY DEF TypeOK, OneHolder, JobsFit, NoDeletedClient, CountMatches, Registered, broadcasting
<1>. QED
  BY <1>1, <1>2, <1>3, <1>4, <1>5

(* The invariants hold in every reachable state, whatever the number of    *)
(* slots.                                                                  *)
THEOREM InvariantsHold == Spec => []IInv
<1>1. Init => IInv
  BY StartHolds
<1>2. IInv /\ [Next]_vars => IInv'
  <2> SUFFICES ASSUME IInv, [Next]_vars
               PROVE  IInv'
    OBVIOUS
  <2>1. CASE Acceptor
    BY <2>1, ScanKeeps, ActivateKeeps, AcceptKeeps DEF Acceptor
  <2>2. CASE Post
    BY <2>2, PostKeeps
  <2>3. ASSUME NEW s \in Slots, Work(s)
        PROVE  IInv'
    BY <2>3, AddClientKeeps, LockKeeps, SendTextKeeps, SendEolKeeps,
       BeginBroadcastKeeps, NextClientKeeps, EndBroadcastKeeps,
       RemoveClientKeeps, DeactivateKeeps DEF Work
  <2>4. ASSUME NEW s \in Slots, Peer(s)
        PROVE  IInv'
    BY <2>4, StallKeeps, DrainKeeps, ReceiveKeeps DEF Peer
  <2>5. CASE UNCHANGED vars
    <3> USE <2>5 DEF vars, server, room, peer, job, IInv
    <3>1. TypeOK' /\ CountMatches' /\ NoDeletedClient'
      BY DEF TypeOK, CountMatches, NoDeletedClient
    <3>2. OneHolder' /\ JobsFit'
      BY DEF OneHolder, JobsFit, broadcasting
    <3>. QED
      BY <3>1, <3>2
  <2>. QED
    BY <2>1, <2>2, <2>3, <2>4, <2>5 DEF Next
<1>. QED
  BY <1>1, <1>2, PTL DEF Spec

(* The types of ChatServer.                                                *)
THEOREM TypeCorrect == Spec => []TypeOK
BY InvariantsHold, PTL DEF IInv

(* broadcast's assert(clients[id]!=NULL) holds, and no thread sends on a   *)
(* ClientThread that runServer deleted.                                    *)
THEOREM NothingDeletedIsUsed == Spec => []NoDeletedClient
BY InvariantsHold, PTL DEF IInv

(* client_ct counts the map, whose keys never collide.                     *)
THEOREM CountAlwaysMatches == Spec => []CountMatches
BY InvariantsHold, PTL DEF IInv

(* client_mutex and every client's semaphore have at most one holder.      *)
THEOREM LocksExclude == Spec => []OneHolder
BY InvariantsHold, PTL DEF IInv

(* Threads broadcast to clients that are logged in (JobsFit).              *)
THEOREM JobsAlwaysFit == Spec => []JobsFit
BY InvariantsHold, PTL DEF IInv

(* sendText's two sends are never separated by another thread's.           *)
THEOREM LinesStayWhole == Spec => LinesAreWhole
<1> DEFINE Whole == \A t \in Slots : wire[t] # Eol => wire'[t] \in {wire[t], Eol}
<1>1. IInv /\ [Next]_vars => [Whole]_vars
  <2> SUFFICES ASSUME IInv, Next
               PROVE  Whole
    OBVIOUS
  <2>1. CASE Acceptor
    BY <2>1 DEF Acceptor, Scan, Activate, Accept, peer, IInv, TypeOK
  <2>2. CASE Post
    BY <2>2 DEF Post, peer
  <2>3. ASSUME NEW s \in Slots, SendText(s)
        PROVE  Whole
    BY <2>3 DEF SendText, Goto, IInv, TypeOK, OneHolder, JobsFit
  <2>4. ASSUME NEW s \in Slots, SendEol(s)
        PROVE  Whole
    BY <2>4 DEF SendEol, IInv, TypeOK
  <2>5. ASSUME NEW s \in Slots, Work(s), ~SendText(s), ~SendEol(s)
        PROVE  wire' = wire
    BY <2>5 DEF Work, AddClient, Lock, BeginBroadcast, NextClient, EndBroadcast,
         RemoveClient, Deactivate, peer
  <2>6. ASSUME NEW s \in Slots, Peer(s)
        PROVE  wire' = wire
    BY <2>6 DEF Peer, Stall, Drain, Receive, peer
  <2>. QED
    BY <2>1, <2>2, <2>3, <2>4, <2>5, <2>6 DEF Next
<1>. QED
  BY <1>1, InvariantsHold, PTL DEF Spec, LinesAreWhole

---------------------------------------------------------------------------

(* Who broadcasts decides what is said and who has yet to hear it, before  *)
(* a step and after it.                                                    *)
LEMMA NobodySpeaks ==
  ASSUME \A t \in Slots : ~broadcasting(t)
  PROVE  said = NoLine /\ waiting = {}
BY DEF said, waiting

LEMMA NobodySpeaksThen ==
  ASSUME \A t \in Slots : ~broadcasting(t)'
  PROVE  said' = NoLine /\ waiting' = {}
BY DEF said, waiting

LEMMA OneSpeaks ==
  ASSUME NEW s \in Slots, \A t \in Slots : broadcasting(t) <=> t = s
  PROVE  /\ said = line[s]
         /\ waiting = IF pc[s] = "next" THEN rest[s] ELSE rest[s] \cup {to[s]}
BY DEF said, waiting

LEMMA OneSpeaksThen ==
  ASSUME NEW s \in Slots, \A t \in Slots : broadcasting(t)' <=> t = s
  PROVE  /\ said' = line'[s]
         /\ waiting' = IF pc'[s] = "next" THEN rest'[s] ELSE rest'[s] \cup {to'[s]}
BY DEF said, waiting

LEMMA SameSpeech ==
  ASSUME \A t \in Slots : broadcasting(t)' <=> broadcasting(t),
         \A t \in Slots : broadcasting(t) =>
           /\ line'[t] = line[t] /\ rest'[t] = rest[t] /\ to'[t] = to[t]
           /\ pc'[t] = "next" <=> pc[t] = "next"
  PROVE  said' = said /\ waiting' = waiting
<1>1. {t \in Slots : broadcasting(t)'} = {t \in Slots : broadcasting(t)}
  OBVIOUS
<1>2. waiting' = waiting
  BY DEF waiting
<1>3. said' = said
  BY DEF said
<1>. QED
  BY <1>2, <1>3

(* Every step of the server is one step of the room or shows nothing.      *)
LEMMA QuietSteps ==
  ASSUME IInv,
         \/ Acceptor \/ Post
         \/ \E s \in Slots : \/ Lock(s) \/ SendText(s) \/ Deactivate(s)
                             \/ Stall(s) \/ Drain(s)
         \/ UNCHANGED vars
  PROVE  UNCHANGED Room!vars
<1>1. /\ UNCHANGED <<map, line, rest, to>>
      /\ \A t \in map : heard'[t] = heard[t]
      /\ \A t \in Slots :
           \/ pc'[t] = pc[t]
           \/ pc[t] \in {"off", "deactivate"} /\ pc'[t] \in {"off", "add"}
           \/ pc[t] \in {"lock", "text"} /\ pc'[t] \in {"text", "eol"}
  <2>1. CASE Acceptor
    BY <2>1 DEF Acceptor, Scan, Activate, Accept, Goto, server, room, peer, job,
         IInv, TypeOK, NoDeletedClient
  <2>2. CASE Post
    BY <2>2 DEF Post, server, room, peer, job
  <2>3. ASSUME NEW s \in Slots,
               Lock(s) \/ SendText(s) \/ Deactivate(s) \/ Stall(s) \/ Drain(s)
        PROVE  <1>1!:
    BY <2>3 DEF Lock, SendText, Deactivate, Stall, Drain, Goto, server, room,
         peer, job, IInv, TypeOK
  <2>4. CASE UNCHANGED vars
    BY <2>4 DEF vars, server, room, peer, job
  <2>. QED
    BY <2>1, <2>2, <2>3, <2>4
<1>2. \A t \in Slots : broadcasting(t)' <=> broadcasting(t)
  BY <1>1 DEF broadcasting
<1>3. said' = said /\ waiting' = waiting
  BY <1>1, <1>2, SameSpeech DEF broadcasting
<1>4. Heard' = Heard
  BY <1>1 DEF Heard
<1>. QED
  BY <1>1, <1>3, <1>4 DEF Room!vars

LEMMA AddClientJoins ==
  ASSUME IInv, NEW s \in Slots, AddClient(s)
  PROVE  Room!Join(s)
<1>1. /\ s \notin map
      /\ map' = map \cup {s}
      /\ UNCHANGED <<line, rest, to, heard>>
      /\ \A t \in Slots : ~broadcasting(t) /\ ~broadcasting(t)'
  BY DEF AddClient, Goto, room, job, peer, IInv, TypeOK, CountMatches,
         Registered, OneHolder, JobsFit, broadcasting
<1>2. heard[s] = NoLine
  BY DEF AddClient, Goto, IInv, JobsFit
<1>3. Heard' = Heard
  BY <1>1, <1>2 DEF Heard
<1>. QED
  BY <1>1, <1>3, NobodySpeaks, NobodySpeaksThen DEF Room!Join

LEMMA RemoveClientLeaves ==
  ASSUME IInv, NEW s \in Slots, RemoveClient(s)
  PROVE  Room!Leave(s)
<1>1. /\ s \in map
      /\ map' = map \ {s}
      /\ UNCHANGED <<line, rest, to, heard>>
      /\ \A t \in Slots : ~broadcasting(t) /\ ~broadcasting(t)'
  BY DEF RemoveClient, Goto, room, job, peer, IInv, TypeOK, CountMatches,
         Registered, OneHolder, JobsFit, broadcasting
<1>2. Heard' = [Heard EXCEPT ![s] = NoLine]
  BY <1>1 DEF Heard
<1>. QED
  BY <1>1, <1>2, NobodySpeaks, NobodySpeaksThen DEF Room!Leave

LEMMA ReceiveIsQuiet ==
  ASSUME IInv, NEW s \in Slots, NEW l \in Lines \cup {NoLine}, Receive(s, l)
  PROVE  UNCHANGED Room!vars
<1>1. /\ UNCHANGED <<map, rest, to, heard>>
      /\ \A t \in Slots : t # s => pc'[t] = pc[t] /\ line'[t] = line[t]
      /\ pc[s] = "receive" /\ pc'[s] \in {"wait", "remove"}
  BY DEF Receive, Goto, room, peer, IInv, TypeOK
<1>2. \A t \in Slots : broadcasting(t)' <=> broadcasting(t)
  BY <1>1 DEF broadcasting
<1>3. said' = said /\ waiting' = waiting
  BY <1>1, <1>2, SameSpeech DEF broadcasting
<1>. QED
  BY <1>1, <1>3 DEF Room!vars, Heard

LEMMA BeginBroadcastSays ==
  ASSUME IInv, NEW s \in Slots, BeginBroadcast(s)
  PROVE  \E l \in Lines : Room!Say(s, l)
<1>1. /\ UNCHANGED <<map, line, heard>>
      /\ rest'[s] = map
      /\ \A t \in Slots : t # s => pc'[t] = pc[t]
      /\ pc[s] = "wait" /\ pc'[s] = "next"
      /\ line[s] \in Lines
      /\ s \in map
  BY DEF BeginBroadcast, Goto, room, peer, IInv, TypeOK, JobsFit, CountMatches,
         Registered
<1>2. \A t \in Slots : ~broadcasting(t)
  BY DEF BeginBroadcast, IInv, OneHolder
<1>3. \A t \in Slots : broadcasting(t)' <=> t = s
  BY <1>1, <1>2, ChatAssumption DEF broadcasting
<1>4. said = NoLine /\ said' = line[s] /\ waiting' = map
  BY <1>1, <1>2, <1>3, NobodySpeaks, OneSpeaksThen
<1>. QED
  BY <1>1, <1>4 DEF Room!Say, Heard

(* The one broadcast of a state. *)
LEMMA OnlyOne ==
  ASSUME IInv, NEW s \in Slots, broadcasting(s)
  PROVE  \A t \in Slots : broadcasting(t) <=> t = s
BY DEF IInv, OneHolder

LEMMA NextClientIsQuiet ==
  ASSUME IInv, NEW s \in Slots, NextClient(s)
  PROVE  UNCHANGED Room!vars
<1>1. /\ UNCHANGED <<map, line, heard>>
      /\ \A t \in Slots : t # s => pc'[t] = pc[t]
      /\ pc[s] = "next" /\ pc'[s] = "lock"
      /\ \E t \in rest[s] : to'[s] = t /\ rest'[s] = rest[s] \ {t}
  BY DEF NextClient, Goto, room, peer, IInv, TypeOK
<1>2. broadcasting(s)
  BY <1>1 DEF IInv, JobsFit, broadcasting
<1>3. \A t \in Slots : broadcasting(t)' <=> t = s
  BY <1>1, <1>2, OnlyOne DEF broadcasting
<1>4. PICK t \in rest[s] : to'[s] = t /\ rest'[s] = rest[s] \ {t}
  BY <1>1
<1>5. said = line[s] /\ waiting = rest[s]
  BY <1>1, <1>2, OnlyOne, OneSpeaks
<1>6. said' = line'[s] /\ waiting' = rest'[s] \cup {to'[s]}
  BY <1>1, <1>3, OneSpeaksThen
<1>7. waiting' = waiting
  BY <1>4, <1>5, <1>6
<1>. QED
  BY <1>1, <1>5, <1>6, <1>7 DEF Room!vars, Heard

LEMMA EndBroadcastHushes ==
  ASSUME IInv, NEW s \in Slots, EndBroadcast(s)
  PROVE  Room!Hush
<1>1. /\ UNCHANGED <<map, heard>>
      /\ rest[s] = {}
      /\ \A t \in Slots : t # s => pc'[t] = pc[t] /\ line'[t] = line[t]
      /\ pc[s] = "next" /\ pc'[s] = "receive"
  BY DEF EndBroadcast, Goto, room, peer, IInv, TypeOK
<1>2. broadcasting(s)
  BY <1>1 DEF IInv, JobsFit, broadcasting
<1>3. \A t \in Slots : ~broadcasting(t)'
  BY <1>1, <1>2, OnlyOne DEF broadcasting
<1>4. /\ said = line[s] /\ said # NoLine /\ said' = NoLine
      /\ waiting = {} /\ waiting' = {}
  BY <1>1, <1>2, <1>3, OnlyOne, OneSpeaks, NobodySpeaksThen DEF broadcasting
<1>. QED
  BY <1>1, <1>4 DEF Room!Hush, Heard

LEMMA SendEolIsHeard ==
  ASSUME IInv, NEW s \in Slots, SendEol(s)
  PROVE  (\E t \in Slots : Room!Hear(t)) \/ UNCHANGED Room!vars
<1>1. /\ UNCHANGED <<map, line, rest, to>>
      /\ \A t \in Slots : t # s => pc'[t] = pc[t]
      /\ pc[s] = "eol"
      /\ to[s] \in Slots
  BY DEF SendEol, Goto, room, IInv, TypeOK
<1>2. CASE hello[s] > 0
  <2>1. heard' = heard /\ pc'[s] \in {"lock", "receive"} /\ line[s] = NoLine
    BY <1>2 DEF SendEol, Goto, IInv, TypeOK, JobsFit
  <2>2. \A t \in Slots : broadcasting(t)' <=> broadcasting(t)
    BY <1>1, <2>1 DEF broadcasting
  <2>3. said' = said /\ waiting' = waiting
    BY <1>1, <2>1, <2>2, SameSpeech DEF broadcasting
  <2>. QED
    BY <1>1, <2>1, <2>3 DEF Room!vars, Heard
<1>3. CASE ~(hello[s] > 0)
  <2> DEFINE t == to[s]
  <2>1. /\ heard' = [heard EXCEPT ![t] = line[s]]
        /\ pc'[s] = "next"
        /\ line[s] # NoLine
        /\ t \in map /\ t \notin rest[s]
    BY <1>1, <1>3 DEF SendEol, Goto, IInv, TypeOK, JobsFit
  <2>2. broadcasting(s)
    BY <1>1, <2>1 DEF broadcasting
  <2>3. \A r \in Slots : broadcasting(r)' <=> r = s
    BY <1>1, <2>1, <2>2, OnlyOne DEF broadcasting
  <2>4. /\ said = line[s] /\ said' = line[s]
        /\ waiting = rest[s] \cup {t} /\ waiting' = rest[s]
    BY <1>1, <2>1, <2>2, <2>3, OnlyOne, OneSpeaks, OneSpeaksThen
  <2>5. Heard' = [Heard EXCEPT ![t] = line[s]]
    BY <1>1, <2>1 DEF Heard, IInv, TypeOK
  <2>. QED
    BY <1>1, <2>1, <2>4, <2>5 DEF Room!Hear
<1>. QED
  BY <1>2, <1>3

(* The room's own types: nobody waits who has left, since the room is      *)
(* quiet, and nobody waits, when somebody leaves.                          *)
LEMMA RoomTypeCorrect == Room!Spec => []Room!TypeOK
<1> DEFINE RoomInv == Room!TypeOK /\ (said = NoLine => waiting = {})
<1>1. Room!Init => RoomInv
  BY DEF Room!Init, Room!TypeOK
<1>2. ASSUME RoomInv, [Room!Next]_(Room!vars)
      PROVE  RoomInv'
  <2>1. CASE UNCHANGED Room!vars
    BY <1>2, <2>1 DEF Room!vars, Room!TypeOK
  <2>2. CASE Room!Hush
    BY <1>2, <2>2 DEF Room!Hush, Room!TypeOK
  <2>3. ASSUME NEW s \in Slots, Room!Join(s) \/ Room!Leave(s) \/ Room!Hear(s)
        PROVE  RoomInv'
    BY <1>2, <2>3 DEF Room!Join, Room!Leave, Room!Hear, Room!TypeOK
  <2>4. ASSUME NEW s \in Slots, NEW l \in Lines, Room!Say(s, l)
        PROVE  RoomInv'
    BY <1>2, <2>4, ChatAssumption DEF Room!Say, Room!TypeOK
  <2>. QED
    BY <1>2, <2>1, <2>2, <2>3, <2>4 DEF Room!Next
<1>3. RoomInv => Room!TypeOK
  OBVIOUS
<1>. QED
  BY <1>1, <1>2, <1>3, PTL DEF Room!Spec

(* Everyone who is logged in hears every line, in one order.               *)
THEOREM ChatImplementsRoom == Spec => ImplementsChatroom
<1>1. Init => Room!Init
  BY NobodySpeaks DEF Init, Room!Init, Heard, broadcasting
<1>2. IInv /\ [Next]_vars => [Room!Next]_(Room!vars)
  <2> SUFFICES ASSUME IInv, [Next]_vars
               PROVE  [Room!Next]_(Room!vars)
    OBVIOUS
  <2>1. CASE Acceptor \/ Post \/ UNCHANGED vars
    BY <2>1, QuietSteps
  <2>2. ASSUME NEW s \in Slots, Work(s)
        PROVE  [Room!Next]_(Room!vars)
    <3>1. CASE Lock(s) \/ SendText(s) \/ Deactivate(s)
      BY <3>1, QuietSteps
    <3>2. CASE AddClient(s) \/ RemoveClient(s)
      BY <3>2, AddClientJoins, RemoveClientLeaves DEF Room!Next
    <3>3. CASE BeginBroadcast(s)
      BY <3>3, BeginBroadcastSays DEF Room!Next
    <3>4. CASE NextClient(s)
      BY <3>4, NextClientIsQuiet
    <3>5. CASE EndBroadcast(s)
      BY <3>5, EndBroadcastHushes DEF Room!Next
    <3>6. CASE SendEol(s)
      BY <3>6, SendEolIsHeard DEF Room!Next
    <3>. QED
      BY <2>2, <3>1, <3>2, <3>3, <3>4, <3>5, <3>6 DEF Work
  <2>3. ASSUME NEW s \in Slots, Peer(s)
        PROVE  [Room!Next]_(Room!vars)
    BY <2>3, QuietSteps, ReceiveIsQuiet DEF Peer
  <2>. QED
    BY <2>1, <2>2, <2>3 DEF Next
<1>. QED
  BY <1>1, <1>2, InvariantsHold, PTL DEF Spec, ImplementsChatroom, Room!Spec

===========================================================================

---------------------- MODULE ProducerConsumerProofs ----------------------
(***************************************************************************)
(* The semaphores and the ring buffer of ProducerConsumer, for a buffer of *)
(* any size: no cell is lost, and the whole is a bounded channel.          *)
(***************************************************************************)
EXTENDS ProducerConsumer, FiniteSetTheorems, SequenceTheorems, TLAPS

(* The distance of the two pointers is the number of items held. *)
PointersFit == write_ptr = (read_ptr + held) % N

(* A worker has not begun before main lets it. *)
BegunInOrder ==
  /\ pc["main"] = "begin" => pc["producer"] = "off"
  /\ pc["main"] \in {"begin", "started"} => pc["consumer"] = "off"

IInv == TypeOK /\ SlotsAreConserved /\ PointersFit /\ BegunInOrder

---------------------------------------------------------------------------

(* A pointer advanced by at most one round. *)
LEMMA Wrap ==
  ASSUME NEW a \in Cells, NEW k \in 0 .. N
  PROVE  (a + k) % N = IF a + k < N THEN a + k ELSE a + k - N
BY BufferAssumption DEF Cells

(* Counting workers without Cardinality. *)
LEMMA CountWorkers ==
  ASSUME NEW f, NEW L
  PROVE  Cardinality({t \in Workers : f[t] \in L})
           = (IF f["producer"] \in L THEN 1 ELSE 0) + (IF f["consumer"] \in L THEN 1 ELSE 0)
<1> DEFINE S == {t \in Workers : f[t] \in L}
<1>1. /\ Cardinality({}) = 0
      /\ \A x : Cardinality({x}) = 1
      /\ Cardinality({"producer", "consumer"}) = 2
  <2>1. Cardinality({}) = 0 /\ \A x : IsFiniteSet({x}) /\ Cardinality({x}) = 1
    BY FS_EmptySet, FS_Singleton
  <2>2. {"producer", "consumer"} = {"producer"} \cup {"consumer"} /\ "consumer" \notin {"producer"}
    OBVIOUS
  <2>3. Cardinality({"producer"} \cup {"consumer"}) = Cardinality({"producer"}) + 1
    BY <2>1, <2>2, FS_AddElement
  <2>4. Cardinality({"producer", "consumer"}) = 1 + 1
    BY <2>1, <2>2, <2>3, Zenon
  <2>5. Cardinality({"producer", "consumer"}) = 2
    BY <2>4
  <2>. QED
    BY <2>1, <2>5, Zenon
<1>2. CASE f["producer"] \in L /\ f["consumer"] \in L
  <2>1. S = {"producer", "consumer"}
    BY <1>2 DEF Workers
  <2>. QED
    BY <1>1, <1>2, <2>1
<1>3. CASE f["producer"] \in L /\ f["consumer"] \notin L
  <2>1. S = {"producer"}
    BY <1>3 DEF Workers
  <2>. QED
    BY <1>1, <1>3, <2>1
<1>4. CASE f["producer"] \notin L /\ f["consumer"] \in L
  <2>1. S = {"consumer"}
    BY <1>4 DEF Workers
  <2>. QED
    BY <1>1, <1>4, <2>1
<1>5. CASE f["producer"] \notin L /\ f["consumer"] \notin L
  <2>1. S = {}
    BY <1>5 DEF Workers
  <2>. QED
    BY <1>1, <1>5, <2>1
<1>. QED
  BY <1>2, <1>3, <1>4, <1>5

(* SlotsAreConserved, counted worker by worker. *)
one(b) == IF b THEN 1 ELSE 0

Conserved ==
  /\ empty + full + (one(pc["producer"] \in {"lock", "work", "unlock", "signal"})
                     + one(pc["consumer"] \in {"lock", "work", "unlock", "signal"})) = N
  /\ mutex + (one(pc["producer"] \in {"work", "unlock"})
              + one(pc["consumer"] \in {"work", "unlock"})) = 1

LEMMA ConservedNow == SlotsAreConserved <=> Conserved
BY CountWorkers, Zenon DEF SlotsAreConserved, Conserved, inHand, one

LEMMA ConservedNext == SlotsAreConserved' <=> Conserved'
<1>1. /\ inHand' = one(pc'["producer"] \in {"lock", "work", "unlock", "signal"})
                     + one(pc'["consumer"] \in {"lock", "work", "unlock", "signal"})
      /\ Cardinality({t \in Workers : pc'[t] \in {"work", "unlock"}})
           = one(pc'["producer"] \in {"work", "unlock"})
              + one(pc'["consumer"] \in {"work", "unlock"})
  BY CountWorkers, Zenon DEF inHand, one
<1>. QED
  BY <1>1, Zenon DEF SlotsAreConserved, Conserved

(* A worker at its own lock, and what the counts leave for it. *)
LEMMA HeldIsBounded ==
  ASSUME TypeOK, Conserved
  PROVE  /\ held \in 0 .. N
         /\ pc["producer"] = "work" => held + 1 \in 0 .. N
         /\ pc["consumer"] = "work" => held - 1 \in 0 .. N
BY BufferAssumption DEF TypeOK, Conserved, held, one, Threads

---------------------------------------------------------------------------

LEMMA StartHolds == ASSUME Init PROVE IInv
<1>1. TypeOK
  <2>1. 0 \in Cells /\ 0 \in Numbers /\ N \in 0 .. N /\ 0 \in 0 .. N
    BY BufferAssumption DEF Cells, Numbers
  <2>2. shared_buffer \in [Cells -> Numbers]
    BY <2>1 DEF Init
  <2>3. pc \in [Threads -> Labels] /\ nap \in [Threads -> 0 .. 2]
    BY DEF Init, Labels
  <2>4. /\ write_ptr \in Cells /\ read_ptr \in Cells /\ count \in Numbers /\ value \in Numbers
        /\ empty \in 0 .. N /\ full \in 0 .. N
        /\ ending \subseteq Workers /\ late \in BOOLEAN
    BY <2>1, Zenon DEF Init
  <2>5. mutex \in 0 .. 1
    BY DEF Init
  <2>. QED
    BY <2>2, <2>3, <2>4, <2>5, Zenon DEF TypeOK
<1>2. Conserved
  BY BufferAssumption DEF Init, Conserved, one, Threads
<1>3. PointersFit
  <2>1. held = 0 /\ 0 \in Cells /\ read_ptr = 0 /\ write_ptr = 0
    BY BufferAssumption DEF Init, held, Threads, Cells
  <2>. QED
    BY <2>1, Wrap, BufferAssumption DEF PointersFit, Cells
<1>4. BegunInOrder
  BY DEF Init, BegunInOrder, Threads
<1>. QED
  BY <1>1, <1>2, <1>3, <1>4, ConservedNow DEF IInv

LEMMA CheckKeeps ==
  ASSUME IInv, NEW t \in Workers, Check(t)
  PROVE  IInv' /\ held' = held
<1> USE BufferAssumption DEF Check, Goto, buffer, semaphores
<1>0. TypeOK /\ Conserved /\ PointersFit /\ BegunInOrder
  BY ConservedNow DEF IInv
<1>1. TypeOK'
  <2>1. /\ pc' \in [Threads -> Labels] /\ nap' \in [Threads -> 0 .. 2]
        /\ ending' \subseteq Workers
    BY <1>0 DEF TypeOK, Threads, Workers, Labels
  <2>2. mutex' \in 0 .. 1 /\ empty' \in 0 .. N /\ full' \in 0 .. N
    BY <1>0 DEF TypeOK, Conserved, one, Threads, Workers
  <2>3. /\ shared_buffer' \in [Cells -> Numbers]
        /\ write_ptr' \in Cells /\ read_ptr' \in Cells
        /\ count' \in Numbers /\ value' \in Numbers
    BY <1>0 DEF TypeOK, Numbers
  <2>4. late' \in BOOLEAN
    BY <1>0 DEF TypeOK
  <2>. QED
    BY <2>1, <2>2, <2>3, <2>4, Zenon DEF TypeOK
<1>2. Conserved'
  BY <1>0 DEF TypeOK, Conserved, one, Threads, Workers, BegunInOrder
<1>3. held' = held
  BY <1>0 DEF TypeOK, held, Threads, Workers, BegunInOrder
<1>4. PointersFit'
  BY <1>0, <1>3 DEF PointersFit
<1>5. BegunInOrder'
  BY <1>0 DEF TypeOK, BegunInOrder, Threads, Workers
<1>. QED
  BY <1>1, <1>2, <1>3, <1>4, <1>5, ConservedNext DEF IInv

LEMMA TakeSlotKeeps ==
  ASSUME IInv, NEW t \in Workers, TakeSlot(t)
  PROVE  IInv' /\ held' = held
<1> USE BufferAssumption DEF TakeSlot, Goto, buffer, semaphores
<1>0. TypeOK /\ Conserved /\ PointersFit /\ BegunInOrder
  BY ConservedNow DEF IInv
<1>1. TypeOK'
  <2>1. /\ pc' \in [Threads -> Labels] /\ nap' \in [Threads -> 0 .. 2]
        /\ ending' \subseteq Workers
    BY <1>0 DEF TypeOK, Threads, Workers, Labels
  <2>2. mutex' \in 0 .. 1 /\ empty' \in 0 .. N /\ full' \in 0 .. N
    BY <1>0 DEF TypeOK, Conserved, one, Threads, Workers
  <2>3. /\ shared_buffer' \in [Cells -> Numbers]
        /\ write_ptr' \in Cells /\ read_ptr' \in Cells
        /\ count' \in Numbers /\ value' \in Numbers
    BY <1>0 DEF TypeOK, Numbers
  <2>4. late' \in BOOLEAN
    BY <1>0 DEF TypeOK
  <2>. QED
    BY <2>1, <2>2, <2>3, <2>4, Zenon DEF TypeOK
<1>2. Conserved'
  BY <1>0 DEF TypeOK, Conserved, one, Threads, Workers, BegunInOrder
<1>3. held' = held
  BY <1>0 DEF TypeOK, held, Threads, Workers, BegunInOrder
<1>4. PointersFit'
  BY <1>0, <1>3 DEF PointersFit
<1>5. BegunInOrder'
  BY <1>0 DEF TypeOK, BegunInOrder, Threads, Workers
<1>. QED
  BY <1>1, <1>2, <1>3, <1>4, <1>5, ConservedNext DEF IInv

LEMMA LockKeeps ==
  ASSUME IInv, NEW t \in Workers, Lock(t)
  PROVE  IInv' /\ held' = held
<1> USE BufferAssumption DEF Lock, Goto, buffer, semaphores
<1>0. TypeOK /\ Conserved /\ PointersFit /\ BegunInOrder
  BY ConservedNow DEF IInv
<1>1. TypeOK'
  <2>1. /\ pc' \in [Threads -> Labels] /\ nap' \in [Threads -> 0 .. 2]
        /\ ending' \subseteq Workers
    BY <1>0 DEF TypeOK, Threads, Workers, Labels
  <2>2. mutex' \in 0 .. 1 /\ empty' \in 0 .. N /\ full' \in 0 .. N
    BY <1>0 DEF TypeOK, Conserved, one, Threads, Workers
  <2>3. /\ shared_buffer' \in [Cells -> Numbers]
        /\ write_ptr' \in Cells /\ read_ptr' \in Cells
        /\ count' \in Numbers /\ value' \in Numbers
    BY <1>0 DEF TypeOK, Numbers
  <2>4. late' \in BOOLEAN
    BY <1>0 DEF TypeOK
  <2>. QED
    BY <2>1, <2>2, <2>3, <2>4, Zenon DEF TypeOK
<1>2. Conserved'
  BY <1>0 DEF TypeOK, Conserved, one, Threads, Workers, BegunInOrder
<1>3. held' = held
  BY <1>0 DEF TypeOK, held, Threads, Workers, BegunInOrder
<1>4. PointersFit'
  BY <1>0, <1>3 DEF PointersFit
<1>5. BegunInOrder'
  BY <1>0 DEF TypeOK, BegunInOrder, Threads, Workers
<1>. QED
  BY <1>1, <1>2, <1>3, <1>4, <1>5, ConservedNext DEF IInv

LEMMA UnlockKeeps ==
  ASSUME IInv, NEW t \in Workers, Unlock(t)
  PROVE  IInv' /\ held' = held
<1> USE BufferAssumption DEF Unlock, Goto, buffer, semaphores
<1>0. TypeOK /\ Conserved /\ PointersFit /\ BegunInOrder
  BY ConservedNow DEF IInv
<1>1. TypeOK'
  <2>1. /\ pc' \in [Threads -> Labels] /\ nap' \in [Threads -> 0 .. 2]
        /\ ending' \subseteq Workers
    BY <1>0 DEF TypeOK, Threads, Workers, Labels
  <2>2. mutex' \in 0 .. 1 /\ empty' \in 0 .. N /\ full' \in 0 .. N
    BY <1>0 DEF TypeOK, Conserved, one, Threads, Workers
  <2>3. /\ shared_buffer' \in [Cells -> Numbers]
        /\ write_ptr' \in Cells /\ read_ptr' \in Cells
        /\ count' \in Numbers /\ value' \in Numbers
    BY <1>0 DEF TypeOK, Numbers
  <2>4. late' \in BOOLEAN
    BY <1>0 DEF TypeOK
  <2>. QED
    BY <2>1, <2>2, <2>3, <2>4, Zenon DEF TypeOK
<1>2. Conserved'
  BY <1>0 DEF TypeOK, Conserved, one, Threads, Workers, BegunInOrder
<1>3. held' = held
  BY <1>0 DEF TypeOK, held, Threads, Workers, BegunInOrder
<1>4. PointersFit'
  BY <1>0, <1>3 DEF PointersFit
<1>5. BegunInOrder'
  BY <1>0 DEF TypeOK, BegunInOrder, Threads, Workers
<1>. QED
  BY <1>1, <1>2, <1>3, <1>4, <1>5, ConservedNext DEF IInv

LEMMA SignalKeeps ==
  ASSUME IInv, NEW t \in Workers, Signal(t)
  PROVE  IInv' /\ held' = held
<1> USE BufferAssumption DEF Signal, Goto, buffer, semaphores, producerNap, consumerNap
<1>0. TypeOK /\ Conserved /\ PointersFit /\ BegunInOrder
  BY ConservedNow DEF IInv
<1>1. TypeOK'
  <2>1. /\ pc' \in [Threads -> Labels] /\ nap' \in [Threads -> 0 .. 2]
        /\ ending' \subseteq Workers
    <3>1. pc' \in [Threads -> Labels] /\ ending' = ending
      BY <1>0 DEF TypeOK, Labels
    <3>2. nap' = [nap EXCEPT ![t] = 1] \/ nap' = [nap EXCEPT ![t] = 2]
      OBVIOUS
    <3>3. nap' \in [Threads -> 0 .. 2]
      BY <1>0, <3>2 DEF TypeOK
    <3>. QED
      BY <1>0, <3>1, <3>3 DEF TypeOK
  <2>2. mutex' \in 0 .. 1 /\ empty' \in 0 .. N /\ full' \in 0 .. N
    BY <1>0 DEF TypeOK, Conserved, one, Threads, Workers
  <2>3. /\ shared_buffer' \in [Cells -> Numbers]
        /\ write_ptr' \in Cells /\ read_ptr' \in Cells
        /\ count' \in Numbers /\ value' \in Numbers
    BY <1>0 DEF TypeOK, Numbers
  <2>4. late' \in BOOLEAN
    BY <1>0 DEF TypeOK
  <2>. QED
    BY <2>1, <2>2, <2>3, <2>4, Zenon DEF TypeOK
<1>2. Conserved'
  BY <1>0 DEF TypeOK, Conserved, one, Threads, Workers, BegunInOrder
<1>3. held' = held
  BY <1>0 DEF TypeOK, held, Threads, Workers, BegunInOrder
<1>4. PointersFit'
  BY <1>0, <1>3 DEF PointersFit
<1>5. BegunInOrder'
  BY <1>0 DEF TypeOK, BegunInOrder, Threads, Workers
<1>. QED
  BY <1>1, <1>2, <1>3, <1>4, <1>5, ConservedNext DEF IInv

LEMMA BeginKeeps ==
  ASSUME IInv, Begin
  PROVE  IInv' /\ held' = held
<1> USE BufferAssumption DEF Begin, Goto, buffer, semaphores, mainNap
<1>0. TypeOK /\ Conserved /\ PointersFit /\ BegunInOrder
  BY ConservedNow DEF IInv
<1>1. TypeOK'
  <2>1. /\ pc' \in [Threads -> Labels] /\ nap' \in [Threads -> 0 .. 2]
        /\ ending' \subseteq Workers
    <3>1. "started" \in Labels /\ "check" \in Labels /\ "prompt" \in Labels /\ ending' = ending
      BY DEF Labels
    <3>2. nap' = [nap EXCEPT !["main"] = 1] \/ nap' = nap
      OBVIOUS
    <3>3. nap' \in [Threads -> 0 .. 2]
      BY <1>0, <3>2 DEF TypeOK
    <3>4. pc' \in [Threads -> Labels]
      BY <1>0, <3>1 DEF TypeOK
    <3>. QED
      BY <1>0, <3>1, <3>3, <3>4 DEF TypeOK
  <2>2. mutex' \in 0 .. 1 /\ empty' \in 0 .. N /\ full' \in 0 .. N
    BY <1>0 DEF TypeOK, Conserved, one, Threads, Workers
  <2>3. /\ shared_buffer' \in [Cells -> Numbers]
        /\ write_ptr' \in Cells /\ read_ptr' \in Cells
        /\ count' \in Numbers /\ value' \in Numbers
    BY <1>0 DEF TypeOK, Numbers
  <2>4. late' \in BOOLEAN
    BY <1>0 DEF TypeOK
  <2>. QED
    BY <2>1, <2>2, <2>3, <2>4, Zenon DEF TypeOK
<1>2. Conserved'
  BY <1>0 DEF TypeOK, Conserved, one, Threads, Workers, BegunInOrder
<1>3. held' = held
  BY <1>0 DEF TypeOK, held, Threads, Workers, BegunInOrder
<1>4. PointersFit'
  BY <1>0, <1>3 DEF PointersFit
<1>5. BegunInOrder'
  BY <1>0 DEF TypeOK, BegunInOrder, Threads, Workers
<1>. QED
  BY <1>1, <1>2, <1>3, <1>4, <1>5, ConservedNext DEF IInv

LEMMA TypeKeeps ==
  ASSUME IInv, Type
  PROVE  IInv' /\ held' = held
<1> USE BufferAssumption DEF Type, Goto, buffer, semaphores
<1>0. TypeOK /\ Conserved /\ PointersFit /\ BegunInOrder
  BY ConservedNow DEF IInv
<1>1. TypeOK'
  <2>1. /\ pc' \in [Threads -> Labels] /\ nap' \in [Threads -> 0 .. 2]
        /\ ending' \subseteq Workers
    BY <1>0 DEF TypeOK, Threads, Workers, Labels
  <2>2. mutex' \in 0 .. 1 /\ empty' \in 0 .. N /\ full' \in 0 .. N
    BY <1>0 DEF TypeOK, Conserved, one, Threads, Workers
  <2>3. /\ shared_buffer' \in [Cells -> Numbers]
        /\ write_ptr' \in Cells /\ read_ptr' \in Cells
        /\ count' \in Numbers /\ value' \in Numbers
    BY <1>0 DEF TypeOK, Numbers
  <2>4. late' \in BOOLEAN
    BY <1>0 DEF TypeOK
  <2>. QED
    BY <2>1, <2>2, <2>3, <2>4, Zenon DEF TypeOK
<1>2. Conserved'
  BY <1>0 DEF TypeOK, Conserved, one, Threads, Workers, BegunInOrder
<1>3. held' = held
  BY <1>0 DEF TypeOK, held, Threads, Workers, BegunInOrder
<1>4. PointersFit'
  BY <1>0, <1>3 DEF PointersFit
<1>5. BegunInOrder'
  BY <1>0 DEF TypeOK, BegunInOrder, Threads, Workers
<1>. QED
  BY <1>1, <1>2, <1>3, <1>4, <1>5, ConservedNext DEF IInv

LEMMA EndKeeps ==
  ASSUME IInv, NEW t \in Workers, End(t)
  PROVE  IInv' /\ held' = held
<1> USE BufferAssumption DEF End, Goto, buffer, semaphores
<1>0. TypeOK /\ Conserved /\ PointersFit /\ BegunInOrder
  BY ConservedNow DEF IInv
<1>1. TypeOK'
  <2>1. /\ pc' \in [Threads -> Labels] /\ nap' \in [Threads -> 0 .. 2]
        /\ ending' \subseteq Workers
    BY <1>0 DEF TypeOK, Threads, Workers, Labels
  <2>2. mutex' \in 0 .. 1 /\ empty' \in 0 .. N /\ full' \in 0 .. N
    BY <1>0 DEF TypeOK, Conserved, one, Threads, Workers
  <2>3. /\ shared_buffer' \in [Cells -> Numbers]
        /\ write_ptr' \in Cells /\ read_ptr' \in Cells
        /\ count' \in Numbers /\ value' \in Numbers
    BY <1>0 DEF TypeOK, Numbers
  <2>4. late' \in BOOLEAN
    BY <1>0 DEF TypeOK
  <2>. QED
    BY <2>1, <2>2, <2>3, <2>4, Zenon DEF TypeOK
<1>2. Conserved'
  BY <1>0 DEF TypeOK, Conserved, one, Threads, Workers, BegunInOrder
<1>3. held' = held
  BY <1>0 DEF TypeOK, held, Threads, Workers, BegunInOrder
<1>4. PointersFit'
  BY <1>0, <1>3 DEF PointersFit
<1>5. BegunInOrder'
  BY <1>0 DEF TypeOK, BegunInOrder, Threads, Workers
<1>. QED
  BY <1>1, <1>2, <1>3, <1>4, <1>5, ConservedNext DEF IInv

LEMMA JoinKeeps ==
  ASSUME IInv, NEW t \in Workers, Join(t)
  PROVE  IInv' /\ held' = held
<1> USE BufferAssumption DEF Join, Goto, buffer, semaphores
<1>0. TypeOK /\ Conserved /\ PointersFit /\ BegunInOrder
  BY ConservedNow DEF IInv
<1>1. TypeOK'
  <2>1. /\ pc' \in [Threads -> Labels] /\ nap' \in [Threads -> 0 .. 2]
        /\ ending' \subseteq Workers
    BY <1>0 DEF TypeOK, Threads, Workers, Labels
  <2>2. mutex' \in 0 .. 1 /\ empty' \in 0 .. N /\ full' \in 0 .. N
    BY <1>0 DEF TypeOK, Conserved, one, Threads, Workers
  <2>3. /\ shared_buffer' \in [Cells -> Numbers]
        /\ write_ptr' \in Cells /\ read_ptr' \in Cells
        /\ count' \in Numbers /\ value' \in Numbers
    BY <1>0 DEF TypeOK, Numbers
  <2>4. late' \in BOOLEAN
    BY <1>0 DEF TypeOK
  <2>. QED
    BY <2>1, <2>2, <2>3, <2>4, Zenon DEF TypeOK
<1>2. Conserved'
  BY <1>0 DEF TypeOK, Conserved, one, Threads, Workers, BegunInOrder
<1>3. held' = held
  BY <1>0 DEF TypeOK, held, Threads, Workers, BegunInOrder
<1>4. PointersFit'
  BY <1>0, <1>3 DEF PointersFit
<1>5. BegunInOrder'
  BY <1>0 DEF TypeOK, BegunInOrder, Threads, Workers
<1>. QED
  BY <1>1, <1>2, <1>3, <1>4, <1>5, ConservedNext DEF IInv

LEMMA TickKeeps ==
  ASSUME IInv, Tick
  PROVE  IInv' /\ held' = held
<1> USE BufferAssumption DEF Tick, Goto, buffer, semaphores
<1>0. TypeOK /\ Conserved /\ PointersFit /\ BegunInOrder
  BY ConservedNow DEF IInv
<1>1. TypeOK'
  <2>1. /\ pc' \in [Threads -> Labels] /\ nap' \in [Threads -> 0 .. 2]
        /\ ending' \subseteq Workers
    <3>1. \A t \in Threads : (IF nap[t] > 0 THEN nap[t] - 1 ELSE 0) \in 0 .. 2
      BY <1>0 DEF TypeOK
    <3>. QED
      BY <1>0, <3>1 DEF TypeOK
  <2>2. mutex' \in 0 .. 1 /\ empty' \in 0 .. N /\ full' \in 0 .. N
    BY <1>0 DEF TypeOK, Conserved, one, Threads, Workers
  <2>3. /\ shared_buffer' \in [Cells -> Numbers]
        /\ write_ptr' \in Cells /\ read_ptr' \in Cells
        /\ count' \in Numbers /\ value' \in Numbers
    BY <1>0 DEF TypeOK, Numbers
  <2>4. late' \in BOOLEAN
    BY <1>0 DEF TypeOK
  <2>. QED
    BY <2>1, <2>2, <2>3, <2>4, Zenon DEF TypeOK
<1>2. Conserved'
  BY <1>0 DEF TypeOK, Conserved, one, Threads, Workers, BegunInOrder
<1>3. held' = held
  BY <1>0 DEF TypeOK, held, Threads, Workers, BegunInOrder
<1>4. PointersFit'
  BY <1>0, <1>3 DEF PointersFit
<1>5. BegunInOrder'
  BY <1>0 DEF TypeOK, BegunInOrder, Threads, Workers
<1>. QED
  BY <1>1, <1>2, <1>3, <1>4, <1>5, ConservedNext DEF IInv


(* Inserting fills the cell behind the items held; removing empties the    *)
(* first of them.                                                          *)
LEMMA WorkKeeps ==
  ASSUME IInv, NEW t \in Workers, Work(t)
  PROVE  /\ IInv'
         /\ held' = IF t = "producer" THEN held + 1 ELSE held - 1
<1> USE BufferAssumption DEF Work, Goto, inert_item, remove_item, buffer, semaphores
<1>0. TypeOK /\ Conserved /\ PointersFit /\ BegunInOrder
  BY ConservedNow DEF IInv
<1>1. held \in 0 .. N /\ held' \in 0 .. N /\ held' = IF t = "producer" THEN held + 1 ELSE held - 1
  BY <1>0, HeldIsBounded DEF TypeOK, held, Threads, Workers
<1>2. TypeOK'
  <2>1. pc' \in [Threads -> Labels]
    BY <1>0 DEF TypeOK, Threads, Workers, Labels
  <2>2. \A a \in Cells : (a + 1) % N \in Cells
    BY DEF Cells
  <2>3. /\ shared_buffer' \in [Cells -> Numbers]
        /\ write_ptr' \in Cells /\ read_ptr' \in Cells
        /\ value' \in Numbers
    BY <1>0, <2>2 DEF TypeOK
  <2>. QED
    BY <1>0, <2>1, <2>3 DEF TypeOK
<1>3. Conserved'
  BY <1>0 DEF TypeOK, Conserved, one, Threads, Workers
<1>4. PointersFit'
  <2>1. /\ (read_ptr + held) % N = IF read_ptr + held < N THEN read_ptr + held ELSE read_ptr + held - N
        /\ (write_ptr + 1) % N = IF write_ptr + 1 < N THEN write_ptr + 1 ELSE write_ptr + 1 - N
        /\ (read_ptr + 1) % N = IF read_ptr + 1 < N THEN read_ptr + 1 ELSE read_ptr + 1 - N
    BY <1>0, <1>1, Wrap DEF TypeOK
  <2>2. (read_ptr' + held') % N = IF read_ptr' + held' < N THEN read_ptr' + held' ELSE read_ptr' + held' - N
    BY <1>1, <1>2, Wrap DEF TypeOK
  <2>3. /\ held \in Int /\ write_ptr \in 0 .. N - 1 /\ read_ptr \in 0 .. N - 1
        /\ write_ptr = (read_ptr + held) % N
    BY <1>0, <1>1 DEF TypeOK, PointersFit, Cells
  <2>4. CASE t = "producer"
    <3>1. write_ptr' = (write_ptr + 1) % N /\ read_ptr' = read_ptr /\ held' = held + 1
      BY <1>1, <2>4
    <3>2. write_ptr' = (read_ptr' + held') % N
      BY <1>1, <2>1, <2>2, <2>3, <3>1
    <3>. QED
      BY <3>2 DEF PointersFit
  <2>5. CASE t = "consumer"
    <3>1. read_ptr' = (read_ptr + 1) % N /\ write_ptr' = write_ptr /\ held' = held - 1
      BY <1>1, <2>5
    <3>2. write_ptr' = (read_ptr' + held') % N
      BY <1>1, <2>1, <2>2, <2>3, <3>1
    <3>. QED
      BY <3>2 DEF PointersFit
  <2>. QED
    BY <2>4, <2>5 DEF Workers
<1>5. BegunInOrder'
  BY <1>0 DEF TypeOK, BegunInOrder, Threads, Workers
<1>. QED
  BY <1>1, <1>2, <1>3, <1>4, <1>5, ConservedNext DEF IInv

---------------------------------------------------------------------------

(* The invariant: the counts of the semaphores and what the workers have   *)
(* in hand always make up the buffer, and the pointers are as far apart as *)
(* there are items between them.                                           *)
THEOREM InvariantsHold == Spec => []IInv
<1>1. Init => IInv
  BY StartHolds
<1>2. IInv /\ [Next]_vars => IInv'
  <2> SUFFICES ASSUME IInv, [Next]_vars PROVE IInv'
    OBVIOUS
  <2>1. CASE Tick
    BY <2>1, TickKeeps
  <2>2. CASE Begin
    BY <2>2, BeginKeeps
  <2>3. CASE Type
    BY <2>3, TypeKeeps
  <2>4. CASE \E t \in Workers : Worker(t) \/ End(t) \/ Join(t)
    <3>1. PICK t \in Workers : Worker(t) \/ End(t) \/ Join(t)
      BY <2>4
    <3>. QED
      BY <3>1, CheckKeeps, TakeSlotKeeps, LockKeeps, WorkKeeps, UnlockKeeps, SignalKeeps,
         EndKeeps, JoinKeeps DEF Worker
  <2>5. CASE UNCHANGED vars
    <3>1. TypeOK' /\ PointersFit' /\ BegunInOrder'
      BY <2>5 DEF IInv, TypeOK, PointersFit, BegunInOrder, held, vars, buffer, semaphores
    <3>2. Conserved'
      BY <2>5, ConservedNow DEF IInv, Conserved, vars, semaphores
    <3>. QED
      BY <3>1, <3>2, ConservedNext DEF IInv
  <2>. QED
    BY <2>1, <2>2, <2>3, <2>4, <2>5 DEF Next, Step
<1>. QED
  BY <1>1, <1>2, PTL DEF Spec

(* No count of a semaphore falls below zero or passes the size of the      *)
(* buffer, and every pointer stays in it.                                  *)
THEOREM TypeCorrect == Spec => []TypeOK
BY InvariantsHold, PTL DEF IInv

(* empty.wait, full.post, full.wait and empty.post of producer_consumer's  *)
(* main2.cpp never lose a cell of the buffer, and mutex admits one worker. *)
THEOREM SlotsConserved == Spec => []SlotsAreConserved
BY InvariantsHold, PTL DEF IInv

(* write_ptr is as many cells ahead of read_ptr as full counts, with the   *)
(* one inserted and not yet posted and the one waited for and not yet      *)
(* removed.                                                                *)
THEOREM PointersKeepTheirDistance == Spec => []PointersFit
BY InvariantsHold, PTL DEF IInv

---------------------------------------------------------------------------

(* What the refinement mapping makes of a state. *)
itemsNow == [k \in 1 .. held |-> shared_buffer[(read_ptr + k - 1) % N]]
nextNow == IF pc["producer"] \in {"unlock", "signal"} THEN (count + 1) % CountRange ELSE count

(* Every step but those of inert_item and remove_item is none of the       *)
(* channel's: the number counts as made when it is inserted, before        *)
(* count++, and as read when it is removed, before empty.post.             *)
LEMMA OtherStepsStutter ==
  ASSUME held' = held, nextNow' = nextNow, UNCHANGED <<shared_buffer, read_ptr, value>>
  PROVE  UNCHANGED Buffer!vars
<1>1. itemsNow' = itemsNow
  BY DEF itemsNow
<1>. QED
  BY <1>1, Zenon DEF Buffer!vars, itemsNow, nextNow

LEMMA ItemsAreSeq ==
  ASSUME NEW h \in 0 .. N, NEW r \in Cells, NEW cells \in [Cells -> Numbers]
  PROVE  /\ [k \in 1 .. h |-> cells[(r + k - 1) % N]] \in Seq(Numbers)
         /\ Len([k \in 1 .. h |-> cells[(r + k - 1) % N]]) = h
<1>1. \A k \in 1 .. h : (r + k - 1) % N \in Cells
  BY BufferAssumption DEF Cells
<1>2. [k \in 1 .. h |-> cells[(r + k - 1) % N]] \in [1 .. h -> Numbers]
  BY <1>1
<1>. QED
  BY <1>2

(* The first cell of a run of at most N is not the one behind another.     *)
LEMMA CellsDiffer ==
  ASSUME NEW a \in Cells, NEW i \in 0 .. N, NEW j \in 0 .. N, i < j, j < N
  PROVE  (a + i) % N # (a + j) % N
<1>1. /\ (a + i) % N = IF a + i < N THEN a + i ELSE a + i - N
      /\ (a + j) % N = IF a + j < N THEN a + j ELSE a + j - N
  BY Wrap
<1>. QED
  BY <1>1, BufferAssumption DEF Cells

LEMMA InsertPuts ==
  ASSUME IInv, Work("producer")
  PROVE  Buffer!Put
<1> USE BufferAssumption
<1>0. TypeOK /\ Conserved /\ PointersFit
  BY ConservedNow DEF IInv
<1>1. /\ pc["producer"] = "work"
      /\ pc' = [pc EXCEPT !["producer"] = "unlock"]
      /\ shared_buffer' = [shared_buffer EXCEPT ![write_ptr] = count]
      /\ read_ptr' = read_ptr /\ count' = count /\ value' = value
  BY DEF Work, Goto, inert_item
<1>2. held \in 0 .. N - 1 /\ held' = held + 1
  BY <1>0, <1>1, HeldIsBounded, WorkKeeps DEF Workers
<1>3. nextNow = count /\ nextNow' = (count + 1) % CountRange
  BY <1>0, <1>1 DEF nextNow, TypeOK, Threads
<1>4. /\ itemsNow \in Seq(Numbers) /\ Len(itemsNow) = held
      /\ itemsNow' \in Seq(Numbers) /\ Len(itemsNow') = held'
  <2>1. TypeOK' /\ held \in 0 .. N /\ held' \in 0 .. N
    BY <1>2, WorkKeeps DEF IInv, Workers
  <2>. QED
    BY <1>0, <2>1, ItemsAreSeq DEF TypeOK, itemsNow
<1>5. itemsNow' = Append(itemsNow, count)
  <2>2. ASSUME NEW k \in 1 .. held + 1
        PROVE  itemsNow'[k] = Append(itemsNow, count)[k]
    <3>1. itemsNow'[k] = shared_buffer'[(read_ptr + k - 1) % N]
      BY <1>1, <1>2 DEF itemsNow
    <3>2. CASE k = held + 1
      <4>1. (read_ptr + k - 1) % N = write_ptr
        <5>1. read_ptr + k - 1 = read_ptr + held
          BY <1>0, <1>2, <3>2 DEF TypeOK, Cells
        <5>. QED
          BY <1>0, <5>1 DEF PointersFit
      <4>2. shared_buffer'[write_ptr] = count
        BY <1>0, <1>1 DEF TypeOK
      <4>. QED
        BY <1>4, <3>1, <3>2, <4>1, <4>2
    <3>3. CASE k \in 1 .. held
      <4>1. (read_ptr + (k - 1)) % N # (read_ptr + held) % N
        BY <1>0, <1>2, <3>3, CellsDiffer DEF TypeOK
      <4>2. read_ptr + (k - 1) = read_ptr + k - 1
        BY <1>0, <3>3 DEF TypeOK, Cells
      <4>3. (read_ptr + k - 1) % N # write_ptr
        BY <1>0, <4>1, <4>2 DEF PointersFit
      <4>4. shared_buffer'[(read_ptr + k - 1) % N] = shared_buffer[(read_ptr + k - 1) % N]
        <5>1. (read_ptr + k - 1) % N \in Cells
          BY <1>0, <3>3 DEF TypeOK, Cells
        <5>. QED
          BY <1>0, <1>1, <4>3, <5>1 DEF TypeOK
      <4>5. Append(itemsNow, count)[k] = itemsNow[k]
        BY <1>2, <1>4, <3>3
      <4>. QED
        BY <3>1, <3>3, <4>4, <4>5 DEF itemsNow
    <3>4. k = held + 1 \/ k \in 1 .. held
      BY <1>2
    <3>. QED
      BY <3>2, <3>3, <3>4, Zenon
  <2>3. Append(itemsNow, count) \in Seq(Numbers) /\ Len(Append(itemsNow, count)) = held + 1
    BY <1>0, <1>4, AppendProperties DEF TypeOK
  <2>. QED
    BY <1>2, <1>4, <2>2, <2>3, SeqEqual
<1>6. Len(itemsNow) < N
  BY <1>2, <1>4
<1>7. itemsNow' = Append(itemsNow, nextNow) /\ nextNow' = (nextNow + 1) % CountRange
  BY <1>3, <1>5, Zenon
<1>. QED
  BY <1>1, <1>6, <1>7, Zenon DEF Buffer!Put, itemsNow, nextNow

LEMMA RemoveTakes ==
  ASSUME IInv, Work("consumer")
  PROVE  Buffer!Take
<1> USE BufferAssumption
<1>0. TypeOK /\ Conserved /\ PointersFit
  BY ConservedNow DEF IInv
<1>1. /\ pc["consumer"] = "work"
      /\ pc' = [pc EXCEPT !["consumer"] = "unlock"]
      /\ value' = shared_buffer[read_ptr] /\ read_ptr' = (read_ptr + 1) % N
      /\ shared_buffer' = shared_buffer /\ count' = count
  BY DEF Work, Goto, remove_item
<1>2. held \in 1 .. N /\ held' = held - 1
  BY <1>0, <1>1, HeldIsBounded, WorkKeeps DEF Workers
<1>3. nextNow' = nextNow
  BY <1>0, <1>1 DEF nextNow, TypeOK, Threads
<1>4. /\ itemsNow \in Seq(Numbers) /\ Len(itemsNow) = held
      /\ itemsNow' \in Seq(Numbers) /\ Len(itemsNow') = held'
  <2>1. TypeOK' /\ held \in 0 .. N /\ held' \in 0 .. N
    BY <1>2, WorkKeeps DEF IInv, Workers
  <2>. QED
    BY <1>0, <2>1, ItemsAreSeq DEF TypeOK, itemsNow
<1>5. itemsNow # <<>> /\ Head(itemsNow) = value'
  <2>1. (read_ptr + 1 - 1) % N = read_ptr
    BY <1>0 DEF TypeOK, Cells
  <2>2. itemsNow[1] = shared_buffer[(read_ptr + 1 - 1) % N]
    BY <1>2 DEF itemsNow
  <2>. QED
    BY <1>1, <1>2, <1>4, <2>1, <2>2
<1>6. itemsNow' = Tail(itemsNow)
  <2>2. ASSUME NEW k \in 1 .. held - 1
        PROVE  itemsNow'[k] = Tail(itemsNow)[k]
    <3>1. itemsNow'[k] = shared_buffer[(read_ptr' + k - 1) % N]
      BY <1>1, <1>2 DEF itemsNow
    <3>2. Tail(itemsNow)[k] = itemsNow[k + 1]
      BY <1>2, <1>4, <1>5
    <3>3. itemsNow[k + 1] = shared_buffer[(read_ptr + (k + 1) - 1) % N]
      BY <1>2 DEF itemsNow
    <3>4. (read_ptr' + k - 1) % N = (read_ptr + (k + 1) - 1) % N
      <4>1. read_ptr \in Cells /\ read_ptr' \in Cells /\ k - 1 \in 0 .. N /\ k \in 0 .. N /\ 1 \in 0 .. N
        BY <1>0, <1>1, <1>2 DEF TypeOK, Cells
      <4>2. /\ read_ptr' = IF read_ptr + 1 < N THEN read_ptr + 1 ELSE read_ptr + 1 - N
            /\ (read_ptr' + (k - 1)) % N
                 = IF read_ptr' + (k - 1) < N THEN read_ptr' + (k - 1) ELSE read_ptr' + (k - 1) - N
            /\ (read_ptr + k) % N = IF read_ptr + k < N THEN read_ptr + k ELSE read_ptr + k - N
        BY <1>1, <4>1, Wrap
      <4>3. read_ptr' + k - 1 = read_ptr' + (k - 1) /\ read_ptr + (k + 1) - 1 = read_ptr + k
        BY <4>1 DEF Cells
      <4>4. (read_ptr' + (k - 1)) % N = (read_ptr + k) % N
        BY <1>2, <4>1, <4>2 DEF Cells
      <4>. QED
        BY <4>3, <4>4
    <3>. QED
      BY <3>1, <3>2, <3>3, <3>4
  <2>3. Tail(itemsNow) \in Seq(Numbers) /\ Len(Tail(itemsNow)) = held - 1
    BY <1>4, <1>5, HeadTailProperties
  <2>. QED
    BY <1>2, <1>4, <2>2, <2>3, SeqEqual
<1>. QED
  BY <1>3, <1>5, <1>6, Zenon DEF Buffer!Take, itemsNow, nextNow

(* Signal's count++ is what the insertion announced. *)
LEMMA NextStays ==
  ASSUME IInv,
         \/ Tick \/ Begin \/ Type
         \/ \E t \in Workers : Check(t) \/ TakeSlot(t) \/ Lock(t) \/ Unlock(t) \/ Signal(t)
                              \/ End(t) \/ Join(t)
  PROVE  nextNow' = nextNow /\ UNCHANGED <<shared_buffer, read_ptr, value>>
<1> USE DEF IInv, TypeOK, BegunInOrder, nextNow, Goto, buffer, Threads, Workers
<1>1. CASE Tick \/ Begin \/ Type
  BY <1>1 DEF Tick, Begin, Type
<1>2. ASSUME NEW t \in Workers, Check(t) \/ TakeSlot(t) \/ Lock(t) \/ Unlock(t) \/ End(t) \/ Join(t)
      PROVE  nextNow' = nextNow /\ UNCHANGED <<shared_buffer, read_ptr, value>>
  BY <1>2 DEF Check, TakeSlot, Lock, Unlock, End, Join
<1>3. ASSUME NEW t \in Workers, Signal(t)
      PROVE  nextNow' = nextNow /\ UNCHANGED <<shared_buffer, read_ptr, value>>
  BY <1>3 DEF Signal
<1>. QED
  BY <1>1, <1>2, <1>3

(* inert_item and remove_item, between the semaphores of main2.cpp, are    *)
(* the Put and the Take of a bounded channel, and nothing else touches     *)
(* it: the consumer reads every number once and in order, whatever the     *)
(* size of the buffer.                                                     *)
THEOREM BufferImplementsChannel == Spec => ImplementsChannel
<1>1. Init => Buffer!Init
  <2> SUFFICES ASSUME Init PROVE Buffer!Init
    OBVIOUS
  <2>1. held = 0 /\ nextNow = 0 /\ value = 0
    BY DEF Init, held, nextNow, Threads
  <2>2. itemsNow = <<>>
    BY <2>1 DEF itemsNow
  <2>. QED
    BY <2>1, <2>2, Zenon DEF Buffer!Init, itemsNow, nextNow
<1>2. IInv /\ [Next]_vars => [Buffer!Next]_(Buffer!vars)
  <2> SUFFICES ASSUME IInv, [Next]_vars PROVE [Buffer!Next]_(Buffer!vars)
    OBVIOUS
  <2>1. CASE UNCHANGED vars
    <3>1. held' = held /\ nextNow' = nextNow /\ UNCHANGED <<shared_buffer, read_ptr, value>>
      BY <2>1 DEF held, nextNow, vars, buffer, semaphores
    <3>. QED
      BY <3>1, OtherStepsStutter
  <2>2. CASE Tick \/ Begin \/ Type
    <3>1. held' = held
      BY <2>2, TickKeeps, BeginKeeps, TypeKeeps
    <3>. QED
      BY <2>2, <3>1, NextStays, OtherStepsStutter
  <2>3. ASSUME NEW t \in Workers,
               Check(t) \/ TakeSlot(t) \/ Lock(t) \/ Unlock(t) \/ Signal(t) \/ End(t) \/ Join(t)
        PROVE  [Buffer!Next]_(Buffer!vars)
    <3>1. held' = held
      BY <2>3, CheckKeeps, TakeSlotKeeps, LockKeeps, UnlockKeeps, SignalKeeps, EndKeeps, JoinKeeps
    <3>. QED
      BY <2>3, <3>1, NextStays, OtherStepsStutter
  <2>4. ASSUME NEW t \in Workers, Work(t)
        PROVE  [Buffer!Next]_(Buffer!vars)
    <3>1. CASE t = "producer"
      BY <2>4, <3>1, InsertPuts DEF Buffer!Next
    <3>2. CASE t = "consumer"
      BY <2>4, <3>2, RemoveTakes DEF Buffer!Next
    <3>. QED
      BY <3>1, <3>2 DEF Workers
  <2>. QED
    BY <2>1, <2>2, <2>3, <2>4 DEF Next, Step, Worker
<1>. QED
  BY <1>1, <1>2, InvariantsHold, PTL DEF Spec, ImplementsChannel, Buffer!Spec

===========================================================================

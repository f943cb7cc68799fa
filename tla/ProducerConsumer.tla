------------------------- MODULE ProducerConsumer --------------------------
(***************************************************************************)
(* producer_consumer/main2.cpp: two NovaThreads, a ring buffer between     *)
(* them, three NovaSemaphores, and a main thread that starts and joins     *)
(* both.                                                                   *)
(*                                                                         *)
(* Time passes in whole seconds, at any moment: threads may be as slow as  *)
(* they like.  Whether the program can be quit rests on the sleeps, and so *)
(* on threads that are not: `late' remembers that a second passed while a  *)
(* thread had something to do.                                             *)
(***************************************************************************)
EXTENDS Integers, FiniteSets, Sequences

CONSTANTS
  N,          \* the cells of the buffer: 10
  CountRange  \* the producer's numbers wrap here; an int, and more than N

ASSUME BufferAssumption ==
  /\ N \in Nat \ {0}
  /\ CountRange \in Nat
  /\ CountRange > N

VARIABLES
  shared_buffer,  \* MyBuffer::shared_buffer
  write_ptr,      \* MyBuffer::write_ptr
  read_ptr,       \* MyBuffer::read_ptr
  mutex,          \* the counts of the semaphores
  empty,
  full,
  count,          \* the producer's number
  value,          \* the number the consumer read last
  pc,             \* where each thread is
  nap,            \* the seconds each thread still sleeps
  ending,         \* the threads that isEnding() tells to stop
  late            \* history: a second passed and some thread was not idle

buffer == <<shared_buffer, write_ptr, read_ptr, count, value>>
semaphores == <<mutex, empty, full>>
vars == <<buffer, semaphores, pc, nap, ending, late>>

Threads == {"producer", "consumer", "main"}
Workers == {"producer", "consumer"}
Cells == 0 .. N - 1
Numbers == 0 .. CountRange - 1

Labels ==
  {"off", "check", "slot", "lock", "work", "unlock", "signal", "done",
   "begin", "started", "prompt", "end producer", "join producer",
   "end consumer", "join consumer", "exit"}

(* Mutant: the producer is the slower of the two. *)
producerNap_Long == 5

(* The seconds slept by main, and by the workers after each item. *)
mainNap == 1
producerNap == 1
consumerNap == 2

(* The types, and that no semaphore falls below zero or counts past N. *)
TypeOK ==
  /\ shared_buffer \in [Cells -> Numbers]
  /\ write_ptr \in Cells
  /\ read_ptr \in Cells
  /\ mutex \in 0 .. 1
  /\ empty \in 0 .. N
  /\ full \in 0 .. N
  /\ count \in Numbers
  /\ value \in Numbers
  /\ pc \in [Threads -> Labels]
  /\ nap \in [Threads -> 0 .. 2]
  /\ ending \subseteq Workers
  /\ late \in BOOLEAN

Init ==
  /\ shared_buffer = [i \in Cells |-> 0]
  /\ write_ptr = 0
  /\ read_ptr = 0
  /\ mutex = 1
  /\ empty = N
  /\ full = 0
  /\ count = 0
  /\ value = 0
  /\ pc = [t \in Threads |-> IF t = "main" THEN "begin" ELSE "off"]
  /\ nap = [t \in Threads |-> 0]
  /\ ending = {}
  /\ late = FALSE

Goto(t, from, label) ==
  /\ pc[t] = from
  /\ nap[t] = 0
  /\ pc' = [pc EXCEPT ![t] = label]

---------------------------------------------------------------------------

(* NovaThread::isEnding at the head of a worker's loop. *)
Check(t) ==
  /\ Goto(t, "check", IF t \in ending THEN "done" ELSE "slot")
  /\ UNCHANGED <<buffer, semaphores, nap, ending, late>>

(* empty.wait() of the producer, full.wait() of the consumer. *)
TakeSlot(t) ==
  /\ Goto(t, "slot", "lock")
  /\ IF t = "producer"
     THEN empty > 0 /\ empty' = empty - 1 /\ UNCHANGED full
     ELSE full > 0 /\ full' = full - 1 /\ UNCHANGED empty
  /\ UNCHANGED <<buffer, mutex, nap, ending, late>>

(* Mutant: nobody waits for the mutex. *)
Lock_Free(t) ==
  /\ Goto(t, "lock", "work")
  /\ mutex' = 0
  /\ UNCHANGED <<buffer, empty, full, nap, ending, late>>

Lock(t) ==
  /\ Goto(t, "lock", "work")
  /\ mutex = 1
  /\ mutex' = 0
  /\ UNCHANGED <<buffer, empty, full, nap, ending, late>>

(* Mutant: the read pointer wraps one cell early. *)
remove_item_Early ==
  /\ value' = shared_buffer[read_ptr]
  /\ read_ptr' = IF read_ptr + 2 >= N THEN 0 ELSE read_ptr + 1
  /\ UNCHANGED <<shared_buffer, write_ptr, count>>

inert_item ==
  /\ shared_buffer' = [shared_buffer EXCEPT ![write_ptr] = count]
  /\ write_ptr' = (write_ptr + 1) % N
  /\ UNCHANGED <<read_ptr, count, value>>

remove_item ==
  /\ value' = shared_buffer[read_ptr]
  /\ read_ptr' = (read_ptr + 1) % N
  /\ UNCHANGED <<shared_buffer, write_ptr, count>>

Work(t) ==
  /\ Goto(t, "work", "unlock")
  /\ IF t = "producer" THEN inert_item ELSE remove_item
  /\ UNCHANGED <<semaphores, nap, ending, late>>

Unlock(t) ==
  /\ Goto(t, "unlock", "signal")
  /\ mutex' = mutex + 1
  /\ UNCHANGED <<buffer, empty, full, nap, ending, late>>

(* full.post() and count++ of the producer, empty.post() of the consumer,  *)
(* and the sleep.                                                          *)
Signal(t) ==
  /\ Goto(t, "signal", "check")
  /\ IF t = "producer"
     THEN /\ full' = full + 1
          /\ count' = (count + 1) % CountRange
          /\ nap' = [nap EXCEPT ![t] = producerNap]
          /\ UNCHANGED empty
     ELSE /\ empty' = empty + 1
          /\ nap' = [nap EXCEPT ![t] = consumerNap]
          /\ UNCHANGED <<full, count>>
  /\ UNCHANGED <<shared_buffer, write_ptr, read_ptr, value, mutex, ending, late>>

Worker(t) ==
  Check(t) \/ TakeSlot(t) \/ Lock(t) \/ Work(t) \/ Unlock(t) \/ Signal(t)

---------------------------------------------------------------------------

(* main: p.begin() and a sleep, then c.begin(). *)
Begin ==
  /\ nap["main"] = 0
  /\ \/ /\ pc["main"] = "begin"
        /\ pc' = [pc EXCEPT !["main"] = "started", !["producer"] = "check"]
        /\ nap' = [nap EXCEPT !["main"] = mainNap]
     \/ /\ pc["main"] = "started"
        /\ pc' = [pc EXCEPT !["main"] = "prompt", !["consumer"] = "check"]
        /\ UNCHANGED nap
  /\ UNCHANGED <<buffer, semaphores, ending, late>>

(* The user answers scanf, whenever that may be. *)
Type ==
  /\ Goto("main", "prompt", "end producer")
  /\ UNCHANGED <<buffer, semaphores, nap, ending, late>>

(* p.end(), then c.end(): NovaThread::end tells the thread to stop and,    *)
(* its grace period being negative, joins it however long that takes.      *)
End(t) ==
  /\ Goto("main", IF t = "producer" THEN "end producer" ELSE "end consumer",
                  IF t = "producer" THEN "join producer" ELSE "join consumer")
  /\ ending' = ending \cup {t}
  /\ UNCHANGED <<buffer, semaphores, nap, late>>

Join(t) ==
  /\ Goto("main", IF t = "producer" THEN "join producer" ELSE "join consumer",
                  IF t = "producer" THEN "end consumer" ELSE "exit")
  /\ pc[t] = "done"
  /\ UNCHANGED <<buffer, semaphores, nap, ending, late>>

(* A thread that sleeps, waits for another or has nothing left to do. *)
idle(t) ==
  \/ nap[t] > 0
  \/ pc[t] \in {"off", "done", "prompt", "exit"}
  \/ pc[t] = "slot" /\ (IF t = "producer" THEN empty ELSE full) = 0
  \/ pc[t] = "lock" /\ mutex = 0
  \/ pc[t] = "join producer" /\ pc["producer"] # "done"
  \/ pc[t] = "join consumer" /\ pc["consumer"] # "done"

(* A second passes. *)
Tick ==
  /\ \E t \in Threads : nap[t] > 0
  /\ nap' = [t \in Threads |-> IF nap[t] > 0 THEN nap[t] - 1 ELSE 0]
  /\ late' = (late \/ \E t \in Threads : ~idle(t))
  /\ UNCHANGED <<buffer, semaphores, pc, ending>>

Step == Begin \/ Type \/ \E t \in Workers : Worker(t) \/ End(t) \/ Join(t)

Next == Tick \/ Step

Spec == Init /\ [][Next]_vars

(* The clock and each thread go on.  The user owes no answer. *)
FairSpec ==
  /\ Spec
  /\ WF_vars(Tick) /\ WF_vars(Begin)
  /\ \A t \in Workers : WF_vars(Worker(t)) /\ WF_vars(End(t)) /\ WF_vars(Join(t))

---------------------------------------------------------------------------

(* The cells a thread has taken from a semaphore and not given to the      *)
(* other one yet.                                                          *)
inHand == Cardinality({t \in Workers : pc[t] \in {"lock", "work", "unlock", "signal"}})

(* No wait or post is lost: every cell is empty, full or in the hands of   *)
(* one worker, and nobody works on the buffer without the mutex.           *)
SlotsAreConserved ==
  /\ empty + full + inHand = N
  /\ mutex + Cardinality({t \in Workers : pc[t] \in {"work", "unlock"}}) = 1

(* The items inserted and not removed. *)
held ==
  full + (IF pc["producer"] \in {"unlock", "signal"} THEN 1 ELSE 0)
       + (IF pc["consumer"] \in {"lock", "work"} THEN 1 ELSE 0)

Buffer == INSTANCE Channel WITH
  items <- [k \in 1 .. held |-> shared_buffer[(read_ptr + k - 1) % N]],
  next  <- IF pc["producer"] \in {"unlock", "signal"} THEN (count + 1) % CountRange ELSE count,
  got   <- value

(* The ring buffer and its semaphores are a bounded channel.               *)
ImplementsChannel == Buffer!Spec

(* A program that is told to quit does, if its threads are as quick as its *)
(* clock: the consumer, joined last, never waits for an item that the      *)
(* finished producer will not make, because it sleeps longer and so always *)
(* leaves some behind.                                                     *)
QuitTerminates == pc["main"] = "end producer" ~> pc["main"] = "exit" \/ late

============================================================================

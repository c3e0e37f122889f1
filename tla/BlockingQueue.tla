--------------------------- MODULE BlockingQueue ---------------------------
(***************************************************************************)
(* BoundedBlockingQueue of utils/blocking_queue.hpp: a queue under one     *)
(* mutex with a condition variable for each side.                          *)
(*                                                                         *)
(* Every critical section is one action: a thread that is not in a wait    *)
(* set is at the test of its operation's predicate, for the first time or  *)
(* after it was woken, and tests it again with the mutex held.  close()    *)
(* sets its flag under the mutex but notifies after releasing it, so it is *)
(* three steps.  A waiting thread may also wake for no reason.             *)
(*                                                                         *)
(* The threads use the queue as the pipeline in docs/BATCH_PROCESSING_SPEC *)
(* does: producers push what they have, consumers pop until the queue is   *)
(* closed and empty, pollers call try_pop, and one thread closes.          *)
(***************************************************************************)
EXTENDS Integers, Sequences, FiniteSets

CONSTANTS
  Producers, Consumers, Pollers,
  ItemsEach,     \* how many items each producer has
  Capacity       \* capacity_

ASSUME CapacityAssumption == Capacity \in Nat \ {0}   \* the constructor throws on 0
ASSUME ThreadAssumption ==
  /\ IsFiniteSet(Producers) /\ IsFiniteSet(Consumers)
  /\ Producers \cap Consumers = {}
  /\ ItemsEach \in Nat

VARIABLES
  queue,           \* queue_
  closed,          \* closed_
  waitNotFull,     \* producers waiting on cv_not_full_
  waitNotEmpty,    \* consumers waiting on cv_not_empty_
  left,            \* items each producer still has to push
  threw,           \* producers whose push threw
  stopped,         \* consumers whose pop returned false
  closer,          \* how far close() has come
  given, taken     \* history: items pushed and popped, in order

threadVars == <<left, threw, stopped>>
vars == <<queue, closed, waitNotFull, waitNotEmpty, threadVars, closer, given, taken>>

Items == Producers \X (1 .. ItemsEach)
Running(p) == p \notin waitNotFull /\ p \notin threw /\ left[p] > 0
Popping(c) == c \notin waitNotEmpty /\ c \notin stopped

Init ==
  /\ queue = <<>>
  /\ closed = FALSE
  /\ waitNotFull = {} /\ waitNotEmpty = {}
  /\ left = [p \in Producers |-> ItemsEach]
  /\ threw = {} /\ stopped = {}
  /\ closer = "open"
  /\ given = <<>> /\ taken = <<>>

\* cv.notify_one(): one of the threads that wait, when there is one
Woken(waiting) == IF waiting = {} THEN {waiting} ELSE {waiting \ {t} : t \in waiting}

----------------------------------------------------------------------------
(* push *)

PushBlocks(p) ==
  /\ Running(p)
  /\ Len(queue) >= Capacity /\ ~closed
  /\ waitNotFull' = waitNotFull \cup {p}
  /\ UNCHANGED <<queue, closed, waitNotEmpty, threadVars, closer, given, taken>>

PushThrows(p) ==
  /\ Running(p)
  /\ closed
  /\ threw' = threw \cup {p}
  /\ UNCHANGED <<queue, closed, waitNotFull, waitNotEmpty, left, stopped, closer, given, taken>>

\* Mutants: a woken producer does not test again; the consumer is not woken.
PushItemUntested(p) ==
  /\ Running(p)
  /\ ~closed
  /\ queue' = Append(queue, <<p, left[p]>>)
  /\ given' = Append(given, <<p, left[p]>>)
  /\ left' = [left EXCEPT ![p] = @ - 1]
  /\ waitNotEmpty' \in Woken(waitNotEmpty)
  /\ UNCHANGED <<closed, waitNotFull, threw, stopped, closer, taken>>
PushItemSilently(p) ==
  /\ Running(p)
  /\ Len(queue) < Capacity /\ ~closed
  /\ queue' = Append(queue, <<p, left[p]>>)
  /\ given' = Append(given, <<p, left[p]>>)
  /\ left' = [left EXCEPT ![p] = @ - 1]
  /\ UNCHANGED <<closed, waitNotFull, waitNotEmpty, threw, stopped, closer, taken>>

PushItem(p) ==
  /\ Running(p)
  /\ Len(queue) < Capacity /\ ~closed
  /\ queue' = Append(queue, <<p, left[p]>>)
  /\ given' = Append(given, <<p, left[p]>>)
  /\ left' = [left EXCEPT ![p] = @ - 1]
  /\ waitNotEmpty' \in Woken(waitNotEmpty)
  /\ UNCHANGED <<closed, waitNotFull, threw, stopped, closer, taken>>

----------------------------------------------------------------------------
(* pop and try_pop *)

PopBlocks(c) ==
  /\ Popping(c)
  /\ queue = <<>> /\ ~closed
  /\ waitNotEmpty' = waitNotEmpty \cup {c}
  /\ UNCHANGED <<queue, closed, waitNotFull, threadVars, closer, given, taken>>

\* Mutant: a closed queue ends the consumer with items still in it.
PopReturnsFalseEarly(c) ==
  /\ Popping(c)
  /\ closed
  /\ stopped' = stopped \cup {c}
  /\ UNCHANGED <<queue, closed, waitNotFull, waitNotEmpty, left, threw, closer, given, taken>>

PopReturnsFalse(c) ==
  /\ Popping(c)
  /\ closed /\ queue = <<>>
  /\ stopped' = stopped \cup {c}
  /\ UNCHANGED <<queue, closed, waitNotFull, waitNotEmpty, left, threw, closer, given, taken>>

\* Mutant: the newest item is taken instead of the oldest.
TakeNewest ==
  /\ queue # <<>>
  /\ queue' = SubSeq(queue, 1, Len(queue) - 1)
  /\ taken' = Append(taken, queue[Len(queue)])
  /\ waitNotFull' \in Woken(waitNotFull)
  /\ UNCHANGED <<closed, waitNotEmpty, threadVars, closer, given>>

\* Move the front out and wake a producer: the end of pop and of try_pop
TakeFront ==
  /\ queue # <<>>
  /\ queue' = Tail(queue)
  /\ taken' = Append(taken, Head(queue))
  /\ waitNotFull' \in Woken(waitNotFull)
  /\ UNCHANGED <<closed, waitNotEmpty, threadVars, closer, given>>

PopItem(c) == Popping(c) /\ TakeFront
TryPopItem == Pollers # {} /\ TakeFront    \* try_pop on an empty queue changes nothing

----------------------------------------------------------------------------
(* close *)

Close ==
  /\ closer = "open"
  /\ closed' = TRUE
  /\ closer' = "wakeConsumers"
  /\ UNCHANGED <<queue, waitNotFull, waitNotEmpty, threadVars, given, taken>>

\* Mutant: notify_one where notify_all is needed.
WakeOneConsumer ==
  /\ closer = "wakeConsumers"
  /\ closer' = "wakeProducers"
  /\ waitNotEmpty' \in Woken(waitNotEmpty)
  /\ UNCHANGED <<queue, closed, waitNotFull, threadVars, given, taken>>

WakeConsumers ==
  /\ closer = "wakeConsumers"
  /\ closer' = "wakeProducers"
  /\ waitNotEmpty' = {}
  /\ UNCHANGED <<queue, closed, waitNotFull, threadVars, given, taken>>

WakeProducers ==
  /\ closer = "wakeProducers"
  /\ closer' = "done"
  /\ waitNotFull' = {}
  /\ UNCHANGED <<queue, closed, waitNotEmpty, threadVars, given, taken>>

\* A condition variable may return from wait without a notification.
SpuriousWakeup ==
  /\ \/ \E p \in waitNotFull :
          waitNotFull' = waitNotFull \ {p} /\ UNCHANGED waitNotEmpty
     \/ \E c \in waitNotEmpty :
          waitNotEmpty' = waitNotEmpty \ {c} /\ UNCHANGED waitNotFull
  /\ UNCHANGED <<queue, closed, threadVars, closer, given, taken>>

\* Every thread is through with the queue.
Finished ==
  /\ closer = "done"
  /\ \A p \in Producers : left[p] = 0 \/ p \in threw
  /\ stopped = Consumers
  /\ UNCHANGED vars

Push(p) == PushBlocks(p) \/ PushThrows(p) \/ PushItem(p)
Pop(c) == PopBlocks(c) \/ PopReturnsFalse(c) \/ PopItem(c)
CloseSteps == Close \/ WakeConsumers \/ WakeProducers

Next ==
  \/ \E p \in Producers : Push(p)
  \/ \E c \in Consumers : Pop(c)
  \/ TryPopItem
  \/ CloseSteps
  \/ SpuriousWakeup
  \/ Finished

Spec == Init /\ [][Next]_vars

\* Each thread gets the mutex when it can use it, and close() is called in the
\* end; nobody promises a spurious wakeup or a poll.
Fairness ==
  /\ \A p \in Producers : WF_vars(Push(p))
  /\ \A c \in Consumers : WF_vars(Pop(c))
  /\ WF_vars(CloseSteps)
FairSpec == Spec /\ Fairness

----------------------------------------------------------------------------
(* Properties *)

\* Every variable keeps its type and the queue its capacity.
TypeOK ==
  /\ queue \in Seq(Items) /\ Len(queue) <= Capacity
  /\ closed \in BOOLEAN
  /\ waitNotFull \subseteq Producers
  /\ waitNotEmpty \subseteq Consumers
  /\ left \in [Producers -> 0 .. ItemsEach]
  /\ threw \subseteq Producers
  /\ stopped \subseteq Consumers
  /\ closer \in {"open", "wakeConsumers", "wakeProducers", "done"}
  /\ given \in Seq(Items) /\ taken \in Seq(Items)

\* A consumer that was told there is nothing more is right for good: the queue
\* is closed and drained, and no producer slips an item in behind it.
StoppedMeansDrained ==
  stopped # {} => closed /\ queue = <<>> /\ taken = given

\* No wakeup is lost, although each push and pop notifies one thread only:
\* when a thread waits for what is already there, another thread of its side is
\* on its way to the queue, or close() is about to wake them all.
NoLostWakeup ==
  /\ (waitNotEmpty # {} /\ (queue # <<>> \/ closed)) =>
       (closer = "wakeConsumers" \/ \E c \in Consumers : Popping(c))
  /\ (waitNotFull # {} /\ (Len(queue) < Capacity \/ closed)) =>
       (closer \in {"wakeConsumers", "wakeProducers"} \/ \E p \in Producers : Running(p))

\* The queue implements the bounded channel.
Channel == INSTANCE BoundedChannel WITH open <- ~closed
ImplementsChannel == Channel!Spec

\* Everybody gets away: once close() is called every consumer returns from its
\* last pop, every blocked producer from its push, and every item that was
\* accepted has been handed over.
ShutdownCompletes ==
  closed ~> /\ stopped = Consumers
            /\ \A p \in Producers : left[p] = 0 \/ p \in threw
            /\ taken = given
=============================================================================

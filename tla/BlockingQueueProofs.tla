------------------------ MODULE BlockingQueueProofs ------------------------
(***************************************************************************)
(* For any threads, any capacity and any number of items: the queue keeps  *)
(* its types and its capacity, a consumer is told "no more" only when that *)
(* is so for good, and the queue implements the bounded channel.           *)
(***************************************************************************)
EXTENDS BlockingQueue, SequenceTheorems, FiniteSetTheorems, TLAPS

\* What is in the queue is what was given and not yet taken.
Contents ==
  /\ Len(given) = Len(taken) + Len(queue)
  /\ \A i \in 1 .. Len(queue) : queue[i] = given[Len(taken) + i]
  /\ \A i \in 1 .. Len(taken) : taken[i] = given[i]

Drained == stopped # {} => closed /\ queue = <<>>

IInv == TypeOK /\ Contents /\ Drained

\* notify_one leaves waiting threads that were waiting before.
LEMMA WokenSubset == ASSUME NEW S, NEW W \in Woken(S) PROVE W \subseteq S
BY DEF Woken

LEMMA InitIInv == Init => IInv
<1> SUFFICES ASSUME Init PROVE IInv
  OBVIOUS
<1>1. TypeOK
  <2>1. /\ queue \in Seq(Items) /\ Len(queue) <= Capacity
        /\ given \in Seq(Items) /\ taken \in Seq(Items)
    BY CapacityAssumption DEF Init
  <2>2. left \in [Producers -> 0 .. ItemsEach]
    BY ThreadAssumption DEF Init
  <2>3. closed \in BOOLEAN
    BY DEF Init
  <2> QED BY <2>1, <2>2, <2>3 DEF Init, TypeOK
<1>2. Contents /\ Drained
  BY DEF Init, Contents, Drained
<1> QED BY <1>1, <1>2 DEF IInv

LEMMA PushItemStep == ASSUME IInv, NEW p \in Producers, PushItem(p) PROVE IInv'
<1> DEFINE item == <<p, left[p]>>
<1>1. /\ left \in [Producers -> 0 .. ItemsEach] /\ left[p] > 0 /\ left[p] \in 0 .. ItemsEach
      /\ ItemsEach \in Nat
  BY ThreadAssumption DEF IInv, TypeOK, PushItem, Running
<1>2. item \in Items
  BY <1>1 DEF Items
<1>3. left' \in [Producers -> 0 .. ItemsEach]
  BY <1>1 DEF PushItem
<1>4. /\ queue' = Append(queue, item) /\ given' = Append(given, item) /\ taken' = taken
      /\ queue \in Seq(Items) /\ given \in Seq(Items) /\ taken \in Seq(Items)
      /\ Len(queue) < Capacity /\ ~closed
      /\ UNCHANGED <<closed, waitNotFull, threw, stopped, closer>>
  BY DEF PushItem, IInv, TypeOK
<1> HIDE DEF item
<1>5. /\ queue' \in Seq(Items) /\ Len(queue') = Len(queue) + 1
      /\ given' \in Seq(Items) /\ Len(given') = Len(given) + 1
      /\ Len(queue) \in Nat /\ Len(given) \in Nat /\ Len(taken) \in Nat
  BY <1>2, <1>4
<1>6. waitNotEmpty' \subseteq Consumers
  BY WokenSubset DEF PushItem, IInv, TypeOK
<1>7. TypeOK'
  BY <1>3, <1>4, <1>5, <1>6, CapacityAssumption DEF IInv, TypeOK
<1>8. Contents'
  <2>1. Len(given') = Len(taken') + Len(queue')
    BY <1>4, <1>5 DEF IInv, Contents
  <2>2. ASSUME NEW i \in 1 .. Len(queue') PROVE queue'[i] = given'[Len(taken') + i]
    <3>1. CASE i = Len(queue) + 1
      BY <1>4, <1>5, <3>1 DEF IInv, Contents
    <3>2. CASE i \in 1 .. Len(queue)
      <4>1. Len(taken) + i \in 1 .. Len(given)
        BY <1>5, <3>2 DEF IInv, Contents
      <4>2. queue'[i] = queue[i]
        BY <1>4, <3>2
      <4>3. given'[Len(taken) + i] = given[Len(taken) + i]
        BY <1>4, <4>1
      <4>4. queue[i] = given[Len(taken) + i]
        BY <3>2 DEF IInv, Contents
      <4> QED BY <1>4, <4>2, <4>3, <4>4
    <3> QED BY <1>5, <3>1, <3>2
  <2>3. ASSUME NEW i \in 1 .. Len(taken') PROVE taken'[i] = given'[i]
    <3>1. i \in 1 .. Len(given) /\ i \in 1 .. Len(taken)
      BY <1>4, <1>5 DEF IInv, Contents
    <3> QED BY <1>4, <1>5, <3>1 DEF IInv, Contents
  <2> QED BY <2>1, <2>2, <2>3 DEF Contents
<1>9. Drained'
  BY <1>4 DEF IInv, Drained
<1> QED BY <1>7, <1>8, <1>9 DEF IInv

LEMMA TakeFrontStep == ASSUME IInv, TakeFront PROVE IInv'
<1>1. /\ queue \in Seq(Items) /\ given \in Seq(Items) /\ taken \in Seq(Items)
      /\ queue # <<>> /\ queue' = Tail(queue) /\ taken' = Append(taken, Head(queue))
      /\ UNCHANGED <<closed, waitNotEmpty, left, threw, stopped, closer, given>>
  BY DEF TakeFront, threadVars, IInv, TypeOK
<1>2. /\ Head(queue) \in Items /\ Head(queue) = queue[1]
      /\ Tail(queue) \in Seq(Items) /\ Len(Tail(queue)) = Len(queue) - 1
      /\ \A i \in 1 .. Len(queue) - 1 : Tail(queue)[i] = queue[i + 1]
      /\ Len(queue) \in Nat /\ Len(queue) > 0 /\ Len(given) \in Nat /\ Len(taken) \in Nat
  BY <1>1, HeadTailProperties, EmptySeq
<1>3. /\ taken' \in Seq(Items) /\ Len(taken') = Len(taken) + 1
      /\ taken'[Len(taken) + 1] = Head(queue)
      /\ \A i \in 1 .. Len(taken) : taken'[i] = taken[i]
  BY <1>1, <1>2
<1>4. waitNotFull' \subseteq Producers
  BY WokenSubset DEF TakeFront, IInv, TypeOK
<1>5. TypeOK'
  BY <1>1, <1>2, <1>3, <1>4, CapacityAssumption DEF IInv, TypeOK
<1>6. Contents'
  <2>1. Len(given') = Len(taken') + Len(queue')
    <3>1. Len(given') = Len(given) /\ Len(queue') = Len(queue) - 1
      BY <1>1, <1>2
    <3>2. Len(given) = Len(taken) + Len(queue)
      BY DEF IInv, Contents
    <3> QED BY <1>2, <1>3, <3>1, <3>2
  <2>2. ASSUME NEW i \in 1 .. Len(queue') PROVE queue'[i] = given'[Len(taken') + i]
    <3>1. i \in 1 .. Len(queue) - 1 /\ i + 1 \in 1 .. Len(queue)
      BY <1>1, <1>2
    <3>2. queue'[i] = queue[i + 1] /\ Len(taken') + i = Len(taken) + (i + 1)
      BY <1>1, <1>2, <1>3, <3>1
    <3> QED BY <1>1, <3>1, <3>2 DEF IInv, Contents
  <2>3. ASSUME NEW i \in 1 .. Len(taken') PROVE taken'[i] = given'[i]
    <3>1. CASE i = Len(taken) + 1
      BY <1>1, <1>2, <1>3, <3>1 DEF IInv, Contents
    <3>2. CASE i \in 1 .. Len(taken)
      BY <1>1, <1>3, <3>2 DEF IInv, Contents
    <3> QED BY <1>2, <1>3, <3>1, <3>2
  <2> QED BY <2>1, <2>2, <2>3 DEF Contents
<1>7. Drained'
  BY <1>1 DEF IInv, Drained
<1> QED BY <1>5, <1>6, <1>7 DEF IInv

\* The other steps leave the items alone.
LEMMA OtherStep ==
  ASSUME IInv,
         \/ \E p \in Producers : PushBlocks(p) \/ PushThrows(p)
         \/ \E c \in Consumers : PopBlocks(c) \/ PopReturnsFalse(c)
         \/ CloseSteps \/ SpuriousWakeup \/ Finished \/ UNCHANGED vars
  PROVE  IInv'
<1> USE DEF threadVars
<1>1. UNCHANGED <<queue, given, taken, left>>
  BY DEF PushBlocks, PushThrows, PopBlocks, PopReturnsFalse, CloseSteps, Close, WakeConsumers,
     WakeProducers, SpuriousWakeup, Finished, vars
<1>2. Contents'
  BY <1>1 DEF IInv, Contents
<1>3. CASE \E p \in Producers : PushBlocks(p) \/ PushThrows(p)
  BY <1>1, <1>2, <1>3 DEF PushBlocks, PushThrows, IInv, TypeOK, Drained
<1>4. CASE \E c \in Consumers : PopBlocks(c) \/ PopReturnsFalse(c)
  BY <1>1, <1>2, <1>4 DEF PopBlocks, PopReturnsFalse, IInv, TypeOK, Drained
<1>5. CASE CloseSteps
  BY <1>1, <1>2, <1>5 DEF CloseSteps, Close, WakeConsumers, WakeProducers, IInv, TypeOK, Drained
<1>6. CASE SpuriousWakeup
  BY <1>1, <1>2, <1>6 DEF SpuriousWakeup, IInv, TypeOK, Drained
<1>7. CASE Finished \/ UNCHANGED vars
  BY <1>1, <1>2, <1>7 DEF Finished, vars, IInv, TypeOK, Drained
<1> QED BY <1>3, <1>4, <1>5, <1>6, <1>7

LEMMA NextIInv == IInv /\ [Next]_vars => IInv'
BY PushItemStep, TakeFrontStep, OtherStep DEF Next, Push, Pop, PopItem, TryPopItem

LEMMA SpecIInv == Spec => []IInv
BY InitIInv, NextIInv, PTL DEF Spec

----------------------------------------------------------------------------
\* The queue never holds more than its capacity.
THEOREM TypeCorrect == Spec => []TypeOK
BY SpecIInv, PTL DEF IInv

\* pop returns false only on a queue that is closed and drained for good.
THEOREM StopsDrained == Spec => []StoppedMeansDrained
<1>1. IInv => StoppedMeansDrained
  <2> SUFFICES ASSUME IInv, stopped # {} PROVE closed /\ queue = <<>> /\ taken = given
    BY DEF StoppedMeansDrained
  <2>1. closed /\ queue = <<>>
    BY DEF IInv, Drained
  <2>2. taken \in Seq(Items) /\ given \in Seq(Items) /\ Len(given) = Len(taken)
    BY <2>1 DEF IInv, TypeOK, Contents
  <2>3. taken = given
    BY <2>2, SeqEqual DEF IInv, Contents
  <2> QED BY <2>1, <2>3
<1> QED BY <1>1, SpecIInv, PTL

LEMMA InitChannel == Init => Channel!Init
BY DEF Init, Channel!Init

LEMMA NextChannel == IInv /\ [Next]_vars => [Channel!Next]_Channel!vars
<1> SUFFICES ASSUME IInv, [Next]_vars PROVE [Channel!Next]_Channel!vars
  OBVIOUS
<1> USE DEF threadVars
<1>1. CASE \E p \in Producers : PushItem(p)
  <2> PICK p \in Producers : PushItem(p)
    BY <1>1
  <2>1. <<p, left[p]>> \in Items
    BY DEF PushItem, Running, IInv, TypeOK, Items
  <2>2. Len(given) - Len(taken) < Capacity
    BY DEF PushItem, IInv, TypeOK, Contents
  <2> QED BY <2>1, <2>2 DEF PushItem, Channel!Next, Channel!Put
<1>2. CASE TakeFront
  <2>1. Head(queue) = given[Len(taken) + 1] /\ Len(taken) < Len(given)
    <3>1. Len(queue) > 0 /\ Head(queue) = queue[1]
      BY <1>2, HeadTailProperties, EmptySeq DEF TakeFront, IInv, TypeOK
    <3> QED BY <3>1 DEF IInv, TypeOK, Contents
  <2> QED BY <1>2, <2>1 DEF TakeFront, Channel!Next, Channel!Take
<1>3. CASE Close
  BY <1>3 DEF Close, Channel!Next, Channel!Shut
<1>4. CASE \/ \E p \in Producers : PushBlocks(p) \/ PushThrows(p)
           \/ \E c \in Consumers : PopBlocks(c) \/ PopReturnsFalse(c)
           \/ WakeConsumers \/ WakeProducers \/ SpuriousWakeup \/ Finished \/ UNCHANGED vars
  BY <1>4 DEF PushBlocks, PushThrows, PopBlocks, PopReturnsFalse, WakeConsumers, WakeProducers,
     SpuriousWakeup, Finished, vars, Channel!vars
<1> QED BY <1>1, <1>2, <1>3, <1>4 DEF Next, Push, Pop, PopItem, TryPopItem, CloseSteps

\* The queue implements the bounded channel: one order, nothing lost or doubled.
THEOREM ChannelImplemented == Spec => ImplementsChannel
BY InitChannel, NextChannel, SpecIInv, PTL DEF Spec, ImplementsChannel, Channel!Spec

----------------------------------------------------------------------------
(* Wakeups *)

\* The producers on their way to the queue, and the room they will find there
Pushing == {p \in Producers : Running(p)}
Room == Capacity - Len(queue)

\* How far close() has come
ClosePhases ==
  /\ closer = "open" <=> ~closed
  /\ closer \in {"wakeProducers", "done"} => waitNotEmpty = {}
  /\ closer = "done" => waitNotFull = {}

\* Whoever waits has something left to do.
Waiters ==
  /\ \A p \in waitNotFull : left[p] > 0 /\ p \notin threw
  /\ \A c \in waitNotEmpty : c \notin stopped

ConsumerOnTheWay ==
  (waitNotEmpty # {} /\ queue # <<>> /\ ~closed) => \E c \in Consumers : Popping(c)

\* One producer for every free place: a woken one that has nothing left after its
\* push takes a place away as well.
ProducersOnTheWay == (waitNotFull # {} /\ ~closed) => Room <= Cardinality(Pushing)

Wakeups == ClosePhases /\ Waiters /\ ConsumerOnTheWay /\ ProducersOnTheWay

LEMMA WokenOne ==
  ASSUME NEW S, NEW W \in Woken(S)
  PROVE  (S = {} /\ W = {}) \/ \E t \in S : W = S \ {t}
BY DEF Woken

LEMMA PushingFinite ==
  /\ IsFiniteSet(Pushing) /\ Cardinality(Pushing) \in Nat
  /\ IsFiniteSet(Pushing') /\ Cardinality(Pushing') \in Nat
<1>1. \A S \in SUBSET Producers : IsFiniteSet(S) /\ Cardinality(S) \in Nat
  BY ThreadAssumption, FS_Subset, FS_CardinalityType DEF ThreadAssumption
<1>2. Pushing \subseteq Producers /\ Pushing' \subseteq Producers
  BY DEF Pushing
<1> QED
  BY <1>1, <1>2

\* The next three say how many producers are on their way after a step.
LEMMA NoneLeaves ==
  ASSUME Pushing \subseteq Pushing', IsFiniteSet(Pushing')
  PROVE  Cardinality(Pushing) <= Cardinality(Pushing')
BY FS_Subset

LEMMA OneLeaves ==
  ASSUME NEW p, Pushing \ {p} \subseteq Pushing', IsFiniteSet(Pushing), IsFiniteSet(Pushing')
  PROVE  Cardinality(Pushing) - 1 <= Cardinality(Pushing')
<1>1. /\ IsFiniteSet(Pushing \ {p})
      /\ Cardinality(Pushing \ {p}) = IF p \in Pushing THEN Cardinality(Pushing) - 1
                                                        ELSE Cardinality(Pushing)
  BY FS_RemoveElement
<1>2. Cardinality(Pushing \ {p}) <= Cardinality(Pushing')
  BY FS_Subset
<1> QED
  BY <1>1, <1>2, PushingFinite

LEMMA OneJoins ==
  ASSUME NEW t, t \notin Pushing, Pushing \cup {t} \subseteq Pushing',
         IsFiniteSet(Pushing), IsFiniteSet(Pushing')
  PROVE  Cardinality(Pushing) + 1 <= Cardinality(Pushing')
<1>1. IsFiniteSet(Pushing \cup {t}) /\ Cardinality(Pushing \cup {t}) = Cardinality(Pushing) + 1
  BY FS_AddElement
<1>2. Cardinality(Pushing \cup {t}) <= Cardinality(Pushing')
  BY FS_Subset
<1> QED
  BY <1>1, <1>2

LEMMA InitWakeups == Init => Wakeups
BY DEF Init, Wakeups, ClosePhases, Waiters, ConsumerOnTheWay, ProducersOnTheWay

LEMMA PushItemWakeups ==
  ASSUME IInv, Wakeups, NEW p \in Producers, PushItem(p) PROVE Wakeups'
<1>1. /\ UNCHANGED <<closed, waitNotFull, threw, stopped, closer>> /\ ~closed
      /\ queue \in Seq(Items) /\ queue' = Append(queue, <<p, left[p]>>)
      /\ left \in [Producers -> 0 .. ItemsEach] /\ left' = [left EXCEPT ![p] = @ - 1]
      /\ waitNotEmpty' \in Woken(waitNotEmpty) /\ p \notin waitNotFull
      /\ waitNotFull \subseteq Producers /\ waitNotEmpty \subseteq Consumers
  BY DEF PushItem, Running, IInv, TypeOK
<1>2. \A q \in Producers : q # p => left'[q] = left[q]
  BY <1>1
<1>3. ClosePhases'
  BY <1>1, WokenSubset DEF Wakeups, ClosePhases
<1>4. Waiters'
  BY <1>1, <1>2, WokenSubset DEF Wakeups, Waiters
<1>5. ConsumerOnTheWay'
  <2> SUFFICES ASSUME waitNotEmpty' # {} PROVE \E c \in Consumers : Popping(c)'
    BY DEF ConsumerOnTheWay
  <2>1. PICK c \in waitNotEmpty : waitNotEmpty' = waitNotEmpty \ {c}
    BY <1>1, WokenOne
  <2> QED
    BY <1>1, <2>1 DEF Wakeups, Waiters, Popping
<1>6. ProducersOnTheWay'
  <2>1. Pushing \ {p} \subseteq Pushing'
    BY <1>1, <1>2 DEF Pushing, Running
  <2>2. Cardinality(Pushing) - 1 <= Cardinality(Pushing')
    BY <2>1, OneLeaves, PushingFinite
  <2>3. Room' = Room - 1 /\ Room \in Int
    <3>1. Len(queue') = Len(queue) + 1 /\ Len(queue) \in Nat
      BY <1>1
    <3> QED BY <3>1, CapacityAssumption DEF Room
  <2> QED
    BY <1>1, <2>2, <2>3, PushingFinite DEF Wakeups, ProducersOnTheWay
<1> QED
  BY <1>3, <1>4, <1>5, <1>6 DEF Wakeups

LEMMA TakeFrontWakeups ==
  ASSUME IInv, Wakeups, TakeFront PROVE Wakeups'
<1>1. /\ UNCHANGED <<closed, waitNotEmpty, left, threw, stopped, closer>>
      /\ queue \in Seq(Items) /\ queue # <<>> /\ queue' = Tail(queue)
      /\ waitNotFull' \in Woken(waitNotFull)
      /\ waitNotFull \subseteq Producers
  BY DEF TakeFront, threadVars, IInv, TypeOK
<1>2. ClosePhases' /\ Waiters'
  BY <1>1, WokenSubset DEF Wakeups, ClosePhases, Waiters
<1>3. ConsumerOnTheWay'
  BY <1>1 DEF Wakeups, ConsumerOnTheWay, Popping
<1>4. ProducersOnTheWay'
  <2> SUFFICES ASSUME waitNotFull' # {}, ~closed PROVE Room' <= Cardinality(Pushing)'
    BY <1>1 DEF ProducersOnTheWay
  <2>1. PICK t \in waitNotFull : waitNotFull' = waitNotFull \ {t}
    BY <1>1, WokenOne
  <2>2. t \notin Pushing /\ Pushing \cup {t} \subseteq Pushing'
    BY <1>1, <2>1 DEF Pushing, Running, Wakeups, Waiters
  <2>3. Cardinality(Pushing) + 1 <= Cardinality(Pushing')
    BY <2>2, OneJoins, PushingFinite
  <2>4. Room' = Room + 1 /\ Room \in Int
    <3>1. Len(queue') = Len(queue) - 1 /\ Len(queue) \in Nat
      BY <1>1, HeadTailProperties
    <3> QED BY <3>1, CapacityAssumption DEF Room
  <2>5. Room <= Cardinality(Pushing)
    BY <2>1 DEF Wakeups, ProducersOnTheWay
  <2> QED
    BY <2>3, <2>4, <2>5, PushingFinite
<1> QED
  BY <1>2, <1>3, <1>4 DEF Wakeups

\* The steps that leave the queue as it is
LEMMA OtherWakeups ==
  ASSUME IInv, Wakeups,
         \/ \E p \in Producers : PushBlocks(p) \/ PushThrows(p)
         \/ \E c \in Consumers : PopBlocks(c) \/ PopReturnsFalse(c)
         \/ CloseSteps \/ SpuriousWakeup \/ Finished \/ UNCHANGED vars
  PROVE  Wakeups'
<1> USE DEF threadVars, Wakeups, ClosePhases, Waiters, ConsumerOnTheWay, Popping, Running
<1>1. CASE \E p \in Producers : PushBlocks(p)
  <2> PICK p \in Producers : PushBlocks(p)
    BY <1>1
  <2>1. Room' <= 0 /\ Room' \in Int
    BY CapacityAssumption DEF CapacityAssumption, PushBlocks, Room, IInv, TypeOK
  <2>2. ProducersOnTheWay'
    BY <2>1, PushingFinite DEF ProducersOnTheWay
  <2> QED
    BY <2>2 DEF PushBlocks
<1>2. CASE \E p \in Producers : PushThrows(p)
  BY <1>2 DEF PushThrows, ProducersOnTheWay
<1>3. CASE \E c \in Consumers : PopBlocks(c)
  <2>1. Pushing' = Pushing
    BY <1>3 DEF PopBlocks, Pushing
  <2>2. ProducersOnTheWay'
    BY <1>3, <2>1 DEF PopBlocks, ProducersOnTheWay, Room
  <2> QED
    BY <1>3, <2>2 DEF PopBlocks
<1>4. CASE \E c \in Consumers : PopReturnsFalse(c)
  BY <1>4 DEF PopReturnsFalse, ProducersOnTheWay
<1>5. CASE CloseSteps
  BY <1>5 DEF CloseSteps, Close, WakeConsumers, WakeProducers, ProducersOnTheWay, IInv, TypeOK
<1>6. CASE SpuriousWakeup
  <2>1. Pushing \subseteq Pushing' /\ Room' = Room
    BY <1>6 DEF SpuriousWakeup, Pushing, Room
  <2>2. Cardinality(Pushing) <= Cardinality(Pushing')
    BY <2>1, NoneLeaves, PushingFinite
  <2>3. Room \in Int
    BY CapacityAssumption DEF Room, IInv, TypeOK
  <2>4. ProducersOnTheWay'
    BY <1>6, <2>1, <2>2, <2>3, PushingFinite DEF SpuriousWakeup, ProducersOnTheWay
  <2> QED
    BY <1>6, <2>4 DEF SpuriousWakeup, IInv, TypeOK
<1>7. CASE Finished \/ UNCHANGED vars
  <2>1. /\ UNCHANGED <<queue, closed, waitNotFull, waitNotEmpty, left, threw, stopped, closer>>
        /\ Pushing' = Pushing /\ Room' = Room
    BY <1>7 DEF Finished, vars, Room, Pushing
  <2>2. ProducersOnTheWay'
    BY <2>1 DEF ProducersOnTheWay
  <2> QED
    BY <2>1, <2>2
<1> QED BY <1>1, <1>2, <1>3, <1>4, <1>5, <1>6, <1>7

LEMMA NextWakeups == IInv /\ Wakeups /\ [Next]_vars => Wakeups'
BY PushItemWakeups, TakeFrontWakeups, OtherWakeups DEF Next, Push, Pop, PopItem, TryPopItem

\* Notifying one thread per push and per pop is enough (blocking_queue.hpp:57 and 84),
\* for any number of producers, consumers and pollers.
THEOREM WakeupsSuffice == Spec => []NoLostWakeup
<1>1. IInv /\ Wakeups => NoLostWakeup
  <2> SUFFICES ASSUME IInv, Wakeups PROVE NoLostWakeup
    OBVIOUS
  <2>1. ASSUME waitNotEmpty # {}, queue # <<>> \/ closed
        PROVE  closer = "wakeConsumers" \/ \E c \in Consumers : Popping(c)
    BY <2>1 DEF Wakeups, ClosePhases, ConsumerOnTheWay, IInv, TypeOK
  <2>2. ASSUME waitNotFull # {}, Len(queue) < Capacity \/ closed
        PROVE  closer \in {"wakeConsumers", "wakeProducers"} \/ \E p \in Producers : Running(p)
    <3>1. CASE closed
      BY <2>2, <3>1 DEF Wakeups, ClosePhases, IInv, TypeOK
    <3>2. CASE ~closed
      <4>1. Cardinality(Pushing) > 0
        BY <2>2, <3>2, CapacityAssumption, PushingFinite
           DEF Wakeups, ProducersOnTheWay, Room, IInv, TypeOK, CapacityAssumption
      <4> QED
        BY <4>1, FS_EmptySet DEF Pushing
    <3> QED
      BY <3>1, <3>2
  <2> QED
    BY <2>1, <2>2 DEF NoLostWakeup
<1> QED
  BY <1>1, InitWakeups, NextWakeups, SpecIInv, PTL DEF Spec
=============================================================================

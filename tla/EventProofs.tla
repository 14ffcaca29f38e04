----------------------------- MODULE EventProofs -----------------------------
(***************************************************************************)
(* Where events come from and where they go.                               *)
(*                                                                         *)
(* The timers for any ids, times and bounds: the type, the map against the *)
(* kernel, when the handler can block on mutex_sm, and that no event is    *)
(* doubled between the kernel and the states.                              *)
(*                                                                         *)
(* The state machine for every set of states, every number of producers    *)
(* and every bound on the events: type correctness, distinct states on the *)
(* stack, and that a worker sleeps over a queued event only when a         *)
(* notification is still to come or fell before the sleep.                 *)
(***************************************************************************)
EXTENDS StateMachine, Timers, SequenceTheorems, FiniteSetTheorems, FunctionTheorems, TLAPS

-----------------------------------------------------------------------------
(* The timers *)

(* get_event never finds the queue empty: only the worker takes.            *)
TakesSomething == wpc = "take" => events # <<>>

IInv == TimersTypeOK /\ RunningInMap /\ StuckOnlyOnOverlap /\ TakesSomething

LEMMA InitIInv == TimersInit => IInv
<1> SUFFICES ASSUME TimersInit PROVE IInv
  OBVIOUS
<1>1. 0 \in Nat /\ 0 \in 0..MaxStarts /\ 0 \in 0..MaxExpiries
  BY TimersAssumption
<1>2. <<>> \in Seq(Ids)
  OBVIOUS
<1>3. TimersTypeOK
  BY <1>1, <1>2 DEF TimersInit, TimersTypeOK
<1>4. RunningInMap /\ StuckOnlyOnOverlap /\ TakesSomething
  BY DEF TimersInit, RunningInMap, StuckOnlyOnOverlap, Stuck, TakesSomething
<1>5. QED
  BY <1>3, <1>4 DEF IInv

(* What Timer::start does to the armed timers and the counter.              *)
LEMMA StartEffect ==
  ASSUME TimersTypeOK, NEW id \in Ids, NEW info \in Infos, Start(id, info)
  PROVE  /\ armed' \subseteq Ids /\ armed' \subseteq armed \cup {id}
         /\ id \in armed' => info.time > 0
         /\ starts' \in [Ids -> Nat]
<1>1. starts[id] + 1 \in Nat
  BY DEF TimersTypeOK
<1>2. QED
  BY <1>1 DEF Start, TimersTypeOK

(* The calls of the worker: only the map, the kernel and the counters.      *)
LEMMA CallStep ==
  ASSUME IInv, NEW id \in Ids,
         \/ \E info \in Infos : CreateTimer(id, info)
         \/ CancelTimer(id) \/ ResetTimer(id)
  PROVE  IInv'
<1>1. Call /\ calls' \in 0..MaxStarts
  <2>1. Call
    BY DEF CreateTimer, CancelTimer, ResetTimer
  <2>2. calls < MaxStarts /\ calls \in 0..MaxStarts /\ calls' = calls + 1
    BY <2>1 DEF Call, IInv, TimersTypeOK
  <2>3. QED
    BY <2>1, <2>2, TimersAssumption
<1>2. /\ timers' \in [Ids -> Infos \cup {None}]
      /\ armed' \subseteq Ids
      /\ starts' \in [Ids -> Nat]
      /\ RunningInMap'
  <2>1. CASE \E info \in Infos : CreateTimer(id, info)
    <3> PICK info \in Infos : CreateTimer(id, info)
      BY <2>1
    <3>1. CASE timers[id] # None /\ Start(id, timers[id]) /\ UNCHANGED timers
      <4>1. timers[id] \in Infos
        BY <3>1 DEF IInv, TimersTypeOK
      <4>2. QED
        BY <3>1, <4>1, StartEffect DEF IInv, TimersTypeOK, RunningInMap
    <3>2. CASE timers' = [timers EXCEPT ![id] = info] /\ Start(id, info)
      <4>1. /\ armed' \subseteq Ids /\ armed' \subseteq armed \cup {id}
            /\ id \in armed' => info.time > 0
            /\ starts' \in [Ids -> Nat]
        BY <3>2, StartEffect DEF IInv
      <4>2. timers' \in [Ids -> Infos \cup {None}] /\ timers'[id] = info
        BY <3>2 DEF IInv, TimersTypeOK
      <4>3. \A j \in Ids \ {id} : timers'[j] = timers[j]
        BY <3>2 DEF IInv, TimersTypeOK
      <4>4. RunningInMap'
        BY <4>1, <4>2, <4>3, NoneIsNoTimer DEF RunningInMap, IInv
      <4>5. QED
        BY <4>1, <4>2, <4>4
    <3>3. CASE UNCHANGED <<timers, armed, starts>>
      BY <3>3 DEF IInv, TimersTypeOK, RunningInMap
    <3>4. QED
      BY <3>1, <3>2, <3>3 DEF CreateTimer
  <2>2. CASE CancelTimer(id)
    BY <2>2 DEF CancelTimer, Stop, IInv, TimersTypeOK, RunningInMap
  <2>3. CASE ResetTimer(id)
    <3>1. timers[id] \in Infos
      BY <2>3 DEF ResetTimer, IInv, TimersTypeOK
    <3>2. QED
      BY <2>3, <3>1, StartEffect DEF ResetTimer, IInv, TimersTypeOK, RunningInMap
  <2>4. QED
    BY <2>1, <2>2, <2>3
<1>3. TimersTypeOK'
  BY <1>1, <1>2 DEF Call, IInv, TimersTypeOK, eventVars, loopVars
<1>4. StuckOnlyOnOverlap' /\ TakesSomething'
  BY <1>1 DEF Call, IInv, StuckOnlyOnOverlap, Stuck, TakesSomething, loopVars, eventVars
<1>5. QED
  BY <1>2, <1>3, <1>4 DEF IInv

LEMMA KernelStep ==
  ASSUME IInv, NEW id \in Ids, Expire(id) \/ \E t \in Threads : Deliver(id, t)
  PROVE  IInv'
<1>1. CASE Expire(id)
  <2>1. expired[id] + 1 \in 0..MaxExpiries
    BY <1>1, TimersAssumption DEF Expire, IInv, TimersTypeOK
  <2>2. TimersTypeOK'
    BY <1>1, <2>1 DEF Expire, IInv, TimersTypeOK, eventVars, loopVars
  <2>3. RunningInMap' /\ StuckOnlyOnOverlap' /\ TakesSomething'
    BY <1>1 DEF Expire, IInv, RunningInMap, StuckOnlyOnOverlap, Stuck,
                TakesSomething, loopVars, eventVars
  <2>4. QED
    BY <2>2, <2>3 DEF IInv
<1>2. ASSUME NEW t \in Threads, Deliver(id, t)
      PROVE  IInv'
  <2>1. TimersTypeOK'
    BY <1>2 DEF Deliver, IInv, TimersTypeOK, kernelVars, eventVars, loopVars
  <2>2. RunningInMap'
    BY <1>2 DEF Deliver, IInv, RunningInMap, kernelVars
  <2>3. StuckOnlyOnOverlap'
    <3>1. t = Worker => overlap'
      BY <1>2, TimersAssumption DEF Deliver, Chooses
    <3>2. t # Worker => frame'[Worker] = frame[Worker]
      BY <1>2 DEF Deliver, IInv, TimersTypeOK, Threads
    <3>3. wpc' = wpc /\ (overlap => overlap')
      BY <1>2 DEF Deliver, loopVars
    <3>4. QED
      BY <3>1, <3>2, <3>3 DEF IInv, StuckOnlyOnOverlap, Stuck
  <2>4. TakesSomething'
    BY <1>2 DEF Deliver, IInv, TakesSomething, loopVars, eventVars
  <2>5. QED
    BY <2>1, <2>2, <2>3, <2>4 DEF IInv
<1>3. QED
  BY <1>1, <1>2

LEMMA HandlerStep ==
  ASSUME IInv, NEW t \in Threads, HandlerPut(t) \/ HandlerReturn(t)
  PROVE  IInv'
<1>1. CASE HandlerPut(t)
  <2>1. events' \in Seq(Ids)
    BY <1>1, AppendProperties DEF HandlerPut, IInv, TimersTypeOK
  <2>2. TimersTypeOK'
    BY <1>1, <2>1 DEF HandlerPut, IInv, TimersTypeOK, kernelVars, loopVars
  <2>3. RunningInMap' /\ StuckOnlyOnOverlap'
    BY <1>1 DEF HandlerPut, IInv, RunningInMap, StuckOnlyOnOverlap, Stuck,
                kernelVars, loopVars
  <2>4. TakesSomething'
    <3>1. events \in Seq(Ids) /\ frame[t] \in Ids
      BY <1>1 DEF HandlerPut, IInv, TimersTypeOK
    <3>2. Append(events, frame[t]) # <<>>
      BY <3>1, AppendProperties
    <3>3. events' # <<>>
      BY <3>2, <1>1 DEF HandlerPut
    <3>4. QED
      BY <3>3 DEF TakesSomething
  <2>5. QED
    BY <2>2, <2>3, <2>4 DEF IInv
<1>2. CASE HandlerReturn(t)
  <2>1. frame' \in [Threads -> Ids \cup {None}]
    BY <1>2 DEF HandlerReturn, IInv, TimersTypeOK
  <2>2. /\ unseen' \in BOOLEAN
        /\ wpc' \in {"wait", "prewait", "asleep", "take", "callback", "done"}
    BY <1>2 DEF HandlerReturn, IInv, TimersTypeOK
  <2>3. TimersTypeOK'
    BY <1>2, <2>1, <2>2 DEF HandlerReturn, IInv, TimersTypeOK, kernelVars
  <2>4. RunningInMap'
    BY <1>2 DEF HandlerReturn, IInv, RunningInMap, kernelVars
  <2>5. StuckOnlyOnOverlap'
    <3>1. wpc' = "take" => wpc = "take"
      BY <1>2 DEF HandlerReturn
    <3>2. frame'[Worker] # None => frame[Worker] # None
      BY <1>2 DEF HandlerReturn, IInv, TimersTypeOK, Threads
    <3>3. QED
      BY <1>2, <3>1, <3>2 DEF HandlerReturn, IInv, StuckOnlyOnOverlap, Stuck
  <2>6. TakesSomething'
    BY <1>2 DEF HandlerReturn, IInv, TakesSomething
  <2>7. QED
    BY <2>3, <2>4, <2>5, <2>6 DEF IInv
<1>3. QED
  BY <1>1, <1>2

LEMMA WorkerMoves ==
  ASSUME IInv, FindNothing \/ WorkerSleep \/ WorkerWakeup \/ Lock \/ Take \/ Return
               \/ ClearTimers
  PROVE  IInv'
<1>1. CASE FindNothing \/ WorkerSleep \/ WorkerWakeup \/ Lock \/ Return
  <2>1. TimersTypeOK'
    BY <1>1 DEF FindNothing, WorkerSleep, WorkerWakeup, Lock, Return, IInv, TimersTypeOK,
                kernelVars, eventVars, Threads
  <2>2. RunningInMap'
    BY <1>1 DEF FindNothing, WorkerSleep, WorkerWakeup, Lock, Return, IInv,
                RunningInMap, kernelVars
  <2>3. frame'[Worker] = None
    BY <1>1 DEF FindNothing, WorkerSleep, WorkerWakeup, Lock, Return
  <2>4. TakesSomething'
    BY <1>1 DEF FindNothing, WorkerSleep, WorkerWakeup, Lock, Return, IInv,
                TakesSomething, eventVars
  <2>5. QED
    BY <2>1, <2>2, <2>3, <2>4 DEF IInv, StuckOnlyOnOverlap, Stuck
<1>2. CASE Take
  <2>1. frame'[Worker] = None
    BY <1>2 DEF Take
  <2>2. TimersTypeOK /\ RunningInMap
    BY DEF IInv
  <2>3. events # <<>>
    BY <1>2 DEF Take, IInv, TakesSomething
  <2>4. Head(events) \in Ids /\ Tail(events) \in Seq(Ids)
    BY <2>2, <2>3, HeadTailProperties DEF TimersTypeOK
  <2>5. handled[Head(events)] + 1 \in Nat
    BY <2>2, <2>4 DEF TimersTypeOK
  <2>6. TimersTypeOK'
    BY <1>2, <2>2, <2>4, <2>5 DEF Take, TimersTypeOK, kernelVars
  <2>7. RunningInMap' /\ TakesSomething'
    BY <1>2, <2>2 DEF Take, RunningInMap, TakesSomething, kernelVars
  <2>8. QED
    BY <2>1, <2>6, <2>7 DEF IInv, StuckOnlyOnOverlap, Stuck
<1>3. CASE ClearTimers
  <2>1. TimersTypeOK'
    BY <1>3 DEF ClearTimers, IInv, TimersTypeOK, eventVars, loopVars
  <2>2. RunningInMap' /\ StuckOnlyOnOverlap' /\ TakesSomething'
    BY <1>3 DEF ClearTimers, IInv, RunningInMap, StuckOnlyOnOverlap, Stuck,
                TakesSomething, loopVars
  <2>3. QED
    BY <2>1, <2>2 DEF IInv
<1>4. QED
  BY <1>1, <1>2, <1>3

THEOREM TimersInv == TimersSpec => []IInv
<1>1. IInv /\ UNCHANGED timersVars => IInv'
  <2> SUFFICES ASSUME IInv, UNCHANGED timersVars PROVE IInv'
    OBVIOUS
  <2>1. TimersTypeOK'
    BY DEF timersVars, IInv, TimersTypeOK
  <2>2. RunningInMap' /\ StuckOnlyOnOverlap' /\ TakesSomething'
    BY DEF timersVars, IInv, RunningInMap, StuckOnlyOnOverlap, Stuck, TakesSomething
  <2>3. QED
    BY <2>1, <2>2 DEF IInv
<1>2. IInv /\ [TimersNext]_timersVars => IInv'
  <2> SUFFICES ASSUME IInv, [TimersNext]_timersVars PROVE IInv'
    OBVIOUS
  <2>1. ASSUME NEW id \in Ids,
               (\E info \in Infos : CreateTimer(id, info)) \/ CancelTimer(id) \/ ResetTimer(id)
        PROVE  IInv'
    BY <2>1, CallStep
  <2>2. ASSUME NEW id \in Ids, Expire(id) \/ \E t \in Threads : Deliver(id, t)
        PROVE  IInv'
    BY <2>2, KernelStep
  <2>3. ASSUME NEW t \in Threads, HandlerPut(t) \/ HandlerReturn(t) PROVE IInv'
    BY <2>3, HandlerStep
  <2>4. CASE FindNothing \/ WorkerSleep \/ WorkerWakeup \/ Lock \/ Take \/ Return \/ ClearTimers
    BY <2>4, WorkerMoves
  <2>5. QED
    BY <1>1, <2>1, <2>2, <2>3, <2>4 DEF TimersNext
<1>3. QED
  BY InitIInv, <1>2, PTL DEF TimersSpec

(* Every variable of the timers keeps its type.                             *)
THEOREM TimersTypeCorrect == TimersSpec => []TimersTypeOK
BY TimersInv, PTL DEF IInv

(* A timer that runs is in the map (create_timer, cancel_timer, stop).      *)
THEOREM RunningInMapCorrect == TimersSpec => []RunningInMap
BY TimersInv, PTL DEF IInv

(* The handler blocks on mutex_sm only after two signals overlapped.        *)
THEOREM StuckOnlyOnOverlapCorrect == TimersSpec => []StuckOnlyOnOverlap
BY TimersInv, PTL DEF IInv
-----------------------------------------------------------------------------
(* Counting the events of a timer.                                          *)

(* How often an id stands in a queue.                                       *)
Occurrences(q, id) == Cardinality({i \in DOMAIN q : q[i] = id})

LEMMA CountType ==
  ASSUME NEW S, NEW q \in Seq(S), NEW id
  PROVE  Occurrences(q, id) \in Nat /\ IsFiniteSet({i \in DOMAIN q : q[i] = id})
<1>1. IsFiniteSet(1..Len(q)) /\ DOMAIN q = 1..Len(q)
  BY FS_Interval, LenProperties
<1>2. {i \in DOMAIN q : q[i] = id} \in SUBSET (1..Len(q))
  BY <1>1
<1>3. QED
  BY <1>1, <1>2, FS_Subset, FS_CardinalityType DEF Occurrences

(* push_back adds one of its own id ...                                     *)
LEMMA CountAppend ==
  ASSUME NEW S, NEW q \in Seq(S), NEW v \in S, NEW id
  PROVE  Occurrences(Append(q, v), id) = Occurrences(q, id) + (IF v = id THEN 1 ELSE 0)
<1> DEFINE C == {i \in DOMAIN q : q[i] = id}
           D == {i \in DOMAIN Append(q, v) : Append(q, v)[i] = id}
<1>1. /\ DOMAIN q = 1..Len(q) /\ Len(q) \in Nat
      /\ DOMAIN Append(q, v) = 1 .. Len(q) + 1
      /\ \A i \in 1..Len(q) : Append(q, v)[i] = q[i]
      /\ Append(q, v)[Len(q) + 1] = v
  BY AppendProperties, LenProperties
<1>2. D = IF v = id THEN C \cup {Len(q) + 1} ELSE C
  BY <1>1
<1>3. Len(q) + 1 \notin C
  BY <1>1
<1>4. IsFiniteSet(C)
  BY CountType
<1>5. Cardinality(D) = Cardinality(C) + (IF v = id THEN 1 ELSE 0)
  <2> HIDE DEF C, D
  <2>1. Cardinality(C) \in Nat
    BY <1>4, FS_CardinalityType
  <2>2. CASE v = id
    BY <2>1, <2>2, <1>2, <1>3, <1>4, FS_AddElement
  <2>3. CASE v # id
    BY <2>1, <2>3, <1>2
  <2>4. QED
    BY <2>2, <2>3
<1>6. QED
  BY <1>5 DEF Occurrences

(* ... and pop_front removes the first one.                                 *)
LEMMA CountTail ==
  ASSUME NEW S, NEW q \in Seq(S), q # <<>>, NEW id
  PROVE  Occurrences(q, id) = Occurrences(Tail(q), id) + (IF Head(q) = id THEN 1 ELSE 0)
<1> DEFINE C == {i \in DOMAIN Tail(q) : Tail(q)[i] = id}
           D == {i \in 2..Len(q) : q[i] = id}
           E == {i \in DOMAIN q : q[i] = id}
           f == [i \in C |-> i + 1]
<1>1. /\ DOMAIN q = 1..Len(q) /\ Len(q) \in Nat \ {0} /\ Head(q) = q[1]
      /\ DOMAIN Tail(q) = 1 .. Len(q) - 1
      /\ \A i \in 1 .. Len(q) - 1 : Tail(q)[i] = q[i + 1]
      /\ Tail(q) \in Seq(S)
  BY HeadTailProperties, EmptySeq, LenProperties
<1>2. f \in Bijection(C, D)
  <2>1. f \in [C -> D]
    BY <1>1
  <2>2. \A i, j \in C : f[i] = f[j] => i = j
    BY <1>1
  <2>3. \A d \in D : \E i \in C : f[i] = d
    <3> TAKE d \in D
    <3>1. d - 1 \in C /\ f[d - 1] = d
      BY <1>1
    <3>2. QED
      BY <3>1
  <2>4. QED
    BY <2>1, <2>2, <2>3, Fun_IsBij
<1>3. IsFiniteSet(C) /\ IsFiniteSet(D) /\ Cardinality(D) = Cardinality(C)
  <2>1. IsFiniteSet(C)
    BY <1>1, CountType
  <2> HIDE DEF C, D, f
  <2>2. ExistsBijection(C, D)
    BY <1>2 DEF ExistsBijection
  <2>3. QED
    BY <2>1, <2>2, FS_Bijection
<1>4. E = (IF Head(q) = id THEN D \cup {1} ELSE D) /\ 1 \notin D
  BY <1>1
<1>5. Cardinality(E) = Cardinality(D) + (IF Head(q) = id THEN 1 ELSE 0)
  <2> HIDE DEF D, E
  <2>1. Cardinality(D) \in Nat
    BY <1>3, FS_CardinalityType
  <2>2. CASE Head(q) = id
    BY <2>1, <2>2, <1>3, <1>4, FS_AddElement
  <2>3. CASE Head(q) # id
    BY <2>1, <2>3, <1>4
  <2>4. QED
    BY <2>2, <2>3
<1>6. QED
  BY <1>3, <1>5 DEF Occurrences
-----------------------------------------------------------------------------
(* From the kernel to the states.                                           *)

(* The handler of thread t is on its way with the signal of id.             *)
Carries(f, h, stuck, t, id) == IF f[t] = id /\ (h # t \/ stuck) THEN 1 ELSE 0
Carried(t, id) == Carries(frame, holder, Stuck, t, id)

LEMMA CarriedCount ==
  ASSUME NEW f, NEW h, NEW stuck, NEW id
  PROVE  Cardinality({t \in Threads : f[t] = id /\ (h # t \/ stuck)})
           = Carries(f, h, stuck, Main, id) + Carries(f, h, stuck, Worker, id)
<1> DEFINE C == {t \in Threads : f[t] = id /\ (h # t \/ stuck)}
           m == f[Main] = id /\ (h # Main \/ stuck)
           w == f[Worker] = id /\ (h # Worker \/ stuck)
<1>1. /\ Cardinality({}) = 0
      /\ Cardinality({Main}) = 1 /\ Cardinality({Worker}) = 1
      /\ IsFiniteSet({Main})
  BY FS_EmptySet, FS_Singleton
<1>2. Cardinality({Main} \cup {Worker}) = 2
  <2>1. Worker \notin {Main}
    BY TimersAssumption
  <2>2. Cardinality({Main} \cup {Worker}) = Cardinality({Main}) + 1
    BY <2>1, <1>1, FS_AddElement
  <2>3. QED
    BY <2>2, <1>1
<1>3. CASE m /\ w
  <2>1. C = {Main} \cup {Worker}
    BY <1>3 DEF Threads
  <2>2. QED
    BY <2>1, <1>2, <1>3 DEF Carries
<1>4. CASE m /\ ~w
  <2>1. C = {Main}
    BY <1>4 DEF Threads
  <2>2. QED
    BY <2>1, <1>1, <1>4 DEF Carries
<1>5. CASE ~m /\ w
  <2>1. C = {Worker}
    BY <1>5 DEF Threads
  <2>2. QED
    BY <2>1, <1>1, <1>5 DEF Carries
<1>6. CASE ~m /\ ~w
  <2>1. C = {}
    BY <1>6 DEF Threads
  <2>2. QED
    BY <2>1, <1>1, <1>6 DEF Carries
<1>7. QED
  BY <1>3, <1>4, <1>5, <1>6

(* mutex_sm is held in get_event or by a handler that pushed its event.     *)
HolderInv ==
  /\ wpc = "take" => holder = Worker
  /\ \A t \in Threads : holder = t => frame[t] # None \/ (t = Worker /\ wpc = "take")

(* Every signal is in one place: queued in the kernel, carried by a         *)
(* handler, in the queue or handled.                                        *)
Pending(id) == IF id \in pending THEN 1 ELSE 0

EventsInv ==
  \A id \in Ids :
    handled[id] + Occurrences(events, id) + Carried(Main, id) + Carried(Worker, id)
      + Pending(id) <= expired[id]

(* A timer expires once per start; one that is not in the map did not       *)
(* expire yet, or the map was cleared after the worker ended.               *)
StartsInv ==
  \A id \in Ids :
    /\ timers[id] = None => expired[id] = 0 \/ wpc = "done"
    /\ (timers[id] # None /\ ~timers[id].interval) =>
         expired[id] + (IF id \in armed THEN 1 ELSE 0) <= starts[id]

(* All of them are numbers.                                                 *)
LEMMA Numbers ==
  ASSUME TimersTypeOK, NEW id \in Ids
  PROVE  /\ handled[id] \in Nat /\ Occurrences(events, id) \in Nat
         /\ Carried(Main, id) \in {0, 1} /\ Carried(Worker, id) \in {0, 1}
         /\ Pending(id) \in {0, 1} /\ expired[id] \in Nat
<1>1. handled[id] \in Nat /\ events \in Seq(Ids) /\ expired[id] \in Nat
  BY TimersAssumption DEF TimersTypeOK
<1>2. Occurrences(events, id) \in Nat
  BY <1>1, CountType
<1>3. QED
  BY <1>1, <1>2 DEF Carried, Carries, Pending

LEMMA EventsMean == TimersTypeOK /\ EventsInv /\ StartsInv => OneEventPerStart
<1> SUFFICES ASSUME TimersTypeOK, EventsInv, StartsInv, NEW id \in Ids
             PROVE  /\ Arrived(id) + OnTheWay(id) <= expired[id]
                    /\ (timers[id] # None /\ ~timers[id].interval) =>
                         expired[id] + (IF id \in armed THEN 1 ELSE 0) <= starts[id]
  BY DEF OneEventPerStart
<1>1. OnTheWay(id) = Carried(Main, id) + Carried(Worker, id) + Pending(id)
  BY CarriedCount DEF OnTheWay, Carried, Pending
<1>2. Arrived(id) = handled[id] + Occurrences(events, id)
  BY DEF Arrived, Occurrences
<1>3. Arrived(id) + OnTheWay(id) <= expired[id]
  BY <1>1, <1>2, Numbers DEF EventsInv
<1>4. QED
  BY <1>3 DEF StartsInv

(* The steps that leave the queue and the handlers alone.                   *)
LEMMA EventsQuiet ==
  ASSUME TimersTypeOK, EventsInv, UNCHANGED <<handled, events, frame, holder, expired>>,
         pending' \subseteq pending, Stuck' = Stuck
  PROVE  EventsInv'
<1> SUFFICES ASSUME NEW id \in Ids
             PROVE  handled'[id] + Occurrences(events', id) + Carried(Main, id)'
                      + Carried(Worker, id)' + Pending(id)' <= expired'[id]
  BY DEF EventsInv
<1>1. Carried(Main, id)' = Carried(Main, id) /\ Carried(Worker, id)' = Carried(Worker, id)
  BY DEF Carried
<1>2. Pending(id)' <= Pending(id) /\ Pending(id)' \in {0, 1}
  BY DEF Pending
<1>3. QED
  BY <1>1, <1>2, Numbers DEF EventsInv

(* An expiry queues at most one signal ...                                  *)
LEMMA EventsExpire ==
  ASSUME TimersTypeOK, EventsInv, NEW j \in Ids, Expire(j)
  PROVE  EventsInv'
<1> SUFFICES ASSUME NEW id \in Ids
             PROVE  handled'[id] + Occurrences(events', id) + Carried(Main, id)'
                      + Carried(Worker, id)' + Pending(id)' <= expired'[id]
  BY DEF EventsInv
<1>1. UNCHANGED <<handled, events, frame, holder, wpc>>
  BY DEF Expire, eventVars, loopVars
<1>2. Carried(Main, id)' = Carried(Main, id) /\ Carried(Worker, id)' = Carried(Worker, id)
  BY <1>1 DEF Carried, Stuck
<1>3. IF id = j THEN expired'[id] = expired[id] + 1 /\ Pending(id)' = 1
      ELSE expired'[id] = expired[id] /\ Pending(id)' = Pending(id)
  BY DEF Expire, TimersTypeOK, Pending
<1>4. QED
  BY <1>1, <1>2, <1>3, Numbers DEF EventsInv

(* ... which one thread takes ...                                           *)
LEMMA EventsDeliver ==
  ASSUME TimersTypeOK, HolderInv, EventsInv, NEW j \in Ids, NEW t \in Threads, Deliver(j, t)
  PROVE  EventsInv'
<1> SUFFICES ASSUME NEW id \in Ids
             PROVE  handled'[id] + Occurrences(events', id) + Carried(Main, id)'
                      + Carried(Worker, id)' + Pending(id)' <= expired'[id]
  BY DEF EventsInv
<1>1. /\ UNCHANGED <<handled, events, expired, holder, wpc>>
      /\ j \in pending /\ pending' = pending \ {j}
      /\ frame[t] = None /\ frame' = [frame EXCEPT ![t] = j]
  BY DEF Deliver, eventVars, loopVars
<1>2. \A u \in Threads \ {t} : frame'[u] = frame[u] /\ frame'[t] = j
  BY <1>1 DEF TimersTypeOK
<1>3. Worker \in Threads /\ Main \in Threads /\ Main # Worker /\ None \notin Ids
  BY TimersAssumption DEF Threads
<1>4. \A u \in Threads \ {t} : Carried(u, id)' = Carried(u, id)
  <2> TAKE u \in Threads \ {t}
  <2>1. CASE t = Main
    BY <2>1, <1>1, <1>2, <1>3 DEF Carried, Carries, Stuck, Threads
  <2>2. CASE t = Worker
    <3>1. u = Main
      BY <2>2 DEF Threads
    <3>2. Stuck' => holder = Worker
      BY <1>1 DEF Stuck, HolderInv
    <3>3. ~Stuck
      BY <2>2, <1>1 DEF Stuck
    <3>4. QED
      BY <3>1, <3>2, <3>3, <1>1, <1>2, <1>3 DEF Carried, Carries
  <2>3. QED
    BY <2>1, <2>2 DEF Threads
<1>5. Carried(t, id) = 0 /\ Carried(t, id)' \in {0, 1}
  BY <1>1, <1>3 DEF Carried, Carries
<1>6. id # j => Carried(t, id)' = 0 /\ Pending(id)' = Pending(id)
  BY <1>1, <1>2, <1>3 DEF Carried, Carries, Pending, TimersTypeOK
<1>7. id = j => Pending(id) = 1 /\ Pending(id)' = 0
  BY <1>1 DEF Pending
<1>8. CASE t = Main
  BY <1>8, <1>1, <1>3, <1>4, <1>5, <1>6, <1>7, Numbers DEF EventsInv
<1>9. CASE t = Worker
  BY <1>9, <1>1, <1>3, <1>4, <1>5, <1>6, <1>7, Numbers DEF EventsInv
<1>10. QED
  BY <1>8, <1>9 DEF Threads

(* ... the handler pushes its event once ...                                *)
LEMMA EventsPut ==
  ASSUME TimersTypeOK, HolderInv, EventsInv, NEW t \in Threads, HandlerPut(t)
  PROVE  EventsInv'
<1> SUFFICES ASSUME NEW id \in Ids
             PROVE  handled'[id] + Occurrences(events', id) + Carried(Main, id)'
                      + Carried(Worker, id)' + Pending(id)' <= expired'[id]
  BY DEF EventsInv
<1>1. /\ UNCHANGED <<handled, pending, frame, expired, wpc>>
      /\ frame[t] # None /\ holder = None /\ holder' = t
      /\ events' = Append(events, frame[t])
  BY DEF HandlerPut, kernelVars, loopVars
<1>2. Main \in Threads /\ Worker \in Threads /\ Main # Worker /\ None \notin Threads
  BY TimersAssumption DEF Threads
<1>3. ~Stuck /\ ~Stuck'
  BY <1>1, <1>2 DEF Stuck, HolderInv
<1>4. \A u \in Threads : Carried(u, id) = (IF frame[u] = id THEN 1 ELSE 0)
  BY <1>1, <1>2, <1>3 DEF Carried, Carries
<1>5. \A u \in Threads :
        Carried(u, id)' = (IF frame[u] = id /\ u # t THEN 1 ELSE 0)
  BY <1>1, <1>2, <1>3 DEF Carried, Carries
<1>6. Occurrences(events', id) = Occurrences(events, id) + (IF frame[t] = id THEN 1 ELSE 0)
  <2>1. frame[t] \in Ids /\ events \in Seq(Ids)
    BY <1>1 DEF TimersTypeOK
  <2>2. QED
    BY <2>1, <1>1, CountAppend
<1>7. Pending(id)' = Pending(id)
  BY <1>1 DEF Pending
<1>8. CASE t = Main
  BY <1>8, <1>1, <1>2, <1>4, <1>5, <1>6, <1>7, Numbers DEF EventsInv
<1>9. CASE t = Worker
  BY <1>9, <1>1, <1>2, <1>4, <1>5, <1>6, <1>7, Numbers DEF EventsInv
<1>10. QED
  BY <1>8, <1>9 DEF Threads

(* ... and returns ...                                                      *)
LEMMA EventsReturn ==
  ASSUME TimersTypeOK, HolderInv, EventsInv, NEW t \in Threads, HandlerReturn(t)
  PROVE  EventsInv'
<1> SUFFICES ASSUME NEW id \in Ids
             PROVE  handled'[id] + Occurrences(events', id) + Carried(Main, id)'
                      + Carried(Worker, id)' + Pending(id)' <= expired'[id]
  BY DEF EventsInv
<1>1. /\ UNCHANGED <<handled, pending, events, expired>>
      /\ frame[t] # None /\ holder = t /\ holder' = None
      /\ frame' = [frame EXCEPT ![t] = None]
      /\ wpc' = "take" => wpc = "take"
      /\ ~(t = Worker /\ wpc = "take")
  BY DEF HandlerReturn, kernelVars
<1>2. Main \in Threads /\ Worker \in Threads /\ Main # Worker /\ None \notin Threads
      /\ None \notin Ids
  BY TimersAssumption DEF Threads
<1>3. wpc # "take"
  BY <1>1, <1>2 DEF HolderInv
<1>4. ~Stuck /\ ~Stuck'
  BY <1>1, <1>3 DEF Stuck
<1>5. \A u \in Threads : frame'[u] = (IF u = t THEN None ELSE frame[u])
  BY <1>1 DEF TimersTypeOK
<1>6. \A u \in Threads : Carried(u, id)' <= Carried(u, id) /\ Carried(u, id)' \in {0, 1}
  BY <1>1, <1>2, <1>4, <1>5 DEF Carried, Carries
<1>7. Pending(id)' = Pending(id)
  BY <1>1 DEF Pending
<1>8. QED
  BY <1>1, <1>2, <1>6, <1>7, Numbers DEF EventsInv

(* ... and get_event takes it once.                                         *)
LEMMA EventsTake ==
  ASSUME IInv, HolderInv, EventsInv, Lock \/ Take
  PROVE  EventsInv'
<1> SUFFICES ASSUME NEW id \in Ids
             PROVE  handled'[id] + Occurrences(events', id) + Carried(Main, id)'
                      + Carried(Worker, id)' + Pending(id)' <= expired'[id]
  BY DEF EventsInv
<1>1. /\ UNCHANGED <<pending, frame, expired>>
      /\ frame[Worker] = None /\ {holder, holder'} \subseteq {None, Worker}
  BY DEF Lock, Take, kernelVars, HolderInv
<1>2. TimersTypeOK /\ Main # Worker /\ None \notin Ids /\ None # Main
  BY TimersAssumption DEF IInv
<1>3. Carried(Main, id)' = Carried(Main, id) /\ Carried(Worker, id)' = 0
  BY <1>1, <1>2 DEF Carried, Carries, Stuck
<1>4. Carried(Worker, id) = 0 /\ Pending(id)' = Pending(id)
  BY <1>1, <1>2 DEF Carried, Carries, Pending
<1>5. handled'[id] + Occurrences(events', id) = handled[id] + Occurrences(events, id)
  <2>1. CASE Lock
    BY <2>1 DEF Lock
  <2>2. CASE Take
    <3>1. events # <<>> /\ events \in Seq(Ids)
      BY <2>2 DEF Take, IInv, TakesSomething, TimersTypeOK
    <3>2. Occurrences(events, id)
            = Occurrences(Tail(events), id) + (IF Head(events) = id THEN 1 ELSE 0)
      BY <3>1, CountTail
    <3>3. Tail(events) \in Seq(Ids) /\ Head(events) \in Ids
      BY <3>1, HeadTailProperties
    <3>4. Occurrences(Tail(events), id) \in Nat
      BY <3>3, CountType
    <3>5. handled'[id] = handled[id] + (IF Head(events) = id THEN 1 ELSE 0)
      <4>1. handled \in [Ids -> Nat] /\ handled' = [handled EXCEPT ![Head(events)] = @ + 1]
        BY <2>2, <1>2, TimersAssumption DEF Take, TimersTypeOK
      <4>2. QED
        BY <4>1, <3>3
    <3>6. events' = Tail(events)
      BY <2>2 DEF Take
    <3>7. QED
      BY <3>2, <3>4, <3>5, <3>6, <1>2, Numbers
  <2>3. QED
    BY <2>1, <2>2
<1>6. QED
  BY <1>1, <1>2, <1>3, <1>4, <1>5, Numbers DEF EventsInv

LEMMA EventsStep ==
  ASSUME IInv, HolderInv, EventsInv, [TimersNext]_timersVars
  PROVE  EventsInv'
<1>1. TimersTypeOK
  BY DEF IInv
<1>2. ASSUME NEW id \in Ids,
             \/ \E info \in Infos : CreateTimer(id, info)
             \/ CancelTimer(id) \/ ResetTimer(id)
      PROVE  EventsInv'
  <2>1. Call
    BY <1>2 DEF CreateTimer, CancelTimer, ResetTimer
  <2>2. QED
    BY <2>1, <1>1, EventsQuiet DEF Call, eventVars, loopVars, Stuck
<1>3. CASE FindNothing \/ WorkerSleep \/ WorkerWakeup \/ Return
  <2>1. ~Stuck /\ ~Stuck'
    BY <1>3 DEF FindNothing, WorkerSleep, WorkerWakeup, Return, Stuck
  <2>2. UNCHANGED <<handled, events, frame, holder, expired, pending>>
    BY <1>3 DEF FindNothing, WorkerSleep, WorkerWakeup, Return, eventVars
  <2>3. Stuck' = Stuck
    BY <2>1 DEF Stuck
  <2>4. QED
    BY <2>2, <2>3, <1>1, EventsQuiet
<1>4. CASE ClearTimers \/ UNCHANGED timersVars
  <2>1. UNCHANGED <<handled, events, frame, holder, expired, wpc>> /\ pending' \subseteq pending
    BY <1>4 DEF ClearTimers, eventVars, loopVars, timersVars
  <2>2. QED
    BY <2>1, <1>1, EventsQuiet DEF Stuck
<1>5. QED
  BY <1>1, <1>2, <1>3, <1>4, EventsExpire, EventsDeliver, EventsPut, EventsReturn,
     EventsTake DEF TimersNext

LEMMA HolderStep ==
  ASSUME TimersTypeOK, HolderInv, [TimersNext]_timersVars
  PROVE  HolderInv'
<1> USE DEF HolderInv
<1>1. Worker \in Threads /\ Main \in Threads /\ Main # Worker /\ None \notin Threads
      /\ None \notin Ids
  BY TimersAssumption DEF Threads
<1>2. ASSUME NEW id \in Ids,
             \/ \E info \in Infos : CreateTimer(id, info)
             \/ CancelTimer(id) \/ ResetTimer(id) \/ Expire(id)
      PROVE  HolderInv'
  <2>1. UNCHANGED <<holder, frame, wpc>>
    BY <1>2 DEF CreateTimer, CancelTimer, ResetTimer, Call, Expire, eventVars, loopVars
  <2>2. QED
    BY <2>1
<1>3. ASSUME NEW id \in Ids, NEW t \in Threads, Deliver(id, t)
      PROVE  HolderInv'
  BY <1>1, <1>3 DEF Deliver, eventVars, loopVars, TimersTypeOK
<1>4. ASSUME NEW t \in Threads, HandlerPut(t)
      PROVE  HolderInv'
  BY <1>1, <1>4 DEF HandlerPut, loopVars
<1>5. ASSUME NEW t \in Threads, HandlerReturn(t)
      PROVE  HolderInv'
  BY <1>1, <1>5 DEF HandlerReturn
<1>6. CASE FindNothing \/ WorkerSleep \/ WorkerWakeup \/ Lock \/ Take \/ Return
  BY <1>1, <1>6 DEF FindNothing, WorkerSleep, WorkerWakeup, Lock, Take, Return, eventVars
<1>7. CASE ClearTimers \/ UNCHANGED timersVars
  BY <1>7 DEF ClearTimers, eventVars, loopVars, timersVars
<1>8. QED
  BY <1>2, <1>3, <1>4, <1>5, <1>6, <1>7 DEF TimersNext

LEMMA StartsStep ==
  ASSUME IInv, StartsInv, [TimersNext]_timersVars
  PROVE  StartsInv'
<1> USE DEF StartsInv
<1>1. TimersTypeOK /\ RunningInMap /\ \A id \in Ids : starts[id] \in Nat /\ expired[id] \in Nat
  BY TimersAssumption DEF IInv, TimersTypeOK
<1>2. ASSUME NEW j \in Ids,
             \/ \E info \in Infos : CreateTimer(j, info)
             \/ CancelTimer(j) \/ ResetTimer(j)
      PROVE  StartsInv'
  <2>1. wpc = "callback" /\ UNCHANGED <<wpc, expired>>
    BY <1>2 DEF CreateTimer, CancelTimer, ResetTimer, Call, loopVars
  <2>2. ASSUME NEW info \in Infos, Start(j, info)
        PROVE  /\ starts' = [starts EXCEPT ![j] = starts[j] + 1]
               /\ \A id \in Ids \ {j} : id \in armed' <=> id \in armed
    BY <2>2 DEF Start
  <2>3. CASE UNCHANGED <<timers, armed, starts>>
    BY <2>1, <2>3
  <2>4. CASE timers[j] # None /\ Start(j, timers[j]) /\ UNCHANGED timers
    <3>1. timers[j] \in Infos
      BY <2>4, <1>1 DEF TimersTypeOK
    <3>2. /\ starts' = [starts EXCEPT ![j] = starts[j] + 1]
          /\ \A id \in Ids \ {j} : id \in armed' <=> id \in armed
      BY <2>2, <2>4, <3>1
    <3>3. /\ starts'[j] = starts[j] + 1
          /\ \A id \in Ids \ {j} : starts'[id] = starts[id]
      BY <3>2, <1>1 DEF TimersTypeOK
    <3>4. QED
      BY <3>2, <3>3, <2>1, <2>4, <1>1
  <2>5. ASSUME NEW info \in Infos, timers[j] = None,
               timers' = [timers EXCEPT ![j] = info], Start(j, info)
        PROVE  StartsInv'
    <3>1. /\ starts' = [starts EXCEPT ![j] = starts[j] + 1]
          /\ \A id \in Ids \ {j} : id \in armed' <=> id \in armed
      BY <2>2, <2>5
    <3>2. /\ starts'[j] = starts[j] + 1 /\ timers'[j] = info
          /\ \A id \in Ids \ {j} : starts'[id] = starts[id] /\ timers'[id] = timers[id]
      BY <3>1, <2>5, <1>1 DEF TimersTypeOK
    <3>3. expired[j] = 0
      BY <2>1, <2>5
    <3>4. info # None
      BY NoneIsNoTimer
    <3>5. QED
      BY <3>1, <3>2, <3>3, <3>4, <2>1, <1>1
  <2>6. CASE CancelTimer(j)
    BY <2>1, <2>6, <1>1 DEF CancelTimer, Stop
  <2>7. QED
    BY <1>2, <2>3, <2>4, <2>5, <2>6 DEF CreateTimer, ResetTimer
<1>3. ASSUME NEW j \in Ids, Expire(j)
      PROVE  StartsInv'
  <2>1. /\ UNCHANGED <<timers, starts, wpc>> /\ j \in armed
        /\ expired'[j] = expired[j] + 1
        /\ \A id \in Ids \ {j} : expired'[id] = expired[id] /\ (id \in armed' <=> id \in armed)
        /\ ~timers[j].interval => j \notin armed'
    BY <1>3, <1>1 DEF Expire, loopVars, TimersTypeOK
  <2>2. timers[j] # None
    BY <2>1, <1>1 DEF RunningInMap
  <2>3. QED
    BY <2>1, <2>2, <1>1
<1>4. CASE ClearTimers
  BY <1>4, <1>1 DEF ClearTimers, loopVars
<1>5. ASSUME UNCHANGED <<timers, armed, starts, expired>>, wpc = "done" => wpc' = "done"
      PROVE  StartsInv'
  BY <1>5
<1>6. ASSUME NEW id \in Ids, NEW t \in Threads, Deliver(id, t)
      PROVE  StartsInv'
  BY <1>5, <1>6 DEF Deliver, kernelVars, loopVars
<1>7. ASSUME NEW t \in Threads, HandlerPut(t) \/ HandlerReturn(t)
      PROVE  StartsInv'
  BY <1>5, <1>7 DEF HandlerPut, HandlerReturn, kernelVars, loopVars
<1>8. CASE FindNothing \/ WorkerSleep \/ WorkerWakeup \/ Lock \/ Take \/ Return
           \/ UNCHANGED timersVars
  BY <1>5, <1>8
     DEF FindNothing, WorkerSleep, WorkerWakeup, Lock, Take, Return, kernelVars, timersVars
<1>9. QED
  BY <1>2, <1>3, <1>4, <1>6, <1>7, <1>8 DEF TimersNext

(* A timer yields no more events than it expired, and a one-shot timer no   *)
(* more than it was started, however the signals, the handlers and the      *)
(* worker interleave (Timer::start, handler, put_event, get_event).         *)
THEOREM OneEventCorrect == TimersSpec => []OneEventPerStart
<1> DEFINE Inv == HolderInv /\ EventsInv /\ StartsInv
<1>1. TimersInit => Inv
  <2> SUFFICES ASSUME TimersInit PROVE Inv
    OBVIOUS
  <2>1. None \notin Ids /\ None \notin Threads
    BY TimersAssumption DEF Threads
  <2>2. HolderInv
    BY <2>1 DEF TimersInit, HolderInv
  <2>3. StartsInv
    BY DEF TimersInit, StartsInv
  <2>4. \A id \in Ids : Occurrences(events, id) = 0
    <3> TAKE id \in Ids
    <3>1. {i \in DOMAIN events : events[i] = id} = {}
      BY DEF TimersInit
    <3>2. QED
      BY <3>1, FS_EmptySet DEF Occurrences
  <2>5. EventsInv
    BY <2>1, <2>4, TimersAssumption
       DEF TimersInit, EventsInv, Carried, Carries, Pending, Threads
  <2>6. QED
    BY <2>2, <2>3, <2>5
<1>2. IInv /\ Inv /\ [TimersNext]_timersVars => Inv'
  BY HolderStep, EventsStep, StartsStep DEF IInv
<1>3. IInv /\ Inv => OneEventPerStart
  BY EventsMean DEF IInv
<1>4. QED
  BY <1>1, <1>2, <1>3, TimersInv, PTL DEF TimersSpec

-----------------------------------------------------------------------------
(* The state machine *)

USE DEF queueVars, workerVars, ownerVars

(* The records that put_event queues are events.                           *)
LEMMA EnqueueType ==
  ASSUME TypeOK, NEW kind \in Kinds, NEW force \in BOOLEAN, Enqueue(kind, force)
  PROVE  queue' \in Seq(Event) /\ puts' \in 0..MaxPuts
<1> DEFINE e == [type |-> kind.type, name |-> kind.name, id |-> puts + 1]
<1>1. e \in Event
  BY ConstantsAssumption DEF TypeOK, Kinds, Event, Enqueue
<1>2. (IF force THEN <<>> ELSE queue) \in Seq(Event)
  BY DEF TypeOK
<1>3. queue' = Append(IF force THEN <<>> ELSE queue, e)
  BY DEF Enqueue
<1>4. queue' \in Seq(Event)
  <2> HIDE DEF e
  <2> QED BY <1>1, <1>2, <1>3, AppendProperties
<1>5. puts' \in 0..MaxPuts
  BY ConstantsAssumption DEF TypeOK, Enqueue
<1> QED BY <1>4, <1>5

LEMMA ThreadStepType ==
  ASSUME TypeOK, NEW p \in Producers, Put(p) \/ Notify(p)
  PROVE  TypeOK'
<1>1. CASE Put(p)
  <2>1. PICK kind \in Kinds, force \in Forces : Enqueue(kind, force)
    BY <1>1 DEF Put
  <2>2. queue' \in Seq(Event) /\ puts' \in 0..MaxPuts
    BY <2>1, EnqueueType, ConstantsAssumption
  <2> QED BY <1>1, <2>2 DEF TypeOK, Put
<1>2. CASE Notify(p)
  BY <1>2 DEF TypeOK, Notify, Between, Waiting, Handling
<1> QED BY <1>1, <1>2

(* Every step of the worker, of its callbacks and of the destructor keeps   *)
(* the types.                                                               *)
LEMMA WorkerStepType ==
  ASSUME TypeOK, WorkerStep \/ SpuriousWakeup \/ CallbackPuts \/ OfferThrows
  PROVE  TypeOK'
<1> USE DEF Between, Waiting, Handling, TypeOK
<1>0. stack # <<>> => Tail(stack) \in Seq(States)
  BY HeadTailProperties
<1>1. CASE Check
  BY <1>1 DEF Check
<1>2. CASE Sleep
  BY <1>2 DEF Sleep
<1>3. CASE Drained
  BY <1>3 DEF Drained
<1>4. CASE TakeEvent
  <2>1. Head(queue) \in Event /\ Tail(queue) \in Seq(Event)
    BY <1>4 DEF TakeEvent
  <2>2. HandlerOf(Head(queue).type) \in Handling
    BY <2>1 DEF HandlerOf, Event
  <2>3. /\ pos' = 1 /\ threw' = FALSE
        /\ UNCHANGED <<puts, notifying, stack, ownerVars, missed>>
        /\ cur' = Head(queue) /\ queue' = Tail(queue)
        /\ pc' = HandlerOf(Head(queue).type)
    BY <1>4 DEF TakeEvent
  <2>4. pos' \in Nat \ {0}
    BY <2>3
  <2> QED BY <2>1, <2>2, <2>3, <2>4
<1>5. CASE ProcessFinish
  BY <1>5 DEF ProcessFinish
<1>6. CASE ProcessPop
  BY <1>0, <1>6 DEF ProcessPop, EndHandler, RemoveFront
<1>7. CASE SubstateExit
  BY <1>7 DEF SubstateExit, EndHandler
<1>8. CASE ProcessChange
  <2>1. CASE UNCHANGED stack
    BY <1>8, <2>1 DEF ProcessChange, EndHandler
  <2>2. CASE cur.name \in States /\ stack' = <<cur.name>> \o stack
    <3>1. <<cur.name>> \in Seq(States)
      BY <2>2
    <3>2. stack' \in Seq(States)
      BY <2>2, <3>1, ConcatProperties
    <3> QED BY <1>8, <3>2 DEF ProcessChange, EndHandler
  <2> QED BY <1>8, <2>1, <2>2 DEF ProcessChange, EndHandler
<1>9. CASE Rollback
  BY <1>0, <1>9 DEF Rollback, EndHandler, RemoveFront
<1>10. CASE EntryReturns
  BY <1>10 DEF EntryReturns, EndHandler
<1>11. CASE Offer
  <2>1. pos' \in Nat \ {0}
    BY <1>11 DEF Offer, EndHandler
  <2> QED BY <1>11, <2>1 DEF Offer, EndHandler
<1>12. CASE SpuriousWakeup
  BY <1>12 DEF SpuriousWakeup
<1>13. CASE CallbackPuts
  <2>1. PICK kind \in Kinds : Enqueue(kind, FALSE)
    BY <1>13 DEF CallbackPuts
  <2>2. queue' \in Seq(Event) /\ puts' \in 0..MaxPuts
    BY <2>1, EnqueueType
  <2> QED BY <1>13, <2>2 DEF CallbackPuts
<1>14. CASE OfferThrows
  BY <1>14 DEF OfferThrows
<1> QED
  BY <1>1, <1>2, <1>3, <1>4, <1>5, <1>6, <1>7, <1>8, <1>9, <1>10, <1>11,
     <1>12, <1>13, <1>14 DEF WorkerStep

THEOREM TypeCorrect == Spec => []TypeOK
<1>1. Init => TypeOK
  <2> SUFFICES ASSUME Init PROVE TypeOK
    OBVIOUS
  <2>1. puts \in 0..MaxPuts /\ pos \in Nat \ {0}
    BY ConstantsAssumption DEF Init
  <2>2. queue \in Seq(Event) /\ stack \in Seq(States)
    BY DEF Init
  <2>3. pc \in Between \cup Handling \cup {"done", "aborted"}
    BY DEF Init, Between, Waiting
  <2> QED BY <2>1, <2>2, <2>3 DEF Init, TypeOK
<1>2. TypeOK /\ [Next]_vars => TypeOK'
  <2> SUFFICES ASSUME TypeOK, [Next]_vars PROVE TypeOK'
    OBVIOUS
  <2>1. CASE \E p \in Producers : Put(p) \/ Notify(p)
    BY <2>1, ThreadStepType
  <2>2. CASE WorkerStep \/ SpuriousWakeup \/ CallbackPuts \/ OfferThrows
    BY <2>2, WorkerStepType
  <2>3. CASE SetStopSignal
    <3>1. /\ pc' \in Between \cup Handling \cup {"done", "aborted"}
          /\ missed' \in BOOLEAN
      BY <2>3 DEF SetStopSignal, TypeOK, Between, Waiting
    <3> QED BY <2>3, <3>1 DEF SetStopSignal, TypeOK
  <2>4. CASE JoinAndErase
    <3>1. stack' \in Seq(States)
      BY <2>4 DEF JoinAndErase
    <3> QED BY <2>4, <3>1 DEF JoinAndErase, TypeOK
  <2>5. CASE Terminated
    BY <2>5 DEF Terminated, vars, TypeOK
  <2>6. CASE UNCHANGED vars
    BY <2>6 DEF vars, TypeOK
  <2> QED
    BY <2>1, <2>2, <2>3, <2>4, <2>5, <2>6 DEF Next
<1> QED BY <1>1, <1>2, PTL DEF Spec
-----------------------------------------------------------------------------
(* The wake-up of the worker.                                              *)

(* The worker falls asleep over a queued event only when a notification is  *)
(* still to come or fell before the sleep, and never over the stop signal.  *)
THEOREM WakeupCorrect == Spec => []NoOtherMissedWakeup
<1> USE DEF NoOtherMissedWakeup
<1>1. Init => NoOtherMissedWakeup
  BY DEF Init
<1>2. TypeOK /\ NoOtherMissedWakeup /\ [Next]_vars => NoOtherMissedWakeup'
  <2> SUFFICES ASSUME TypeOK, NoOtherMissedWakeup, [Next]_vars,
                      pc' \in {"prewait", "asleep"}
               PROVE  /\ queue' # <<>> => (missed' \/ notifying' # {})
                      /\ ~stopSignal'
    OBVIOUS
  <2>1. ASSUME NEW p \in Producers, Put(p)
        PROVE  NoOtherMissedWakeup'
    BY <2>1 DEF Put
  <2>2. ASSUME NEW p \in Producers, Notify(p)
        PROVE  NoOtherMissedWakeup'
    BY <2>2 DEF Notify
  <2>3. CASE Check
    BY <2>3 DEF Check
  <2>4. CASE Sleep
    BY <2>4 DEF Sleep
  <2>5. CASE SetStopSignal
    BY <2>5 DEF SetStopSignal
  <2>6. CASE TakeEvent
    BY <2>6 DEF TakeEvent, HandlerOf
  <2>7. CASE \/ Drained \/ ProcessFinish \/ ProcessPop \/ SubstateExit
             \/ ProcessChange \/ Rollback \/ EntryReturns \/ SpuriousWakeup
             \/ OfferThrows
    BY <2>7 DEF Drained, ProcessFinish, ProcessPop, SubstateExit,
                ProcessChange, Rollback, EntryReturns, SpuriousWakeup,
                OfferThrows, EndHandler, RemoveFront
  <2>8. CASE Offer
    BY <2>8 DEF Offer, EndHandler
  <2>9. CASE CallbackPuts
    BY <2>9 DEF CallbackPuts, InCallback
  <2>10. CASE JoinAndErase
    BY <2>10 DEF JoinAndErase
  <2>11. CASE Terminated \/ UNCHANGED vars
    BY <2>11 DEF Terminated, vars
  <2> QED
    BY <2>1, <2>2, <2>3, <2>4, <2>5, <2>6, <2>7, <2>8, <2>9, <2>10, <2>11
       DEF Next, WorkerStep
<1> QED BY <1>1, <1>2, TypeCorrect, PTL DEF Spec
-----------------------------------------------------------------------------
(* The state stack.                                                         *)

(* Distinct elements, and membership, of a sequence.                        *)
Distinct(s) == \A i, j \in DOMAIN s : s[i] = s[j] => i = j
In(x, s) == \E i \in DOMAIN s : s[i] = x

(* Pushing an element that is not there keeps the elements distinct.        *)
LEMMA PushDistinct ==
  ASSUME NEW S, NEW s \in Seq(S), NEW x \in S, Distinct(s), ~In(x, s)
  PROVE  /\ Distinct(<<x>> \o s)
         /\ <<x>> \o s # <<>>
         /\ Head(<<x>> \o s) = x
<1> DEFINE t == <<x>> \o s
<1>1. Len(t) = Len(s) + 1 /\ DOMAIN t = 1..(Len(s) + 1)
  BY ConcatProperties
<1>2. t[1] = x
  BY ConcatProperties
<1>3. \A i \in 2..(Len(s) + 1) : t[i] = s[i - 1] /\ (i - 1) \in DOMAIN s
  BY ConcatProperties
<1>4. Distinct(t)
  <2> SUFFICES ASSUME NEW i \in DOMAIN t, NEW j \in DOMAIN t, t[i] = t[j]
               PROVE  i = j
    BY DEF Distinct
  <2>1. CASE i = 1 /\ j = 1
    BY <2>1
  <2>2. CASE i = 1 /\ j # 1
    <3>1. j \in 2..(Len(s) + 1)
      BY <1>1, <2>2
    <3> QED BY <1>2, <1>3, <2>2, <3>1 DEF In
  <2>3. CASE i # 1 /\ j = 1
    <3>1. i \in 2..(Len(s) + 1)
      BY <1>1, <2>3
    <3> QED BY <1>2, <1>3, <2>3, <3>1 DEF In
  <2>4. CASE i # 1 /\ j # 1
    <3>1. i \in 2..(Len(s) + 1) /\ j \in 2..(Len(s) + 1)
      BY <1>1, <2>4
    <3>2. i - 1 = j - 1
      <4> HIDE DEF t
      <4> QED BY <1>3, <3>1 DEF Distinct
    <3> QED BY <3>1, <3>2
  <2> QED BY <2>1, <2>2, <2>3, <2>4
<1> QED BY <1>1, <1>2, <1>4

(* Removing the front of a sequence keeps its elements distinct, and keeps  *)
(* every element but the front one.                                         *)
LEMMA PopDistinct ==
  ASSUME NEW S, NEW s \in Seq(S), s # <<>>
  PROVE  /\ Distinct(s) => Distinct(Tail(s))
         /\ \A x : In(x, s) /\ Head(s) # x => In(x, Tail(s))
<1>1. Len(Tail(s)) = Len(s) - 1 /\ DOMAIN Tail(s) = 1..(Len(s) - 1)
  BY HeadTailProperties
<1>2. \A i \in 1..(Len(s) - 1) : Tail(s)[i] = s[i + 1]
  BY HeadTailProperties
<1>3. DOMAIN s = 1..Len(s) /\ Len(s) \in Nat \ {0} /\ Head(s) = s[1]
  BY HeadTailProperties
<1>4. ASSUME Distinct(s) PROVE Distinct(Tail(s))
  <2> SUFFICES ASSUME NEW i \in DOMAIN Tail(s), NEW j \in DOMAIN Tail(s),
                      Tail(s)[i] = Tail(s)[j]
               PROVE  i = j
    BY DEF Distinct
  <2>1. i + 1 \in DOMAIN s /\ j + 1 \in DOMAIN s
    BY <1>1, <1>3
  <2>2. i + 1 = j + 1
    BY <1>1, <1>2, <1>4, <2>1 DEF Distinct
  <2> QED BY <1>1, <2>2
<1>5. ASSUME NEW x, In(x, s), Head(s) # x PROVE In(x, Tail(s))
  <2>1. PICK i \in DOMAIN s : s[i] = x
    BY <1>5 DEF In
  <2>2. i # 1
    BY <1>3, <1>5, <2>1
  <2>3. i - 1 \in 1..(Len(s) - 1) /\ (i - 1) + 1 = i
    BY <1>3, <2>1, <2>2
  <2>4. Tail(s)[i - 1] = x
    BY <1>2, <2>1, <2>3
  <2> QED BY <1>1, <2>3, <2>4 DEF In
<1> QED BY <1>4, <1>5

StackInv == HandlerMatchesEvent /\ StackUnique /\ ChangeReachesTarget

(* The invariant is inductive: a handler starts with the event it is for,   *)
(* a push comes after the search of the stack, and a rollback never removes *)
(* its target.                                                              *)
LEMMA StackInvStep == TypeOK /\ StackInv /\ [Next]_vars => StackInv'
<1> SUFFICES ASSUME TypeOK, HandlerMatchesEvent, StackUnique,
                    ChangeReachesTarget, [Next]_vars
             PROVE  StackInv'
  BY DEF StackInv
<1> USE DEF Between, Waiting, Handling
<1>1. ASSUME UNCHANGED <<cur, stack, threw>>, owner' = owner,
             pc' = pc \/ (pc \in Between /\ pc' \in Between)
                      \/ pc' \in {"done", "aborted"}
      PROVE  StackInv'
  BY <1>1 DEF StackInv, HandlerMatchesEvent, StackUnique, ChangeReachesTarget, Holds
<1>2. ASSUME NEW p \in Producers, Put(p) \/ Notify(p)
      PROVE  StackInv'
  BY <1>1, <1>2 DEF Put, Notify
<1>3. CASE Check \/ Sleep \/ Drained \/ ProcessFinish \/ SpuriousWakeup
  BY <1>1, <1>3 DEF Check, Sleep, Drained, ProcessFinish, SpuriousWakeup
<1>4. CASE CallbackPuts
  BY <1>1, <1>4 DEF CallbackPuts
<1>5. CASE TakeEvent
  <2>1. /\ cur' = Head(queue) /\ cur' \in Event
        /\ pc' = HandlerOf(cur'.type)
        /\ UNCHANGED stack
    BY <1>5 DEF TakeEvent, TypeOK
  <2>2. cur' # NoEvent
    BY <2>1, NoEventAssumption DEF Event
  <2>3. HandlerMatchesEvent'
    BY <2>1, <2>2 DEF HandlerMatchesEvent, HandlerOf, Event
  <2>4. pc' \in Handling
    BY <2>1 DEF HandlerOf, Event
  <2>5. ChangeReachesTarget'
    BY <2>4 DEF ChangeReachesTarget
  <2>6. StackUnique'
    BY <2>1 DEF StackUnique
  <2> QED BY <2>3, <2>5, <2>6 DEF StackInv
<1>6. ASSUME NEW thrown \in BOOLEAN, EndHandler(thrown), pc \in Handling,
             (cur.type = "CHANGE" /\ cur.name \in States) =>
               /\ Holds(cur.name)
               /\ ~thrown => Head(stack) = cur.name
      PROVE  StackInv'
  <2>1. pc' = "drain" /\ threw' = thrown /\ UNCHANGED <<cur, stack>>
    BY <1>6 DEF EndHandler
  <2>2. HandlerMatchesEvent' /\ StackUnique'
    BY <2>1 DEF HandlerMatchesEvent, StackUnique
  <2>3. ChangeReachesTarget'
    BY <1>6, <2>1 DEF ChangeReachesTarget, Holds
  <2> QED BY <2>2, <2>3 DEF StackInv
<1>7. ASSUME NEW next, RemoveFront(next), stack # <<>>,
             \/ pc = "pop" /\ next = "substate"
             \/ pc = "rollback" /\ next = pc /\ Head(stack) # cur.name
      PROVE  StackInv'
  <2>1. pc' = next /\ stack' = Tail(stack) /\ cur' = cur
    BY <1>7 DEF RemoveFront
  <2>2. /\ Distinct(stack) => Distinct(Tail(stack))
        /\ In(cur.name, stack) /\ Head(stack) # cur.name
             => In(cur.name, Tail(stack))
    BY <1>7, PopDistinct DEF TypeOK
  <2>3. StackUnique'
    BY <2>1, <2>2 DEF StackUnique, Distinct
  <2>4. HandlerMatchesEvent'
    BY <1>7, <2>1, <2>2 DEF HandlerMatchesEvent, Holds, In
  <2>5. ChangeReachesTarget'
    BY <1>7, <2>1 DEF ChangeReachesTarget
  <2> QED BY <2>3, <2>4, <2>5 DEF StackInv
<1>8. CASE ProcessPop
  BY <1>6, <1>7, <1>8 DEF ProcessPop, HandlerMatchesEvent
<1>9. CASE SubstateExit
  BY <1>6, <1>9 DEF SubstateExit, HandlerMatchesEvent
<1>10. CASE ProcessChange
  <2>1. pc = "change" /\ cur # NoEvent /\ cur.type = "CHANGE"
    BY <1>10 DEF ProcessChange, HandlerMatchesEvent
  <2>2. CASE Holds(cur.name)
    <3>1. pc' = "rollback" /\ UNCHANGED <<cur, stack, owner>>
      BY <1>10, <2>2 DEF ProcessChange
    <3> QED
      BY <2>1, <2>2, <3>1
         DEF StackInv, HandlerMatchesEvent, StackUnique, ChangeReachesTarget, Holds
  <2>3. CASE ~Holds(cur.name) /\ cur.name \notin States
    BY <1>6, <1>10, <2>1, <2>3 DEF ProcessChange
  <2>4. CASE ~Holds(cur.name) /\ cur.name \in States
    <3>1. pc' = "entry" /\ stack' = <<cur.name>> \o stack /\ cur' = cur
      BY <1>10, <2>4 DEF ProcessChange
    <3>2. Distinct(stack) /\ ~In(cur.name, stack)
      BY <2>4 DEF StackUnique, Distinct, Holds, In
    <3>3. /\ Distinct(stack')
          /\ stack' # <<>>
          /\ Head(stack') = cur.name
      <4>1. stack \in Seq(States) /\ cur.name \in States
        BY <2>4 DEF TypeOK
      <4> QED BY <3>1, <3>2, <4>1, PushDistinct
    <3>4. HandlerMatchesEvent'
      BY <2>1, <3>1, <3>3 DEF HandlerMatchesEvent
    <3>5. StackUnique' /\ ChangeReachesTarget'
      BY <3>1, <3>3 DEF StackUnique, Distinct, ChangeReachesTarget
    <3> QED BY <3>4, <3>5 DEF StackInv
  <2> QED BY <2>2, <2>3, <2>4
<1>11. CASE Rollback
  <2>1. Holds(cur.name) /\ pc = "rollback"
    BY <1>11 DEF Rollback, HandlerMatchesEvent
  <2>2. stack # <<>>
    BY <2>1 DEF Holds, TypeOK
  <2> QED BY <1>6, <1>7, <1>11, <2>1, <2>2 DEF Rollback
<1>12. CASE EntryReturns
  <2>1. pc = "entry" /\ stack # <<>> /\ Head(stack) = cur.name
    BY <1>12 DEF EntryReturns, HandlerMatchesEvent
  <2>2. Holds(cur.name)
    BY <2>1, HeadTailProperties DEF Holds, TypeOK
  <2> QED BY <1>6, <1>12, <2>1, <2>2 DEF EntryReturns
<1>13. CASE Offer
  <2>1. pc = "offer" /\ cur # NoEvent /\ cur.type # "CHANGE"
    BY <1>13 DEF Offer, HandlerMatchesEvent
  <2>2. CASE EndHandler(FALSE)
    BY <1>6, <2>1, <2>2
  <2>3. CASE UNCHANGED <<pc, cur, stack, threw, owner>>
    BY <1>1, <2>3
  <2> QED BY <1>13, <2>2, <2>3 DEF Offer
<1>14. CASE OfferThrows
  BY <1>14 DEF OfferThrows, StackInv, HandlerMatchesEvent, StackUnique, ChangeReachesTarget
<1>15. CASE SetStopSignal
  BY <1>15 DEF SetStopSignal, StackInv, HandlerMatchesEvent, StackUnique,
               ChangeReachesTarget, Holds
<1>16. CASE JoinAndErase
  BY <1>16 DEF JoinAndErase, StackInv, HandlerMatchesEvent, StackUnique,
               ChangeReachesTarget
<1>17. CASE Terminated \/ UNCHANGED vars
  BY <1>1, <1>17 DEF Terminated, vars
<1> QED
  BY <1>2, <1>3, <1>4, <1>5, <1>8, <1>9, <1>10, <1>11, <1>12, <1>13, <1>14,
     <1>15, <1>16, <1>17 DEF Next, WorkerStep

(* The states on the stack are distinct, whatever callbacks queue or throw. *)
THEOREM StackCorrect == Spec => [](StackUnique /\ HandlerMatchesEvent)
<1>1. Init => StackInv
  BY DEF Init, StackInv, HandlerMatchesEvent, StackUnique, ChangeReachesTarget,
         Handling
<1>2. StackInv => StackUnique /\ HandlerMatchesEvent
  BY DEF StackInv
<1> QED BY <1>1, <1>2, StackInvStep, TypeCorrect, PTL DEF Spec

(* A change that was handled leaves its state on the stack, as the active   *)
(* one unless a callback threw.                                             *)
THEOREM ChangeCorrect == Spec => []ChangeReachesTarget
<1>1. Init => StackInv
  BY DEF Init, StackInv, HandlerMatchesEvent, StackUnique, ChangeReachesTarget,
         Handling
<1>2. StackInv => ChangeReachesTarget
  BY DEF StackInv
<1> QED BY <1>1, <1>2, StackInvStep, TypeCorrect, PTL DEF Spec

(* After FINISH was handled nothing is taken, entered or left.              *)
THEOREM FinishCorrect == Spec => FinishIsFinal
<1>1. [Next]_vars =>
        [pc = "done" => (pc' = "done" /\ cur' = cur
                          /\ (stack' = stack \/ owner' = "destroyed"))]_vars
  BY DEF Next, WorkerStep, Put, Notify, Check, Sleep, Drained, TakeEvent,
         ProcessFinish, ProcessPop, SubstateExit, ProcessChange, Rollback,
         EntryReturns, Offer, SpuriousWakeup, CallbackPuts, InCallback,
         OfferThrows, SetStopSignal, JoinAndErase, Terminated, vars
<1> QED BY <1>1, PTL DEF Spec, FinishIsFinal
-----------------------------------------------------------------------------
(* The worker implements the event loop.                                    *)

LEMMA LoopStep ==
  TypeOK /\ StackInv /\ [Next]_vars => [Loop!Next]_(Loop!vars)
<1> SUFFICES ASSUME TypeOK, HandlerMatchesEvent, [Next]_vars
             PROVE  [Loop!Next]_(Loop!vars)
  BY DEF StackInv
<1> USE DEF Between, Waiting, Handling, Loop!Next, Loop!vars
<1>1. ASSUME UNCHANGED <<queue, cur, stack>>,
             \/ pc' = pc
             \/ pc \in Between /\ pc' \in Between
             \/ pc \in Handling /\ pc' \in Handling \cup {"aborted"}
      PROVE  UNCHANGED Loop!vars
  BY <1>1
<1>2. ASSUME NEW kind \in Kinds, NEW force \in BOOLEAN, Enqueue(kind, force),
             UNCHANGED <<pc, cur, stack>>
      PROVE  Loop!Post
  <2> DEFINE e == [type |-> kind.type, name |-> kind.name, id |-> puts + 1]
  <2>1. e \in Event
    BY <1>2, ConstantsAssumption DEF TypeOK, Kinds, Event, Enqueue
  <2>2. queue' = Append(IF force THEN <<>> ELSE queue, e)
    BY <1>2 DEF Enqueue
  <2> HIDE DEF e
  <2> QED BY <1>2, <2>1, <2>2 DEF Loop!Post
<1>3. ASSUME NEW p \in Producers, Put(p)
      PROVE  Loop!Post
  BY <1>2, <1>3, ConstantsAssumption DEF Put
<1>4. ASSUME NEW p \in Producers, Notify(p)
      PROVE  UNCHANGED Loop!vars
  BY <1>1, <1>4 DEF Notify
<1>5. CASE Check \/ Sleep \/ SpuriousWakeup \/ Drained \/ SetStopSignal
           \/ OfferThrows
  BY <1>1, <1>5 DEF Check, Sleep, SpuriousWakeup, Drained, SetStopSignal, OfferThrows
<1>6. CASE TakeEvent
  <2>1. HandlerOf(Head(queue).type) \in Handling
    BY DEF HandlerOf
  <2>2. Loop!Take
    BY <1>6, <2>1 DEF TakeEvent, Loop!Take
  <2> QED BY <2>2
<1>7. CASE CallbackPuts
  BY <1>2, <1>7 DEF CallbackPuts
<1>8. CASE ProcessFinish
  <2>1. Loop!End
    BY <1>8 DEF ProcessFinish, Loop!End, HandlerMatchesEvent
  <2> QED BY <2>1
<1>9. ASSUME NEW thrown, EndHandler(thrown), pc \in Handling \ {"finish"}
      PROVE  Loop!Complete
  <2>1. cur # NoEvent /\ cur.type # "FINISH"
    BY <1>9 DEF HandlerMatchesEvent
  <2> QED BY <1>9, <2>1 DEF EndHandler, Loop!Complete
<1>10. ASSUME NEW next \in Handling, RemoveFront(next), stack # <<>>,
              pc = "pop" \/ (pc = "rollback" /\ Head(stack) # cur.name)
       PROVE  Loop!Leave
  <2>1. /\ cur # NoEvent
        /\ \/ cur.type = "POP"
           \/ cur.type = "CHANGE" /\ Holds(cur.name) /\ Head(stack) # cur.name
    BY <1>10 DEF HandlerMatchesEvent
  <2> QED BY <1>10, <2>1 DEF RemoveFront, Loop!Leave, Loop!Holds, Holds
<1>11. CASE ProcessPop
  <2>1. CASE stack # <<>> /\ RemoveFront("substate")
    <3>1. Loop!Leave
      BY <1>10, <1>11, <2>1 DEF ProcessPop
    <3> QED BY <3>1
  <2>2. CASE EndHandler(FALSE) \/ EndHandler(TRUE)
    <3>1. Loop!Complete
      BY <1>9, <1>11, <2>2 DEF ProcessPop
    <3> QED BY <3>1
  <2> QED BY <1>11, <2>1, <2>2 DEF ProcessPop
<1>12. CASE SubstateExit
  BY <1>9, <1>12 DEF SubstateExit
<1>13. CASE ProcessChange
  <2>1. CASE Holds(cur.name)
    BY <1>1, <1>13, <2>1 DEF ProcessChange
  <2>2. CASE ~Holds(cur.name) /\ cur.name \notin States
    BY <1>9, <1>13, <2>2 DEF ProcessChange
  <2>3. CASE ~Holds(cur.name) /\ cur.name \in States
    <3>1. Loop!Enter
      BY <1>13, <2>3 DEF ProcessChange, HandlerMatchesEvent, Loop!Enter,
                         Loop!Holds, Holds
    <3> QED BY <3>1
  <2> QED BY <2>1, <2>2, <2>3
<1>14. CASE Rollback
  BY <1>9, <1>10, <1>14 DEF Rollback
<1>15. CASE EntryReturns
  BY <1>9, <1>15 DEF EntryReturns
<1>16. CASE Offer
  BY <1>1, <1>9, <1>16 DEF Offer
<1>17. CASE JoinAndErase
  <2>1. Loop!Erase
    BY <1>17 DEF JoinAndErase, Loop!Erase
  <2> QED BY <2>1
<1>18. CASE Terminated \/ UNCHANGED vars
  BY <1>1, <1>18 DEF Terminated, vars
<1> QED
  BY <1>3, <1>4, <1>5, <1>6, <1>7, <1>8, <1>11, <1>12, <1>13, <1>14, <1>15,
     <1>16, <1>17, <1>18 DEF Next, WorkerStep

(* The threads, wake-ups, callbacks and exceptions of the state machine     *)
(* implement one FIFO event loop over a stack of distinct states.           *)
THEOREM LoopImplemented == Spec => ImplementsEventLoop
<1>1. Init => Loop!Init
  BY DEF Init, Loop!Init, Handling
<1>2. Init => StackInv
  BY DEF Init, StackInv, HandlerMatchesEvent, StackUnique, ChangeReachesTarget,
         Handling
<1> QED
  BY <1>1, <1>2, StackInvStep, LoopStep, TypeCorrect, PTL
     DEF Spec, ImplementsEventLoop, Loop!Spec
==============================================================================

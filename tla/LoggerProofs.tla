---------------------------- MODULE LoggerProofs ----------------------------
(***************************************************************************)
(* The logger with any callers, any size of the buffer and any number of   *)
(* messages: its type, what a release keeps, that no message is written    *)
(* twice, and the order of the file.                                       *)
(***************************************************************************)
EXTENDS Logger, CircularBufferProofs

USE DEF callerVars, ownerVars, Thrown, CallerAt, OwnerAt, At

(* The type, from the first state on.                                      *)
LEMMA InitType == Init => TypeOK
<1> SUFFICES ASSUME Init PROVE TypeOK
  OBVIOUS
<1>1. MaxSize \in Nat \ {0} /\ Slots = 0 .. MaxSize - 1
  BY BufferAssumption DEF Slots
<1>2. 0 \in Slots /\ 0 \in 0..MaxSize
  BY <1>1
<1>3. buff \in Buffers
  BY <1>2 DEF Init, NewBuffer, Buffers
<1>4. queued \in Seq(Values)
  BY DEF Init
<1>5. written \in Seq(Values \cup {Empty})
  BY DEF Init
<1>6. puts \in 0..MaxLogs
  BY LoggerAssumption DEF Init
<1>7. QED
  BY <1>3, <1>4, <1>5, <1>6 DEF Init, TypeOK

(* The steps of the callers.                                                *)
LEMMA CallerType ==
  ASSUME TypeOK, NEW c \in Callers, CallerStep(c) \/ SetUpdateConf
  PROVE  TypeOK'
<1>1. CASE Log(c)
  BY <1>1 DEF Log, TypeOK
<1>2. CASE UpdateConfiguration(c)
  <2>1. pc' \in [Callers -> {"idle", "configure", "filter", "notify", "thrown"}]
    BY <1>2 DEF UpdateConfiguration, TypeOK
  <2>2. updateConf' \in BOOLEAN
    BY <1>2 DEF UpdateConfiguration, TypeOK
  <2>3. QED
    BY <2>1, <2>2, <1>2 DEF UpdateConfiguration, TypeOK
<1>3. CASE Ignore(c)
  BY <1>3 DEF Ignore, TypeOK
<1>4. CASE PutMessage(c)
  <2>1. puts + 1 \in Values /\ puts + 1 \in 0..MaxLogs
    BY <1>4, LoggerAssumption DEF PutMessage, TypeOK
  <2>2. buff' \in Buffers
    BY <2>1, <1>4, PutType DEF PutMessage, TypeOK
  <2>3. Append(queued, puts + 1) \in Seq(Values)
    BY <2>1, AppendProperties DEF TypeOK
  <2>4. queued' \in Seq(Values)
    BY <2>3, <1>4 DEF PutMessage, TypeOK
  <2>5. filled' \in BOOLEAN /\ late' \in BOOLEAN
    BY <1>4 DEF PutMessage, TypeOK
  <2>6. QED
    BY <2>1, <2>2, <2>4, <2>5, <1>4 DEF PutMessage, TypeOK
<1>5. CASE Notify(c)
  <2>1. wpc' \in {wpc, "wait"} /\ missed' \in BOOLEAN
    BY <1>5 DEF Notify, Wake, TypeOK
  <2>2. QED
    BY <2>1, <1>5 DEF Notify, TypeOK
<1>6. CASE SetUpdateConf
  BY <1>6 DEF SetUpdateConf, TypeOK
<1>7. QED
  BY <1>1, <1>2, <1>3, <1>4, <1>5, <1>6 DEF CallerStep

(* Those of the worker and of the owner. The buffer holds an element        *)
(* whenever the worker takes one, since m_size counts what is queued.       *)
SizeIsCount == buff.size = Len(queued)

LEMMA OtherType ==
  ASSUME TypeOK, SizeIsCount,
         WorkerStep \/ SpuriousWakeup \/ Release \/ SetStopSignal \/ Join
  PROVE  TypeOK'
<1>1. CASE OuterLoop \/ Check \/ Sleep \/ SpuriousWakeup \/ LeaveInner \/ FlushTest
  <2>1. CASE OuterLoop \/ Check \/ Sleep
    BY <2>1 DEF OuterLoop, Check, Sleep, WorkerAt, TypeOK
  <2>2. CASE SpuriousWakeup \/ LeaveInner \/ FlushTest
    <3>1. CASE SpuriousWakeup
      BY <3>1 DEF SpuriousWakeup, WorkerAt, TypeOK
    <3>2. CASE LeaveInner
      BY <3>2 DEF LeaveInner, WorkerAt, TypeOK
    <3>3. CASE FlushTest
      BY <3>3 DEF FlushTest, WorkerAt, TypeOK
    <3>4. QED
      BY <2>2, <3>1, <3>2, <3>3
  <2>3. QED
    BY <1>1, <2>1, <2>2
<1>2. CASE TakeMessage
  <2>1. buff' \in Buffers /\ logm' \in Values \cup {Empty}
    BY <1>2, GetType DEF TakeMessage, TypeOK
  <2>2. queued # <<>>
    BY <1>2, EmptySeq DEF TakeMessage, GoesOn, IsEmpty, SizeIsCount, TypeOK
  <2>3. queued' \in Seq(Values)
    BY <2>2, <1>2, HeadTailProperties DEF TakeMessage, TypeOK
  <2>4. QED
    BY <2>1, <2>3, <1>2 DEF TakeMessage, TypeOK
<1>3. CASE WriteLog
  <2>1. written' \in Seq(Values \cup {Empty})
    BY <1>3, AppendProperties DEF WriteLog, TypeOK
  <2>2. QED
    BY <2>1, <1>3 DEF WriteLog, TypeOK
<1>4. CASE Release
  BY <1>4 DEF Release, TypeOK
<1>5. CASE SetStopSignal
  <2>1. wpc' \in {wpc, "wait"} /\ missed' \in BOOLEAN
    BY <1>5 DEF SetStopSignal, Wake, TypeOK
  <2>2. QED
    BY <2>1, <1>5 DEF SetStopSignal, TypeOK
<1>6. CASE Join
  BY <1>6 DEF Join, TypeOK
<1>7. QED
  BY <1>1, <1>2, <1>3, <1>4, <1>5, <1>6 DEF WorkerStep

(* m_size counts the messages that are queued, whatever the worker does     *)
(* with them.                                                               *)
LEMMA CountStep ==
  ASSUME TypeOK, SizeIsCount, [Next]_vars
  PROVE  SizeIsCount'
<1>1. ASSUME NEW c \in Callers, PutMessage(c)
      PROVE  SizeIsCount'
  <2>1. puts + 1 \in Values
    BY <1>1, LoggerAssumption DEF PutMessage, TypeOK
  <2>2. Len(Append(queued, puts + 1)) = Len(queued) + 1
    BY <2>1, AppendProperties DEF TypeOK
  <2>3. QED
    BY <2>2, <1>1 DEF PutMessage, Put, IsFull, SizeIsCount
<1>2. CASE TakeMessage
  <2>1. buff.size # 0 /\ queued # <<>>
    BY <1>2, EmptySeq DEF TakeMessage, GoesOn, IsEmpty, SizeIsCount, TypeOK
  <2>2. Len(Tail(queued)) = Len(queued) - 1
    BY <2>1, HeadTailProperties DEF TypeOK
  <2>3. QED
    BY <2>1, <2>2, <1>2 DEF TakeMessage, Get, IsEmpty, SizeIsCount
<1>3. ASSUME UNCHANGED <<buff, queued>> PROVE SizeIsCount'
  BY <1>3 DEF SizeIsCount
<1>4. QED
  BY <1>1, <1>2, <1>3
     DEF Next, vars, CallerStep, Log, UpdateConfiguration, Ignore, Notify,
         WorkerStep, OuterLoop, Check, Sleep, SpuriousWakeup, LeaveInner, FlushTest,
         WorkerAt, WriteLog, SetUpdateConf, Release, SetStopSignal, Join

Base == TypeOK /\ SizeIsCount

(* The type and the counter hold in every state.                            *)
THEOREM BaseCorrect == Spec => []Base
<1>1. Init => Base
  <2>1. Init => SizeIsCount
    BY DEF Init, NewBuffer, SizeIsCount
  <2>2. QED
    BY <2>1, InitType DEF Base
<1>2. Base /\ [Next]_vars => Base'
  <2> SUFFICES ASSUME TypeOK, SizeIsCount, [Next]_vars PROVE TypeOK'
    BY CountStep DEF Base
  <2>1. CASE UNCHANGED vars
    BY <2>1 DEF vars, TypeOK
  <2>2. CASE SetUpdateConf
    BY <2>2 DEF SetUpdateConf, TypeOK
  <2>3. QED
    BY <2>1, <2>2, CallerType, OtherType DEF Next
<1>3. QED
  BY <1>1, <1>2, PTL DEF Spec

(* Every variable of the logger keeps its type.                             *)
THEOREM LoggerTypeCorrect == Spec => []TypeOK
BY BaseCorrect, PTL DEF Base
-----------------------------------------------------------------------------
(* The release.                                                             *)

(* The owner sets the flush flag before the stop signal, and when no caller *)
(* is inside log; the worker ends only when told to, and has nothing left   *)
(* outside its wait and its inner loop but what came late.                  *)
ReleaseInv ==
  /\ stopSignal => flush
  /\ flush = (owner # "running")
  /\ owner # "running" => \A c \in Callers : pc[c] = "idle"
  /\ wpc = "done" => flush
  /\ wpc \in {"flushed", "top", "done"} => queued = <<>> \/ late

(* Every step keeps it: no caller is inside log once the flush flag is set. *)
LEMMA ReleaseStep ==
  ASSUME Base, ReleaseInv, [Next]_vars
  PROVE  ReleaseInv'
<1> USE DEF ReleaseInv
<1>1. ASSUME NEW c \in Callers, CallerStep(c)
      PROVE  ReleaseInv'
  <2>1. owner = "running" /\ ~flush /\ ~stopSignal /\ wpc # "done"
    BY <1>1 DEF CallerStep, Log, UpdateConfiguration, Ignore, PutMessage, Notify
  <2>2. UNCHANGED <<flush, stopSignal, owner>>
    BY <1>1 DEF CallerStep, Log, UpdateConfiguration, Ignore, PutMessage, Notify
  <2>3. wpc' # "done" /\ (wpc' = wpc \/ wpc' = "wait")
    BY <1>1, <2>1 DEF CallerStep, Log, UpdateConfiguration, Ignore, PutMessage, Notify, Wake
  <2>4. UNCHANGED <<queued, late>> \/ (wpc \in {"flushed", "top"} => late')
    BY <1>1 DEF CallerStep, Log, UpdateConfiguration, Ignore, PutMessage, Notify
  <2>5. QED
    BY <2>1, <2>2, <2>3, <2>4
<1>2. CASE SetUpdateConf
  BY <1>2 DEF SetUpdateConf
<1>3. CASE LeaveInner
  <2>1. IsEmpty(buff) => queued = <<>>
    BY EmptySeq DEF Base, TypeOK, SizeIsCount, IsEmpty
  <2>2. IsEmpty(buff)
    BY <1>3 DEF LeaveInner, GoesOn, WorkerAt, Base, TypeOK
  <2>3. QED
    BY <2>1, <2>2, <1>3 DEF LeaveInner, WorkerAt
<1>4. CASE \/ OuterLoop \/ Check \/ Sleep \/ TakeMessage \/ WriteLog \/ FlushTest
           \/ SpuriousWakeup
  BY <1>4 DEF OuterLoop, Check, Sleep, TakeMessage, WriteLog, FlushTest,
              SpuriousWakeup, WorkerAt
<1>5. CASE Release \/ Join
  BY <1>5 DEF Release, Join
<1>6. CASE SetStopSignal
  <2>1. owner = "flushing" /\ owner' = "joining" /\ UNCHANGED <<flush, pc, queued, late>>
    BY <1>6 DEF SetStopSignal
  <2>2. wpc' = wpc \/ wpc' = "wait"
    BY <1>6 DEF SetStopSignal, Wake
  <2>3. flush
    BY <2>1 DEF Base, TypeOK
  <2>4. QED
    BY <2>1, <2>2, <2>3
<1>7. CASE UNCHANGED vars
  BY <1>7 DEF vars
<1>8. QED
  BY <1>1, <1>2, <1>3, <1>4, <1>5, <1>6, <1>7 DEF Next, WorkerStep

(* The worker does not end while messages are queued, but for those that    *)
(* came after its inner loop (~Logger, worker).                             *)
THEOREM ReleaseCorrect == Spec => []ReleaseKeepsMessages
<1>1. Init => ReleaseInv
  BY DEF Init, ReleaseInv
<1>2. Base /\ ReleaseInv /\ [Next]_vars => ReleaseInv'
  BY ReleaseStep
<1>3. ReleaseInv => ReleaseKeepsMessages
  BY DEF ReleaseInv, ReleaseKeepsMessages
<1>4. QED
  BY <1>1, <1>2, <1>3, BaseCorrect, PTL DEF Spec
-----------------------------------------------------------------------------
(* No message is written twice.                                             *)

(* The message in m is in no slot.                                          *)
Gone(m) == m = Empty \/ \A s \in Slots : buff.slots[s] # m

(* A message is in one slot, in the worker's hand or in the file, and only  *)
(* messages that were put are.                                              *)
OnceInv ==
  /\ \A s \in Slots : buff.slots[s] \in 1..puts \cup {Empty}
  /\ \A s, r \in Slots : buff.slots[s] = buff.slots[r] => s = r \/ buff.slots[s] = Empty
  /\ wpc = "write" =>
       /\ logm \in 1..puts \cup {Empty} /\ Gone(logm)
       /\ \A i \in DOMAIN written : written[i] = logm => logm = Empty
  /\ \A i \in DOMAIN written : written[i] \in 1..puts \cup {Empty} /\ Gone(written[i])
  /\ WrittenOnce

(* A message is new when it is put.                                         *)
LEMMA NextMessage ==
  ASSUME TypeOK, puts < MaxLogs
  PROVE  /\ puts + 1 \in Values /\ puts + 1 # Empty
         /\ puts + 1 \notin 1..puts /\ 1..puts \subseteq 1 .. puts + 1
         /\ puts + 1 \in 1 .. puts + 1
<1>1. puts \in Nat /\ puts + 1 \in 1..MaxLogs
  BY LoggerAssumption DEF TypeOK
<1>2. puts + 1 \in Values /\ puts + 1 # Empty
  BY <1>1, LoggerAssumption, BufferAssumption
<1>3. QED
  BY <1>1, <1>2

(* put writes a new message to one slot or to none ...                      *)
LEMMA OncePut ==
  ASSUME TypeOK, OnceInv, NEW c \in Callers, PutMessage(c)
  PROVE  OnceInv'
<1> DEFINE v == puts + 1
<1>1. /\ v # Empty /\ v \notin 1..puts /\ 1..puts \subseteq 1..puts' /\ v \in 1..puts'
      /\ UNCHANGED <<wpc, logm, written>>
  BY NextMessage DEF PutMessage
<1>2. \/ UNCHANGED buff
      \/ buff'.slots = [buff.slots EXCEPT ![buff.head] = v]
  BY DEF PutMessage, Put
<1>3. buff.head \in Slots /\ buff.slots \in [Slots -> Values \cup {Empty}]
  BY DEF TypeOK, Buffers
<1>4. \A s \in Slots : buff'.slots[s] = buff.slots[s] \/ buff'.slots[s] = v
  BY <1>2, <1>3
<1>5. \A s, r \in Slots : buff'.slots[s] = v /\ buff'.slots[r] = v => s = r
  BY <1>1, <1>2, <1>3 DEF OnceInv
<1>6. \A m \in 1..puts \cup {Empty} : Gone(m) => Gone(m)'
  BY <1>1, <1>4 DEF Gone
<1>7. \A s \in Slots : buff'.slots[s] \in 1..puts' \cup {Empty}
  BY <1>1, <1>4 DEF OnceInv
<1>8. \A s, r \in Slots : buff'.slots[s] = buff'.slots[r] => s = r \/ buff'.slots[s] = Empty
  BY <1>1, <1>4, <1>5 DEF OnceInv
<1>9. wpc' = "write" =>
        /\ logm' \in 1..puts' \cup {Empty} /\ Gone(logm)'
        /\ \A i \in DOMAIN written' : written'[i] = logm' => logm' = Empty
  BY <1>1, <1>6 DEF OnceInv, Gone
<1>10. \A i \in DOMAIN written' : written'[i] \in 1..puts' \cup {Empty} /\ Gone(written[i])'
  BY <1>1, <1>6 DEF OnceInv, Gone
<1>11. WrittenOnce'
  BY <1>1 DEF OnceInv, WrittenOnce
<1>12. QED
  BY <1>7, <1>8, <1>9, <1>10, <1>11 DEF OnceInv

(* ... get takes it out of its slot ...                                     *)
LEMMA OnceTake ==
  ASSUME TypeOK, OnceInv, TakeMessage
  PROVE  OnceInv'
<1>1. buff.tail \in Slots /\ buff.slots \in [Slots -> Values \cup {Empty}]
  BY DEF TypeOK, Buffers
<1>2. /\ buff'.slots = [buff.slots EXCEPT ![buff.tail] = Empty]
      /\ logm' = buff.slots[buff.tail] /\ UNCHANGED <<puts, written>>
  BY LoggerAssumption DEF TakeMessage, Get, Got
<1>3. \A s \in Slots : buff'.slots[s] = (IF s = buff.tail THEN Empty ELSE buff.slots[s])
  BY <1>1, <1>2
<1>4. \A m : Gone(m) => Gone(m)'
  BY <1>3 DEF Gone
<1>5. Gone(logm)'
  BY <1>1, <1>2, <1>3 DEF OnceInv, Gone
<1>6. \A s \in Slots : buff'.slots[s] \in 1..puts' \cup {Empty}
  BY <1>2, <1>3 DEF OnceInv
<1>7. \A s, r \in Slots : buff'.slots[s] = buff'.slots[r] => s = r \/ buff'.slots[s] = Empty
  BY <1>3 DEF OnceInv
<1>8. /\ logm' \in 1..puts' \cup {Empty}
      /\ \A i \in DOMAIN written' : written'[i] = logm' => logm' = Empty
  BY <1>1, <1>2 DEF OnceInv, Gone
<1>9. \A i \in DOMAIN written' : written'[i] \in 1..puts' \cup {Empty} /\ Gone(written[i])'
  BY <1>2, <1>4 DEF OnceInv
<1>10. WrittenOnce'
  BY <1>2 DEF OnceInv, WrittenOnce
<1>11. QED
  BY <1>5, <1>6, <1>7, <1>8, <1>9, <1>10 DEF OnceInv

(* ... and the worker moves it from its hand to the file.                   *)
LEMMA OnceWrite ==
  ASSUME TypeOK, OnceInv, WriteLog
  PROVE  OnceInv'
<1>1. /\ wpc = "write" /\ wpc' = "inner" /\ written' = Append(written, logm)
      /\ UNCHANGED <<buff, puts, logm>>
  BY DEF WriteLog
<1>2. /\ written \in Seq(Values \cup {Empty}) /\ logm \in Values \cup {Empty}
      /\ Len(written) \in Nat /\ DOMAIN written = 1..Len(written)
  BY LenProperties DEF TypeOK
<1>3. /\ DOMAIN written' = 1 .. Len(written) + 1
      /\ \A i \in 1..Len(written) : written'[i] = written[i]
      /\ written'[Len(written) + 1] = logm
  <2>1. /\ written' \in Seq(Values \cup {Empty})
        /\ Len(written') = Len(written) + 1
        /\ \A i \in 1..Len(written) : written'[i] = written[i]
        /\ written'[Len(written) + 1] = logm
    BY <1>1, <1>2, AppendProperties
  <2>2. QED
    BY <2>1, LenProperties
<1>4. \A i \in DOMAIN written' : i \in DOMAIN written \/ i = Len(written) + 1
  BY <1>2, <1>3
<1>5. \A m : Gone(m) = Gone(m)'
  BY <1>1 DEF Gone
<1>6. \A i \in DOMAIN written' : written'[i] \in 1..puts' \cup {Empty} /\ Gone(written[i])'
  BY <1>1, <1>2, <1>3, <1>4, <1>5 DEF OnceInv
<1>7. WrittenOnce'
  BY <1>1, <1>2, <1>3, <1>4 DEF OnceInv, WrittenOnce
<1>8. QED
  BY <1>1, <1>6, <1>7 DEF OnceInv, Gone

(* Whatever the buffer went through, no message is written twice: a slot    *)
(* is moved from when its message is taken (get).                           *)
THEOREM OnceCorrect == Spec => []WrittenOnce
<1>1. Init => OnceInv
  <2> SUFFICES ASSUME Init PROVE OnceInv
    OBVIOUS
  <2>1. \A s \in Slots : buff.slots[s] = Empty
    BY DEF Init, NewBuffer
  <2>2. DOMAIN written = {} /\ wpc = "top"
    BY DEF Init
  <2>3. QED
    BY <2>1, <2>2 DEF OnceInv, WrittenOnce
<1>2. Base /\ OnceInv /\ [Next]_vars => OnceInv'
  <2> SUFFICES ASSUME TypeOK, OnceInv, [Next]_vars PROVE OnceInv'
    BY DEF Base
  <2>1. ASSUME UNCHANGED <<buff, puts, logm, written>>, wpc' = wpc \/ wpc' # "write"
        PROVE  OnceInv'
    BY <2>1 DEF OnceInv, Gone, WrittenOnce
  <2>2. CASE WorkerStep
    BY <2>1, <2>2, OnceTake, OnceWrite
       DEF WorkerStep, OuterLoop, Check, Sleep, LeaveInner, FlushTest, WorkerAt
  <2>3. ASSUME NEW c \in Callers, CallerStep(c) PROVE OnceInv'
    BY <2>1, <2>3, OncePut
       DEF CallerStep, Log, UpdateConfiguration, Ignore, Notify, Wake
  <2>4. CASE SetUpdateConf \/ Release \/ SetStopSignal \/ Join \/ SpuriousWakeup
    BY <2>1, <2>4 DEF SetUpdateConf, Release, SetStopSignal, Join, SpuriousWakeup,
                      WorkerAt, Wake
  <2>5. CASE UNCHANGED vars
    BY <2>1, <2>5 DEF vars
  <2>6. QED
    BY <2>2, <2>3, <2>4, <2>5 DEF Next
<1>3. OnceInv => WrittenOnce
  BY DEF OnceInv
<1>4. QED
  BY <1>1, <1>2, <1>3, BaseCorrect, PTL DEF Spec
-----------------------------------------------------------------------------
(* The order of the file.                                                   *)

(* The buffer holds what is queued in order, behind the file.               *)
OrderInv ==
  ~filled => HoldsInOrder(buff, queued) /\ written \o InHand \o queued = [n \in 1..puts |-> n]

(* Appending the next number to the numbers so far.                         *)
LEMMA CountOn ==
  ASSUME NEW p \in Nat
  PROVE  Append([n \in 1..p |-> n], p + 1) = [n \in 1 .. p + 1 |-> n]
OBVIOUS

(* Where an element stands in a concatenation.                              *)
LEMMA AppendLast ==
  ASSUME NEW S, NEW s \in Seq(S), NEW q \in Seq(S), NEW v \in S
  PROVE  s \o Append(q, v) = Append(s \o q, v)
OBVIOUS

LEMMA MoveHead ==
  ASSUME NEW S, NEW s \in Seq(S), NEW q \in Seq(S), q # <<>>
  PROVE  s \o <<>> \o q = s \o <<Head(q)>> \o Tail(q)
OBVIOUS

(* put, get and the write keep the order, as long as a slot stays free.     *)
LEMMA OrderPut ==
  ASSUME Base, OrderInv, NEW c \in Callers, PutMessage(c)
  PROVE  OrderInv'
<1> SUFFICES ASSUME ~filled'
             PROVE  /\ HoldsInOrder(buff', queued')
                    /\ written' \o InHand' \o queued' = [n \in 1..puts' |-> n]
  BY DEF OrderInv
<1> DEFINE v == puts + 1
<1>1. /\ buff \in Buffers /\ queued \in Seq(Values) /\ buff.size = Len(queued)
      /\ puts \in Nat /\ v \in Values
  BY NextMessage, LoggerAssumption DEF Base, TypeOK, SizeIsCount, PutMessage
<1>2. ~filled /\ buff.size + 1 < MaxSize /\ buff.size # MaxSize
  <2>1. ~filled /\ ~(buff.size + 1 >= MaxSize)
    BY DEF PutMessage, Base, TypeOK
  <2>2. QED
    BY <2>1, <1>1, BufferAssumption DEF Buffers
<1>3. HoldsInOrder(buff, queued) /\ written \o InHand \o queued = [n \in 1..puts |-> n]
  BY <1>2 DEF OrderInv
<1>4. /\ buff' = Put(buff, v) /\ queued' = Append(queued, v) /\ puts' = puts + 1
      /\ written' = written /\ InHand' = InHand
  <2>1. ~IsFull(buff)
    BY <1>2 DEF IsFull
  <2>2. buff' = Put(buff, v) /\ queued' = Append(queued, v) /\ puts' = puts + 1
    BY <2>1 DEF PutMessage
  <2>3. written' = written /\ wpc' = wpc /\ logm' = logm
    BY DEF PutMessage
  <2>4. QED
    BY <2>2, <2>3 DEF InHand
<1>5. HoldsInOrder(buff', queued')
  BY <1>1, <1>2, <1>3, <1>4, PutInOrder
<1>6. written \o InHand \in Seq(Values \cup {Empty})
  <2>1. written \in Seq(Values \cup {Empty}) /\ InHand \in Seq(Values \cup {Empty})
    <3>1. written \in Seq(Values \cup {Empty}) /\ logm \in Values \cup {Empty}
      BY DEF Base, TypeOK
    <3>2. <<logm>> \in Seq(Values \cup {Empty}) /\ <<>> \in Seq(Values \cup {Empty})
      BY <3>1
    <3>3. QED
      BY <3>1, <3>2 DEF InHand
  <2>2. QED
    BY <2>1, ConcatProperties
<1>7. (written \o InHand) \o queued' = Append((written \o InHand) \o queued, v)
  <2>1. queued \in Seq(Values \cup {Empty}) /\ v \in Values \cup {Empty}
    BY <1>1, SeqMonotonic
  <2>2. (written \o InHand) \o Append(queued, v) = Append((written \o InHand) \o queued, v)
    BY <2>1, <1>6, AppendLast
  <2>3. QED
    BY <2>2, <1>4
<1>8. QED
  BY <1>1, <1>3, <1>4, <1>5, <1>7, CountOn

LEMMA OrderTake ==
  ASSUME Base, OrderInv, TakeMessage
  PROVE  OrderInv'
<1> SUFFICES ASSUME ~filled'
             PROVE  /\ HoldsInOrder(buff', queued')
                    /\ written' \o InHand' \o queued' = [n \in 1..puts' |-> n]
  BY DEF OrderInv
<1>1. /\ buff \in Buffers /\ queued \in Seq(Values) /\ buff.size = Len(queued)
      /\ queued # <<>>
  BY EmptySeq DEF Base, TypeOK, SizeIsCount, TakeMessage, GoesOn, IsEmpty
<1>2. HoldsInOrder(buff, queued) /\ written \o <<>> \o queued = [n \in 1..puts |-> n]
  BY DEF TakeMessage, OrderInv, InHand
<1>3. Got(buff) = Head(queued) /\ HoldsInOrder(Get(buff), Tail(queued))
  BY <1>1, <1>2, GetInOrder
<1>4. written \o <<>> \o queued = written \o <<Head(queued)>> \o Tail(queued)
  <2>1. queued \in Seq(Values \cup {Empty}) /\ written \in Seq(Values \cup {Empty})
    BY <1>1, SeqMonotonic DEF Base, TypeOK
  <2>2. QED
    BY <2>1, <1>1, MoveHead
<1>5. QED
  BY <1>2, <1>3, <1>4 DEF TakeMessage, InHand

LEMMA OrderWrite ==
  ASSUME Base, OrderInv, WriteLog
  PROVE  OrderInv'
<1>1. InHand = <<logm>> /\ InHand' = <<>> /\ written' = Append(written, logm)
  BY DEF WriteLog, InHand
<1>2. written' \o InHand' = written \o InHand
  <2>1. written \in Seq(Values \cup {Empty}) /\ logm \in Values \cup {Empty}
    BY DEF Base, TypeOK
  <2>2. QED
    BY <2>1, <1>1
<1>3. QED
  BY <1>2 DEF OrderInv, WriteLog

(* As long as the buffer was never full, the file holds the messages in the *)
(* order of the puts, with those that are on their way behind (llog,        *)
(* worker).                                                                 *)
THEOREM OrderCorrect == Spec => []WrittenInOrder
<1>1. Init => OrderInv
  <2> SUFFICES ASSUME Init PROVE OrderInv
    OBVIOUS
  <2>1. buff.head \in Slots /\ buff.tail = buff.head /\ queued = <<>>
    BY BufferAssumption DEF Init, NewBuffer, Slots
  <2>2. HoldsInOrder(buff, queued)
    BY <2>1, NoneInOrder
  <2>3. written \o InHand \o queued = [n \in 1..puts |-> n]
    BY DEF Init, InHand
  <2>4. QED
    BY <2>2, <2>3 DEF OrderInv
<1>2. Base /\ OrderInv /\ [Next]_vars => OrderInv'
  <2> SUFFICES ASSUME Base, OrderInv, [Next]_vars PROVE OrderInv'
    OBVIOUS
  <2>1. ASSUME UNCHANGED <<buff, puts, logm, queued, written, filled>>,
               wpc' = wpc \/ (wpc # "write" /\ wpc' # "write")
        PROVE  OrderInv'
    BY <2>1 DEF OrderInv, InHand
  <2>2. CASE WorkerStep
    BY <2>1, <2>2, OrderTake, OrderWrite
       DEF WorkerStep, OuterLoop, Check, Sleep, LeaveInner, FlushTest, WorkerAt
  <2>3. ASSUME NEW c \in Callers, CallerStep(c) PROVE OrderInv'
    BY <2>1, <2>3, OrderPut
       DEF CallerStep, Log, UpdateConfiguration, Ignore, Notify, Wake
  <2>4. CASE SetUpdateConf \/ Release \/ SetStopSignal \/ Join \/ SpuriousWakeup
    BY <2>1, <2>4 DEF SetUpdateConf, Release, SetStopSignal, Join, SpuriousWakeup,
                      WorkerAt, Wake
  <2>5. CASE UNCHANGED vars
    BY <2>1, <2>5 DEF vars
  <2>6. QED
    BY <2>2, <2>3, <2>4, <2>5 DEF Next
<1>3. OrderInv => WrittenInOrder
  BY DEF OrderInv, WrittenInOrder
<1>4. QED
  BY <1>1, <1>2, <1>3, BaseCorrect, PTL DEF Spec
==============================================================================

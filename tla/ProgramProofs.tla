---------------------------- MODULE ProgramProofs ----------------------------
(***************************************************************************)
(* The program on top of the framework.                                    *)
(* The lifecycle, for any number of items and signals: nothing is released *)
(* while a thread that uses it is left.                                    *)
(* The weather station, with any buttons, any press and any queue: the     *)
(* start-up takes its states in order, measuring goes on, the headlights   *)
(* go off, the alarm follows the levels and only an alarm loses a refresh  *)
(* of the LCD.                                                             *)
(***************************************************************************)
EXTENDS Weather, Lifecycle, SequenceTheorems, TLAPS

Ending == {"kill", "join", "destroy", "release", "exit", "exited"}
Released == {"destroy", "release", "exit", "exited"}

(* The worker is joined before the signal thread is told to end, and that   *)
(* one is joined before anything is released.                               *)
JoinedInOrder ==
  /\ main \in Ending => worker = "none"
  /\ main \in Released => signals = "ended"

(* Without a worker no item has a thread: the worker stopped them one by    *)
(* one when it took FINISH.                                                 *)
ItemsStopped ==
  /\ worker \in {"none", "ended"} => \A i \in Items : item[i] = "off"
  /\ worker = "finish" => \A i \in Items : i < at => item[i] = "off"

LifecycleInv == LifecycleTypeOK /\ JoinedInOrder /\ ItemsStopped

(* A wake-up moves the worker only from its sleep.                          *)
LEMMA WakeTypes ==
  ASSUME LifecycleTypeOK, WakeWorker
  PROVE  /\ worker' \in {"none", "check", "prewait", "asleep", "drain", "entry",
                         "finish", "ended"}
         /\ missed' \in BOOLEAN
<1>1. worker' = worker \/ worker' = "check"  BY DEF WakeWorker
<1>2. missed' \in BOOLEAN
  <2>1. CASE worker = "asleep"  BY <2>1 DEF WakeWorker
  <2>2. CASE worker # "asleep"  BY <2>2 DEF WakeWorker, LifecycleTypeOK
  <2> QED BY <2>1, <2>2
<1> QED BY <1>1, <1>2 DEF LifecycleTypeOK

(* A step of the stop of the robot keeps its types (PiRobot::stop).         *)
LEMMA StopItemTypes ==
  ASSUME LifecycleTypeOK, at \in Items, StopItem
  PROVE  /\ at' \in 1..N + 1
         /\ item' \in [Items -> {"off", "running", "waking", "ended"}]
         /\ told' \subseteq Items
<1>1. at \in 1..N /\ N \in Nat  BY LifecycleAssumption DEF Items
<1>2. at + 1 \in 1..N + 1  BY <1>1
<1>3. at' \in {at, at + 1} /\ at \in 1..N + 1  BY <1>1 DEF StopItem, LifecycleTypeOK
<1>4. item' = item \/ item' = [item EXCEPT ![at] = "off"]  BY DEF StopItem
<1>5. told' = told \/ told' = told \cup {at}  BY DEF StopItem
<1> QED BY <1>2, <1>3, <1>4, <1>5 DEF LifecycleTypeOK

(* Every variable keeps its type over a step of the main thread.            *)
LEMMA MainTypes == LifecycleTypeOK /\ MainNext => LifecycleTypeOK'
<1> SUFFICES ASSUME LifecycleTypeOK, MainNext  PROVE LifecycleTypeOK'  OBVIOUS
<1> USE LifecycleAssumption
<1>1. CASE Create
  <2>1. posted' \in Seq(Posts)  BY <1>1 DEF Create, LifecycleTypeOK, Posts
  <2>2. failed' \in BOOLEAN  BY <1>1 DEF Create, LifecycleTypeOK
  <2>3. worker' \in {worker, "check"}  BY <1>1 DEF Create
  <2>4. UNCHANGED <<mode, parent, pending, kicked, signals, sent, entered, at, item, told,
                    web, missed, notes>> /\ main' = "web"
    BY <1>1 DEF Create, Main, sigVars, robotVars
  <2> QED BY <2>1, <2>2, <2>3, <2>4 DEF LifecycleTypeOK
<1>2. CASE StartWeb
  BY <1>2 DEF StartWeb, LifecycleTypeOK, Main, sigVars, robotVars
<1>3. CASE StartSignalThread
  BY <1>3 DEF StartSignalThread, LifecycleTypeOK, Main, robotVars
<1>4. CASE SendStart
  BY <1>4 DEF SendStart, LifecycleTypeOK, Main, robotVars
<1>5. CASE JoinWorker
  BY <1>5 DEF JoinWorker, LifecycleTypeOK, Main, sigVars, robotVars
<1>6. CASE KillSignalThread
  <2>1. kicked' \in BOOLEAN  BY <1>6 DEF KillSignalThread
  <2>2. UNCHANGED <<mode, parent, pending, signals, sent, posted, worker, entered, at, item,
                    told, web, failed, missed, notes>> /\ main' = "join"
    BY <1>6 DEF KillSignalThread, Main, robotVars
  <2> QED BY <2>1, <2>2 DEF LifecycleTypeOK
<1>7. CASE JoinSignalThread
  BY <1>7 DEF JoinSignalThread, LifecycleTypeOK, Main, sigVars
<1>8. CASE DestroyMachine
  <2>1. at \in Items /\ StopItem  BY <1>8 DEF DestroyMachine
  <2>2. UNCHANGED <<mode, parent, main, pending, kicked, signals, sent, posted, worker,
                    entered, web, failed, missed, notes>>
    BY <1>8 DEF DestroyMachine, mainVars, sigVars
  <2> QED BY <2>1, <2>2, StopItemTypes DEF LifecycleTypeOK
<1>9. CASE ReleaseRobot
  BY <1>9 DEF ReleaseRobot, LifecycleTypeOK, Main, sigVars, robotVars
<1>10. CASE ReleaseLogger
  BY <1>10 DEF ReleaseLogger, LifecycleTypeOK, Main, sigVars, robotVars
<1>11. CASE Exit
  BY <1>11 DEF Exit, LifecycleTypeOK, Main, sigVars, robotVars
<1> QED BY <1>1, <1>2, <1>3, <1>4, <1>5, <1>6, <1>7, <1>8, <1>9, <1>10, <1>11 DEF MainNext

(* ... of the worker ...                                                    *)
LEMMA WorkerTypes == LifecycleTypeOK /\ (WorkerNext \/ SpuriousWakeup) => LifecycleTypeOK'
<1> SUFFICES ASSUME LifecycleTypeOK, WorkerNext \/ SpuriousWakeup  PROVE LifecycleTypeOK'  OBVIOUS
<1> USE LifecycleAssumption
<1>0. UNCHANGED <<mode, parent, main, pending, kicked, signals, sent, web, notes>>
  BY DEF WorkerNext, SpuriousWakeup, Check, Sleep, Drained, TakeOther, TakeStart, StartItem,
         Started, TakeFinish, ProcessFinish, WorkerStep, mainVars, sigVars
<1>1. CASE Check
  BY <1>0, <1>1 DEF Check, LifecycleTypeOK, robotVars
<1>2. CASE Sleep
  BY <1>0, <1>2 DEF Sleep, LifecycleTypeOK, robotVars
<1>3. CASE SpuriousWakeup
  <2>1. missed' \in BOOLEAN  BY <1>3 DEF SpuriousWakeup
  <2>2. worker' = "check" /\ UNCHANGED <<posted, entered, at, item, told, failed>>
    BY <1>3 DEF SpuriousWakeup, robotVars
  <2> QED BY <1>0, <2>1, <2>2 DEF LifecycleTypeOK
<1>4. CASE Drained
  BY <1>0, <1>4 DEF Drained, LifecycleTypeOK, robotVars
<1>5. CASE TakeOther
  <2>1. Tail(posted) \in Seq(Posts)  BY <1>5 DEF TakeOther, LifecycleTypeOK
  <2>2. posted' = Tail(posted) \/ posted' = Append(Tail(posted), "finish")  BY <1>5 DEF TakeOther
  <2>3. posted' \in Seq(Posts)  BY <2>1, <2>2 DEF Posts
  <2>4. UNCHANGED <<worker, entered, at, item, told, failed, missed>>
    BY <1>5 DEF TakeOther, robotVars
  <2> QED BY <1>0, <2>3, <2>4 DEF LifecycleTypeOK
<1>6. CASE TakeStart
  <2>1. Tail(posted) \in Seq(Posts)  BY <1>6 DEF TakeStart, LifecycleTypeOK
  <2>2. posted' = Tail(posted) \/ posted' = Append(Tail(posted), "finish")  BY <1>6 DEF TakeStart
  <2>3. posted' \in Seq(Posts)  BY <2>1, <2>2 DEF Posts
  <2>4. at' = at \/ at' = 1  BY <1>6 DEF TakeStart
  <2>5. at' \in 1..N + 1  BY <2>4 DEF LifecycleTypeOK
  <2>6. worker' = worker \/ worker' = "entry"  BY <1>6 DEF TakeStart
  <2>7. failed' \in BOOLEAN /\ entered' \in BOOLEAN
    <3>1. failed' \in BOOLEAN  BY <1>6 DEF TakeStart, LifecycleTypeOK
    <3>2. entered' \in BOOLEAN  BY <1>6 DEF TakeStart
    <3> QED BY <3>1, <3>2
  <2>8. UNCHANGED <<item, told, missed>>  BY <1>6 DEF TakeStart
  <2> QED BY <1>0, <2>3, <2>5, <2>6, <2>7, <2>8 DEF LifecycleTypeOK
<1>7. CASE StartItem
  <2>1. at \in 1..N /\ N \in Nat  BY <1>7 DEF StartItem, Items
  <2>2. at + 1 \in 1..N + 1  BY <2>1
  <2>3. at' = at \/ at' = at + 1  BY <1>7 DEF StartItem
  <2>4. at' \in 1..N + 1  BY <2>2, <2>3 DEF LifecycleTypeOK
  <2>5. item' = item \/ item' = [item EXCEPT ![at] = "running"]  BY <1>7 DEF StartItem
  <2>6. posted' = posted \/ posted' = posted \o <<"finish", "change">>  BY <1>7 DEF StartItem
  <2>7. posted' \in Seq(Posts)
    <3>1. posted \in Seq(Posts) /\ <<"finish", "change">> \in Seq(Posts)  BY DEF Posts, LifecycleTypeOK
    <3>2. posted \o <<"finish", "change">> \in Seq(Posts)  BY <3>1
    <3> QED BY <2>6, <3>1, <3>2
  <2>8. worker' = worker \/ worker' = "drain"  BY <1>7 DEF StartItem
  <2>9. failed' \in BOOLEAN  BY <1>7 DEF StartItem, LifecycleTypeOK
  <2>10. UNCHANGED <<entered, told, missed>>  BY <1>7 DEF StartItem
  <2> QED BY <1>0, <2>4, <2>5, <2>7, <2>8, <2>9, <2>10 DEF LifecycleTypeOK
<1>8. CASE Started
  <2>1. posted' = Append(posted, "change") /\ worker' = "drain"
        /\ UNCHANGED <<entered, at, item, told, failed, missed>>
    BY <1>8 DEF Started, robotVars
  <2>2. posted' \in Seq(Posts)  BY <2>1 DEF Posts, LifecycleTypeOK
  <2> QED BY <1>0, <2>1, <2>2 DEF LifecycleTypeOK
<1>9. CASE TakeFinish
  <2>1. posted' = Tail(posted) /\ worker' = "finish" /\ at' = 1
        /\ UNCHANGED <<entered, item, told, failed, missed>>
    BY <1>9 DEF TakeFinish
  <2>2. posted' \in Seq(Posts)  BY <1>9, <2>1 DEF TakeFinish, LifecycleTypeOK
  <2>3. at' \in 1..N + 1  BY <2>1
  <2> QED BY <1>0, <2>1, <2>2, <2>3 DEF LifecycleTypeOK
<1>10. CASE ProcessFinish
  <2>1. UNCHANGED <<posted, entered, failed, missed>>  BY <1>10 DEF ProcessFinish
  <2>2. CASE at \in Items /\ StopItem /\ worker' = worker
    BY <1>0, <2>1, <2>2, StopItemTypes DEF LifecycleTypeOK
  <2>3. CASE worker' = "ended" /\ UNCHANGED robotVars
    BY <1>0, <2>1, <2>3 DEF LifecycleTypeOK, robotVars
  <2> QED BY <1>10, <2>2, <2>3 DEF ProcessFinish
<1> QED BY <1>1, <1>2, <1>3, <1>4, <1>5, <1>6, <1>7, <1>8, <1>9, <1>10 DEF WorkerNext

(* ... and of every other thread.                                           *)
OtherNext ==
  \/ ParentSends \/ (\E s \in {"TERM", "HUP"} : Signal(s)) \/ TakeSignal \/ SignalWakes
  \/ (\E i \in Items : ItemPuts(i) \/ ItemWakes(i) \/ ItemEnds(i))
  \/ Serve \/ Terminated

LEMMA OtherTypes == LifecycleTypeOK /\ OtherNext => LifecycleTypeOK'
<1> SUFFICES ASSUME LifecycleTypeOK, OtherNext  PROVE LifecycleTypeOK'  OBVIOUS
<1> USE LifecycleAssumption
<1>1. CASE ParentSends
  BY <1>1 DEF ParentSends, LifecycleTypeOK, robotVars
<1>2. ASSUME NEW s \in {"TERM", "HUP"}, Signal(s)  PROVE LifecycleTypeOK'
  <2>1. sent \in 0..MaxSignals /\ sent < MaxSignals /\ sent' = sent + 1
        /\ pending' = pending \cup {s}
        /\ UNCHANGED <<mode, parent, main, kicked, signals, posted, worker, entered, at, item,
                       told, web, failed, missed, notes>>
    BY <1>2 DEF Signal, LifecycleTypeOK, mainVars, robotVars
  <2>2. sent' \in 0..MaxSignals  BY <2>1
  <2> QED BY <2>1, <2>2 DEF LifecycleTypeOK
<1>3. CASE TakeSignal
  <2>1. UNCHANGED <<mode, parent, main, sent, worker, entered, at, item, told, web, failed,
                    missed, notes>>
    BY <1>3 DEF TakeSignal, SignalStep, mainVars, robotVars
  <2>2. signals' \in {"starting", "finishing", "waiting"}  BY <1>3 DEF TakeSignal, SignalStep
  <2>3. posted' = posted \/ posted' = Append(posted, "start") \/ posted' = Append(posted, "finish")
    BY <1>3 DEF TakeSignal
  <2>4. posted' \in Seq(Posts)  BY <2>3 DEF Posts, LifecycleTypeOK
  <2>5. kicked' \in BOOLEAN  BY <1>3 DEF TakeSignal, LifecycleTypeOK
  <2>6. pending' \subseteq {"TERM", "HUP", "USR1"}  BY <1>3 DEF TakeSignal, LifecycleTypeOK
  <2> QED BY <2>1, <2>2, <2>4, <2>5, <2>6 DEF LifecycleTypeOK
<1>4. CASE SignalWakes
  <2>1. UNCHANGED <<mode, parent, main, pending, kicked, sent, posted, entered, at, item, told,
                    web, failed, notes>>
    BY <1>4 DEF SignalWakes, mainVars, robotVars
  <2>2. signals' \in {"waiting", "ended"}  BY <1>4 DEF SignalWakes
  <2>3. WakeWorker  BY <1>4 DEF SignalWakes
  <2> QED BY <2>1, <2>2, <2>3, WakeTypes DEF LifecycleTypeOK
<1>5. ASSUME NEW i \in Items, ItemPuts(i)  PROVE LifecycleTypeOK'
  <2>1. notes \in 0..MaxNotes /\ notes < MaxNotes /\ notes' = notes + 1
        /\ item' = [item EXCEPT ![i] = "waking"] /\ posted' = Append(posted, "activity")
        /\ UNCHANGED <<mode, parent, main, pending, kicked, signals, sent, entered, at, told,
                       web, failed, worker, missed>>
    BY <1>5 DEF ItemPuts, ItemStep, LifecycleTypeOK, mainVars, sigVars
  <2>2. notes' \in 0..MaxNotes  BY <2>1
  <2>3. posted' \in Seq(Posts)  BY <2>1 DEF Posts, LifecycleTypeOK
  <2> QED BY <2>1, <2>2, <2>3 DEF LifecycleTypeOK
<1>6. ASSUME NEW i \in Items, ItemWakes(i)  PROVE LifecycleTypeOK'
  <2>1. item' = [item EXCEPT ![i] = "running"] /\ WakeWorker
        /\ UNCHANGED <<mode, parent, main, pending, kicked, signals, sent, entered, at, told,
                       web, failed, posted, notes>>
    BY <1>6 DEF ItemWakes, ItemStep, mainVars, sigVars
  <2> QED BY <2>1, WakeTypes DEF LifecycleTypeOK
<1>7. ASSUME NEW i \in Items, ItemEnds(i)  PROVE LifecycleTypeOK'
  BY <1>7 DEF ItemEnds, ItemStep, LifecycleTypeOK, mainVars, sigVars
<1>8. CASE Serve
  BY <1>8 DEF Serve, LifecycleTypeOK, mainVars, sigVars, robotVars
<1>9. CASE Terminated
  BY <1>9 DEF Terminated, lifecycleVars, LifecycleTypeOK, mainVars, sigVars, robotVars
<1> QED BY <1>1, <1>2, <1>3, <1>4, <1>5, <1>6, <1>7, <1>8, <1>9 DEF OtherNext

LEMMA StutterTypes == LifecycleTypeOK /\ UNCHANGED lifecycleVars => LifecycleTypeOK'
  BY DEF LifecycleTypeOK, lifecycleVars, mainVars, sigVars, robotVars

LEMMA TypeStep == LifecycleTypeOK /\ [LifecycleNext]_lifecycleVars => LifecycleTypeOK'
  BY MainTypes, WorkerTypes, OtherTypes, StutterTypes DEF LifecycleNext, OtherNext

LEMMA TypeInit == LifecycleInit => LifecycleTypeOK
<1>1. N \in Nat /\ MaxSignals \in Nat /\ MaxNotes \in Nat  BY LifecycleAssumption
<1>2. 1 \in 1..N + 1 /\ 0 \in 0..MaxSignals /\ 0 \in 0..MaxNotes  BY <1>1
<1>3. <<>> \in Seq(Posts)  OBVIOUS
<1> QED BY <1>2, <1>3 DEF LifecycleInit, LifecycleTypeOK

(* Every variable of the lifecycle keeps its type (PiMain, the worker of    *)
(* the machine and the threads of the items).                               *)
THEOREM LifecycleTypeCorrect == LifecycleSpec => []LifecycleTypeOK
  BY TypeInit, TypeStep, PTL DEF LifecycleSpec
-----------------------------------------------------------------------------
(* A step of the stop of the robot takes at most the item it is at, and     *)
(* leaves it only without a thread.                                         *)
LEMMA StopItemStops ==
  ASSUME LifecycleTypeOK, at \in Items, StopItem
  PROVE  /\ \A i \in Items : item[i] = "off" => item'[i] = "off"
         /\ \A i \in Items : i < at' => i < at \/ item'[i] = "off"
<1>1. at \in 1..N /\ N \in Nat  BY LifecycleAssumption DEF Items
<1>2. item \in [Items -> {"off", "running", "waking", "ended"}]  BY DEF LifecycleTypeOK
<1>3. item' = item \/ item' = [item EXCEPT ![at] = "off"]  BY DEF StopItem
<1>4. \A i \in Items : item[i] = "off" => item'[i] = "off"  BY <1>2, <1>3
<1>5. \/ at' = at
      \/ at' = at + 1 /\ item'[at] = "off"
  BY <1>2 DEF StopItem
<1>6. \A i \in Items : i < at' => i < at \/ item'[i] = "off"
  <2> SUFFICES ASSUME NEW i \in Items, i < at'  PROVE i < at \/ item'[i] = "off"  OBVIOUS
  <2>1. i \in Nat  BY <1>1 DEF Items
  <2> QED BY <1>1, <1>5, <2>1
<1> QED BY <1>4, <1>6

LEMMA InvInit == LifecycleInit => JoinedInOrder /\ ItemsStopped
  BY DEF LifecycleInit, JoinedInOrder, ItemsStopped, Ending, Released

(* The main thread: only JoinWorker enters the end of the program, and only *)
(* JoinSignalThread the release.                                            *)
LEMMA InvMain == LifecycleInv /\ MainNext => (JoinedInOrder /\ ItemsStopped)'
<1> SUFFICES ASSUME LifecycleInv, MainNext  PROVE (JoinedInOrder /\ ItemsStopped)'  OBVIOUS
<1> USE DEF LifecycleInv, JoinedInOrder, ItemsStopped, Ending, Released, Main
<1>1. CASE Create
  <2>1. worker' = worker \/ worker' = "check"  BY <1>1 DEF Create
  <2>2. main' = "web" /\ UNCHANGED <<item, at>>  BY <1>1 DEF Create, robotVars
  <2> QED BY <2>1, <2>2
<1>2. CASE StartWeb
  BY <1>2 DEF StartWeb, sigVars, robotVars
<1>3. CASE StartSignalThread
  BY <1>3 DEF StartSignalThread, robotVars
<1>4. CASE SendStart
  BY <1>4 DEF SendStart, robotVars
<1>5. CASE JoinWorker
  BY <1>5 DEF JoinWorker, sigVars, robotVars
<1>6. CASE KillSignalThread
  BY <1>6 DEF KillSignalThread, robotVars
<1>7. CASE JoinSignalThread
  BY <1>7 DEF JoinSignalThread, sigVars
<1>8. CASE DestroyMachine
  <2>1. main = "destroy" /\ at \in Items /\ StopItem /\ UNCHANGED <<main, signals, worker>>
    BY <1>8 DEF DestroyMachine, mainVars, sigVars
  <2>2. \A i \in Items : item'[i] = "off"  BY <2>1, StopItemStops
  <2> QED BY <2>1, <2>2
<1>9. CASE ReleaseRobot
  BY <1>9 DEF ReleaseRobot, sigVars, robotVars
<1>10. CASE ReleaseLogger
  BY <1>10 DEF ReleaseLogger, sigVars, robotVars
<1>11. CASE Exit
  BY <1>11 DEF Exit, sigVars, robotVars
<1> QED BY <1>1, <1>2, <1>3, <1>4, <1>5, <1>6, <1>7, <1>8, <1>9, <1>10, <1>11 DEF MainNext

(* The worker: it ends only behind the last item.                           *)
LEMMA InvWorker == LifecycleInv /\ (WorkerNext \/ SpuriousWakeup) => (JoinedInOrder /\ ItemsStopped)'
<1> SUFFICES ASSUME LifecycleInv, WorkerNext \/ SpuriousWakeup
             PROVE  (JoinedInOrder /\ ItemsStopped)'
  OBVIOUS
<1>0. UNCHANGED <<main, signals>>
  BY DEF WorkerNext, SpuriousWakeup, Check, Sleep, Drained, TakeOther, TakeStart, StartItem,
         Started, TakeFinish, ProcessFinish, WorkerStep, mainVars, sigVars
<1>1. CASE Check \/ Sleep \/ Drained \/ SpuriousWakeup \/ TakeOther \/ TakeStart \/ StartItem
           \/ Started
  <2>1. worker \notin {"none", "ended", "finish"}
    BY <1>1 DEF Check, Sleep, Drained, SpuriousWakeup, TakeOther, TakeStart, StartItem, Started
  <2>2. worker' \notin {"none", "ended", "finish"}
    BY <1>1 DEF Check, Sleep, Drained, SpuriousWakeup, TakeOther, TakeStart, StartItem, Started
  <2> QED BY <1>0, <2>1, <2>2 DEF LifecycleInv, JoinedInOrder, ItemsStopped
<1>2. CASE TakeFinish
  <2>1. worker = "drain" /\ worker' = "finish" /\ at' = 1  BY <1>2 DEF TakeFinish
  <2>2. \A i \in Items : ~(i < 1)  BY LifecycleAssumption DEF Items
  <2> QED BY <1>0, <2>1, <2>2 DEF LifecycleInv, JoinedInOrder, ItemsStopped
<1>3. CASE ProcessFinish
  <2>1. worker = "finish" /\ main \notin Ending
    BY <1>3 DEF ProcessFinish, LifecycleInv, JoinedInOrder
  <2>2. \A i \in Items : i < at => item[i] = "off"  BY <2>1 DEF LifecycleInv, ItemsStopped
  <2>3. CASE at \in Items /\ StopItem /\ worker' = worker
    <3>1. \A i \in Items : i < at' => item'[i] = "off"
      BY <2>2, <2>3, StopItemStops DEF LifecycleInv
    <3> QED BY <1>0, <2>1, <2>3, <3>1 DEF JoinedInOrder, ItemsStopped, Ending, Released
  <2>4. CASE at \notin Items /\ worker' = "ended" /\ UNCHANGED robotVars
    <3>1. at \in 1..N + 1 /\ N \in Nat  BY LifecycleAssumption DEF LifecycleInv, LifecycleTypeOK
    <3>2. at = N + 1  BY <2>4, <3>1 DEF Items
    <3>3. \A i \in Items : i < at  BY <3>1, <3>2 DEF Items
    <3>4. \A i \in Items : item'[i] = "off"  BY <2>2, <2>4, <3>3 DEF robotVars
    <3> QED BY <1>0, <2>1, <2>4, <3>4 DEF JoinedInOrder, ItemsStopped, Ending, Released
  <2> QED BY <1>3, <2>3, <2>4 DEF ProcessFinish
<1> QED BY <1>1, <1>2, <1>3 DEF WorkerNext

(* The other threads: none starts an item, or the signal thread again.      *)
LEMMA InvOther == LifecycleInv /\ OtherNext => (JoinedInOrder /\ ItemsStopped)'
<1> SUFFICES ASSUME LifecycleInv, OtherNext  PROVE (JoinedInOrder /\ ItemsStopped)'  OBVIOUS
<1>1. UNCHANGED <<main, at>>
  BY DEF OtherNext, ParentSends, Signal, TakeSignal, SignalStep, SignalWakes, ItemPuts,
         ItemWakes, ItemEnds, ItemStep, Serve, Terminated, lifecycleVars, mainVars, robotVars
<1>2. worker' = worker \/ (worker = "asleep" /\ worker' = "check")
  BY DEF OtherNext, ParentSends, Signal, TakeSignal, SignalStep, SignalWakes, WakeWorker,
         ItemPuts, ItemWakes, ItemEnds, ItemStep, Serve, Terminated, lifecycleVars
<1>3. signals' = signals \/ signals # "ended"
  BY DEF OtherNext, ParentSends, Signal, TakeSignal, SignalStep, SignalWakes, ItemPuts,
         ItemWakes, ItemEnds, ItemStep, Serve, Terminated, lifecycleVars, sigVars
<1>4. \A j \in Items : item[j] = "off" => item'[j] = "off"
  <2>1. item \in [Items -> {"off", "running", "waking", "ended"}]  BY DEF LifecycleInv, LifecycleTypeOK
  <2>2. ASSUME NEW i \in Items, ItemPuts(i) \/ ItemWakes(i) \/ ItemEnds(i)
        PROVE  \A j \in Items : item[j] = "off" => item'[j] = "off"
    <3>1. item[i] # "off"  BY <2>2 DEF ItemPuts, ItemWakes, ItemEnds
    <3>2. \E t : item' = [item EXCEPT ![i] = t]  BY <2>2 DEF ItemPuts, ItemWakes, ItemEnds
    <3> QED BY <2>1, <3>1, <3>2
  <2>3. CASE UNCHANGED item  BY <2>3
  <2>4. UNCHANGED item \/ \E i \in Items : ItemPuts(i) \/ ItemWakes(i) \/ ItemEnds(i)
    BY DEF OtherNext, ParentSends, Signal, TakeSignal, SignalStep, SignalWakes, Serve,
           Terminated, lifecycleVars, robotVars
  <2> QED BY <2>2, <2>3, <2>4
<1>5. ItemsStopped'  BY <1>1, <1>2, <1>4 DEF LifecycleInv, ItemsStopped
<1>6. JoinedInOrder'  BY <1>1, <1>2, <1>3 DEF LifecycleInv, JoinedInOrder, Ending, Released
<1> QED BY <1>5, <1>6

LEMMA InvStutter == LifecycleInv /\ UNCHANGED lifecycleVars => (JoinedInOrder /\ ItemsStopped)'
  BY DEF LifecycleInv, JoinedInOrder, ItemsStopped, lifecycleVars, mainVars, sigVars, robotVars

(* When the machine, the robot and the logger are released, the signal      *)
(* thread, the worker and the items' threads have ended (PiMain::finish).   *)
THEOREM ReleaseSafe == LifecycleSpec => []ReleasedWhenUnused
<1>1. LifecycleInit => LifecycleInv  BY TypeInit, InvInit DEF LifecycleInv
<1>2. LifecycleInv /\ [LifecycleNext]_lifecycleVars => LifecycleInv'
  BY TypeStep, InvMain, InvWorker, InvOther, InvStutter DEF LifecycleInv, LifecycleNext, OtherNext
<1>3. LifecycleInv => ReleasedWhenUnused
  BY DEF LifecycleInv, JoinedInOrder, ItemsStopped, ReleasedWhenUnused, Ending, Released
<1> QED BY <1>1, <1>2, <1>3, PTL DEF LifecycleSpec
-----------------------------------------------------------------------------
USE DEF loopVars, timerVars, lcdVars, alarmVars, storeVars, buttonVars

(* The events that move the start-up from one state to the next.            *)
StartEvents == {Change(s) : s \in States} \cup {Pop, Tick("LCD"), Tick("WARM")}
Others == Events \ StartEvents

(* What the handlers add.                                                   *)
Moves == {Change(s) : s \in States} \cup {Pop}
News == {User(n) : n \in UserEvents} \cup {Finish}
Added == Moves \cup News

(* The state that the stack has over StInitialization.                      *)
Over(s) == <<s, "StInitialization", "StateInit">>
Substates == {"StInitializeLcd", "StInitializeSensors", "StMeasurement"}
Stacks == {<<>>, <<"StateInit">>, <<"StInitialization", "StateInit">>}
            \cup {Over(s) : s \in Substates}

(* Of those events at most one is queued, and it is one the stack is ready  *)
(* for; while the timer of a state runs there is none.                      *)
Expects(s, e) ==
  \/ s = <<>> /\ e = Change("StateInit")
  \/ s = <<"StateInit">> /\ e = Change("StInitialization")
  \/ s = <<"StInitialization", "StateInit">> /\ e \in {Change(t) : t \in Substates}
  \/ s = Over("StInitializeLcd") /\ e \in {Tick("LCD"), Pop}
  \/ s = Over("StInitializeSensors") /\ e \in {Tick("WARM"), Pop}

AtMostOne(q, T) == \A i, j \in DOMAIN q : q[i] \in T /\ q[j] \in T => i = j
NoneOf(q, T) == Range(q) \cap T = {}

StartInv ==
  /\ stack \in Stacks
  /\ AtMostOne(queue, StartEvents)
  /\ \A e \in Range(queue) \cap StartEvents : Expects(stack, e)
  /\ "LCD" \in armed => stack = Over("StInitializeLcd") /\ NoneOf(queue, StartEvents)
  /\ "WARM" \in armed => stack = Over("StInitializeSensors") /\ NoneOf(queue, StartEvents)

(* In StInitializeLcd only one of the two LEDs is on.                       *)
LightsInv == LightsGoOff /\ (Active("StInitializeLcd") => lights \subseteq {"led_white_r"})

(* Only StMeasurement starts the storages; once they run, its timers are in *)
(* the map for good, and the finish timer is not.                           *)
MeasureInv ==
  /\ storage # "off" => Active("StMeasurement")
  /\ storage = "running" => {"UPDATE", "WRITE_DATA", "SHOW_DATA"} \subseteq created
  /\ "FINISH_ROBOT" \in created \/ Queued("FINISH_ROBOT") => storage = "failed"
  /\ MeasuringGoesOn /\ RefreshLostOnlyByAlarm

(* No alarm is queued before StMeasurement measures.                        *)
AlarmInv == AlarmFollowsLevel /\ (~tested /\ ~Quiet(queue) => Active("StMeasurement"))

IInv == TypeOK /\ StartInv /\ LightsInv /\ MeasureInv /\ AlarmInv
-----------------------------------------------------------------------------
(* Queues: an event is appended, or the first one is taken and the events r *)
(* are added.                                                               *)

LEMMA RangeAppend ==
  ASSUME NEW S, NEW q \in Seq(S), NEW e \in S
  PROVE  Append(q, e) \in Seq(S) /\ Range(Append(q, e)) = Range(q) \cup {e}
<1> DEFINE q1 == Append(q, e)
<1>1. /\ q1 \in Seq(S) /\ Len(q1) = Len(q) + 1 /\ Len(q) \in Nat
      /\ \A i \in 1..Len(q) : q1[i] = q[i]
      /\ q1[Len(q) + 1] = e
  OBVIOUS
<1> HIDE DEF q1
<1>2. Range(q) = {q[i] : i \in 1..Len(q)}
  BY RangeEquality
<1>3. Range(q1) = {q1[i] : i \in 1..Len(q1)}
  BY <1>1, RangeEquality
<1>4. 1..Len(q1) = 1..Len(q) \cup {Len(q) + 1}
  BY <1>1
<1>5. Range(q1) = Range(q) \cup {e}
  BY <1>1, <1>2, <1>3, <1>4
<1>6. QED
  BY <1>1, <1>5 DEF q1

LEMMA RangeTake ==
  ASSUME NEW S, NEW q \in Seq(S), q # <<>>, NEW r \in Seq(S)
  PROVE  /\ Tail(q) \o r \in Seq(S) /\ Head(q) \in Range(q) /\ Head(q) \in S
         /\ Range(Tail(q) \o r) \cup {Head(q)} = Range(q) \cup Range(r) \cup {Head(q)}
         /\ Range(r) \subseteq Range(Tail(q) \o r)
         /\ Range(Tail(q) \o r) \subseteq Range(q) \cup Range(r)
<1>1. /\ Tail(q) \in Seq(S) /\ Len(Tail(q)) = Len(q) - 1 /\ Len(q) \in Nat \ {0}
      /\ \A i \in 1..(Len(q) - 1) : Tail(q)[i] = q[i + 1]
      /\ Head(q) = q[1]
  OBVIOUS
<1>2. Range(q) = {q[i] : i \in 1..Len(q)}
  BY RangeEquality
<1>3. Range(Tail(q)) = {Tail(q)[i] : i \in 1..(Len(q) - 1)}
  BY <1>1, RangeEquality
<1>4. Range(q) = Range(Tail(q)) \cup {Head(q)}
  <2>1. ASSUME NEW x \in Range(q) PROVE x \in Range(Tail(q)) \cup {Head(q)}
    <3>1. PICK i \in 1..Len(q) : x = q[i]
      BY <1>2
    <3>2. CASE i = 1
      BY <3>1, <3>2, <1>1
    <3>3. CASE i # 1
      <4>1. i - 1 \in 1..(Len(q) - 1) /\ Tail(q)[i - 1] = q[i]
        BY <3>3, <1>1
      <4>2. QED
        BY <4>1, <3>1, <1>3
    <3>4. QED
      BY <3>2, <3>3
  <2>2. ASSUME NEW x \in Range(Tail(q)) PROVE x \in Range(q)
    <3>1. PICK i \in 1..(Len(q) - 1) : x = q[i + 1]
      BY <1>1, <1>3
    <3>2. i + 1 \in 1..Len(q)
      BY <1>1
    <3>3. QED
      BY <3>1, <3>2, <1>2
  <2>3. Head(q) \in Range(q)
    BY <1>1, <1>2
  <2>4. QED
    BY <2>1, <2>2, <2>3
<1>5. Range(Tail(q) \o r) = Range(Tail(q)) \cup Range(r)
  <2>1. Tail(q) \in Seq(S)
    BY <1>1
  <2>2. QED
    BY <2>1, RangeConcatenation, ZenonT(60)
<1>6. QED
  BY <1>1, <1>4, <1>5

LEMMA RangeFew ==
  ASSUME NEW S, NEW a \in S, NEW b \in S
  PROVE  /\ Range(<<>>) = {} /\ <<>> \in Seq(S)
         /\ Range(<<a>>) = {a} /\ <<a>> \in Seq(S)
         /\ Range(<<a, b>>) = {a, b} /\ <<a, b>> \in Seq(S)
<1>1. <<>> \in Seq(S) /\ <<a>> \in Seq(S) /\ <<a, b>> \in Seq(S)
  OBVIOUS
<1>2. Range(<<>>) = {<<>>[i] : i \in 1..0} /\ Range(<<a>>) = {<<a>>[i] : i \in 1..1}
  <2>1. Range(<<>>) = {<<>>[i] : i \in 1..Len(<<>>)}
    BY <1>1, RangeEquality
  <2>2. Range(<<a>>) = {<<a>>[i] : i \in 1..Len(<<a>>)}
    BY <1>1, RangeEquality
  <2>3. QED
    BY <2>1, <2>2
<1>3. Range(<<a, b>>) = {<<a, b>>[i] : i \in 1..2}
  BY <1>1, RangeEquality
<1>4. 1..0 = {} /\ 1..1 = {1} /\ 1..2 = {1, 2}
  OBVIOUS
<1>5. QED
  BY <1>1, <1>2, <1>3, <1>4

LEMMA OnceAppend ==
  ASSUME NEW S, NEW q \in Seq(S), NEW e \in S, NEW T, AtMostOne(q, T),
         e \notin T \/ NoneOf(q, T)
  PROVE  AtMostOne(Append(q, e), T)
<1>1. Range(q) = {q[i] : i \in 1..Len(q)}
  BY RangeEquality
<1>2. QED
  BY <1>1 DEF AtMostOne, NoneOf

LEMMA OnceTake ==
  ASSUME NEW S, NEW q \in Seq(S), q # <<>>, NEW r \in Seq(S), NEW T, AtMostOne(q, T),
         AtMostOne(r, T), Head(q) \in T \/ NoneOf(r, T)
  PROVE  /\ AtMostOne(Tail(q) \o r, T)
         /\ Head(q) \in T => Range(Tail(q) \o r) \cap T = Range(r) \cap T
<1> DEFINE q1 == Tail(q) \o r
<1>1. /\ Len(q) \in Nat \ {0} /\ Len(r) \in Nat /\ Len(q1) = Len(q) - 1 + Len(r)
      /\ q1 \in Seq(S) /\ Head(q) = q[1]
      /\ \A i \in 1..(Len(q) - 1) : q1[i] = q[i + 1]
      /\ \A i \in 1..Len(q1) : i > Len(q) - 1 => q1[i] = r[i - (Len(q) - 1)]
  OBVIOUS
<1>2. DOMAIN q = 1..Len(q) /\ DOMAIN r = 1..Len(r) /\ DOMAIN q1 = 1..Len(q1)
  BY <1>1
<1> HIDE DEF q1
<1>3. Range(r) = {r[i] : i \in 1..Len(r)} /\ Range(q1) = {q1[i] : i \in 1..Len(q1)}
  <2>1. Range(r) = {r[i] : i \in 1..Len(r)}
    BY RangeEquality
  <2>2. Range(q1) = {q1[i] : i \in 1..Len(q1)}
    BY <1>1, RangeEquality
  <2>3. QED
    BY <2>1, <2>2
<1>4. ASSUME Head(q) \in T, NEW i \in 1..(Len(q) - 1) PROVE q1[i] \notin T
  <2>1. i + 1 \in DOMAIN q /\ 1 \in DOMAIN q /\ i + 1 # 1 /\ q1[i] = q[i + 1]
    BY <1>1, <1>2
  <2>2. QED
    BY <1>1, <1>4, <2>1 DEF AtMostOne
<1>5. ASSUME NEW i \in 1..Len(q1), i > Len(q) - 1
      PROVE  i - (Len(q) - 1) \in DOMAIN r /\ q1[i] = r[i - (Len(q) - 1)]
  BY <1>1, <1>2, <1>5
<1>6. AtMostOne(q1, T)
  <2> SUFFICES ASSUME NEW i \in 1..Len(q1), NEW j \in 1..Len(q1), q1[i] \in T, q1[j] \in T
               PROVE  i = j
    BY <1>2 DEF AtMostOne
  <2>1. CASE i =< Len(q) - 1 /\ j =< Len(q) - 1
    <3>1. i + 1 \in DOMAIN q /\ j + 1 \in DOMAIN q /\ q1[i] = q[i + 1] /\ q1[j] = q[j + 1]
      BY <1>1, <1>2, <2>1
    <3>2. i + 1 = j + 1
      BY <3>1 DEF AtMostOne
    <3>3. QED
      BY <3>2
  <2>2. CASE i > Len(q) - 1 /\ j > Len(q) - 1
    <3>1. i - (Len(q) - 1) = j - (Len(q) - 1)
      BY <1>5, <2>2 DEF AtMostOne
    <3>2. QED
      BY <3>1, <1>1
  <2>3. ASSUME NEW k \in {i, j}, k > Len(q) - 1 PROVE Head(q) \in T
    <3>1. q1[k] \in Range(r)
      BY <1>5, <1>3, <1>2, <2>3
    <3>2. QED
      BY <3>1, <2>3 DEF NoneOf
  <2>4. QED
    BY <2>1, <2>2, <2>3, <1>4, <1>1
<1>7. ASSUME Head(q) \in T PROVE Range(q1) \cap T = Range(r) \cap T
  <2>1. Range(q1) \cap T \subseteq Range(r)
    <3> SUFFICES ASSUME NEW x \in Range(q1), x \in T PROVE x \in Range(r)
      OBVIOUS
    <3>1. PICK i \in 1..Len(q1) : x = q1[i]
      BY <1>3
    <3>2. i > Len(q) - 1
      BY <1>4, <1>7, <3>1, <1>1
    <3>3. QED
      BY <3>1, <3>2, <1>5, <1>2, <1>3
  <2>2. Range(r) \subseteq Range(q1)
    BY RangeTake DEF q1
  <2>3. QED
    BY <2>1, <2>2
<1>8. QED
  BY <1>6, <1>7 DEF q1

LEMMA OnceFew ==
  ASSUME NEW S, NEW r \in Seq(S), NEW T
  PROVE  /\ Len(r) =< 1 => AtMostOne(r, T)
         /\ NoneOf(r, T) => AtMostOne(r, T)
<1>1. Range(r) = {r[i] : i \in 1..Len(r)} /\ DOMAIN r = 1..Len(r) /\ Len(r) \in Nat
  BY RangeEquality
<1>2. QED
  BY <1>1 DEF AtMostOne, NoneOf-----------------------------------------------------------------------------
(* The events                                                               *)

LEMMA Kinds ==
  /\ StartEvents \subseteq Events /\ Others \subseteq Events
  /\ Moves \subseteq StartEvents /\ News \subseteq Others /\ Added \subseteq Events
  /\ \A id \in Timers : Tick(id) \notin Added
  /\ \A id \in Timers \ {"LCD", "WARM"} : Tick(id) \in Others
  /\ \A n \in UserEvents : User(n) \in Others
  /\ Finish \in Others
  /\ \A b \in Buttons : Down(b) \in Others /\ \A n \in Lengths : Up(b, n) \in Others
<1>1. StartEvents \subseteq Events
  BY DEF StartEvents, Events, Timers
<1>s. \A e \in StartEvents :
        e.type \in {"CHANGE", "POP"} \/ (e.type = "TIMER" /\ e.name \in {"LCD", "WARM"})
  BY DEF StartEvents, Change, Pop, Tick
<1>2. \A id \in Timers \ {"LCD", "WARM"} : Tick(id) \in Others
  <2> SUFFICES ASSUME NEW id \in Timers \ {"LCD", "WARM"} PROVE Tick(id) \in Others
    OBVIOUS
  <2>1. Tick(id) \in Events
    BY DEF Events
  <2>2. Tick(id).type = "TIMER" /\ Tick(id).name = id
    BY DEF Tick
  <2>3. QED
    BY <2>1, <2>2, <1>s DEF Others
<1>3. \A n \in UserEvents : User(n) \in Others
  <2> SUFFICES ASSUME NEW n \in UserEvents PROVE User(n) \in Others
    OBVIOUS
  <2>1. User(n) \in Events /\ User(n).type = "USER"
    BY DEF Events, User
  <2>2. QED
    BY <2>1, <1>s DEF Others
<1>4. Finish \in Others
  <2>1. Finish \in Events /\ Finish.type = "FINISH"
    BY DEF Events, Finish
  <2>2. QED
    BY <2>1, <1>s DEF Others
<1>5. \A b \in Buttons : Down(b) \in Others
  <2> SUFFICES ASSUME NEW b \in Buttons PROVE Down(b) \in Others
    OBVIOUS
  <2>1. Down(b) \in Events /\ Down(b).type = "BTN_DOWN"
    BY DEF Events, Down
  <2>2. QED
    BY <2>1, <1>s DEF Others
<1>6. \A b \in Buttons, n \in Lengths : Up(b, n) \in Others
  <2> SUFFICES ASSUME NEW b \in Buttons, NEW n \in Lengths PROVE Up(b, n) \in Others
    OBVIOUS
  <2>1. Up(b, n) \in Events
    BY DEF Events
  <2>2. Up(b, n).type = "BTN_UP"
    BY DEF Up
  <2>3. \A e \in StartEvents : e.type # "BTN_UP"
    BY DEF StartEvents, Change, Pop, Tick
  <2>4. QED
    BY <2>1, <2>2, <2>3 DEF Others
<1>7. Moves \subseteq StartEvents /\ News \subseteq Others
  BY <1>3, <1>4 DEF Moves, News, StartEvents
<1>8. \A id \in Timers : Tick(id) \notin Added
  <2>1. \A e \in Added : e.type # "TIMER"
    BY DEF Added, Moves, News, Change, Pop, User, Finish
  <2>2. \A id \in Timers : Tick(id).type = "TIMER"
    BY DEF Tick
  <2>3. QED
    BY <2>1, <2>2
<1>9. QED
  BY <1>1, <1>2, <1>3, <1>4, <1>5, <1>6, <1>7, <1>8 DEF Others, Added

(* What the handlers add.                                                   *)
LEMMA Generated ==
  ASSUME NEW b \in Buttons, NEW n \in Lengths
  PROVE  LET g == GeneratedBy(b, Duration(b, n)) IN
         /\ g \subseteq {Finish, User("LCD_ON"), User("SHOW_IP"), User("HIGH_ON")}
         /\ (IF g = {} THEN <<>> ELSE <<CHOOSE e \in g : TRUE>>) \in Seq(g)
<1> DEFINE g == GeneratedBy(b, Duration(b, n))
<1>1. g \subseteq {Finish, User("LCD_ON"), User("SHOW_IP"), User("HIGH_ON")}
  BY DEF GeneratedBy
<1> HIDE DEF g
<1>2. (IF g = {} THEN <<>> ELSE <<CHOOSE e \in g : TRUE>>) \in Seq(g)
  <2>1. CASE g = {}
    BY <2>1, RangeFew
  <2>2. CASE g # {}
    <3>1. (CHOOSE e \in g : TRUE) \in g
      BY <2>2
    <3>2. QED
      BY <3>1, <2>2
  <2>3. QED
    BY <2>1, <2>2
<1>3. QED
  BY <1>1, <1>2 DEF g

LEMMA Measured ==
  ASSUME Measure
  PROVE  \E r \in Seq({User("LCD_ON"), User("LCD_OFF")}),
            a \in {<<>>, <<User("HIGH_ON")>>, <<User("HIGH_OFF")>>} :
           /\ Adds(r \o a) /\ lights' = White /\ high' \subseteq Gases
           /\ a = <<>> => (high' = {} <=> high = {})
           /\ a = <<User("HIGH_ON")>> => high' # {}
           /\ a = <<User("HIGH_OFF")>> => high' = {}
<1>1. PICK values \in [Gases -> {"normal", "high", "above"}], bright \in BOOLEAN :
        /\ high' = HighAfter(values) /\ lights' = White
        /\ Adds(LcdEvents(bright) \o AlarmEvents(HighAfter(values)))
  BY DEF Measure
<1>2. LcdEvents(bright) \in Seq({User("LCD_ON"), User("LCD_OFF")})
  BY RangeFew DEF LcdEvents
<1>3. high' \subseteq Gases
  BY <1>1 DEF HighAfter
<1>4. LET a == AlarmEvents(high') IN
      /\ a \in {<<>>, <<User("HIGH_ON")>>, <<User("HIGH_OFF")>>}
      /\ a = <<>> => (high' = {} <=> high = {})
      /\ a = <<User("HIGH_ON")>> => high' # {}
      /\ a = <<User("HIGH_OFF")>> => high' = {}
  BY DEF AlarmEvents, User
<1>5. Adds(LcdEvents(bright) \o AlarmEvents(high'))
  BY <1>1
<1>6. QED
  BY <1>1, <1>2, <1>3, <1>4, <1>5

LEMMA MeasureAdds ==
  ASSUME Measure
  PROVE  \E r \in Seq(News) : Adds(r)
<1>1. \A n \in UserEvents : User(n) \in News
  BY DEF News
<1>2. PICK r \in Seq({User("LCD_ON"), User("LCD_OFF")}),
           a \in {<<>>, <<User("HIGH_ON")>>, <<User("HIGH_OFF")>>} : Adds(r \o a)
  BY Measured
<1>3. r \in Seq(News)
  BY <1>1, SeqMonotonic DEF UserEvents
<1>4. a \in Seq(News)
  <2>1. <<>> \in Seq(News) /\ \A e \in News : <<e>> \in Seq(News)
    OBVIOUS
  <2>2. QED
    BY <1>1, <2>1 DEF UserEvents
<1>5. r \o a \in Seq(News)
  BY <1>3, <1>4
<1>6. QED
  BY <1>2, <1>5

-----------------------------------------------------------------------------
(* The handlers that move the start-up, and the others                      *)

StartHandle ==
  \/ EnterStateInit \/ EnterInitialization \/ EnterLcd \/ LcdReady \/ LeaveLcd
  \/ EnterSensors \/ SensorsWarm \/ LeaveSensors \/ EnterMeasurement \/ StorageFails

RestHandle ==
  \/ CheckIp \/ ShowIp \/ Update \/ Write \/ LightOff \/ Show
  \/ HighOn \/ HighOff \/ LcdOff \/ LcdOn \/ SaveAndFinish \/ End
  \/ \E b \in Buttons : ButtonDown(b) \/ \E n \in Lengths : ButtonUp(b, n)
  \/ Unprocessed

LEMMA HandleSplit == Handle <=> StartHandle \/ RestHandle
BY DEF Handle, StartHandle, RestHandle

(* The others take and add events that do not concern the start-up.         *)
LEMMA RestAdds ==
  ASSUME TypeOK, RestHandle
  PROVE  /\ Running /\ queue # <<>> /\ Head(queue) \in Others
         /\ \E r \in Seq(News) : Adds(r)
         /\ UNCHANGED stack /\ armed' \cap {"LCD", "WARM"} \subseteq armed
<1> DEFINE Goal == /\ Running /\ queue # <<>> /\ Head(queue) \in Others
                   /\ \E r \in Seq(News) : Adds(r)
                   /\ UNCHANGED stack /\ armed' \cap {"LCD", "WARM"} \subseteq armed
<1>0. <<>> \in Seq(News) /\ \A e \in News : <<e>> \in Seq(News)
  OBVIOUS
<1>k. /\ \A id \in Timers \ {"LCD", "WARM"} : Tick(id) \in Others
      /\ \A n \in UserEvents : User(n) \in Others
      /\ Finish \in Others
      /\ Finish \in News /\ \A n \in UserEvents : User(n) \in News
  BY Kinds DEF News
<1>1. CASE CheckIp
  <2>1. \E r \in Seq(News) : Adds(r)
    <3>1. PICK news \in {<<>>, <<User("SHOW_IP")>>} : Adds(news \o <<>>)
      BY <1>1 DEF CheckIp, DetectIp
    <3>2. news \in Seq(News)
      BY <1>0, <1>k DEF UserEvents
    <3>3. QED
      BY <3>1, <3>2
  <2>2. QED
    BY <2>1, <1>1, <1>k DEF CheckIp, Takes, Running, InitTimers, Timers
<1>2. CASE ShowIp
  BY <1>0, <1>k, <1>2 DEF ShowIp, Takes, Running, UserEvents
<1>3. CASE Update
  BY <1>3, <1>k, MeasureAdds DEF Update, InMeasurement, Takes, Running, Timers, InitTimers, MeasureTimers
<1>4. CASE Write
  BY <1>0, <1>4, <1>k DEF Write, InMeasurement, Takes, Running, Timers, Restart
<1>5. CASE LightOff
  BY <1>0, <1>5, <1>k DEF LightOff, InMeasurement, Takes, Running, Timers
<1>6. CASE Show
  BY <1>0, <1>6, <1>k DEF Show, InMeasurement, Takes, Running, Timers, UpdateLcdIfOn, UpdateLcd, Restart
<1>7. CASE HighOn
  BY <1>0, <1>7, <1>k DEF HighOn, InMeasurement, Takes, Running, UserEvents
<1>8. CASE HighOff
  BY <1>0, <1>8, <1>k DEF HighOff, InMeasurement, Takes, Running, UserEvents, UpdateLcdIfOn, UpdateLcd, Restart
<1>9. CASE LcdOff
  BY <1>0, <1>9, <1>k DEF LcdOff, InMeasurement, Takes, Running, UserEvents
<1>10. CASE LcdOn
  BY <1>0, <1>10, <1>k DEF LcdOn, InMeasurement, Takes, Running, UserEvents, UpdateLcd, Restart
<1>11. CASE SaveAndFinish
  BY <1>0, <1>11, <1>k DEF SaveAndFinish, InMeasurement, Takes, Running, Timers
<1>12. CASE End
  BY <1>0, <1>12, <1>k DEF End, Takes, Running
<1>13. ASSUME NEW b \in Buttons, ButtonDown(b) PROVE Goal
  BY <1>0, <1>13, Kinds DEF ButtonDown, Takes, Running
<1>14. ASSUME NEW b \in Buttons, NEW n \in Lengths, ButtonUp(b, n) PROVE Goal
  <2> DEFINE g == GeneratedBy(b, Duration(b, n))
             r == IF g = {} THEN <<>> ELSE <<CHOOSE e \in g : TRUE>>
  <2>1. /\ g \subseteq {Finish, User("LCD_ON"), User("SHOW_IP"), User("HIGH_ON")}
        /\ r \in Seq(g) /\ Adds(r)
    BY <1>14, Generated DEF ButtonUp
  <2> HIDE DEF g, r
  <2>2. r \in Seq(News)
    BY <2>1, <1>k, SeqMonotonic DEF UserEvents
  <2>3. QED
    BY <1>14, <2>1, <2>2, Kinds DEF ButtonUp, Takes, Running
<1>15. CASE Unprocessed
  <2>1. Head(queue) \in Others
    <3>1. CASE Head(queue).type = "BTN_UP"
      <4>1. Head(queue) \in Events
        BY <1>15 DEF TypeOK, Unprocessed
      <4>2. \A e \in StartEvents : e.type # "BTN_UP"
        BY DEF StartEvents, Change, Pop, Tick
      <4>3. QED
        BY <3>1, <4>1, <4>2 DEF Others
    <3>2. QED
      BY <3>1, <1>15, <1>k DEF Unprocessed
  <2>2. QED
    BY <1>0, <1>15, <2>1 DEF Unprocessed, Running
<1>16. QED
  BY <1>1, <1>2, <1>3, <1>4, <1>5, <1>6, <1>7, <1>8, <1>9, <1>10, <1>11, <1>12, <1>13, <1>14,
     <1>15 DEF RestHandle-----------------------------------------------------------------------------
(* The order of the start-up                                                *)

LEMMA InitStart == Init => StartInv
<1> SUFFICES ASSUME Init PROVE StartInv
  OBVIOUS
<1>1. queue = <<Change("StateInit")>> /\ stack = <<>> /\ armed = {}
  BY DEF Init
<1>2. Range(queue) = {Change("StateInit")} /\ queue \in Seq({Change("StateInit")})
  BY <1>1, RangeFew
<1>3. AtMostOne(queue, StartEvents)
  <2>1. Len(queue) =< 1
    BY <1>1
  <2>2. QED
    BY <1>2, <2>1, OnceFew
<1>4. QED
  BY <1>1, <1>2, <1>3 DEF StartInv, Stacks, Expects

LEMMA RestStart ==
  ASSUME TypeOK, StartInv, RestHandle
  PROVE  StartInv'
<1>1. PICK r \in Seq(News) : queue' = Tail(queue) \o r
  BY RestAdds DEF Adds
<1>2. r \in Seq(Events) /\ Range(r) \subseteq Others
  BY Kinds, SeqMonotonic, RangeOfSeq
<1>3. queue \in Seq(Events) /\ queue # <<>> /\ NoneOf(r, StartEvents)
  BY <1>2, RestAdds DEF TypeOK, NoneOf, Others
<1>4. AtMostOne(queue', StartEvents)
  BY <1>1, <1>2, <1>3, OnceTake, OnceFew DEF StartInv
<1>5. Range(queue') \cap StartEvents \subseteq Range(queue) \cap StartEvents
  BY <1>1, <1>2, <1>3, RangeTake DEF NoneOf
<1>6. stack' = stack /\ armed' \cap {"LCD", "WARM"} \subseteq armed
  BY RestAdds
<1>7. QED
  BY <1>4, <1>5, <1>6 DEF StartInv, NoneOf

LEMMA EnvStart ==
  ASSUME TypeOK, StartInv, NEW e \in Events, queue' = Append(queue, e), UNCHANGED stack,
         armed' \subseteq armed,
         e \in Others \/ e \in {Tick(id) : id \in armed \ armed'}
  PROVE  StartInv'
<1>1. queue \in Seq(Events) /\ Range(queue') = Range(queue) \cup {e}
  BY RangeAppend DEF TypeOK
<1>2. CASE e \in Others
  <2>1. AtMostOne(queue', StartEvents)
    BY <1>1, <1>2, OnceAppend DEF StartInv, Others
  <2>2. QED
    BY <1>1, <1>2, <2>1 DEF StartInv, NoneOf, Others
<1>3. ASSUME NEW id \in armed \ armed', e = Tick(id), e \notin Others PROVE StartInv'
  <2>1. id \in {"LCD", "WARM"}
    BY <1>3, Kinds DEF TypeOK
  <2>2. NoneOf(queue, StartEvents) /\ Expects(stack, e)
    BY <1>3, <2>1 DEF StartInv, Expects
  <2>3. AtMostOne(queue', StartEvents)
    BY <1>1, <2>2, OnceAppend DEF StartInv
  <2>4. "LCD" \notin armed' /\ "WARM" \notin armed'
    <3>1. Over("StInitializeLcd") # Over("StInitializeSensors")
      BY DEF Over
    <3>2. QED
      BY <1>3, <2>1, <3>1 DEF StartInv
  <2>5. QED
    BY <1>1, <2>2, <2>3, <2>4 DEF StartInv, NoneOf
<1>4. QED
  BY <1>2, <1>3

(* Such an event is taken, the only one that is queued.                     *)
LEMMA StartTakes ==
  ASSUME TypeOK, StartInv, NEW e \in StartEvents, Takes(e), NEW r \in Seq(Events), Adds(r),
         AtMostOne(r, StartEvents)
  PROVE  /\ AtMostOne(queue', StartEvents) /\ Expects(stack, e)
         /\ Range(queue') \cap StartEvents = Range(r) \cap StartEvents
         /\ "LCD" \notin armed /\ "WARM" \notin armed
<1>1. queue \in Seq(Events) /\ queue # <<>> /\ Head(queue) = e /\ queue' = Tail(queue) \o r
  BY DEF TypeOK, Takes, Adds
<1>2. e \in Range(queue)
  BY <1>1, RangeTake
<1>3. QED
  BY <1>1, <1>2, OnceTake DEF StartInv, NoneOf

(* An event after others that do not concern the start-up.                  *)
LEMMA OnceLast ==
  ASSUME NEW f \in Seq(News), NEW e \in Moves
  PROVE  /\ f \o <<e>> \in Seq(Added) /\ AtMostOne(f \o <<e>>, StartEvents)
         /\ Range(f \o <<e>>) \cap StartEvents = {e}
<1>1. /\ f \in Seq(Events) /\ e \in Events /\ Range(f) \subseteq Others
      /\ f \in Seq(Added) /\ e \in Added /\ e \in StartEvents
  BY Kinds, SeqMonotonic, RangeOfSeq DEF Added
<1>2. f \o <<e>> = Append(f, e)
  BY <1>1, AppendIsConcat
<1>3. NoneOf(f, StartEvents)
  BY <1>1 DEF NoneOf, Others
<1>4. AtMostOne(f, StartEvents)
  BY <1>1, <1>3, OnceFew
<1>5. AtMostOne(Append(f, e), StartEvents)
  BY <1>1, <1>3, <1>4, OnceAppend
<1>6. /\ Append(f, e) \in Seq(Added) /\ Range(Append(f, e)) = Range(f) \cup {e}
  BY <1>1, RangeAppend
<1>7. QED
  BY <1>1, <1>2, <1>3, <1>5, <1>6 DEF NoneOf

(* One start event is added at most, to whatever else is added.             *)
AddsStart(T) == \E r \in Seq(Added) : /\ Adds(r) /\ AtMostOne(r, StartEvents)
                                       /\ Range(r) \cap StartEvents = T

LEMMA OneAdded ==
  /\ \A e \in Moves : Adds(<<e>>) => AddsStart({e})
  /\ Adds(<<>>) => AddsStart({})
  /\ \A s \in States : DetectIp(<<Change(s)>>) => AddsStart({Change(s)})
<1>0. <<>> \in Seq(News) /\ <<>> \in Seq(Added)
  OBVIOUS
<1>1. ASSUME NEW e \in Moves, Adds(<<e>>) PROVE AddsStart({e})
  <2>1. <<>> \o <<e>> = <<e>>
    BY ConcatEmptySeq, RangeFew
  <2>2. QED
    BY <1>0, <1>1, <2>1, OnceLast DEF AddsStart
<1>2. ASSUME Adds(<<>>) PROVE AddsStart({})
  <2>1. AtMostOne(<<>>, StartEvents)
    BY DEF AtMostOne
  <2>e. Range(<<>>) = {}
    <3>1. Pop \in Events
      BY DEF Events
    <3>2. QED
      BY <3>1, RangeFew
  <2>2. QED
    BY <1>0, <1>2, <2>1, <2>e DEF AddsStart
<1>3. ASSUME NEW s \in States, DetectIp(<<Change(s)>>) PROVE AddsStart({Change(s)})
  <2>1. PICK news \in {<<>>, <<User("SHOW_IP")>>} : Adds(news \o <<Change(s)>>)
    BY <1>3 DEF DetectIp
  <2>2. news \in Seq(News)
    <3>1. User("SHOW_IP") \in News
      BY DEF News, UserEvents
    <3>2. <<>> \in Seq(News) /\ <<User("SHOW_IP")>> \in Seq(News)
      BY <3>1
    <3>3. QED
      BY <3>2
  <2>3. Change(s) \in Moves
    BY DEF Moves
  <2>4. QED
    BY <2>1, <2>2, <2>3, OnceLast DEF AddsStart
<1>4. QED
  BY <1>1, <1>2, <1>3

LEMMA Ready ==
  ASSUME NEW s
  PROVE  /\ Expects(s, Change("StateInit")) => s = <<>>
         /\ Expects(s, Change("StInitialization")) => s = <<"StateInit">>
         /\ \A t \in Substates :
              Expects(s, Change(t)) => s = <<"StInitialization", "StateInit">>
         /\ Expects(s, Tick("LCD")) => s = Over("StInitializeLcd")
         /\ Expects(s, Tick("WARM")) => s = Over("StInitializeSensors")
BY DEF Expects, Change, Tick, Pop, Substates

(* An event of the start-up is taken and the next one added: StartInv is    *)
(* left to what the stack expects, and to the timers that are armed.        *)
LEMMA StartMoves ==
  ASSUME TypeOK, StartInv, NEW e \in StartEvents, Takes(e), NEW T \in SUBSET StartEvents,
         AddsStart(T)
  PROVE  /\ Expects(stack, e)
         /\ ( /\ stack' \in Stacks /\ \A x \in T : Expects(stack', x)
              /\ "LCD" \in armed' => (T = {} /\ stack' = Over("StInitializeLcd"))
                                       \/ "LCD" \in armed
              /\ "WARM" \in armed' => (T = {} /\ stack' = Over("StInitializeSensors"))
                                        \/ "WARM" \in armed )
            => StartInv'
<1>1. PICK r \in Seq(Added) : /\ Adds(r) /\ AtMostOne(r, StartEvents)
                              /\ Range(r) \cap StartEvents = T
  BY DEF AddsStart
<1>i. r \in Seq(Events)
  BY Kinds, SeqMonotonic
<1>2. /\ AtMostOne(queue', StartEvents) /\ Expects(stack, e)
      /\ Range(queue') \cap StartEvents = T
      /\ "LCD" \notin armed /\ "WARM" \notin armed
  BY <1>1, <1>i, StartTakes
<1>3. QED
  BY <1>2 DEF StartInv, NoneOf

LEMMA Pushed ==
  ASSUME NEW S, NEW a \in S, NEW b \in S, NEW c \in S
  PROVE  <<a>> \o <<b>> = <<a, b>> /\ <<a>> \o <<b, c>> = <<a, b, c>>
<1> DEFINE ab == <<a>> \o <<b>>
           abc == <<a>> \o <<b, c>>
           two == <<a, b>>
           three == <<a, b, c>>
<1>1. /\ ab \in Seq(S) /\ Len(ab) = 2 /\ ab[1] = a /\ ab[2] = b
      /\ two \in Seq(S) /\ Len(two) = 2 /\ two[1] = a /\ two[2] = b
  OBVIOUS
<1>2. /\ abc \in Seq(S) /\ Len(abc) = 3 /\ abc[1] = a /\ abc[2] = b /\ abc[3] = c
      /\ three \in Seq(S) /\ Len(three) = 3 /\ three[1] = a /\ three[2] = b /\ three[3] = c
  OBVIOUS
<1> HIDE DEF ab, abc, two, three
<1>3. \A i \in 1..Len(ab) : ab[i] = two[i]
  BY <1>1
<1>4. \A i \in 1..Len(abc) : abc[i] = three[i]
  BY <1>2
<1>5. ab = two /\ abc = three
  BY <1>1, <1>2, <1>3, <1>4, SeqEqual
<1>6. QED
  BY <1>5 DEF ab, abc, two, three

LEMMA StartStep ==
  ASSUME TypeOK, StartInv, StartHandle
  PROVE  StartInv'
<1>s. /\ \A t \in States : Change(t) \in StartEvents
      /\ Pop \in StartEvents /\ Tick("LCD") \in StartEvents /\ Tick("WARM") \in StartEvents
      /\ Pop \in Moves /\ \A t \in States : Change(t) \in Moves
  BY DEF StartEvents, Moves
<1>n. /\ \A t \in States : {Change(t)} \in SUBSET StartEvents
      /\ {Pop} \in SUBSET StartEvents /\ {} \in SUBSET StartEvents
  BY <1>s
<1>p. /\ <<"StInitialization">> \o <<"StateInit">> = <<"StInitialization", "StateInit">>
      /\ \A t \in States :
           <<t>> \o <<"StInitialization", "StateInit">> = <<t, "StInitialization", "StateInit">>
  <2>1. "StInitialization" \in States /\ "StateInit" \in States
    BY DEF States
  <2>2. QED
    BY <2>1, Pushed
<1>1. CASE EnterStateInit
  <2>1. PICK count \in 0..2 :
          Adds([i \in 1..count |-> Finish] \o <<Change("StInitialization")>>)
    BY <1>1 DEF EnterStateInit
  <2>2. [i \in 1..count |-> Finish] \in Seq(News)
    <3>1. Finish \in News
      BY DEF News
    <3>2. QED
      BY <3>1
  <2>3. AddsStart({Change("StInitialization")})
    BY <2>1, <2>2, <1>s, OnceLast DEF AddsStart, States
  <2>4. Takes(Change("StateInit")) /\ stack' = <<"StateInit">> \o stack /\ armed' = armed
    BY <1>1 DEF EnterStateInit, Entering
  <2>5. stack = <<>>
    BY <2>3, <2>4, <1>s, <1>n, StartMoves, Ready DEF States
  <2>6. stack' = <<"StateInit">>
    BY <2>4, <2>5
  <2>7. QED
    BY <2>3, <2>4, <2>6, <1>s, <1>n, StartMoves DEF States, Stacks, Expects
<1>2. CASE EnterInitialization
  <2>1. /\ Takes(Change("StInitialization")) /\ stack' = <<"StInitialization">> \o stack
        /\ armed' = armed /\ AddsStart({Change("StInitializeLcd")})
    BY <1>2, <1>s, OneAdded DEF EnterInitialization, Entering, States
  <2>2. stack = <<"StateInit">>
    BY <2>1, <1>s, <1>n, StartMoves, Ready DEF States
  <2>3. stack' = <<"StInitialization", "StateInit">>
    BY <2>1, <2>2, <1>p
  <2>4. QED
    BY <2>1, <2>3, <1>s, <1>n, StartMoves DEF States, Stacks, Expects, Substates
<1>3. ASSUME NEW t \in Substates, Entering(t)
      PROVE  /\ Takes(Change(t)) /\ t \in States
             /\ stack = <<"StInitialization", "StateInit">> /\ stack' = Over(t)
  <2>1. Takes(Change(t)) /\ t \in States /\ stack' = <<t>> \o stack
    BY <1>3 DEF Entering, States, Substates
  <2>2. /\ queue \in Seq(Events) /\ queue # <<>> /\ Head(queue) = Change(t)
    BY <2>1 DEF Takes, TypeOK
  <2>3. Change(t) \in Range(queue)
    BY <2>2, RangeTake, RangeFew
  <2>4. stack = <<"StInitialization", "StateInit">>
    BY <2>1, <2>3, <1>s, Ready DEF StartInv
  <2>5. <<t>> \o <<"StInitialization", "StateInit">> = Over(t)
    BY <1>p, <2>1 DEF Over
  <2>6. QED
    BY <2>1, <2>4, <2>5
<1>4. CASE EnterLcd
  <2>1. /\ Entering("StInitializeLcd") /\ AddsStart({})
        /\ armed' = armed \cup {"LCD"}
    BY <1>4, OneAdded DEF EnterLcd, InitTimers
  <2>2. QED
    BY <2>1, <1>3, <1>s, <1>n, StartMoves DEF Substates, Stacks
<1>5. CASE EnterSensors
  <2>1. /\ Entering("StInitializeSensors") /\ AddsStart({})
        /\ armed' = armed \cup {"WARM"}
    BY <1>5, OneAdded DEF EnterSensors, InitTimers
  <2>2. QED
    BY <2>1, <1>3, <1>s, <1>n, StartMoves DEF Substates, Stacks
<1>6. CASE StorageFails
  <2>1. /\ Entering("StMeasurement") /\ AddsStart({})
        /\ armed' = armed \cup {"FINISH_ROBOT"}
    BY <1>6, OneAdded DEF StorageFails, InitTimers
  <2>2. QED
    BY <2>1, <1>3, <1>s, <1>n, StartMoves DEF Substates, Stacks
<1>7. CASE EnterMeasurement
  <2>1. /\ Entering("StMeasurement")
        /\ armed' = armed \cup {"MEASURE_LIGHT", "UPDATE", "SHOW_DATA", "WRITE_DATA"}
    BY <1>7 DEF EnterMeasurement, InitTimers, MeasureTimers
  <2>2. AddsStart({})
    <3>1. PICK r \in Seq(News) : Adds(r)
      BY <1>7, MeasureAdds DEF EnterMeasurement
    <3>2. r \in Seq(Added) /\ NoneOf(r, StartEvents)
      BY Kinds, SeqMonotonic, RangeOfSeq DEF NoneOf, Others, Added
    <3>3. QED
      BY <3>1, <3>2, OnceFew DEF AddsStart, NoneOf
  <2>3. QED
    BY <2>1, <2>2, <1>3, <1>s, <1>n, StartMoves DEF Substates, Stacks
<1>8. CASE LcdReady
  <2>1. /\ Takes(Tick("LCD")) /\ stack' = stack /\ armed' = armed /\ AddsStart({Pop})
    BY <1>8, <1>s, OneAdded DEF LcdReady
  <2>2. stack = Over("StInitializeLcd")
    BY <2>1, <1>s, <1>n, StartMoves, Ready
  <2>3. QED
    BY <2>1, <2>2, <1>s, <1>n, StartMoves DEF Expects, StartInv
<1>9. CASE SensorsWarm
  <2>1. /\ Takes(Tick("WARM")) /\ stack' = stack /\ armed' = armed /\ AddsStart({Pop})
    BY <1>9, <1>s, OneAdded DEF SensorsWarm
  <2>2. stack = Over("StInitializeSensors")
    BY <2>1, <1>s, <1>n, StartMoves, Ready
  <2>3. QED
    BY <2>1, <2>2, <1>s, <1>n, StartMoves DEF Expects, StartInv
<1>10. ASSUME NEW t \in Substates, Active(t) PROVE stack = Over(t)
  <2>1. stack # <<>> /\ Head(stack) = t
    BY <1>10 DEF Active
  <2>2. QED
    BY <2>1 DEF StartInv, Stacks, Over, Substates
<1>11. CASE LeaveLcd
  <2>1. /\ Takes(Pop) /\ stack' = Tail(stack) /\ armed' = armed \cup {"IP_CHECK"}
        /\ AddsStart({Change("StInitializeSensors")})
    BY <1>11, <1>s, OneAdded DEF LeaveLcd, InitTimers, States
  <2>2. stack = Over("StInitializeLcd")
    BY <1>11, <1>10 DEF LeaveLcd, Substates
  <2>3. stack' = <<"StInitialization", "StateInit">>
    BY <2>1, <2>2 DEF Over
  <2>4. QED
    BY <2>1, <2>3, <1>s, <1>n, StartMoves DEF States, Stacks, Expects, Substates
<1>12. CASE LeaveSensors
  <2>1. /\ Takes(Pop) /\ stack' = Tail(stack) /\ armed' = armed
        /\ AddsStart({Change("StMeasurement")})
    BY <1>12, <1>s, OneAdded DEF LeaveSensors, States
  <2>2. stack = Over("StInitializeSensors")
    BY <1>12, <1>10 DEF LeaveSensors, Substates
  <2>3. stack' = <<"StInitialization", "StateInit">>
    BY <2>1, <2>2 DEF Over
  <2>4. QED
    BY <2>1, <2>3, <1>s, <1>n, StartMoves DEF States, Stacks, Expects, Substates
<1>13. QED
  BY <1>1, <1>2, <1>4, <1>5, <1>6, <1>7, <1>8, <1>9, <1>11, <1>12 DEF StartHandle
-----------------------------------------------------------------------------
(* The environment, and the types                                           *)

Env ==
  \/ \E id \in Timers : Expire(id)
  \/ \E b \in Buttons : Press(b) \/ Release(b)
  \/ FinishRequest

LEMMA NextSplit == Next <=> Env \/ Handle
BY DEF Next, Env

(* The environment adds one event, that of a timer only when it was armed;  *)
(* a timer stops only when its event is added.                              *)
LEMMA EnvAdds ==
  ASSUME TypeOK, Env
  PROVE  \E e \in Events :
           /\ queue' = Append(queue, e) /\ Running /\ e \notin Alarms
           /\ e \in Others \/ e \in {Tick(id) : id \in armed \ armed'}
           /\ armed' \subseteq armed /\ \A id \in armed \ armed' : e = Tick(id)
           /\ \A id \in Timers : e = Tick(id) => id \in armed
           /\ UNCHANGED <<stack, ended, created, lights, lcdVars, alarmVars, storeVars, seen, tested>>
<1> DEFINE Goal(e) ==
      /\ queue' = Append(queue, e) /\ Running /\ e \notin Alarms
      /\ e \in Others \/ e \in {Tick(id) : id \in armed \ armed'}
      /\ armed' \subseteq armed /\ \A id \in armed \ armed' : e = Tick(id)
      /\ \A id \in Timers : e = Tick(id) => id \in armed
      /\ UNCHANGED <<stack, ended, created, lights, lcdVars, alarmVars, storeVars, seen, tested>>
<1>1. ASSUME NEW id \in Timers, Expire(id) PROVE Tick(id) \in Events /\ Goal(Tick(id))
  <2>1. Tick(id) \in Events /\ Tick(id) \notin Alarms
    BY DEF Events, Alarms, Tick, User
  <2>2. Tick(id) \in Others \/ id \in armed \ armed'
    <3>1. CASE id \in {"LCD", "WARM"}
      BY <1>1, <3>1 DEF Expire, Interval
    <3>2. CASE id \notin {"LCD", "WARM"}
      BY <3>2, Kinds
    <3>3. QED
      BY <3>1, <3>2
  <2>3. \A x \in Timers : Tick(id) = Tick(x) => x = id
    BY DEF Tick
  <2>4. QED
    BY <1>1, <2>1, <2>2, <2>3 DEF Expire, HasRoom, Running
<1>2. ASSUME NEW b \in Buttons, Press(b) PROVE Down(b) \in Events /\ Goal(Down(b))
  <2>1. Down(b) \in Others /\ Down(b) \in Events
    BY Kinds
  <2>2. Down(b) \notin Alarms /\ \A id \in Timers : Down(b) # Tick(id)
    BY DEF Down, Alarms, User, Tick
  <2>3. QED
    BY <1>2, <2>1, <2>2 DEF Press, HasRoom, Running
<1>3. ASSUME NEW b \in Buttons, Release(b)
      PROVE  Up(b, held[b]) \in Events /\ Goal(Up(b, held[b]))
  <2>1. held[b] \in Lengths
    BY <1>3 DEF Release, TypeOK
  <2>2. Up(b, held[b]) \in Others /\ Up(b, held[b]) \in Events
    BY <2>1, Kinds
  <2>3. Up(b, held[b]) \notin Alarms /\ \A id \in Timers : Up(b, held[b]) # Tick(id)
    <3>1. Up(b, held[b]).type = "BTN_UP"
      BY DEF Up
    <3>2. \A id \in Timers : Tick(id).type = "TIMER"
      BY DEF Tick
    <3>3. \A e \in Alarms : e.type = "USER"
      BY DEF Alarms, User
    <3>4. QED
      BY <3>1, <3>2, <3>3
  <2>4. QED
    BY <1>3, <2>2, <2>3 DEF Release, HasRoom, Running
<1>4. ASSUME FinishRequest PROVE Finish \in Events /\ Goal(Finish)
  <2>1. Finish \in Others /\ Finish \in Events
    BY Kinds
  <2>2. Finish \notin Alarms /\ \A id \in Timers : Finish # Tick(id)
    BY DEF Finish, Alarms, User, Tick
  <2>3. QED
    BY <1>4, <2>1, <2>2 DEF FinishRequest, HasRoom, Running
<1>5. QED
  BY <1>1, <1>2, <1>3, <1>4 DEF Env

LEMMA EnvType ==
  ASSUME TypeOK, Env
  PROVE  TypeOK'
<1>1. PICK e \in Events :
        /\ queue' = Append(queue, e) /\ armed' \subseteq armed
        /\ UNCHANGED <<stack, ended, created, lights, lcdVars, alarmVars, storeVars, seen, tested>>
  BY EnvAdds
<1>2. queue' \in Seq(Events)
  BY <1>1, RangeAppend DEF TypeOK
<1>3. held' \in [Buttons -> Lengths \cup {0}] /\ presses' \in 0..MaxPresses
  BY WeatherAssumption DEF Env, Expire, Press, Release, FinishRequest, TypeOK
<1>4. QED
  BY <1>1, <1>2, <1>3 DEF TypeOK

LEMMA QueueType ==
  ASSUME TypeOK, Handle
  PROVE  queue # <<>> /\ \E r \in Seq(Added) : Adds(r)
<1>s. Pop \in Moves /\ \A t \in States : Change(t) \in Moves
  BY DEF Moves
<1>1. CASE EnterStateInit
  <2>1. PICK count \in 0..2 :
          Adds([i \in 1..count |-> Finish] \o <<Change("StInitialization")>>)
    BY <1>1 DEF EnterStateInit
  <2>2. Finish \in Added /\ Change("StInitialization") \in Added
    BY <1>s DEF States, Added, News
  <2>3. [i \in 1..count |-> Finish] \o <<Change("StInitialization")>> \in Seq(Added)
    BY <2>2
  <2>4. QED
    BY <1>1, <2>1, <2>3 DEF EnterStateInit, Entering, Takes
<1>2. CASE EnterMeasurement
  <2>1. PICK r \in Seq(News) : Adds(r)
    BY <1>2, MeasureAdds DEF EnterMeasurement
  <2>2. r \in Seq(Added)
    BY SeqMonotonic DEF Added
  <2>3. QED
    BY <1>2, <2>1, <2>2 DEF EnterMeasurement, Entering, Takes
<1>3. CASE RestHandle
  <2>1. PICK r \in Seq(News) : Adds(r)
    BY <1>3, RestAdds
  <2>2. r \in Seq(Added)
    BY SeqMonotonic DEF Added
  <2>3. QED
    BY <1>3, <2>1, <2>2, RestAdds
<1>4. CASE \/ EnterInitialization \/ EnterLcd \/ LcdReady \/ LeaveLcd
           \/ EnterSensors \/ SensorsWarm \/ LeaveSensors \/ StorageFails
  <2>1. queue # <<>>
    BY <1>4 DEF EnterInitialization, EnterLcd, LcdReady, LeaveLcd, EnterSensors, SensorsWarm,
                LeaveSensors, StorageFails, Entering, Takes
  <2>2. \/ Adds(<<>>) \/ Adds(<<Pop>>) \/ \E t \in States : Adds(<<Change(t)>>)
        \/ \E t \in States : DetectIp(<<Change(t)>>)
    BY <1>4 DEF EnterInitialization, EnterLcd, LcdReady, LeaveLcd, EnterSensors, SensorsWarm,
                LeaveSensors, StorageFails, States
  <2>3. QED
    BY <1>s, <2>1, <2>2, OneAdded DEF AddsStart
<1>5. QED
  BY <1>1, <1>2, <1>3, <1>4, HandleSplit DEF StartHandle

(* Lemma for the types of what the handlers assign.                         *)
LEMMA HandleType ==
  ASSUME TypeOK, StartInv, Handle
  PROVE  TypeOK'
<1>1. queue' \in Seq(Events)
  <2>1. PICK r \in Seq(Added) : Adds(r)
    BY QueueType
  <2>2. queue \in Seq(Events) /\ queue # <<>> /\ r \in Seq(Events)
    BY QueueType, Kinds, SeqMonotonic DEF TypeOK
  <2>3. QED
    BY <2>1, <2>2, RangeTake DEF Adds
<1>2. stack' \in Seq(States)
  <2>1. stack' \in Stacks
    BY RestStart, StartStep, HandleSplit DEF StartInv
  <2>2. /\ <<>> \in Seq(States) /\ <<"StateInit">> \in Seq(States)
        /\ <<"StInitialization", "StateInit">> \in Seq(States)
    BY DEF States
  <2>3. \A t \in Substates : Over(t) \in Seq(States)
    BY DEF States, Substates, Over
  <2>4. QED
    BY <2>1, <2>2, <2>3 DEF Stacks
<1>t. /\ created \subseteq Timers /\ armed \subseteq created
  BY DEF TypeOK
<1>3. created' \subseteq Timers /\ armed' \subseteq created'
  <2>1. CASE StartHandle
    BY <2>1, <1>t DEF StartHandle, EnterStateInit, EnterInitialization, EnterLcd, LcdReady, LeaveLcd,
       EnterSensors, SensorsWarm, LeaveSensors, EnterMeasurement, StorageFails, InitTimers, Timers,
       MeasureTimers
  <2>2. CASE RestHandle
    BY <2>2, <1>t DEF RestHandle, CheckIp, ShowIp, Update, Write, LightOff, Show,
       HighOn, HighOff, LcdOff, LcdOn, SaveAndFinish, End, ButtonDown, ButtonUp, Unprocessed,
       InitTimers, Timers, Restart, UpdateLcdIfOn, UpdateLcd, MeasureTimers
  <2>3. QED
    BY <2>1, <2>2, HandleSplit
<1>4. /\ lights' \subseteq White /\ high' \subseteq Gases
  <2>1. CASE Update \/ EnterMeasurement
    BY <2>1, Measured DEF Update, EnterMeasurement
  <2>2. CASE ~(Update \/ EnterMeasurement)
    BY <2>2 DEF TypeOK, White, Handle, EnterStateInit, EnterInitialization, EnterLcd, LcdReady,
       LeaveLcd, EnterSensors, SensorsWarm, LeaveSensors, StorageFails, CheckIp, ShowIp, Write,
       LightOff, Show, HighOn, HighOff, LcdOff, LcdOn, SaveAndFinish, End, ButtonDown, ButtonUp,
       Unprocessed
  <2>3. QED
    BY <2>1, <2>2
<1>5. ended' \in {"no", "finished", "crashed"}
  BY DEF TypeOK, Handle, EnterStateInit, EnterInitialization, EnterLcd, LcdReady,
     LeaveLcd, EnterSensors, SensorsWarm, LeaveSensors, EnterMeasurement, StorageFails, CheckIp,
     ShowIp, Update, Write, LightOff, Show, HighOn, HighOff, LcdOff, LcdOn, SaveAndFinish, End,
     ButtonDown, ButtonUp, Unprocessed
<1>6. lcd' \in BOOLEAN /\ screen' \in {"blank", "status", "measure", "ip"} /\ alarmLit' \in BOOLEAN
  <2>1. lcd' \in BOOLEAN /\ alarmLit' \in BOOLEAN
    <3>1. lcd \in BOOLEAN /\ alarmLit \in BOOLEAN
      BY DEF TypeOK
    <3>2. CASE StartHandle
      BY <3>1, <3>2 DEF StartHandle, EnterStateInit, EnterInitialization, EnterLcd, LcdReady,
         LeaveLcd, EnterSensors, SensorsWarm, LeaveSensors, EnterMeasurement, StorageFails, UpdateLcdIfOn, UpdateLcd
    <3>3. CASE RestHandle
      <4>1. lcd' \in BOOLEAN
        BY <3>1, <3>3 DEF RestHandle, CheckIp, ShowIp, Update, Write, LightOff, Show, HighOn, HighOff,
           LcdOff, LcdOn, SaveAndFinish, End, ButtonDown, ButtonUp, Unprocessed
      <4>2. alarmLit' \in BOOLEAN
        BY <3>1, <3>3 DEF RestHandle, CheckIp, ShowIp, Update, Write, LightOff, Show, HighOn, HighOff,
           LcdOff, LcdOn, SaveAndFinish, End, ButtonDown, ButtonUp, Unprocessed,
           UpdateLcdIfOn, UpdateLcd
      <4>3. QED
        BY <4>1, <4>2
    <3>4. QED
      BY <3>2, <3>3, HandleSplit
  <2>2. screen' \in {"blank", "status", "measure", "ip"}
    <3>1. screen \in {"blank", "status", "measure", "ip"}
      BY DEF TypeOK
    <3>2. CASE StartHandle
      BY <3>1, <3>2 DEF StartHandle, EnterStateInit, EnterInitialization, EnterLcd, LcdReady,
         LeaveLcd, EnterSensors, SensorsWarm, LeaveSensors, EnterMeasurement, StorageFails,
         UpdateLcdIfOn, UpdateLcd
    <3>3. CASE RestHandle
      BY <3>1, <3>3 DEF RestHandle, CheckIp, ShowIp, Update, Write, LightOff, Show, HighOn, HighOff,
         LcdOff, LcdOn, SaveAndFinish, End, ButtonDown, ButtonUp, Unprocessed, UpdateLcdIfOn, UpdateLcd
    <3>4. QED
      BY <3>2, <3>3, HandleSplit
  <2>3. QED
    BY <2>1, <2>2
<1>7. /\ blinker' \in BOOLEAN /\ storage' \in {"off", "failed", "running"} /\ client' \in BOOLEAN
  <2>1. blinker' \in BOOLEAN
    BY DEF TypeOK, Handle, EnterStateInit, EnterInitialization, EnterLcd, LcdReady,
       LeaveLcd, EnterSensors, SensorsWarm, LeaveSensors, EnterMeasurement, StorageFails, CheckIp,
       ShowIp, Update, Write, LightOff, Show, HighOn, HighOff, LcdOff, LcdOn, SaveAndFinish, End,
       ButtonDown, ButtonUp, Unprocessed
  <2>2. storage' \in {"off", "failed", "running"}
    BY WeatherAssumption DEF TypeOK, Handle, EnterStateInit, EnterInitialization, EnterLcd, LcdReady,
       LeaveLcd, EnterSensors, SensorsWarm, LeaveSensors, EnterMeasurement, StorageFails, CheckIp,
       ShowIp, Update, Write, LightOff, Show, HighOn, HighOff, LcdOff, LcdOn, SaveAndFinish, End,
       ButtonDown, ButtonUp, Unprocessed
  <2>3. client' \in BOOLEAN
    BY WeatherAssumption DEF TypeOK, Handle, EnterStateInit, EnterInitialization, EnterLcd, LcdReady,
       LeaveLcd, EnterSensors, SensorsWarm, LeaveSensors, EnterMeasurement, StorageFails, CheckIp,
       ShowIp, Update, Write, LightOff, Show, HighOn, HighOff, LcdOff, LcdOn, SaveAndFinish, End,
       ButtonDown, ButtonUp, Unprocessed
  <2>4. QED
    BY <2>1, <2>2, <2>3
<1>8. /\ held' = held /\ presses' = presses /\ seen' \subseteq Buttons /\ tested' \in BOOLEAN
  BY DEF TypeOK, Handle, EnterStateInit, EnterInitialization, EnterLcd, LcdReady,
     LeaveLcd, EnterSensors, SensorsWarm, LeaveSensors, EnterMeasurement, StorageFails, CheckIp,
     ShowIp, Update, Write, LightOff, Show, HighOn, HighOff, LcdOff, LcdOn, SaveAndFinish, End,
     ButtonDown, ButtonUp, Unprocessed, InMeasurement
<1>9. QED
  BY <1>1, <1>2, <1>3, <1>4, <1>5, <1>6, <1>7, <1>8 DEF TypeOK-----------------------------------------------------------------------------
(* The events of the timers                                                 *)

LEMMA QueuedIn ==
  ASSUME NEW q \in Seq(Events), NEW e
  PROVE  (\E i \in DOMAIN q : q[i] = e) <=> e \in Range(q)
<1>1. Range(q) = {q[i] : i \in 1..Len(q)} /\ DOMAIN q = 1..Len(q)
  BY RangeEquality
<1>2. QED
  BY <1>1

LEMMA QueuedIs ==
  ASSUME TypeOK, TypeOK', NEW id \in Timers
  PROVE  /\ Queued(id) <=> Tick(id) \in Range(queue)
         /\ Queued(id)' <=> Tick(id) \in Range(queue')
BY QueuedIn DEF Queued, TypeOK

LEMMA EnvComing ==
  ASSUME TypeOK, Env, NEW id \in Timers
  PROVE  /\ Coming(id) <=> Coming(id)'
         /\ Queued(id)' => Queued(id) \/ id \in armed
<1>1. PICK e \in Events :
        /\ queue' = Append(queue, e) /\ armed' \subseteq armed
        /\ \A x \in armed \ armed' : e = Tick(x)
        /\ e = Tick(id) => id \in armed
  BY EnvAdds
<1>2. Range(queue') = Range(queue) \cup {e}
  BY <1>1, RangeAppend DEF TypeOK
<1>3. /\ Queued(id) <=> Tick(id) \in Range(queue)
      /\ Queued(id)' <=> Tick(id) \in Range(queue')
  BY EnvType, QueuedIs
<1>4. QED
  BY <1>1, <1>2, <1>3 DEF Coming

(* No handler queues the event of a timer.                                  *)
LEMMA HandleComing ==
  ASSUME TypeOK, TypeOK', Handle, NEW id \in Timers
  PROVE  /\ Head(queue) # Tick(id) => (Queued(id)' <=> Queued(id))
         /\ Queued(id)' => Queued(id)
<1>1. PICK r \in Seq(Added) : queue' = Tail(queue) \o r
  BY QueueType DEF Adds
<1>2. queue \in Seq(Events) /\ queue # <<>> /\ r \in Seq(Events)
  BY QueueType, Kinds, SeqMonotonic DEF TypeOK
<1>3. /\ Range(queue') \cup {Head(queue)} = Range(queue) \cup Range(r) \cup {Head(queue)}
      /\ Range(queue') \subseteq Range(queue) \cup Range(r)
  BY <1>1, <1>2, RangeTake
<1>4. Tick(id) \notin Range(r)
  BY Kinds, RangeOfSeq
<1>5. QED
  BY <1>3, <1>4, QueuedIs
(* Which handler takes the event of a timer.                                *)
LEMMA HandleTakes ==
  ASSUME Handle, NEW id \in Timers, Head(queue) = Tick(id)
  PROVE  \/ id = "LCD" /\ LcdReady
         \/ id = "WARM" /\ SensorsWarm
         \/ id = "IP_CHECK" /\ CheckIp
         \/ id = "UPDATE" /\ Update
         \/ id = "WRITE_DATA" /\ Write
         \/ id = "MEASURE_LIGHT" /\ LightOff
         \/ id = "SHOW_DATA" /\ Show
         \/ id = "FINISH_ROBOT" /\ SaveAndFinish
<1>1. Head(queue).type = "TIMER" /\ Head(queue).name = id
  BY DEF Tick
<1>t. /\ \A e : Takes(e) => e.type = "TIMER"
      /\ \A t : Change(t).type = "CHANGE" /\ User(t).type = "USER" /\ Down(t).type = "BTN_DOWN"
      /\ \A b, n : Up(b, n).type = "BTN_UP"
      /\ Pop.type = "POP" /\ Finish.type = "FINISH"
  BY <1>1 DEF Takes, Change, User, Down, Up, Pop, Finish
<1>2. ~StartHandle \/ LcdReady \/ SensorsWarm
  <2>1. ~Takes(Pop) /\ \A t : ~Takes(Change(t))
    BY <1>t
  <2>2. QED
    BY <2>1 DEF StartHandle, EnterStateInit, EnterInitialization, EnterLcd, LeaveLcd,
       EnterSensors, LeaveSensors, EnterMeasurement, StorageFails, Entering
<1>3. ~(ShowIp \/ HighOn \/ HighOff \/ LcdOff \/ LcdOn \/ End)
  <2>1. ~Takes(Finish) /\ \A t : ~Takes(User(t))
    BY <1>t
  <2>2. QED
    BY <2>1 DEF ShowIp, HighOn, HighOff, LcdOff, LcdOn, End, InMeasurement
<1>4. ~Unprocessed /\ \A b \in Buttons : ~ButtonDown(b) /\ \A n \in Lengths : ~ButtonUp(b, n)
  <2>1. \A b, n : ~Takes(Down(b)) /\ ~Takes(Up(b, n))
    BY <1>t
  <2>2. ~Unprocessed
    BY <1>1, <1>t DEF Unprocessed
  <2>3. QED
    BY <2>1, <2>2 DEF ButtonDown, ButtonUp
<1>5. /\ LcdReady => id = "LCD"
      /\ SensorsWarm => id = "WARM"
      /\ CheckIp => id = "IP_CHECK"
      /\ Update => id = "UPDATE"
      /\ Write => id = "WRITE_DATA"
      /\ LightOff => id = "MEASURE_LIGHT"
      /\ Show => id = "SHOW_DATA"
      /\ SaveAndFinish => id = "FINISH_ROBOT"
  BY <1>1 DEF LcdReady, SensorsWarm, CheckIp, Update, Write, LightOff, Show, SaveAndFinish,
     InMeasurement, Takes, Tick
<1>6. RestHandle => \/ CheckIp \/ Update \/ Write \/ LightOff \/ Show \/ SaveAndFinish
  BY <1>3, <1>4 DEF RestHandle
<1>7. QED
  BY <1>2, <1>5, <1>6, HandleSplit

(* The start-up is over when the station measures.                          *)
LEMMA StartIsOver ==
  ASSUME TypeOK, StartInv, StartHandle
  PROVE  ~Active("StMeasurement")
<1>1. queue # <<>> /\ Head(queue) \in StartEvents
  BY DEF StartHandle, EnterStateInit, EnterInitialization, EnterLcd, LcdReady, LeaveLcd,
     EnterSensors, SensorsWarm, LeaveSensors, EnterMeasurement, StorageFails, Entering, Takes,
     StartEvents, States
<1>2. Head(queue) \in Range(queue)
  BY <1>1, RangeTake, RangeFew DEF TypeOK
<1>3. Expects(stack, Head(queue))
  BY <1>1, <1>2 DEF StartInv
<1>4. QED
  BY <1>3 DEF Expects, Active, Over
-----------------------------------------------------------------------------
(* Measuring goes on, and the LCD is refreshed                              *)

LEMMA InitMeasure == Init => MeasureInv
BY QueuedIn DEF Init, MeasureInv, MeasuringGoesOn, RefreshLostOnlyByAlarm, Measuring, Queued, Tick,
   Change

LEMMA EnvMeasure ==
  ASSUME TypeOK, MeasureInv, Env
  PROVE  MeasureInv'
<1>1. UNCHANGED <<stack, ended, created, lcd, alarmLit, storage>> /\ armed \subseteq created
  BY EnvAdds DEF TypeOK
<1>2. \A id \in Timers : Coming(id) <=> Coming(id)'
  BY EnvComing
<1>3. Queued("FINISH_ROBOT")' => Queued("FINISH_ROBOT") \/ "FINISH_ROBOT" \in created
  BY <1>1, EnvComing DEF Timers
<1>4. {"UPDATE", "WRITE_DATA", "SHOW_DATA"} \subseteq Timers
  BY DEF Timers
<1>5. QED
  BY <1>1, <1>2, <1>3, <1>4 DEF MeasureInv, MeasuringGoesOn, RefreshLostOnlyByAlarm, Measuring, Running,
     Active

LEMMA HandleMeasure ==
  ASSUME TypeOK, TypeOK', StartInv, MeasureInv, Handle
  PROVE  MeasureInv'
<1>t. {"UPDATE", "WRITE_DATA", "SHOW_DATA", "FINISH_ROBOT"} \subseteq Timers
  BY DEF Timers
<1>q. Queued("FINISH_ROBOT")' => Queued("FINISH_ROBOT")
  BY HandleComing, <1>t
<1>1. CASE EnterMeasurement
  <2>1. storage = "off"
    BY <1>1, StartIsOver DEF StartHandle, MeasureInv
  <2>2. /\ storage' = "running" /\ Active("StMeasurement")'
        /\ created' = created \cup {"MEASURE_LIGHT", "UPDATE", "SHOW_DATA", "WRITE_DATA"}
        /\ {"UPDATE", "SHOW_DATA", "WRITE_DATA"} \subseteq armed'
    <3>1. stack' = <<"StMeasurement">> \o stack /\ stack \in Seq(States)
      BY <1>1 DEF EnterMeasurement, Entering, TypeOK
    <3>2. stack' # <<>> /\ Head(stack') = "StMeasurement"
      BY <3>1 DEF States
    <3>3. QED
      BY <1>1, <3>2 DEF EnterMeasurement, InitTimers, MeasureTimers, Active
  <2>3. QED
    BY <1>q, <2>1, <2>2 DEF MeasureInv, MeasuringGoesOn, RefreshLostOnlyByAlarm, Coming
<1>2. CASE StorageFails
  <2>1. stack' = <<"StMeasurement">> \o stack /\ stack \in Seq(States)
    BY <1>2 DEF StorageFails, Entering, TypeOK
  <2>2. stack' # <<>> /\ Head(stack') = "StMeasurement"
    BY <2>1 DEF States
  <2>3. storage' = "failed"
    BY <1>2 DEF StorageFails
  <2>4. QED
    BY <2>2, <2>3 DEF MeasureInv, MeasuringGoesOn, RefreshLostOnlyByAlarm, Measuring, Active
<1>3. CASE StartHandle /\ ~EnterMeasurement /\ ~StorageFails
  <2>1. storage = "off" /\ "FINISH_ROBOT" \notin created
    BY <1>3, StartIsOver DEF StartHandle, MeasureInv
  <2>2. storage' = "off" /\ "FINISH_ROBOT" \notin created'
    BY <1>3, <2>1 DEF StartHandle, EnterStateInit, EnterInitialization, EnterLcd, LcdReady, LeaveLcd,
       EnterSensors, SensorsWarm, LeaveSensors, InitTimers
  <2>3. QED
    BY <1>q, <2>1, <2>2 DEF MeasureInv, MeasuringGoesOn, RefreshLostOnlyByAlarm, Measuring
<1>4. CASE RestHandle
  <2>1. UNCHANGED <<stack, storage>> /\ created \subseteq created'
    BY <1>4, RestAdds DEF RestHandle, CheckIp, ShowIp, Update, Write, LightOff, Show,
       HighOn, HighOff, LcdOff, LcdOn, SaveAndFinish, End, ButtonDown, ButtonUp, Unprocessed,
       InitTimers, Restart, UpdateLcdIfOn, UpdateLcd
  <2>2. "FINISH_ROBOT" \in created' => "FINISH_ROBOT" \in created
    <3>1. CASE Update
      BY <3>1 DEF Update, InitTimers, MeasureTimers
    <3>2. CASE CheckIp
      BY <3>2 DEF CheckIp, InitTimers
    <3>3. CASE ~Update /\ ~CheckIp
      <4>1. created' = created
        BY <1>4, <3>3 DEF RestHandle, ShowIp, Write, LightOff, Show, HighOn, HighOff, LcdOff, LcdOn,
           SaveAndFinish, End, ButtonDown, ButtonUp, Unprocessed, Restart, UpdateLcdIfOn, UpdateLcd
      <4>2. QED
        BY <4>1
    <3>4. QED
      BY <3>1, <3>2, <3>3
  <2>3. ASSUME Measuring' PROVE Measuring /\ ~SaveAndFinish
    <3>1. Running /\ storage = "running" /\ ~Queued("FINISH_ROBOT")
      BY <1>4, <2>1, <2>3, RestAdds DEF Measuring, MeasureInv
    <3>2. Head(queue) # Tick("FINISH_ROBOT")
      <4>1. Head(queue) \in Range(queue)
        BY <1>4, RestAdds, RangeTake, RangeFew DEF TypeOK
      <4>2. QED
        BY <3>1, <4>1, <1>t, QueuedIs
    <3>3. QED
      BY <3>1, <3>2 DEF Measuring, SaveAndFinish, InMeasurement, Takes
  <2>4. ASSUME Measuring', NEW id \in {"UPDATE", "WRITE_DATA", "SHOW_DATA"},
               id \in armed => id \in armed', Coming(id), Head(queue) # Tick(id)
        PROVE  Coming(id)'
    BY <2>4, <1>t, HandleComing DEF Coming
  <2>5. ASSUME Measuring' PROVE Coming("UPDATE")'
    <3>1. Coming("UPDATE") /\ "UPDATE" \in created /\ ~SaveAndFinish
      BY <2>3, <2>5 DEF MeasureInv, MeasuringGoesOn, Measuring
    <3>2. CASE Update
      BY <3>1, <3>2 DEF Update, InitTimers, Coming
    <3>3. CASE ~Update
      <4>1. Head(queue) # Tick("UPDATE")
        BY <3>3, <1>t, HandleTakes
      <4>2. "UPDATE" \in armed => "UPDATE" \in armed'
        BY <1>4, <3>1 DEF RestHandle, CheckIp, ShowIp, Update, Write, LightOff, Show,
           HighOn, HighOff, LcdOff, LcdOn, End, ButtonDown, ButtonUp, Unprocessed,
           InitTimers, Restart, UpdateLcdIfOn, UpdateLcd
      <4>3. QED
        BY <2>4, <2>5, <3>1, <4>1, <4>2
    <3>4. QED
      BY <3>2, <3>3
  <2>6. ASSUME Measuring' PROVE Coming("WRITE_DATA")'
    <3>1. Coming("WRITE_DATA") /\ "WRITE_DATA" \in created /\ ~SaveAndFinish
      BY <2>3, <2>6 DEF MeasureInv, MeasuringGoesOn, Measuring
    <3>2. CASE Write
      BY <3>1, <3>2 DEF Write, Restart, Coming
    <3>3. CASE ~Write
      <4>1. Head(queue) # Tick("WRITE_DATA")
        BY <3>3, <1>t, HandleTakes
      <4>2. "WRITE_DATA" \in armed => "WRITE_DATA" \in armed'
        BY <1>4, <3>1 DEF RestHandle, CheckIp, ShowIp, Update, Write, LightOff, Show,
           HighOn, HighOff, LcdOff, LcdOn, End, ButtonDown, ButtonUp, Unprocessed,
           InitTimers, Restart, UpdateLcdIfOn, UpdateLcd
      <4>3. QED
        BY <2>4, <2>6, <3>1, <4>1, <4>2
    <3>4. QED
      BY <3>2, <3>3
  <2>7. ASSUME Measuring', lcd', ~alarmLit' PROVE Coming("SHOW_DATA")'
    <3>1. "SHOW_DATA" \in created /\ ~SaveAndFinish /\ (lcd => Coming("SHOW_DATA") \/ alarmLit)
      BY <2>3, <2>7 DEF MeasureInv, RefreshLostOnlyByAlarm, Measuring
    <3>2. CASE Show
      BY <2>7, <3>1, <3>2 DEF Show, UpdateLcdIfOn, UpdateLcd, Restart, Coming
    <3>3. CASE HighOff
      BY <2>7, <3>1, <3>3 DEF HighOff, UpdateLcdIfOn, UpdateLcd, Restart, Coming
    <3>4. CASE LcdOn /\ ~lcd
      BY <2>7, <3>1, <3>4 DEF LcdOn, UpdateLcd, Restart, Coming
    <3>5. CASE ~Show /\ ~HighOff /\ ~(LcdOn /\ ~lcd)
      <4>1. Head(queue) # Tick("SHOW_DATA")
        BY <3>5, <1>t, HandleTakes
      <4>2. lcd /\ ~alarmLit /\ ("SHOW_DATA" \in armed => "SHOW_DATA" \in armed')
        BY <1>4, <2>7, <3>1, <3>5 DEF RestHandle, CheckIp, ShowIp, Update, Write, LightOff,
           HighOn, LcdOff, LcdOn, End, ButtonDown, ButtonUp, Unprocessed,
           InitTimers, Restart, TypeOK
      <4>3. QED
        BY <2>4, <2>7, <3>1, <4>1, <4>2
    <3>6. QED
      BY <3>2, <3>3, <3>4, <3>5
  <2>8. QED
    BY <1>q, <2>1, <2>2, <2>5, <2>6, <2>7 DEF MeasureInv, MeasuringGoesOn, RefreshLostOnlyByAlarm,
       Active, TypeOK
<1>5. QED
  BY <1>1, <1>2, <1>3, <1>4, HandleSplit-----------------------------------------------------------------------------
(* The headlights                                                           *)

LEMMA TakesExpected ==
  ASSUME TypeOK, StartInv, NEW e \in StartEvents, Takes(e)
  PROVE  /\ Expects(stack, e) /\ "LCD" \notin armed /\ "WARM" \notin armed
         /\ \A x \in Range(queue) \cap StartEvents : x = e
<1>1. queue \in Seq(Events) /\ queue # <<>> /\ Head(queue) = e
  BY DEF TypeOK, Takes
<1>2. /\ Range(queue) = {queue[i] : i \in 1..Len(queue)} /\ DOMAIN queue = 1..Len(queue)
      /\ Len(queue) \in Nat \ {0} /\ Head(queue) = queue[1]
  BY <1>1, RangeEquality
<1>3. e \in Range(queue) /\ 1 \in DOMAIN queue
  BY <1>1, <1>2
<1>4. ASSUME NEW x \in Range(queue) \cap StartEvents PROVE x = e
  <2>1. PICK i \in DOMAIN queue : queue[i] = x
    BY <1>2
  <2>2. i = 1
    BY <1>1, <1>2, <1>3, <2>1 DEF StartInv, AtMostOne
  <2>3. QED
    BY <1>1, <1>2, <2>1, <2>2
<1>5. QED
  BY <1>3, <1>4 DEF StartInv, NoneOf

(* An LED that is on before a state is left would have its timer coming.    *)
LEMMA LightsOut ==
  ASSUME TypeOK, TypeOK', StartInv, LightsInv, NEW e \in StartEvents, Takes(e),
         e \notin {Tick("LCD"), Tick("WARM")}
  PROVE  lights = {}
<1>1. /\ Expects(stack, e) /\ "LCD" \notin armed /\ "WARM" \notin armed
      /\ \A x \in Range(queue) \cap StartEvents : x = e
  BY TakesExpected
<1>2. ~Active("StMeasurement")
  BY <1>1 DEF Expects, Active, Over
<1>3. Tick("LCD") \in StartEvents /\ Tick("WARM") \in StartEvents
  BY DEF StartEvents
<1>4. ~Coming("LCD") /\ ~Coming("WARM")
  BY <1>1, <1>3, QueuedIs DEF Coming, Timers
<1>5. QED
  BY <1>2, <1>4 DEF LightsInv, LightsGoOff, Running, Takes

LEMMA InitLights == Init => LightsInv
BY DEF Init, LightsInv, LightsGoOff, Active

LEMMA EnvLights ==
  ASSUME TypeOK, LightsInv, Env
  PROVE  LightsInv'
<1>1. UNCHANGED <<stack, ended, lights>>
  BY EnvAdds
<1>2. \A id \in {"LCD", "WARM", "MEASURE_LIGHT"} : Coming(id) <=> Coming(id)'
  BY EnvComing DEF Timers
<1>3. QED
  BY <1>1, <1>2 DEF LightsInv, LightsGoOff, Running, Active

LEMMA HandleLights ==
  ASSUME TypeOK, TypeOK', StartInv, LightsInv, Handle
  PROVE  LightsInv'
<1>s. /\ \A t \in States : Change(t) \in StartEvents
      /\ \A t \in States : Change(t) \notin {Tick("LCD"), Tick("WARM")}
      /\ Pop \in StartEvents /\ Pop \notin {Tick("LCD"), Tick("WARM")}
      /\ Tick("LCD") \in StartEvents
  BY DEF StartEvents, Change, Tick, Pop
<1>1. CASE lights' = {}
  BY <1>1 DEF LightsInv, LightsGoOff
<1>2. CASE EnterStateInit \/ EnterInitialization \/ LeaveLcd \/ LeaveSensors \/ StorageFails
  <2>1. lights = {}
    BY <1>2, <1>s, LightsOut DEF EnterStateInit, EnterInitialization, LeaveLcd, LeaveSensors,
       StorageFails, Entering, States
  <2>2. lights' = lights
    BY <1>2 DEF EnterStateInit, EnterInitialization, LeaveLcd, LeaveSensors, StorageFails
  <2>3. QED
    BY <1>1, <2>1, <2>2
<1>3. ASSUME NEW t \in Substates, Entering(t) PROVE stack' # <<>> /\ Head(stack') = t
  <2>1. stack' = <<t>> \o stack /\ stack \in Seq(States) /\ t \in States
    BY <1>3 DEF Entering, TypeOK, Substates, States
  <2>2. QED
    BY <2>1
<1>4. CASE EnterLcd
  <2>1. lights = {}
    BY <1>4, <1>s, LightsOut DEF EnterLcd, Entering, States
  <2>2. lights' = {"led_white_r"} /\ "LCD" \in armed' /\ Active("StInitializeLcd")'
    BY <1>3, <1>4, <2>1 DEF EnterLcd, InitTimers, Active, Substates
  <2>3. QED
    BY <2>2 DEF LightsInv, LightsGoOff, Coming
<1>5. CASE EnterSensors
  <2>1. "WARM" \in armed' /\ Active("StInitializeSensors")' /\ ~Active("StInitializeLcd")'
    BY <1>3, <1>5 DEF EnterSensors, InitTimers, Active, Substates
  <2>2. QED
    BY <2>1 DEF LightsInv, LightsGoOff, Coming
<1>6. CASE EnterMeasurement
  <2>1. "MEASURE_LIGHT" \in armed' /\ Active("StMeasurement")' /\ ~Active("StInitializeLcd")'
    BY <1>3, <1>6 DEF EnterMeasurement, InitTimers, MeasureTimers, Active, Substates
  <2>2. QED
    BY <2>1 DEF LightsInv, LightsGoOff, Coming
<1>7. CASE Update
  <2>1. "MEASURE_LIGHT" \in armed' /\ Active("StMeasurement")' /\ ~Active("StInitializeLcd")'
    BY <1>7 DEF Update, InMeasurement, InitTimers, MeasureTimers, Active
  <2>2. QED
    BY <2>1 DEF LightsInv, LightsGoOff, Coming
<1>8. CASE LcdReady
  <2>1. lights' = {}
    BY <1>8 DEF LcdReady, LightsInv
  <2>2. QED
    BY <1>1, <2>1
<1>9. CASE SensorsWarm \/ LightOff \/ End
  BY <1>1, <1>9 DEF SensorsWarm, LightOff, End
<1>10. CASE RestHandle /\ ~Update /\ ~LightOff /\ ~End
  <2>1. /\ UNCHANGED <<stack, lights>>
        /\ \A id \in {"LCD", "WARM", "MEASURE_LIGHT"} : id \in armed => id \in armed'
    BY <1>10, RestAdds DEF RestHandle, CheckIp, ShowIp, Write, Show, HighOn, HighOff, LcdOff, LcdOn,
       SaveAndFinish, ButtonDown, ButtonUp, Unprocessed, InitTimers, Restart, UpdateLcdIfOn, UpdateLcd
  <2>2. Running
    BY <1>10, RestAdds
  <2>3. \A id \in {"LCD", "WARM", "MEASURE_LIGHT"} : Head(queue) # Tick(id)
    <3>1. Head(queue) \notin StartEvents
      BY <1>10, RestAdds DEF Others
    <3>2. Tick("LCD") \in StartEvents /\ Tick("WARM") \in StartEvents
      BY DEF StartEvents
    <3>3. "MEASURE_LIGHT" \in Timers
      BY DEF Timers
    <3>4. QED
      BY <1>10, <3>1, <3>2, <3>3, HandleTakes
  <2>4. \A id \in {"LCD", "WARM", "MEASURE_LIGHT"} : Coming(id) => Coming(id)'
    BY <2>1, <2>3, HandleComing DEF Coming, Timers
  <2>5. QED
    BY <2>1, <2>2, <2>4 DEF LightsInv, LightsGoOff, Running, Active
<1>11. QED
  BY <1>2, <1>4, <1>5, <1>6, <1>7, <1>8, <1>9, <1>10, HandleSplit DEF StartHandle-----------------------------------------------------------------------------
(* The alarm                                                                *)

LEMMA QuietRange ==
  ASSUME NEW S, NEW q \in Seq(S)
  PROVE  Quiet(q) <=> Range(q) \cap Alarms = {}
<1>1. Range(q) = {q[i] : i \in 1..Len(q)} /\ DOMAIN q = 1..Len(q)
  BY RangeEquality
<1>2. QED
  BY <1>1 DEF Quiet

(* Another event is appended.                                               *)
LEMMA FollowsAppend ==
  ASSUME NEW q \in Seq(Events), NEW e \in Events \ Alarms, NEW on, NEW lit, Follows(q, on, lit)
  PROVE  Follows(Append(q, e), on, lit)
<1> DEFINE q1 == Append(q, e)
<1>1. /\ DOMAIN q = 1..Len(q) /\ DOMAIN q1 = 1..(Len(q) + 1) /\ Len(q) \in Nat
      /\ \A i \in 1..Len(q) : q1[i] = q[i]
      /\ q1[Len(q) + 1] = e
  OBVIOUS
<1> HIDE DEF q1
<1>2. Quiet(q1) => Quiet(q)
  BY <1>1 DEF Quiet
<1>3. ASSUME NEW i \in DOMAIN q1, LastAlarm(q1, i)
      PROVE  i \in DOMAIN q /\ LastAlarm(q, i) /\ q1[i] = q[i]
  BY <1>1, <1>3 DEF LastAlarm
<1>4. QED
  BY <1>2, <1>3 DEF Follows, q1

(* The first event is taken, those that are added are no alarms.            *)
LEMMA FollowsTake ==
  ASSUME NEW q \in Seq(Events), q # <<>>, NEW r \in Seq(Events), Quiet(r),
         NEW on, NEW lit, Follows(q, on, lit)
  PROVE  /\ Head(q) \notin Alarms => Follows(Tail(q) \o r, on, lit)
         /\ Head(q) \in Alarms => Follows(Tail(q) \o r, on, Head(q) = User("HIGH_ON"))
<1> DEFINE q1 == Tail(q) \o r
<1>1. /\ DOMAIN q = 1..Len(q) /\ Len(q) \in Nat \ {0} /\ Len(r) \in Nat /\ DOMAIN r = 1..Len(r)
      /\ DOMAIN q1 = 1..(Len(q) - 1 + Len(r)) /\ Head(q) = q[1]
      /\ \A i \in 1..(Len(q) - 1) : q1[i] = q[i + 1]
      /\ \A i \in DOMAIN q1 : i > Len(q) - 1 => q1[i] = r[i - (Len(q) - 1)]
  OBVIOUS
<1> HIDE DEF q1
<1>2. ASSUME NEW i \in DOMAIN q1, q1[i] \in Alarms
      PROVE  i \in 1..(Len(q) - 1) /\ i + 1 \in DOMAIN q /\ q1[i] = q[i + 1]
  <2>1. ~(i > Len(q) - 1)
    <3>1. SUFFICES ASSUME i > Len(q) - 1 PROVE FALSE
      OBVIOUS
    <3>2. i - (Len(q) - 1) \in DOMAIN r /\ q1[i] = r[i - (Len(q) - 1)]
      BY <1>1, <3>1
    <3>3. QED
      BY <1>2, <3>2 DEF Quiet
  <2>2. QED
    BY <1>1, <2>1
<1>3. ASSUME NEW j \in DOMAIN q, j > 1 PROVE j - 1 \in DOMAIN q1 /\ q1[j - 1] = q[j]
  <2>1. j - 1 \in 1..(Len(q) - 1) /\ (j - 1) + 1 = j
    BY <1>1, <1>3
  <2>2. QED
    BY <1>1, <2>1
<1>4. ASSUME NEW i \in DOMAIN q1, LastAlarm(q1, i)
      PROVE  i + 1 \in DOMAIN q /\ LastAlarm(q, i + 1) /\ q1[i] = q[i + 1]
  <2>1. i \in 1..(Len(q) - 1) /\ i + 1 \in DOMAIN q /\ q1[i] = q[i + 1]
    BY <1>2, <1>4 DEF LastAlarm
  <2>2. ASSUME NEW j \in DOMAIN q, j > i + 1 PROVE q[j] \notin Alarms
    <3>1. j - 1 \in DOMAIN q1 /\ q1[j - 1] = q[j] /\ j - 1 > i
      BY <1>1, <1>3, <2>1, <2>2
    <3>2. QED
      BY <1>4, <3>1 DEF LastAlarm
  <2>3. QED
    BY <1>4, <2>1, <2>2 DEF LastAlarm
<1>5. ASSUME Quiet(q1) PROVE \A j \in DOMAIN q : j > 1 => q[j] \notin Alarms
  BY <1>3, <1>5 DEF Quiet
<1>6. CASE Head(q) \notin Alarms
  <2>1. Quiet(q1) => Quiet(q)
    BY <1>1, <1>5, <1>6 DEF Quiet
  <2>2. QED
    BY <1>4, <1>6, <2>1 DEF Follows, q1
<1>7. CASE Head(q) \in Alarms
  <2>1. Quiet(q1) => LastAlarm(q, 1) /\ 1 \in DOMAIN q
    BY <1>1, <1>5, <1>7 DEF LastAlarm
  <2>2. Quiet(q1) => (on <=> Head(q) = User("HIGH_ON"))
    BY <1>1, <2>1 DEF Follows
  <2>3. QED
    BY <1>4, <1>7, <2>2 DEF Follows, q1
<1>8. QED
  BY <1>6, <1>7

(* An alarm that is added last decides.                                     *)
LEMMA FollowsNew ==
  ASSUME NEW q \in Seq(Events), NEW a \in Alarms, a \in Events, NEW on, NEW lit,
         on <=> a = User("HIGH_ON")
  PROVE  Follows(Append(q, a), on, lit)
<1> DEFINE q1 == Append(q, a)
<1>1. /\ DOMAIN q1 = 1..(Len(q) + 1) /\ Len(q) \in Nat /\ q1[Len(q) + 1] = a
  OBVIOUS
<1> HIDE DEF q1
<1>2. ~Quiet(q1)
  BY <1>1 DEF Quiet
<1>3. ASSUME NEW i \in DOMAIN q1, LastAlarm(q1, i) PROVE q1[i] = a
  BY <1>1, <1>3 DEF LastAlarm
<1>4. QED
  BY <1>2, <1>3 DEF Follows, q1

LEMMA Regrouped ==
  ASSUME NEW s \in Seq(Events), NEW t \in Seq(Events), NEW u \in Seq(Events)
  PROVE  (s \o t) \o u = s \o (t \o u)
<1> DEFINE l == (s \o t) \o u
           m == s \o (t \o u)
<1>1. /\ l \in Seq(Events) /\ m \in Seq(Events) /\ Len(l) = Len(m)
      /\ \A i \in 1..Len(l) : l[i] = m[i]
  OBVIOUS
<1> HIDE DEF l, m
<1>2. l = m
  BY <1>1, SeqEqual
<1>3. QED
  BY <1>2 DEF l, m

LEMMA InitAlarm == Init => AlarmInv
<1> SUFFICES ASSUME Init PROVE AlarmInv
  OBVIOUS
<1>1. queue = <<Change("StateInit")>> /\ high = {} /\ ~blinker
  BY DEF Init
<1>2. Change("StateInit") \notin Alarms
  BY DEF Alarms, Change, User
<1>3. Quiet(queue)
  BY <1>1, <1>2 DEF Quiet
<1>4. QED
  BY <1>1, <1>3 DEF AlarmInv, AlarmFollowsLevel, Follows, LastAlarm, Quiet

LEMMA EnvAlarm ==
  ASSUME TypeOK, AlarmInv, Env
  PROVE  AlarmInv'
<1>1. PICK e \in Events : queue' = Append(queue, e) /\ e \notin Alarms
  BY EnvAdds
<1>2. UNCHANGED <<stack, ended, high, blinker, tested>> /\ queue \in Seq(Events)
  BY EnvAdds DEF TypeOK
<1>3. Range(queue') = Range(queue) \cup {e} /\ queue' \in Seq(Events)
  BY <1>1, <1>2, RangeAppend
<1>4. Quiet(queue') <=> Quiet(queue)
  BY <1>1, <1>2, <1>3, QuietRange
<1>5. Follows(queue, high # {}, blinker) => Follows(queue', high # {}, blinker)
  BY <1>1, <1>2, FollowsAppend
<1>6. QED
  BY <1>2, <1>4, <1>5 DEF AlarmInv, AlarmFollowsLevel, Running, Active
(* Only measure and a test press add an alarm.                              *)
LEMMA CalmAdds ==
  ASSUME TypeOK, Handle, ~EnterMeasurement, ~Update, ~tested'
  PROVE  \E r \in Seq(Events \ Alarms) : Adds(r)
<1> DEFINE Calm == Events \ Alarms
<1>k. /\ Finish \in Calm /\ Pop \in Calm /\ User("SHOW_IP") \in Calm /\ User("LCD_ON") \in Calm
      /\ \A t \in States : Change(t) \in Calm
  <2>1. Finish \in Events /\ Pop \in Events /\ \A t \in States : Change(t) \in Events
    BY DEF Events
  <2>2. User("SHOW_IP") \in Events /\ User("LCD_ON") \in Events
    BY DEF Events, UserEvents
  <2>3. /\ Finish \notin Alarms /\ Pop \notin Alarms /\ \A t \in States : Change(t) \notin Alarms
        /\ User("SHOW_IP") \notin Alarms /\ User("LCD_ON") \notin Alarms
    BY DEF Alarms, Finish, Pop, Change, User
  <2>4. QED
    BY <2>1, <2>2, <2>3
<1> HIDE DEF Calm
<1>0. <<>> \in Seq(Calm) /\ \A e \in Calm : <<e>> \in Seq(Calm)
  OBVIOUS
<1>1. CASE EnterStateInit
  <2>1. PICK count \in 0..2 :
          Adds([i \in 1..count |-> Finish] \o <<Change("StInitialization")>>)
    BY <1>1 DEF EnterStateInit
  <2>2. Change("StInitialization") \in Calm
    BY <1>k DEF States
  <2>3. [i \in 1..count |-> Finish] \o <<Change("StInitialization")>> \in Seq(Calm)
    BY <1>k, <2>2
  <2>4. QED
    BY <2>1, <2>3 DEF Calm
<1>2. ASSUME NEW f \in Seq(Calm), DetectIp(f) PROVE \E r \in Seq(Calm) : Adds(r)
  <2>1. PICK news \in {<<>>, <<User("SHOW_IP")>>} : Adds(news \o f)
    BY <1>2 DEF DetectIp
  <2>2. news \in Seq(Calm)
    BY <1>0, <1>k
  <2>3. news \o f \in Seq(Calm)
    BY <2>2
  <2>4. QED
    BY <2>1, <2>3
<1>3. CASE LeaveLcd \/ CheckIp
  <2>1. <<Change("StInitializeSensors")>> \in Seq(Calm)
    BY <1>0, <1>k DEF States
  <2>2. QED
    BY <1>0, <1>2, <1>3, <2>1 DEF LeaveLcd, CheckIp, Calm
<1>4. ASSUME NEW b \in Buttons, NEW n \in Lengths, ButtonUp(b, n)
      PROVE  \E r \in Seq(Calm) : Adds(r)
  <2> DEFINE g == GeneratedBy(b, Duration(b, n))
             r == IF g = {} THEN <<>> ELSE <<CHOOSE e \in g : TRUE>>
  <2>1. /\ g \subseteq {Finish, User("LCD_ON"), User("SHOW_IP"), User("HIGH_ON")}
        /\ r \in Seq(g) /\ Adds(r) /\ User("HIGH_ON") \notin g
    BY <1>4, Generated DEF ButtonUp
  <2> HIDE DEF g, r
  <2>2. g \subseteq Calm
    BY <2>1, <1>k
  <2>3. QED
    BY <2>1, <2>2, SeqMonotonic
<1>5. CASE \/ EnterInitialization \/ EnterLcd \/ LcdReady
           \/ EnterSensors \/ SensorsWarm \/ LeaveSensors \/ StorageFails
  <2>1. Adds(<<>>) \/ Adds(<<Pop>>) \/ \E t \in States : Adds(<<Change(t)>>)
    BY <1>5 DEF EnterInitialization, EnterLcd, LcdReady, EnterSensors, SensorsWarm,
                LeaveSensors, StorageFails, States
  <2>2. QED
    BY <1>0, <1>k, <2>1 DEF Calm
<1>6. CASE \/ ShowIp \/ Write \/ LightOff \/ Show \/ HighOn \/ HighOff \/ LcdOff \/ LcdOn
           \/ SaveAndFinish \/ End \/ (\E b \in Buttons : ButtonDown(b)) \/ Unprocessed
  <2>1. Adds(<<>>) \/ Adds(<<Finish>>)
    BY <1>6 DEF ShowIp, Write, LightOff, Show, HighOn, HighOff, LcdOff, LcdOn, SaveAndFinish, End,
       ButtonDown, Unprocessed
  <2>2. QED
    BY <1>0, <1>k, <2>1 DEF Calm
<1>7. QED
  BY <1>1, <1>3, <1>4, <1>5, <1>6, HandleSplit DEF StartHandle, RestHandle, Calm

LEMMA HandleAlarm ==
  ASSUME TypeOK, TypeOK', StartInv, AlarmInv, Handle
  PROVE  AlarmInv'
<1>q. queue # <<>> /\ queue \in Seq(Events) /\ queue' \in Seq(Events)
  BY QueueType DEF TypeOK
<1> SUFFICES ASSUME ~tested' PROVE AlarmInv'
  BY DEF AlarmInv, AlarmFollowsLevel
<1>t. ~tested
  BY DEF Handle, EnterStateInit, EnterInitialization, EnterLcd, LcdReady,
     LeaveLcd, EnterSensors, SensorsWarm, LeaveSensors, EnterMeasurement, StorageFails, CheckIp,
     ShowIp, Update, Write, LightOff, Show, HighOn, HighOff, LcdOff, LcdOn, SaveAndFinish, End,
     ButtonDown, ButtonUp, Unprocessed, InMeasurement
<1>1. CASE EnterMeasurement \/ Update
  <2>1. Head(queue) \notin Alarms /\ Measure /\ Running /\ blinker' = blinker
    BY <1>1 DEF EnterMeasurement, Update, Entering, InMeasurement, Takes, Running, Alarms, Change,
       Tick, User
  <2>2. Active("StMeasurement")'
    <3>1. CASE Update
      BY <3>1 DEF Update, InMeasurement, Active
    <3>2. CASE EnterMeasurement
      <4>1. stack' = <<"StMeasurement">> \o stack /\ stack \in Seq(States)
        BY <3>2 DEF EnterMeasurement, Entering, TypeOK
      <4>2. stack' # <<>> /\ Head(stack') = "StMeasurement"
        BY <4>1 DEF States
      <4>3. QED
        BY <4>2 DEF Active
    <3>3. QED
      BY <1>1, <3>1, <3>2
  <2>3. PICK r \in Seq({User("LCD_ON"), User("LCD_OFF")}),
             a \in {<<>>, <<User("HIGH_ON")>>, <<User("HIGH_OFF")>>} :
           /\ queue' = Tail(queue) \o (r \o a)
           /\ a = <<>> => (high' = {} <=> high = {})
           /\ a = <<User("HIGH_ON")>> => high' # {}
           /\ a = <<User("HIGH_OFF")>> => high' = {}
    BY <2>1, Measured DEF Adds
  <2>4. r \in Seq(Events) /\ Quiet(r)
    <3>1. User("LCD_ON") \in Events \ Alarms /\ User("LCD_OFF") \in Events \ Alarms
      BY DEF Events, UserEvents, Alarms, User
    <3>2. r \in Seq(Events) /\ r \in Seq(Events \ Alarms)
      BY <3>1, SeqMonotonic
    <3>3. Range(r) \subseteq Events \ Alarms
      BY <3>2, RangeOfSeq
    <3>4. QED
      BY <3>2, <3>3, QuietRange
  <2>5. Follows(Tail(queue) \o r, high # {}, blinker)
    BY <1>q, <1>t, <2>1, <2>4, FollowsTake DEF AlarmInv, AlarmFollowsLevel
  <2>6. CASE a = <<>>
    <3>1. r \o a = r
      BY <2>4, <2>6, ConcatEmptySeq
    <3>2. (high # {}) <=> (high' # {})
      BY <2>3, <2>6
    <3>3. Follows(queue', high' # {}, blinker')
      BY <2>1, <2>3, <2>5, <3>1, <3>2 DEF Follows
    <3>4. QED
      BY <2>2, <3>3 DEF AlarmInv, AlarmFollowsLevel
  <2>7. ASSUME NEW x \in Alarms, a = <<x>>, (high' # {}) <=> x = User("HIGH_ON")
        PROVE  AlarmInv'
    <3>1. x \in Events
      BY DEF Alarms, Events, UserEvents
    <3>2. Tail(queue) \o r \in Seq(Events)
      BY <1>q, <2>4, RangeTake
    <3>3. queue' = Append(Tail(queue) \o r, x)
      <4>1. Tail(queue) \in Seq(Events) /\ a \in Seq(Events)
        BY <1>q, <2>7, <3>1
      <4>2. queue' = (Tail(queue) \o r) \o a
        <5> DEFINE rest == Tail(queue)
        <5>1. rest \in Seq(Events) /\ queue' = rest \o (r \o a)
          BY <2>3, <4>1
        <5> HIDE DEF rest
        <5>r. rest \in Seq(Events) /\ r \in Seq(Events) /\ a \in Seq(Events)
          BY <2>4, <4>1, <5>1
        <5>2. (rest \o r) \o a = rest \o (r \o a)
          BY <5>r, Regrouped
        <5>3. QED
          BY <5>1, <5>2 DEF rest
      <4>3. QED
        BY <2>7, <3>1, <3>2, <4>2, AppendIsConcat
    <3>4. Follows(queue', high' # {}, blinker')
      BY <2>7, <3>1, <3>2, <3>3, FollowsNew
    <3>5. QED
      BY <2>2, <3>4 DEF AlarmInv, AlarmFollowsLevel
  <2>8. User("HIGH_ON") \in Alarms /\ User("HIGH_OFF") \in Alarms /\ User("HIGH_ON") # User("HIGH_OFF")
    BY DEF Alarms, User
  <2>9. QED
    BY <2>3, <2>6, <2>7, <2>8
<1>2. CASE ~EnterMeasurement /\ ~Update
  <2>1. PICK r \in Seq(Events \ Alarms) : queue' = Tail(queue) \o r
    BY <1>2, CalmAdds DEF Adds
  <2>2. r \in Seq(Events) /\ Quiet(r)
    <3>1. r \in Seq(Events)
      BY SeqMonotonic
    <3>2. Range(r) \subseteq Events \ Alarms
      BY RangeOfSeq
    <3>3. QED
      BY <3>1, <3>2, QuietRange
  <2>3. ~Quiet(queue') => ~Quiet(queue)
    <3>1. Range(queue') \subseteq Range(queue) \cup Range(r)
      BY <1>q, <2>1, <2>2, RangeTake
    <3>2. QED
      BY <1>q, <2>2, <3>1, QuietRange
  <2>4. ~Quiet(queue') => Active("StMeasurement")'
    <3>1. SUFFICES ASSUME ~Quiet(queue') PROVE Active("StMeasurement")'
      OBVIOUS
    <3>2. Active("StMeasurement")
      BY <1>t, <2>3, <3>1 DEF AlarmInv
    <3>3. stack' = stack
      BY <3>2, StartIsOver, RestAdds, HandleSplit
    <3>4. QED
      BY <3>2, <3>3 DEF Active
  <2>5. ASSUME Running' PROVE Running /\ high' = high
    BY <1>2, <2>5 DEF Running, Handle, EnterStateInit, EnterInitialization, EnterLcd, LcdReady,
       LeaveLcd, EnterSensors, SensorsWarm, LeaveSensors, StorageFails, CheckIp,
       ShowIp, Write, LightOff, Show, HighOn, HighOff, LcdOff, LcdOn, SaveAndFinish, End,
       ButtonDown, ButtonUp, Unprocessed, InMeasurement, Takes, Entering
  <2>6. ASSUME Running' PROVE Follows(queue', high' # {}, blinker')
    <3>1. Follows(queue, high # {}, blinker)
      BY <1>t, <2>5, <2>6 DEF AlarmInv, AlarmFollowsLevel
    <3>2. CASE HighOn \/ HighOff
      <4>1. Head(queue) \in Alarms /\ (blinker' <=> Head(queue) = User("HIGH_ON"))
        BY <3>2 DEF HighOn, HighOff, InMeasurement, Takes, Alarms, User
      <4>2. Follows(queue', high # {}, Head(queue) = User("HIGH_ON"))
        BY <1>q, <2>1, <2>2, <3>1, <4>1, FollowsTake
      <4>3. QED
        BY <2>5, <2>6, <4>1, <4>2 DEF Follows
    <3>3. CASE ~HighOn /\ ~HighOff
      <4>1. Head(queue) \notin Alarms
        <5>1. SUFFICES ASSUME Head(queue) \in Alarms PROVE FALSE
          OBVIOUS
        <5>2. Head(queue).type = "USER" /\ Head(queue).name \in {"HIGH_ON", "HIGH_OFF"}
          BY <5>1 DEF Alarms, User
        <5>3. Active("StMeasurement")
          <6>1. Head(queue) \in Range(queue)
            BY <1>q, <2>2, RangeTake
          <6>2. QED
            BY <1>q, <1>t, <5>1, <6>1, QuietRange DEF AlarmInv
        <5>4. RestHandle
          BY <5>3, StartIsOver, HandleSplit
        <5>t. \A e : Takes(e) => e.type = "USER" /\ e.name \in {"HIGH_ON", "HIGH_OFF"}
          BY <5>2 DEF Takes
        <5>5. ~Unprocessed
          BY <5>2, <5>3 DEF Unprocessed
        <5>6. ~(CheckIp \/ Write \/ LightOff \/ Show \/ SaveAndFinish \/ End)
          <6>1. ~Takes(Finish) /\ \A id : ~Takes(Tick(id))
            BY <5>t DEF Finish, Tick
          <6>2. QED
            BY <6>1 DEF CheckIp, Write, LightOff, Show, SaveAndFinish, End, InMeasurement
        <5>7. ~(ShowIp \/ LcdOff \/ LcdOn)
          <6>1. ~Takes(User("SHOW_IP")) /\ ~Takes(User("LCD_OFF")) /\ ~Takes(User("LCD_ON"))
            BY <5>t DEF User
          <6>2. QED
            BY <6>1 DEF ShowIp, LcdOff, LcdOn, InMeasurement
        <5>8. \A b \in Buttons : ~ButtonDown(b) /\ \A n \in Lengths : ~ButtonUp(b, n)
          <6>1. \A b, n : ~Takes(Down(b)) /\ ~Takes(Up(b, n))
            BY <5>t DEF Down, Up
          <6>2. QED
            BY <6>1 DEF ButtonDown, ButtonUp
        <5>9. QED
          BY <1>2, <3>3, <5>4, <5>5, <5>6, <5>7, <5>8 DEF RestHandle
      <4>2. Follows(queue', high # {}, blinker)
        BY <1>q, <2>1, <2>2, <3>1, <4>1, FollowsTake
      <4>3. blinker' = blinker
        BY <1>2, <2>6, <3>3 DEF Running, Handle, EnterStateInit, EnterInitialization, EnterLcd,
           LcdReady, LeaveLcd, EnterSensors, SensorsWarm, LeaveSensors, StorageFails, CheckIp,
           ShowIp, Write, LightOff, Show, LcdOff, LcdOn, SaveAndFinish, End,
           ButtonDown, ButtonUp, Unprocessed
      <4>4. QED
        BY <2>5, <2>6, <4>2, <4>3
    <3>4. QED
      BY <3>2, <3>3
  <2>7. QED
    BY <2>4, <2>6 DEF AlarmInv, AlarmFollowsLevel
<1>3. QED
  BY <1>1, <1>2-----------------------------------------------------------------------------
(* The invariant                                                            *)

LEMMA InitType == Init => TypeOK
<1> SUFFICES ASSUME Init PROVE TypeOK
  OBVIOUS
<1>1. queue \in Seq(Events) /\ stack \in Seq(States)
  <2>1. Change("StateInit") \in Events
    BY DEF Events, States
  <2>2. QED
    BY <2>1 DEF Init
<1>2. /\ created \subseteq Timers /\ armed \subseteq created /\ lights \subseteq White
      /\ high \subseteq Gases /\ seen \subseteq Buttons
  BY DEF Init
<1>3. /\ lcd \in BOOLEAN /\ blinker \in BOOLEAN /\ client \in BOOLEAN
      /\ tested \in BOOLEAN /\ alarmLit \in BOOLEAN
  BY DEF Init
<1>4. /\ ended \in {"no", "finished", "crashed"} /\ storage \in {"off", "failed", "running"}
      /\ screen \in {"blank", "status", "measure", "ip"}
      /\ held \in [Buttons -> Lengths \cup {0}] /\ presses \in 0..MaxPresses
  BY WeatherAssumption DEF Init
<1>5. QED
  BY <1>1, <1>2, <1>3, <1>4 DEF TypeOK

LEMMA Invariant == Spec => []IInv
<1>1. Init => IInv
  BY InitType, InitStart, InitLights, InitMeasure, InitAlarm DEF IInv
<1>2. IInv /\ [Next]_vars => IInv'
  <2> SUFFICES ASSUME IInv, [Next]_vars PROVE IInv'
    OBVIOUS
  <2>1. TypeOK /\ StartInv /\ LightsInv /\ MeasureInv /\ AlarmInv
    BY DEF IInv
  <2>2. CASE Env
    <3>1. StartInv'
      <4>1. \E e \in Events :
              /\ queue' = Append(queue, e) /\ armed' \subseteq armed /\ UNCHANGED stack
              /\ e \in Others \/ e \in {Tick(id) : id \in armed \ armed'}
        BY <2>1, <2>2, EnvAdds
      <4>2. QED
        BY <2>1, <4>1, EnvStart
    <3>2. QED
      BY <2>1, <2>2, <3>1, EnvType, EnvLights, EnvMeasure, EnvAlarm DEF IInv
  <2>3. CASE Handle
    <3>1. TypeOK' /\ StartInv'
      BY <2>1, <2>3, HandleType, RestStart, StartStep, HandleSplit
    <3>2. QED
      BY <2>1, <2>3, <3>1, HandleLights, HandleMeasure, HandleAlarm DEF IInv
  <2>4. CASE UNCHANGED vars
    BY <2>1, <2>4 DEF IInv, vars, TypeOK, StartInv, LightsInv, LightsGoOff, MeasureInv,
       MeasuringGoesOn, RefreshLostOnlyByAlarm, AlarmInv, AlarmFollowsLevel, Measuring, Running,
       Coming, Queued, Active
  <2>5. QED
    BY <2>2, <2>3, <2>4, NextSplit
<1>3. QED
  BY <1>1, <1>2, PTL DEF Spec

(* Type correctness of the weather station.                                 *)
THEOREM WeatherTypeCorrect == Spec => []TypeOK
<1>1. IInv => TypeOK
  BY DEF IInv
<1>2. QED
  BY <1>1, Invariant, PTL

(* The start-up takes its states in order, and no change is queued to a     *)
(* state that the stack has already (OnSubstateExit, process_pop_state).    *)
THEOREM StartupCorrect == Spec => []StartupOrder
<1>1. IInv => StartupOrder
  <2> SUFFICES ASSUME IInv PROVE StartupOrder
    OBVIOUS
  <2>1. stack \in Stacks /\ \A e \in Range(queue) \cap StartEvents : Expects(stack, e)
    BY DEF IInv, StartInv
  <2>2. ASSUME NEW i \in DOMAIN queue, queue[i].type = "CHANGE"
        PROVE  ~OnStack(queue[i].name)
    <3>1. queue[i] \in Range(queue) /\ queue[i] \in Events
      BY RangeEquality, RangeOfSeq DEF IInv, TypeOK
    <3>2. PICK t \in States : queue[i] = Change(t)
      BY <2>2, <3>1 DEF Events, Pop, Finish, Tick, User, Down, Up
    <3>3. queue[i].name = t /\ Expects(stack, Change(t))
      BY <2>1, <3>1, <3>2 DEF Change, StartEvents
    <3>4. \/ stack = <<>> /\ t = "StateInit"
          \/ stack = <<"StateInit">> /\ t = "StInitialization"
          \/ stack = <<"StInitialization", "StateInit">> /\ t \in Substates
      BY <3>3 DEF Expects, Change, Pop, Tick
    <3>5. QED
      BY <3>3, <3>4 DEF OnStack, Substates
  <2>3. QED
    BY <2>1, <2>2 DEF StartupOrder, Stacks, Over, Substates
<1>2. QED
  BY <1>1, Invariant, PTL

(* While the station measures its next measurement and its next write are   *)
(* on their way (StMeasurement::OnTimer).                                   *)
THEOREM MeasuringCorrect == Spec => []MeasuringGoesOn
<1>1. IInv => MeasuringGoesOn
  BY DEF IInv, MeasureInv
<1>2. QED
  BY <1>1, Invariant, PTL

(* White LEDs that are on have the timer that switches them off coming, and *)
(* the state that listens to it is active.                                  *)
THEOREM LightsCorrect == Spec => []LightsGoOff
<1>1. IInv => LightsGoOff
  BY DEF IInv, LightsInv
<1>2. QED
  BY <1>1, Invariant, PTL

(* The blinker, or the last alarm that is queued, agrees with the levels    *)
(* that were measured, until a test press (measure, OnEvent).               *)
THEOREM AlarmCorrect == Spec => []AlarmFollowsLevel
<1>1. IInv => AlarmFollowsLevel
  BY DEF IInv, AlarmInv
<1>2. QED
  BY <1>1, Invariant, PTL

(* The refresh of an LCD that is on is lost only to an alarm that lit it    *)
(* (update_lcd).                                                            *)
THEOREM RefreshCorrect == Spec => []RefreshLostOnlyByAlarm
<1>1. IInv => RefreshLostOnlyByAlarm
  BY DEF IInv, MeasureInv
<1>2. QED
  BY <1>1, Invariant, PTL
==============================================================================

----------------------------- MODULE Lifecycle -----------------------------
(***************************************************************************)
(* PiMain: how the program starts its parts and how it takes them down.    *)
(* The main thread, the signal thread, the parent that sends the start,    *)
(* the worker of the state machine with the start and stop of the robot's  *)
(* items, the items' own threads, and the web thread. What the states of   *)
(* the application do is left open: any of them may ask for the end.       *)
(***************************************************************************)
EXTENDS Naturals, Sequences

CONSTANTS
  N,            (* items of the robot, in the order of their names         *)
  Modes,        (* how it is run: "child" (also the daemon) and "single"   *)
  MaxSignals,   (* bound: signals from outside                             *)
  MaxNotes      (* bound: notifications of the items                       *)

ASSUME LifecycleAssumption ==
  /\ N \in Nat /\ MaxSignals \in Nat /\ MaxNotes \in Nat
  /\ Modes \subseteq {"child", "single"}

Items == 1..N
Posts == {"start", "change", "activity", "finish"}

VARIABLES
  mode, parent, (* run_child or run_single; the parent of the child        *)
  main,         (* where the main thread is                                *)
  pending,      (* signals of the process that wait to be taken            *)
  kicked,       (* the SIGUSR2 that finish sends to the signal thread      *)
  signals,      (* the signal thread                                       *)
  posted,        (* m_events                                                *)
  worker,       (* the thread of the state machine; none if not joinable   *)
  entered,      (* StateInit is on the stack                               *)
  at,           (* the item at which the start or stop of the robot is     *)
  item,         (* the threads of the items; off if not joinable           *)
  told,         (* items with their stop signal set                        *)
  web,          (* the web thread                                          *)
  failed,       (* history: the start failed                               *)
  missed,       (* history: a notification fell before the worker's sleep  *)
  sent, notes   (* history: counters of the bounds                         *)

mainVars == <<mode, parent, main>>
sigVars == <<pending, kicked, signals, sent>>
robotVars == <<at, item, told>>
lifecycleVars == <<mainVars, sigVars, posted, worker, entered, robotVars, web, failed, missed, notes>>

LifecycleInit ==
  /\ mode \in Modes /\ parent = (IF mode = "child" THEN "sleeping" ELSE "gone")
  /\ main = "create" /\ pending = {} /\ kicked = FALSE /\ signals = "none"
  /\ posted = <<>> /\ worker = "none" /\ entered = FALSE
  /\ at = 1 /\ item = [i \in Items |-> "off"] /\ told = {}
  /\ web = "none" /\ failed = FALSE /\ missed = FALSE /\ sent = 0 /\ notes = 0

(* cv.notify_one() of put_event, without the mutex of the condition.        *)
WakeWorker ==
  /\ worker' = IF worker = "asleep" THEN "check" ELSE worker
  /\ missed' = IF worker = "asleep" THEN FALSE ELSE missed \/ worker = "prewait"

(* Faulty variant: the thread is joined without being told to stop.         *)
StopItemUntold ==
  \/ /\ item[at] = "off"
     /\ at' = at + 1
     /\ UNCHANGED <<item, told>>
  \/ /\ item[at] = "ended"
     /\ item' = [item EXCEPT ![at] = "off"]
     /\ at' = at + 1
     /\ UNCHANGED told

(* PiRobot::stop, item by item: one without a thread has nothing to stop,   *)
(* one with a thread is told to stop and joined.                            *)
StopItem ==
  \/ /\ item[at] = "off"
     /\ at' = at + 1
     /\ UNCHANGED <<item, told>>
  \/ /\ item[at] # "off" /\ at \notin told
     /\ told' = told \cup {at}
     /\ UNCHANGED <<at, item>>
  \/ /\ item[at] = "ended"
     /\ item' = [item EXCEPT ![at] = "off"]
     /\ at' = at + 1
     /\ UNCHANGED told

-----------------------------------------------------------------------------
(* main thread *)

Main(from, to) == main = from /\ main' = to /\ UNCHANGED <<mode, parent>>

(* The robot, the factory and the machine are made. The machine starts its  *)
(* worker unless the environment cannot be configured; whether it did is    *)
(* not looked at.                                                           *)
Create ==
  /\ Main("create", "web")
  /\ \/ worker' = "check" /\ UNCHANGED <<posted, failed>>
     \/ posted' = Append(posted, "finish") /\ failed' = TRUE /\ UNCHANGED worker
  /\ UNCHANGED <<sigVars, entered, robotVars, web, missed, notes>>

StartWeb ==
  /\ Main("web", "handlers")
  /\ web' \in {"none", "polling"}
  /\ UNCHANGED <<sigVars, posted, worker, entered, robotVars, failed, missed, notes>>

StartSignalThread ==
  /\ Main("handlers", IF mode = "single" THEN "send" ELSE "wait")
  /\ signals' = "waiting"
  /\ UNCHANGED <<pending, kicked, sent, posted, worker, entered, robotVars, web, failed,
                 missed, notes>>

(* run_single sends the start to itself.                                    *)
SendStart ==
  /\ Main("send", "wait")
  /\ pending' = pending \cup {"USR1"}
  /\ UNCHANGED <<kicked, signals, sent, posted, worker, entered, robotVars, web, failed,
                 missed, notes>>

(* _stm->wait() returns at once if the worker was not started.              *)
JoinWorker ==
  /\ Main("wait", "kill")
  /\ worker \in {"none", "ended"} /\ worker' = "none"
  /\ UNCHANGED <<sigVars, posted, entered, robotVars, web, failed, missed, notes>>

(* finish: the signal thread is told to end, and joined ...                 *)
KillSignalThread ==
  /\ Main("kill", "join")
  /\ kicked' = (signals # "ended")
  /\ UNCHANGED <<pending, signals, sent, posted, worker, entered, robotVars, web, failed,
                 missed, notes>>

(* Faulty variant: the signal thread is not joined.                         *)
JoinNobody ==
  /\ Main("join", "destroy")
  /\ at' = 1
  /\ UNCHANGED <<sigVars, posted, worker, entered, item, told, web, failed, missed, notes>>

(* ... the stop of the web interface is the empty one of its base class ... *)
JoinSignalThread ==
  /\ Main("join", "destroy")
  /\ signals = "ended"
  /\ at' = 1
  /\ UNCHANGED <<sigVars, posted, worker, entered, item, told, web, failed, missed, notes>>

(* ... the destructor of the machine stops the robot (again) ...            *)
DestroyMachine ==
  /\ main = "destroy" /\ at \in Items
  /\ StopItem
  /\ UNCHANGED <<mainVars, sigVars, posted, worker, entered, web, failed, missed, notes>>

(* ... and the machine, the factory and the robot are released.             *)
ReleaseRobot ==
  /\ Main("destroy", "release") /\ at \notin Items
  /\ UNCHANGED <<sigVars, posted, worker, entered, robotVars, web, failed, missed, notes>>

ReleaseLogger ==
  /\ Main("release", "exit")
  /\ UNCHANGED <<sigVars, posted, worker, entered, robotVars, web, failed, missed, notes>>

(* _exit ends every thread.                                                 *)
Exit ==
  /\ Main("exit", "exited")
  /\ web' = "none"
  /\ UNCHANGED <<sigVars, posted, worker, entered, robotVars, failed, missed, notes>>

(* The parent sends the start after five seconds and ends.                  *)
ParentSends ==
  /\ parent = "sleeping" /\ parent' = "gone"
  /\ pending' = pending \cup {"USR1"}
  /\ UNCHANGED <<mode, main, kicked, signals, sent, posted, worker, entered, robotVars, web,
                 failed, missed, notes>>
-----------------------------------------------------------------------------
(* signal thread: the signals are blocked in every thread and wait for it   *)

Signal(s) ==
  /\ main # "exited" /\ sent < MaxSignals
  /\ sent' = sent + 1 /\ pending' = pending \cup {s}
  /\ UNCHANGED <<mainVars, kicked, signals, posted, worker, entered, robotVars, web, failed,
                 missed, notes>>

SignalStep(to) ==
  /\ signals = "waiting" /\ signals' = to
  /\ UNCHANGED <<mainVars, sent, worker, entered, robotVars, web, failed, missed, notes>>

(* SIGUSR1 starts the machine, SIGTERM and SIGUSR2 queue its FINISH and end *)
(* the thread, SIGHUP has the logger read its configuration.                *)
TakeSignal ==
  \/ /\ SignalStep("starting")
     /\ "USR1" \in pending /\ pending' = pending \ {"USR1"}
     /\ posted' = Append(posted, "start") /\ UNCHANGED kicked
  \/ /\ SignalStep("finishing")
     /\ \/ "TERM" \in pending /\ pending' = pending \ {"TERM"} /\ UNCHANGED kicked
        \/ kicked /\ kicked' = FALSE /\ UNCHANGED pending
     /\ posted' = Append(posted, "finish")
  \/ /\ SignalStep("waiting")
     /\ "HUP" \in pending /\ pending' = pending \ {"HUP"}
     /\ UNCHANGED <<kicked, posted>>

(* The notification of put_event.                                           *)
SignalWakes ==
  /\ signals \in {"starting", "finishing"}
  /\ signals' = IF signals = "starting" THEN "waiting" ELSE "ended"
  /\ WakeWorker
  /\ UNCHANGED <<mainVars, pending, kicked, sent, posted, entered, robotVars, web, failed,
                 notes>>
-----------------------------------------------------------------------------
(* worker of the state machine *)

WorkerStep == UNCHANGED <<mainVars, sigVars, web, notes>>

Check ==
  /\ WorkerStep
  /\ worker = "check"
  /\ worker' = IF posted # <<>> THEN "drain" ELSE "prewait"
  /\ UNCHANGED <<posted, entered, robotVars, failed, missed>>

Sleep ==
  /\ WorkerStep
  /\ worker = "prewait" /\ worker' = "asleep"
  /\ UNCHANGED <<posted, entered, robotVars, failed, missed>>

SpuriousWakeup ==
  /\ WorkerStep
  /\ worker = "asleep" /\ worker' = "check" /\ missed' = FALSE
  /\ UNCHANGED <<posted, entered, robotVars, failed>>

Drained ==
  /\ WorkerStep
  /\ worker = "drain" /\ posted = <<>> /\ worker' = "check"
  /\ UNCHANGED <<posted, entered, robotVars, failed, missed>>

(* An event of the application; its handler may ask for the end.            *)
TakeOther ==
  /\ WorkerStep
  /\ worker = "drain" /\ posted # <<>> /\ Head(posted) \in {"change", "activity"}
  /\ posted' \in {Tail(posted), Append(Tail(posted), "finish")}
  /\ UNCHANGED <<worker, entered, robotVars, failed, missed>>

(* StateInit is entered: the robot is configured, and started even if that  *)
(* failed. A second start goes back to it without entering it.              *)
TakeStart ==
  /\ WorkerStep
  /\ worker = "drain" /\ posted # <<>> /\ Head(posted) = "start"
  /\ entered' = TRUE
  /\ \/ /\ entered
        /\ posted' = Tail(posted) /\ UNCHANGED <<worker, at, failed>>
     \/ /\ ~entered
        /\ worker' = "entry" /\ at' = 1
        /\ \/ posted' = Tail(posted) /\ UNCHANGED failed
           \/ posted' = Append(Tail(posted), "finish") /\ failed' = TRUE
  /\ UNCHANGED <<item, told, missed>>

(* Faulty variant: the item that failed counts as started.                  *)
StartItemIgnored ==
  /\ WorkerStep
  /\ worker = "entry" /\ at \in Items
  /\ at' = at + 1
  /\ \/ item' = [item EXCEPT ![at] = "running"] /\ UNCHANGED failed
     \/ UNCHANGED <<item, failed>>
     \/ failed' = TRUE /\ UNCHANGED item
  /\ UNCHANGED <<posted, worker, entered, told, missed>>

(* PiRobot::start: an item is initialised, most with a thread of their own. *)
(* The first one that fails ends the loop and the program, but the first    *)
(* state of the application is asked for nevertheless.                      *)
StartItem ==
  /\ WorkerStep
  /\ worker = "entry" /\ at \in Items
  /\ \/ item' = [item EXCEPT ![at] = "running"] /\ at' = at + 1
        /\ UNCHANGED <<posted, worker, failed>>
     \/ at' = at + 1
        /\ UNCHANGED <<item, posted, worker, failed>>
     \/ /\ posted' = posted \o <<"finish", "change">>
        /\ worker' = "drain" /\ failed' = TRUE
        /\ UNCHANGED <<item, at>>
  /\ UNCHANGED <<entered, told, missed>>

Started ==
  /\ WorkerStep
  /\ worker = "entry" /\ at \notin Items
  /\ posted' = Append(posted, "change") /\ worker' = "drain"
  /\ UNCHANGED <<entered, robotVars, failed, missed>>

(* FINISH: the robot is stopped, and the worker ends.                       *)
TakeFinish ==
  /\ WorkerStep
  /\ worker = "drain" /\ posted # <<>> /\ Head(posted) = "finish"
  /\ posted' = Tail(posted) /\ worker' = "finish" /\ at' = 1
  /\ UNCHANGED <<entered, item, told, failed, missed>>

ProcessFinish ==
  /\ WorkerStep
  /\ worker = "finish"
  /\ \/ at \in Items /\ StopItem /\ UNCHANGED worker
     \/ at \notin Items /\ worker' = "ended" /\ UNCHANGED robotVars
  /\ UNCHANGED <<posted, entered, failed, missed>>
-----------------------------------------------------------------------------
(* threads of the items *)

ItemStep == UNCHANGED <<mainVars, sigVars, entered, at, told, web, failed>>

(* notify_stm queues an event while it holds the robot's mutex.             *)
ItemPuts(i) ==
  /\ ItemStep
  /\ item[i] = "running" /\ notes < MaxNotes /\ \A j \in Items : item[j] # "waking"
  /\ item' = [item EXCEPT ![i] = "waking"] /\ notes' = notes + 1
  /\ posted' = Append(posted, "activity")
  /\ UNCHANGED <<worker, missed>>

ItemWakes(i) ==
  /\ ItemStep
  /\ item[i] = "waking"
  /\ item' = [item EXCEPT ![i] = "running"]
  /\ WakeWorker
  /\ UNCHANGED <<posted, notes>>

(* The loop of the thread ends when it is told to.                          *)
ItemEnds(i) ==
  /\ ItemStep
  /\ item[i] = "running" /\ i \in told
  /\ item' = [item EXCEPT ![i] = "ended"]
  /\ UNCHANGED <<posted, worker, missed, notes>>
-----------------------------------------------------------------------------
(* A request: its handlers log, and use the environment and the storages.   *)
Serve ==
  /\ \/ web = "polling" /\ web' = "serving"
     \/ web = "serving" /\ web' = "polling"
  /\ UNCHANGED <<mainVars, sigVars, posted, worker, entered, robotVars, failed, missed, notes>>

Terminated == main = "exited" /\ UNCHANGED lifecycleVars

MainNext ==
  \/ Create \/ StartWeb \/ StartSignalThread \/ SendStart \/ JoinWorker
  \/ KillSignalThread \/ JoinSignalThread \/ DestroyMachine \/ ReleaseRobot
  \/ ReleaseLogger \/ Exit
WorkerNext ==
  \/ Check \/ Sleep \/ Drained \/ TakeOther \/ TakeStart \/ StartItem \/ Started
  \/ TakeFinish \/ ProcessFinish
LifecycleNext ==
  \/ MainNext \/ ParentSends
  \/ \E s \in {"TERM", "HUP"} : Signal(s)
  \/ TakeSignal \/ SignalWakes
  \/ WorkerNext \/ SpuriousWakeup
  \/ \E i \in Items : ItemPuts(i) \/ ItemWakes(i) \/ ItemEnds(i)
  \/ Serve \/ Terminated

LifecycleSpec == LifecycleInit /\ [][LifecycleNext]_lifecycleVars

(* Every thread that can run is run. Nobody has to send a signal, press a   *)
(* button or open a page.                                                   *)
LifecycleFairSpec ==
  /\ LifecycleSpec
  /\ WF_lifecycleVars(MainNext) /\ WF_lifecycleVars(ParentSends) /\ WF_lifecycleVars(WorkerNext)
  /\ WF_lifecycleVars(TakeSignal \/ SignalWakes)
  /\ \A i \in Items : WF_lifecycleVars(ItemWakes(i) \/ ItemEnds(i))
-----------------------------------------------------------------------------
LifecycleTypeOK ==
  /\ mode \in Modes /\ parent \in {"sleeping", "gone"}
  /\ main \in {"create", "web", "handlers", "send", "wait", "kill", "join", "destroy",
               "release", "exit", "exited"}
  /\ pending \subseteq {"TERM", "HUP", "USR1"} /\ kicked \in BOOLEAN
  /\ signals \in {"none", "waiting", "starting", "finishing", "ended"}
  /\ posted \in Seq(Posts)
  /\ worker \in {"none", "check", "prewait", "asleep", "drain", "entry", "finish", "ended"}
  /\ at \in 1..N + 1
  /\ item \in [Items -> {"off", "running", "waking", "ended"}] /\ told \subseteq Items
  /\ web \in {"none", "polling", "serving"}
  /\ entered \in BOOLEAN /\ failed \in BOOLEAN /\ missed \in BOOLEAN
  /\ sent \in 0..MaxSignals /\ notes \in 0..MaxNotes

(* When the machine, the robot and the logger are released, no thread that  *)
(* uses them is left: not the signal thread, the worker or one of an item.  *)
(* (The web thread is: see LoggerOutlivesWeb.)                              *)
ReleasedWhenUnused ==
  main \in {"destroy", "release", "exit", "exited"} =>
    /\ signals = "ended" /\ worker = "none"
    /\ \A i \in Items : item[i] = "off"

(* A SIGTERM ends the program, at whatever time of its life it is sent,     *)
(* unless a notification of the worker stays missed.                        *)
TermEnds == []<>(~missed) => ("TERM" \in pending ~> main = "exited")

(* A start that failed, of the machine or of the robot, ends the program    *)
(* without any signal.                                                      *)
FailedStartEnds == failed ~> main = "exited"

(* finish stops the web interface before the logger is released.            *)
LoggerOutlivesWeb == main \in {"exit", "exited"} => web # "serving"
=============================================================================

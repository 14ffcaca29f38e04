------------------------------- MODULE Timers -------------------------------
(***************************************************************************)
(* Timers2 and Timer of pi-smachine: the map of POSIX timers, the signal   *)
(* each expiry raises, and the handler that queues an event for the state  *)
(* machine. The worker of the state machine creates, cancels and resets    *)
(* timers from its callbacks.                                              *)
(*                                                                         *)
(* The signal is unblocked in every thread. The handler interrupts the     *)
(* thread it is delivered to, and locks mutex_sm in put_event like any     *)
(* other caller, also when that thread holds the mutex already. Linux      *)
(* prefers the main thread for a signal of the process, and takes another  *)
(* one when the main thread has a signal to handle already. A signal that  *)
(* is queued outlives the cancel or restart of its timer. The worker holds *)
(* the mutex in get_event here; put_event in a callback is the same case.  *)
(***************************************************************************)
EXTENDS Naturals, Sequences, FiniteSets

CONSTANTS
  Ids,          (* timer ids                                               *)
  Times,        (* seconds given to create_timer; 0 disarms                *)
  Main, Worker, (* the thread that joins, the state machine's worker       *)
  None,         (* no thread, no id, no timer                              *)
  MaxStarts,    (* bound: calls of create, reset and cancel in a behaviour *)
  MaxExpiries   (* bound: expiries in a behaviour                          *)

ASSUME TimersAssumption ==
  /\ Times \subseteq Nat
  /\ Main # Worker /\ None \notin {Main, Worker}
  /\ None \notin Ids
  /\ MaxStarts \in Nat /\ MaxExpiries \in Nat

Threads == {Main, Worker}
Infos == [time : Times, interval : BOOLEAN]

ASSUME NoneIsNoTimer == None \notin Infos

VARIABLES
  timers,   (* the map: id to the timer's itime, None when absent          *)
  armed,    (* ids of the timers that run in the kernel                    *)
  pending,  (* ids whose signal is queued in the kernel, one per timer     *)
  frame,    (* thread to the id its handler is for, None outside it        *)
  holder,   (* who holds mutex_sm                                          *)
  events,   (* timer events in the state machine's queue                   *)
  wpc,      (* where the worker is                                         *)
  unseen,   (* history: a notification fell before the worker's sleep      *)
  last,     (* id of the timer event the worker took last                  *)
  calls,    (* history: calls made so far                                  *)
  expired,  (* history: id to the number of expiries                       *)
  starts,   (* history: id to the number of times it was armed             *)
  handled,  (* history: id to the number of events taken                   *)
  overlap   (* history: a signal found the main thread busy with another   *)

timersVars == <<timers, armed, pending, frame, holder, events, wpc, unseen, last,
                calls, expired, starts, handled, overlap>>
kernelVars == <<timers, armed, calls, starts>>
eventVars == <<holder, events, handled>>
loopVars == <<wpc, unseen, last>>

TimersInit ==
  /\ timers = [id \in Ids |-> None]
  /\ armed = {} /\ pending = {}
  /\ frame = [t \in Threads |-> None]
  /\ holder = None /\ events = <<>>
  /\ wpc = "callback" /\ unseen = FALSE /\ last = None
  /\ calls = 0
  /\ expired = [id \in Ids |-> 0]
  /\ starts = [id \in Ids |-> 0]
  /\ handled = [id \in Ids |-> 0]
  /\ overlap = FALSE
-----------------------------------------------------------------------------
(* Timer::start and Timer::stop: timer_settime with itime or with zeros.    *)
Start(id, info) ==
  /\ armed' = IF info.time > 0 THEN armed \cup {id} ELSE armed \ {id}
  /\ starts' = [starts EXCEPT ![id] = @ + 1]

Stop(id) == armed' = armed \ {id} /\ UNCHANGED starts

Call ==
  /\ wpc = "callback" /\ frame[Worker] = None
  /\ calls < MaxStarts
  /\ calls' = calls + 1
  /\ UNCHANGED <<pending, frame, eventVars, loopVars, expired, overlap>>

(* create_timer: a timer that is there is restarted with the time it was    *)
(* created with; timer_create may fail.                                     *)
CreateTimer(id, info) ==
  /\ Call
  /\ \/ /\ timers[id] # None
        /\ Start(id, timers[id])
        /\ UNCHANGED timers
     \/ /\ timers[id] = None
        /\ timers' = [timers EXCEPT ![id] = info]
        /\ Start(id, info)
     \/ timers[id] = None /\ UNCHANGED <<timers, armed, starts>>

(* cancel_timer stops the timer, which stays in the map.                    *)
CancelTimer(id) ==
  /\ Call
  /\ timers[id] # None
  /\ Stop(id)
  /\ UNCHANGED timers

ResetTimer(id) ==
  /\ Call
  /\ timers[id] # None
  /\ Start(id, timers[id])
  /\ UNCHANGED timers

(* Timers2::stop in the destructor, after the worker ended: every timer is  *)
(* deleted; a signal that is queued already may go with it.                 *)
ClearTimers ==
  /\ wpc = "done" /\ frame[Main] = None
  /\ \E id \in Ids : timers[id] # None
  /\ timers' = [id \in Ids |-> None]
  /\ armed' = {}
  /\ \E left \in SUBSET pending : pending' = left
  /\ UNCHANGED <<frame, eventVars, loopVars, calls, starts, expired, overlap>>
-----------------------------------------------------------------------------
(* The kernel *)

(* Faulty variant: a one-shot timer is armed like an interval timer.        *)
ExpireAlwaysAgain(id) ==
  /\ id \in armed
  /\ expired[id] < MaxExpiries
  /\ expired' = [expired EXCEPT ![id] = @ + 1]
  /\ pending' = pending \cup {id}
  /\ UNCHANGED <<timers, armed, starts, calls, frame, eventVars, loopVars, overlap>>

(* A timer expires: at most one signal of it is queued (more expiries only  *)
(* count as overrun), and only an interval timer keeps running.             *)
Expire(id) ==
  /\ id \in armed
  /\ expired[id] < MaxExpiries
  /\ expired' = [expired EXCEPT ![id] = @ + 1]
  /\ pending' = pending \cup {id}
  /\ armed' = IF timers[id].interval THEN armed ELSE armed \ {id}
  /\ UNCHANGED <<timers, starts, calls, frame, eventVars, loopVars, overlap>>

(* Faulty variant: any thread may be chosen.                                *)
ChoosesAny(id, t) == TRUE

Chooses(id, t) == t = Main \/ frame[Main] # None \/ pending # {id}

(* A signal interrupts a thread that is not in a handler.                   *)
Deliver(id, t) ==
  /\ id \in pending
  /\ frame[t] = None /\ (t = Worker => wpc # "done")
  /\ Chooses(id, t)
  /\ pending' = pending \ {id}
  /\ frame' = [frame EXCEPT ![t] = id]
  /\ overlap' = (overlap \/ frame[Main] # None \/ pending # {id})
  /\ UNCHANGED <<kernelVars, eventVars, loopVars, expired>>
-----------------------------------------------------------------------------
(* Faulty variant: mutex_sm stays locked.                                   *)
ReturnLocked(t) ==
  /\ frame[t] # None /\ holder = t /\ ~(t = Worker /\ wpc = "take")
  /\ frame' = [frame EXCEPT ![t] = None]
  /\ UNCHANGED <<kernelVars, eventVars, pending, loopVars, expired, overlap>>

(* Timers2::handler: put_event locks mutex_sm and pushes ...                *)
HandlerPut(t) ==
  /\ frame[t] # None /\ holder = None
  /\ holder' = t
  /\ events' = Append(events, frame[t])
  /\ UNCHANGED <<kernelVars, pending, frame, handled, loopVars, expired, overlap>>

(* ... and unlocks it, notifies and returns to what was interrupted.        *)
HandlerReturn(t) ==
  /\ frame[t] # None /\ holder = t /\ ~(t = Worker /\ wpc = "take")
  /\ holder' = None
  /\ frame' = [frame EXCEPT ![t] = None]
  /\ wpc' = IF wpc = "asleep" THEN "wait" ELSE wpc
  /\ unseen' = IF wpc = "asleep" THEN FALSE ELSE unseen \/ wpc = "prewait"
  /\ UNCHANGED <<kernelVars, pending, events, handled, last, expired, overlap>>

(* The worker: nothing is queued when it evaluates the predicate ...        *)
FindNothing ==
  /\ wpc = "wait" /\ frame[Worker] = None
  /\ events = <<>>
  /\ wpc' = "prewait"
  /\ UNCHANGED <<kernelVars, eventVars, pending, frame, last, unseen, expired, overlap>>

(* ... and it sleeps, until it is notified or wakes up by itself; or        *)
(* get_event locks mutex_sm ...                                             *)
WorkerSleep ==
  /\ wpc = "prewait" /\ frame[Worker] = None
  /\ wpc' = "asleep"
  /\ UNCHANGED <<kernelVars, eventVars, pending, frame, last, unseen, expired, overlap>>

WorkerWakeup ==
  /\ wpc = "asleep" /\ frame[Worker] = None
  /\ wpc' = "wait" /\ unseen' = FALSE
  /\ UNCHANGED <<kernelVars, eventVars, pending, frame, last, expired, overlap>>

Lock ==
  /\ wpc = "wait" /\ frame[Worker] = None
  /\ events # <<>> /\ holder = None
  /\ holder' = Worker
  /\ wpc' = "take"
  /\ UNCHANGED <<kernelVars, pending, frame, events, handled, last, unseen, expired, overlap>>

(* ... takes the first event and unlocks; then the callbacks run.           *)
Take ==
  /\ wpc = "take" /\ frame[Worker] = None
  /\ last' = Head(events)
  /\ events' = Tail(events)
  /\ handled' = [handled EXCEPT ![Head(events)] = @ + 1]
  /\ holder' = None
  /\ wpc' = "callback"
  /\ UNCHANGED <<kernelVars, pending, frame, unseen, expired, overlap>>

(* The callback returns, or the state machine was told to finish.           *)
Return ==
  /\ wpc = "callback" /\ frame[Worker] = None
  /\ wpc' \in {"wait", "done"}
  /\ UNCHANGED <<kernelVars, pending, frame, eventVars, last, unseen, expired, overlap>>

TimersNext ==
  \/ \E id \in Ids :
       \/ \E info \in Infos : CreateTimer(id, info)
       \/ CancelTimer(id) \/ ResetTimer(id) \/ Expire(id)
       \/ \E t \in Threads : Deliver(id, t)
  \/ \E t \in Threads : HandlerPut(t) \/ HandlerReturn(t)
  \/ FindNothing \/ WorkerSleep \/ WorkerWakeup \/ Lock \/ Take \/ Return \/ ClearTimers

(* Threads run, time passes for armed timers, signals are delivered, and a  *)
(* callback returns.                                                        *)
TimersFairness ==
  /\ \A id \in Ids : WF_timersVars(Expire(id)) /\ WF_timersVars(\E t \in Threads : Deliver(id, t))
  /\ \A t \in Threads : WF_timersVars(HandlerPut(t)) /\ WF_timersVars(HandlerReturn(t))
  /\ WF_timersVars(FindNothing) /\ WF_timersVars(WorkerSleep) /\ WF_timersVars(Lock)
  /\ WF_timersVars(Take) /\ WF_timersVars(Return)

TimersSpec == TimersInit /\ [][TimersNext]_timersVars
TimersFairSpec == TimersSpec /\ TimersFairness
-----------------------------------------------------------------------------
TimersTypeOK ==
  /\ timers \in [Ids -> Infos \cup {None}]
  /\ armed \subseteq Ids /\ pending \subseteq Ids
  /\ frame \in [Threads -> Ids \cup {None}]
  /\ holder \in Threads \cup {None}
  /\ events \in Seq(Ids)
  /\ wpc \in {"wait", "prewait", "asleep", "take", "callback", "done"}
  /\ unseen \in BOOLEAN
  /\ last \in Ids \cup {None}
  /\ calls \in 0..MaxStarts
  /\ expired \in [Ids -> 0..MaxExpiries]
  /\ starts \in [Ids -> Nat] /\ handled \in [Ids -> Nat]
  /\ overlap \in BOOLEAN

(* The worker was interrupted while it holds mutex_sm, and the handler      *)
(* waits for it: nothing is queued or taken any more.                       *)
Stuck == wpc = "take" /\ frame[Worker] # None

(* The signals on their way into the queue, and the events that arrived.    *)
OnTheWay(id) ==
  Cardinality({t \in Threads : frame[t] = id /\ (holder # t \/ Stuck)})
    + (IF id \in pending THEN 1 ELSE 0)
Arrived(id) ==
  handled[id] + Cardinality({i \in DOMAIN events : events[i] = id})

(* A timer yields no more events than it expired, and a one-shot timer      *)
(* no more than it was started: from the kernel over the handler into the   *)
(* queue nothing is doubled (Timer::start, handler, put_event, get_event).  *)
OneEventPerStart ==
  \A id \in Ids :
    /\ Arrived(id) + OnTheWay(id) <= expired[id]
    /\ (timers[id] # None /\ ~timers[id].interval) =>
         expired[id] + (IF id \in armed THEN 1 ELSE 0) <= starts[id]

(* A timer that runs in the kernel is in the map, so that it can be         *)
(* cancelled, and none runs once the map was cleared (cancel_timer, stop).  *)
RunningInMap == \A id \in armed : timers[id] # None /\ timers[id].time > 0

(* handler locks mutex_sm, which the interrupted thread may hold: that      *)
(* takes two signals at a time, one of them on the main thread.             *)
StuckOnlyOnOverlap == Stuck => overlap

(* A signal that was raised is handled by the states as an event, unless    *)
(* the worker ends first, is stuck, or its notification fell before the     *)
(* worker's sleep.                                                          *)
SignalHandled ==
  \A id \in Ids : \A n \in 0 .. MaxExpiries - 1 :
    (id \in pending /\ handled[id] = n)
      ~> (handled[id] > n \/ wpc = "done" \/ Stuck \/ unseen)
==============================================================================

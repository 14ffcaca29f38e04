---------------------------- MODULE StateMachine ----------------------------
(***************************************************************************)
(* pi-smachine: the event queue, the worker thread that drains it, the     *)
(* state stack it drives through callbacks, and the owner that stops it.   *)
(*                                                                         *)
(* put_event pushes under mutex_sm and calls cv.notify_one() after the     *)
(* unlock and without cv_m; the worker evaluates its wait predicate under  *)
(* cv_m. Both halves are separate steps here, so that a notification may   *)
(* fall between the predicate and the sleep. A callback (OnEntry, OnExit,  *)
(* OnSubstateExit, OnEvent, OnTimer) may queue events any number of times, *)
(* and then returns or throws.                                             *)
(***************************************************************************)
EXTENDS Naturals, Sequences

CONSTANTS
  States,      (* state names the factory can create, "StateInit" included *)
  Unknown,     (* a state name the factory does not know                   *)
  Producers,   (* threads other than the worker that call put_event        *)
  Forces,      (* values of the force argument of put_event                *)
  MaxPuts,     (* bound: number of events queued in a behaviour            *)
  NoEvent      (* no event was taken yet                                   *)

ASSUME ConstantsAssumption ==
  /\ Unknown \notin States
  /\ Forces \subseteq BOOLEAN
  /\ MaxPuts \in Nat

(* An event that was taken differs from "no event".                         *)
ASSUME NoEventAssumption ==
  NoEvent \notin [type : {"CHANGE", "FINISH", "POP", "TIMER", "USER"},
                 name : States \cup {Unknown}, id : 1..MaxPuts]

VARIABLES
  queue,       (* m_events                                                 *)
  puts,        (* number of events queued so far, the id of the last one   *)
  notifying,   (* producers between the push and cv.notify_one()           *)
  pc,          (* where the worker thread is                               *)
  cur,         (* the event the worker took last                           *)
  pos,         (* iterator over the stack in process_event                 *)
  stack,       (* m_states, front first                                    *)
  stopSignal,  (* Threaded::m_stopSignal                                   *)
  owner,       (* progress of the destructor                               *)
  missed,      (* history: a notification fell before the sleep            *)
  threw        (* history: a callback threw while cur was handled          *)

vars == <<queue, puts, notifying, pc, cur, pos, stack, stopSignal, owner,
          missed, threw>>
workerVars == <<pc, cur, pos, stack, threw>>
queueVars == <<queue, puts>>
ownerVars == <<stopSignal, owner>>

Kinds ==
  [type : {"CHANGE"}, name : States \cup {Unknown}]
    \cup [type : {"FINISH", "POP", "TIMER", "USER"}, name : {Unknown}]
Event == [type : {"CHANGE", "FINISH", "POP", "TIMER", "USER"},
          name : States \cup {Unknown}, id : 1..MaxPuts]

Waiting == {"check", "prewait", "asleep"}
Between == Waiting \cup {"drain"}
Handling == {"finish", "pop", "substate", "change", "rollback", "entry", "offer"}

Holds(s) == \E i \in DOMAIN stack : stack[i] = s

Init ==
  /\ queue = <<>> /\ puts = 0 /\ notifying = {}
  /\ pc = "check" /\ cur = NoEvent /\ pos = 1 /\ stack = <<>>
  /\ stopSignal = FALSE /\ owner = "running"
  /\ missed = FALSE /\ threw = FALSE
-----------------------------------------------------------------------------
(* put_event *)

(* Faulty variant: the newest event is taken first.                         *)
EnqueueAtFront(kind, force) ==
  /\ puts < MaxPuts
  /\ puts' = puts + 1
  /\ queue' = <<[type |-> kind.type, name |-> kind.name, id |-> puts + 1]>>
                \o (IF force THEN <<>> ELSE queue)

Enqueue(kind, force) ==
  /\ puts < MaxPuts
  /\ puts' = puts + 1
  /\ queue' = Append(IF force THEN <<>> ELSE queue,
                     [type |-> kind.type, name |-> kind.name, id |-> puts + 1])

(* A thread other than the worker queues an event: the part under mutex_sm. *)
Put(p) ==
  /\ p \notin notifying
  /\ owner # "destroyed" /\ pc # "aborted"
  /\ \E kind \in Kinds, force \in Forces : Enqueue(kind, force)
  /\ notifying' = notifying \cup {p}
  /\ UNCHANGED <<workerVars, ownerVars, missed>>

(* Faulty variant: the notification is forgotten.                           *)
NotifyForgotten(p) ==
  /\ p \in notifying
  /\ pc # "aborted"
  /\ notifying' = notifying \ {p}
  /\ UNCHANGED <<queueVars, workerVars, ownerVars, missed>>

(* ... and its cv.notify_one(): it wakes the worker only if it sleeps.      *)
Notify(p) ==
  /\ p \in notifying
  /\ pc # "aborted"
  /\ notifying' = notifying \ {p}
  /\ pc' = IF pc = "asleep" THEN "check" ELSE pc
  /\ missed' = IF pc = "asleep" THEN FALSE ELSE missed \/ pc = "prewait"
  /\ UNCHANGED <<queueVars, cur, pos, stack, threw, ownerVars>>
-----------------------------------------------------------------------------
(* worker: waiting *)

(* The predicate of cv.wait, evaluated with cv_m held.                      *)
Check ==
  /\ pc = "check"
  /\ pc' = IF stopSignal \/ queue # <<>> THEN "drain" ELSE "prewait"
  /\ UNCHANGED <<queueVars, notifying, cur, pos, stack, threw, ownerVars, missed>>

(* cv.wait releases cv_m and sleeps, atomically.                            *)
Sleep ==
  /\ pc = "prewait"
  /\ pc' = "asleep"
  /\ UNCHANGED <<queueVars, notifying, cur, pos, stack, threw, ownerVars, missed>>

SpuriousWakeup ==
  /\ pc = "asleep"
  /\ pc' = "check"
  /\ missed' = FALSE
  /\ UNCHANGED <<queueVars, notifying, cur, pos, stack, threw, ownerVars>>

(* worker: the inner loop ends when the queue is empty ...                  *)
Drained ==
  /\ pc = "drain" /\ queue = <<>>
  /\ pc' = "check"
  /\ UNCHANGED <<queueVars, notifying, cur, pos, stack, threw, ownerVars, missed>>

HandlerOf(type) ==
  CASE type = "FINISH" -> "finish"
    [] type = "CHANGE" -> "change"
    [] type = "POP"    -> "pop"
    [] OTHER           -> "offer"

(* ... or takes the next event and switches on its type.                    *)
TakeEvent ==
  /\ pc = "drain" /\ queue # <<>>
  /\ cur' = Head(queue)
  /\ queue' = Tail(queue)
  /\ pc' = HandlerOf(Head(queue).type)
  /\ pos' = 1
  /\ threw' = FALSE
  /\ UNCHANGED <<puts, notifying, stack, ownerVars, missed>>
-----------------------------------------------------------------------------
(* worker: handlers. Outcome(t) ends the handler after a callback.          *)

InCallback ==
  \/ pc \in {"pop", "substate"} /\ stack # <<>>
  \/ pc = "rollback" /\ stack # <<>> /\ Head(stack) # cur.name
  \/ pc = "entry"
  \/ pc = "offer" /\ pos <= Len(stack)

(* A callback of the active state queues an event (state_change, state_pop, *)
(* finish, add_event). No thread waits on cv while the worker runs.         *)
CallbackPuts ==
  /\ InCallback
  /\ \E kind \in Kinds : Enqueue(kind, FALSE)
  /\ UNCHANGED <<notifying, workerVars, ownerVars, missed>>

EndHandler(thrown) ==
  /\ pc' = "drain"
  /\ threw' = thrown
  /\ UNCHANGED <<queueVars, notifying, cur, pos, stack, ownerVars, missed>>

(* process_finish_event: the robot is stopped and the worker leaves its     *)
(* loop; events still queued are never taken.                               *)
ProcessFinish ==
  /\ pc = "finish"
  /\ pc' = "done"
  /\ UNCHANGED <<queueVars, notifying, cur, pos, stack, threw, ownerVars, missed>>

(* The front state's OnExit returned: it is removed.                        *)
RemoveFront(next) ==
  /\ stack' = Tail(stack)
  /\ pc' = next
  /\ UNCHANGED <<queueVars, notifying, cur, pos, threw, ownerVars, missed>>

ProcessPop ==
  /\ pc = "pop"
  /\ \/ stack = <<>> /\ EndHandler(FALSE)
     \/ stack # <<>> /\ EndHandler(TRUE)
     \/ stack # <<>> /\ RemoveFront("substate")

SubstateExit ==
  /\ pc = "substate"
  /\ \/ EndHandler(FALSE)
     \/ stack # <<>> /\ EndHandler(TRUE)

(* Faulty variant: the stack is not searched for the state first.           *)
ProcessChangeNoSearch ==
  /\ pc = "change"
  /\ \/ cur.name \notin States /\ EndHandler(FALSE)
     \/ /\ cur.name \in States
        /\ stack' = <<cur.name>> \o stack
        /\ pc' = "entry"
        /\ UNCHANGED <<queueVars, notifying, cur, pos, threw, ownerVars, missed>>

ProcessChange ==
  /\ pc = "change"
  /\ \/ /\ Holds(cur.name)
        /\ pc' = "rollback"
        /\ UNCHANGED <<queueVars, notifying, cur, pos, stack, threw, ownerVars, missed>>
     \/ /\ ~Holds(cur.name) /\ cur.name \notin States
        /\ EndHandler(FALSE)
     \/ /\ ~Holds(cur.name) /\ cur.name \in States
        /\ stack' = <<cur.name>> \o stack
        /\ pc' = "entry"
        /\ UNCHANGED <<queueVars, notifying, cur, pos, threw, ownerVars, missed>>

(* Faulty variant: the target of the rollback is removed as well.           *)
RollbackTooFar ==
  /\ pc = "rollback"
  /\ \/ Head(stack) = cur.name /\ RemoveFront("drain")
     \/ stack # <<>> /\ Head(stack) # cur.name /\ EndHandler(TRUE)
     \/ stack # <<>> /\ Head(stack) # cur.name /\ RemoveFront("rollback")

Rollback ==
  /\ pc = "rollback"
  /\ \/ (stack = <<>> \/ Head(stack) = cur.name) /\ EndHandler(FALSE)
     \/ stack # <<>> /\ Head(stack) # cur.name /\ EndHandler(TRUE)
     \/ stack # <<>> /\ Head(stack) # cur.name /\ RemoveFront("rollback")

EntryReturns ==
  /\ pc = "entry"
  /\ \E thrown \in BOOLEAN : EndHandler(thrown)

(* process_event and process_timer_event: the states are asked from the     *)
(* front on, until one of them processes the event.                         *)
Offer ==
  /\ pc = "offer"
  /\ \/ pos > Len(stack) /\ EndHandler(FALSE)
     \/ pos <= Len(stack) /\ EndHandler(FALSE)
     \/ /\ pos <= Len(stack)
        /\ pos' = pos + 1
        /\ UNCHANGED <<queueVars, notifying, pc, cur, stack, threw, ownerVars, missed>>

(* ... an exception of OnEvent or OnTimer leaves the thread function, which *)
(* ends the process (std::terminate).                                       *)
OfferThrows ==
  /\ pc = "offer" /\ pos <= Len(stack)
  /\ pc' = "aborted"
  /\ threw' = TRUE
  /\ UNCHANGED <<queueVars, notifying, cur, pos, stack, ownerVars, missed>>
-----------------------------------------------------------------------------
(* Faulty variant: the stop signal is set without cv_m.                     *)
SetStopSignalUnlocked ==
  /\ owner = "running" /\ pc # "aborted"
  /\ owner' = "joining"
  /\ stopSignal' = TRUE
  /\ pc' = IF pc = "asleep" THEN "check" ELSE pc
  /\ missed' = IF pc = "asleep" THEN FALSE ELSE missed
  /\ UNCHANGED <<queueVars, notifying, cur, pos, stack, threw>>

(* Faulty variant: the worker is not notified of the stop signal.           *)
SetStopSignalSilently ==
  /\ owner = "running"
  /\ pc \notin {"prewait", "aborted"}
  /\ owner' = "joining"
  /\ stopSignal' = TRUE
  /\ UNCHANGED <<queueVars, workerVars, notifying, missed>>

(* The destructor: Threaded::stop sets the stop signal with cv_m held, and  *)
(* joins; then the states are erased.                                       *)
SetStopSignal ==
  /\ owner = "running"
  /\ pc \notin {"prewait", "aborted"}
  /\ owner' = "joining"
  /\ stopSignal' = TRUE
  /\ pc' = IF pc = "asleep" THEN "check" ELSE pc
  /\ missed' = IF pc = "asleep" THEN FALSE ELSE missed
  /\ UNCHANGED <<queueVars, notifying, cur, pos, stack, threw>>

JoinAndErase ==
  /\ owner = "joining" /\ pc = "done"
  /\ owner' = "destroyed"
  /\ stack' = <<>>
  /\ UNCHANGED <<queueVars, notifying, pc, cur, pos, threw, stopSignal, missed>>

Terminated ==
  /\ pc = "aborted" \/ owner = "destroyed"
  /\ UNCHANGED vars

WorkerStep ==
  \/ Check \/ Sleep \/ Drained \/ TakeEvent
  \/ ProcessFinish \/ ProcessPop \/ SubstateExit \/ ProcessChange \/ Rollback
  \/ EntryReturns \/ Offer

Next ==
  \/ \E p \in Producers : Put(p) \/ Notify(p)
  \/ WorkerStep \/ SpuriousWakeup \/ CallbackPuts \/ OfferThrows
  \/ SetStopSignal \/ JoinAndErase
  \/ Terminated

(* The scheduler runs every thread that can run; the worker does not stay   *)
(* in a callback for ever; nobody has to queue an event or stop the machine.*)
Fairness ==
  /\ WF_vars(WorkerStep)
  /\ \A p \in Producers : WF_vars(Notify(p))
  /\ WF_vars(JoinAndErase)

Spec == Init /\ [][Next]_vars
FairSpec == Spec /\ Fairness
-----------------------------------------------------------------------------
TypeOK ==
  /\ queue \in Seq(Event)
  /\ puts \in 0..MaxPuts
  /\ notifying \subseteq Producers
  /\ pc \in Between \cup Handling \cup {"done", "aborted"}
  /\ cur \in Event \cup {NoEvent}
  /\ pos \in Nat \ {0}
  /\ stack \in Seq(States)
  /\ stopSignal \in BOOLEAN
  /\ owner \in {"running", "joining", "destroyed"}
  /\ missed \in BOOLEAN
  /\ threw \in BOOLEAN

(* The handler that runs is the one of the event that was taken last, a     *)
(* rollback has its target below it, and the state being entered is the     *)
(* front one (switch in worker, process_change_state).                      *)
HandlerMatchesEvent ==
  /\ pc \in Handling => cur # NoEvent
  /\ pc = "finish" => cur.type = "FINISH"
  /\ pc \in {"pop", "substate"} => cur.type = "POP"
  /\ pc \in {"change", "rollback", "entry"} => cur.type = "CHANGE"
  /\ pc = "offer" => cur.type \in {"TIMER", "USER"}
  /\ pc = "rollback" => Holds(cur.name)
  /\ pc = "entry" => stack # <<>> /\ Head(stack) = cur.name

(* No state is on the stack twice: process_change_state rolls back to a     *)
(* state that is there instead of entering it again.                        *)
StackUnique == \A i, j \in DOMAIN stack : stack[i] = stack[j] => i = j

(* When the handling of a change to a state the factory knows is over, the  *)
(* state is on the stack whatever the callbacks threw, and it is the active *)
(* one if none of them threw (process_change_state).                        *)
ChangeReachesTarget ==
  (pc \in Between /\ cur # NoEvent /\ owner # "destroyed") =>
    ((cur.type = "CHANGE" /\ cur.name \in States) =>
       /\ Holds(cur.name)
       /\ ~threw => Head(stack) = cur.name)

(* The worker sleeps, or is about to, over a queued event only if the       *)
(* notification of a producer is still to come or fell between the          *)
(* predicate and the sleep; the stop signal is never missed, because it is  *)
(* set with cv_m held (put_event, worker, set_stop_signal).                 *)
NoOtherMissedWakeup ==
  pc \in {"prewait", "asleep"} =>
    /\ queue # <<>> => (missed \/ notifying # {})
    /\ ~stopSignal

(* Once FINISH is handled, no event is taken and no state is entered or     *)
(* left any more; the stack only goes with the machine.                     *)
FinishIsFinal ==
  [][pc = "done" => (pc' = "done" /\ cur' = cur
                      /\ (stack' = stack \/ owner' = "destroyed"))]_vars

(* The worker thread implements one event loop over a FIFO queue and a      *)
(* stack of distinct states.                                                *)
Loop == INSTANCE EventLoop WITH
          Events <- Event,
          pending <- queue,
          handling <- IF pc \in Handling \cup {"aborted"} THEN cur ELSE NoEvent,
          ended <- pc = "done"
ImplementsEventLoop == Loop!Spec

Queued(n) == \E i \in DOMAIN queue : queue[i].id = n

(* A queued event is taken, unless a FINISH comes first, the process aborts *)
(* or the notification of a producer fell between the predicate and the     *)
(* sleep: there is no other way to leave an event in the queue.             *)
TakenUnlessMissed ==
  \A n \in 1..MaxPuts :
    Queued(n) ~> (~Queued(n) \/ missed \/ pc \in {"done", "aborted"})

(* A machine that is stopped with a FINISH in its queue goes away: the stop *)
(* signal wakes the worker even if the notification of FINISH was missed.   *)
(* Only an event that is put with force can take the FINISH away again.     *)
Finishes(n) == \E i \in DOMAIN queue : queue[i].id = n /\ queue[i].type = "FINISH"
Forced(n) == ~Queued(n) /\ pc \notin {"finish", "done"}
StopAfterFinish ==
  \A n \in 1..MaxPuts :
    (owner = "joining" /\ Finishes(n))
      ~> (owner = "destroyed" \/ pc = "aborted" \/ Forced(n))
==============================================================================

------------------------------- MODULE Uln2003 -------------------------------
(***************************************************************************)
(* The stepper motor behind an ULN2003: a thread of its own moves it the   *)
(* number of steps that set_steps asks for.                                *)
(***************************************************************************)
EXTENDS Integers, Sequences, Threaded

CONSTANTS
  Orders,       (* what set_steps is called with                           *)
  Garbage       (* m_num_steps before it is set: no constructor sets it    *)

VARIABLES
  chip,         (* the command on the four pins                            *)
  driver,       (* m_num_steps, m_step, m_direction, m_rotate              *)
  task,         (* steps, step and i of the worker, and history: the index *)
                (* of the command that is on the pins                      *)
  report        (* history: the last GN_DONE, and whether another order    *)
                (* came, or the rotation was switched on, since Fetch      *)

motorVars == <<chip, driver, task, report>>

Command == <<8, 12, 4, 6, 2, 3, 1, 1>>

MotorInit ==
  /\ chip = 0
  /\ \E steps \in Garbage, dir \in 0..1 :
       driver = [steps |-> steps, step |-> 10, dir |-> dir, rotate |-> TRUE]
  /\ task = [steps |-> 0, step |-> 0, i |-> 0]
  /\ report = [done |-> <<>>, renewed |-> FALSE]

(* the turns of the loop for an order                                       *)
Ordered(n) == IF n > 0 THEN n ELSE 0

NextStep(step) == IF driver.dir = 0 THEN (step + 1) % 8 ELSE (step + 7) % 8
-----------------------------------------------------------------------------
(* callers *)

Initialize ==
  /\ Start
  /\ driver' = [driver EXCEPT !.step = IF driver.dir = 0 THEN 0 ELSE 7]
  /\ UNCHANGED <<chip, task, report>>

SetDirection ==
  /\ caller = "free"
  /\ driver' = [driver EXCEPT !.dir = 1 - @]
  /\ UNCHANGED <<chip, task, report, threadVars>>

(* cv_m is held: no set_steps falls between check and sleep.                *)
Assign(n) ==
  /\ worker # "prewait"
  /\ driver' = [driver EXCEPT !.steps = n, !.rotate = n > 0]

(* Faulty variant: the worker is not notified.                              *)
SetStepsSilently(n) ==
  /\ caller = "free" /\ Assign(n)
  /\ report' = [report EXCEPT !.renewed = TRUE]
  /\ UNCHANGED <<chip, task, threadVars>>

SetSteps(n) ==
  /\ caller = "free" /\ Assign(n) /\ Notify
  /\ report' = [report EXCEPT !.renewed = TRUE]
  /\ UNCHANGED <<chip, task, told, caller>>

(* stop_rotation and set_rotation, which the class inherits, take no part   *)
(* in the wait: the move that is carried out sees m_rotate.                 *)
StopRotation ==
  /\ caller = "free" /\ driver.rotate
  /\ driver' = [driver EXCEPT !.rotate = FALSE]
  /\ UNCHANGED <<chip, task, report, threadVars>>

SetRotation(on) ==
  /\ caller = "free"
  /\ driver' = [driver EXCEPT !.rotate = on]
  /\ report' = [report EXCEPT !.renewed = @ \/ on]
  /\ UNCHANGED <<chip, task, threadVars>>

(* When the thread is joined the coils are switched off.                    *)
StopCall == Tell /\ UNCHANGED motorVars
StopJoin == Join /\ chip' = 0 /\ UNCHANGED <<driver, task, report>>
-----------------------------------------------------------------------------
(* worker *)

Goto(from, to) == worker = from /\ worker' = to /\ UNCHANGED <<told, missed, caller>>

WaitForSteps == Wait(driver.steps > 0) /\ UNCHANGED motorVars
Wakeup == SpuriousWakeup /\ UNCHANGED motorVars

Fetch ==
  /\ Goto("work", IF told THEN "ended" ELSE "move")
  /\ task' = [steps |-> driver.steps, step |-> driver.step, i |-> 0]
  /\ report' = [report EXCEPT !.renewed = FALSE]
  /\ UNCHANGED <<chip, driver>>

Moving == task.i < task.steps /\ ~told /\ driver.rotate

Move ==
  /\ Moving /\ worker = "move"
  /\ chip' = Command[task.step + 1]
  /\ task' = [task EXCEPT !.step = NextStep(@), !.i = @ + 1]
  /\ UNCHANGED <<driver, report, threadVars>>

LeaveLoop == ~Moving /\ Goto("move", "moved") /\ UNCHANGED motorVars

(* GN_DONE unless there is a reason from outside now ...                    *)
Report ==
  /\ Goto("moved", "save")
  /\ report' = IF ~told /\ driver.rotate
               THEN [report EXCEPT !.done = <<task.i, task.steps, report.renewed>>] ELSE report
  /\ UNCHANGED <<chip, driver, task>>

Save ==
  /\ Goto("save", "clear")
  /\ driver' = [driver EXCEPT !.step = task.step]
  /\ UNCHANGED <<chip, task, report>>

(* ... and set_steps(0), whatever was ordered since Fetch.                  *)
Clear ==
  /\ Goto("clear", "top") /\ Assign(0)
  /\ UNCHANGED <<chip, task, report>>

WorkerNext == WaitForSteps \/ Fetch \/ Move \/ LeaveLoop \/ Report \/ Save \/ Clear

MotorNext ==
  \/ \E n \in Orders : SetSteps(n)
  \/ StopRotation \/ \E on \in BOOLEAN : SetRotation(on)
  \/ Wakeup \/ Initialize \/ SetDirection \/ StopCall \/ StopJoin \/ WorkerNext
-----------------------------------------------------------------------------
MotorTypeOK ==
  /\ chip \in {Command[i] : i \in 1..8} \cup {0}
  /\ driver.step \in 0..7 \cup {10} /\ driver.steps \in Orders \cup Garbage \cup {0}
  /\ task.step \in 0..7 \cup {10}
  /\ worker = "move" => task.step \in 0..7

(* The worker does not sleep while there are steps: cv_m is held by         *)
(* whoever sets them.                                                       *)
MotorAwake == worker = "asleep" => driver.steps <= 0

(* GN_DONE says that the steps of an order were made, all of them and no    *)
(* more, unless another order came meanwhile, or the rotation was switched  *)
(* on: after it was switched off the move ends early, and is then reported. *)
MotorReports ==
  report.done # <<>> => report.done[1] = Ordered(report.done[2]) \/ report.done[3]

(* The motor is only moved by a worker: without one its coils are off.      *)
CoilsOff == worker = "none" => chip = 0
===============================================================================

------------------------------- MODULE Steppers -------------------------------
(***************************************************************************)
(* The stepper motors behind a DRV8825 or a DRV8834. Setters drive the     *)
(* pins of the chip, and step starts a thread that is never joined: two    *)
(* calls move the motor at the same time. The build defines NDEBUG, so     *)
(* that a pin that is not wired is left alone by the checks behind the     *)
(* assertions. The threads report the item by a reference to a local of    *)
(* step; the name that arrives is left out.                                *)
(***************************************************************************)
EXTENDS Integers

CONSTANTS
  Chips,        (* "8825", "8834"                                          *)
  Wirings,      (* by chip: sets of pins that set_gpio may have been       *)
                (* called for                                              *)
  Sizes,        (* by chip: what set_step_size is called with              *)
  Lengths,      (* what step is called with                                *)
  MaxMoves,     (* bound: calls of step                                    *)
  MaxSteps      (* 10 in the code                                          *)

VARIABLES
  chip,         (* its type, the wired pins, their levels (2: not driven), *)
                (* and the rising edges that it saw on its step pin        *)
  driver,       (* the members of the object, with m_rotate; ready is      *)
                (* history: initialize was called                          *)
  task,         (* the threads: what they still have to do, and where      *)
  report        (* history: steps and GN_DONE of each move, and the steps  *)
                (* of all; overlap, and the moves during which the         *)
                (* rotation was stopped                                    *)

stepperVars == <<chip, driver, task, report>>

Pins == {"enable", "reset", "sleep", "decay", "mode0", "mode1", "mode2", "dir", "step"}
Is8825 == chip.type = "8825"
Flags == {"enable", "sleep", "dir"} \cup (IF Is8825 THEN {"reset"} ELSE {})
MoveIds == 1..MaxMoves
Bit(n, weight) == (n \div weight) % 2

StepperInit ==
  /\ \E type \in Chips : \E wired \in Wirings[type] :
       chip = [type |-> type, wired |-> wired, level |-> [p \in Pins |-> IF p = "step" THEN 0 ELSE 2], edges |-> 0]
  /\ driver = [flag |-> [f \in Flags |-> IF f = "enable" THEN 1 ELSE 0], size |-> 0, decay |-> "mixed",
               rotate |-> TRUE, ready |-> FALSE]
  /\ task = [i \in MoveIds |-> [left |-> 0, at |-> "none"]]
  /\ report = [done |-> [i \in MoveIds |-> 0], told |-> [i \in MoveIds |-> 0], asked |-> [i \in MoveIds |-> 0],
               made |-> 0, overlap |-> FALSE, stopped |-> {}]
-----------------------------------------------------------------------------
(* setters: <<pins, members>> before and after. Each flag is 0 or 1 and its *)
(* pin has the other level: enable and reset are active low, sleep is       *)
(* not-sleep, and clockwise, which is 0, is High.                           *)

SetFlag(s, f, v) ==
  IF f \notin s.c.wired THEN s
  ELSE [c |-> [s.c EXCEPT !.level[f] = 1 - v], d |-> [s.d EXCEPT !.flag[f] = v]]

SetModes(s, size, modes) ==
  [c |-> [s.c EXCEPT !.level = [p \in Pins |-> IF p \in DOMAIN modes THEN modes[p] ELSE @[p]]],
   d |-> [s.d EXCEPT !.size = size]]

SetStepSize8825(s, size) ==
  IF ~{"mode0", "mode1", "mode2"} \subseteq s.c.wired THEN s
  ELSE SetModes(s, size, [mode0 |-> Bit(size, 1), mode1 |-> Bit(size, 2), mode2 |-> Bit(size, 4)])

(* The quarter and the 32nd (4 and 5) need a mode0 that is left open, the   *)
(* others one that is wired: anything else is refused.                      *)
SetStepSize8834(s, size) ==
  CASE "mode0" \notin s.c.wired /\ size \in {4, 5} -> SetModes(s, size, [mode1 |-> size - 4])
    [] "mode0" \in s.c.wired /\ size \notin {4, 5} ->
         SetModes(s, size, [mode0 |-> Bit(size, 1), mode1 |-> Bit(size, 2)])
    [] OTHER -> s

(* Faulty variant: a size that is refused is kept nevertheless.             *)
SetStepSizeAlways(s, size) ==
  IF Is8825 THEN SetStepSize8825(s, size)
  ELSE [SetStepSize8834(s, size) EXCEPT !.d.size = size]

SetStepSize(s, size) ==
  IF Is8825 THEN SetStepSize8825(s, size) ELSE SetStepSize8834(s, size)

SetDecay(s, decay) ==
  IF decay = "mixed" \/ "decay" \notin s.c.wired THEN [s EXCEPT !.d.decay = "mixed"]
  ELSE [c |-> [s.c EXCEPT !.level["decay"] = IF decay = "slow" THEN 0 ELSE 1], d |-> [s.d EXCEPT !.decay = decay]]

Now == [c |-> chip, d |-> driver]
Become(s) == chip' = s.c /\ driver' = s.d /\ UNCHANGED <<task, report>>

(* Each of the values is set again.                                         *)
Initialize ==
  LET dir == SetFlag(Now, "dir", driver.flag["dir"])
      size == SetStepSize(dir, driver.size)
      more == IF Is8825 THEN SetFlag(SetDecay(size, driver.decay), "reset", driver.flag["reset"]) ELSE size
      awake == SetFlag(more, "sleep", driver.flag["sleep"])
  IN  /\ ~driver.ready
      /\ Become([SetFlag(awake, "enable", driver.flag["enable"]) EXCEPT !.d.ready = TRUE])

Set ==
  \/ \E f \in Flags : Become(SetFlag(Now, f, 1 - driver.flag[f]))
  \/ \E size \in Sizes[chip.type] : Become(SetStepSize(Now, size))
  \/ Is8825 /\ \E decay \in {"slow", "fast", "mixed"} : Become(SetDecay(Now, decay))

Running == {i \in MoveIds : task[i].at \notin {"none", "ended"}}

(* stop_rotation and set_rotation                                           *)
SetRotation(b) ==
  /\ driver.rotate # b
  /\ driver' = [driver EXCEPT !.rotate = b]
  /\ report' = [report EXCEPT !.stopped = IF b THEN @ ELSE @ \cup Running]
  /\ UNCHANGED <<chip, task>>
-----------------------------------------------------------------------------
(* step and its threads                                                     *)

Step(i, n) ==
  LET steps == IF n > MaxSteps THEN MaxSteps ELSE n
  IN  /\ task[i].at = "none" /\ \A j \in 1..(i - 1) : task[j].at # "none"
      /\ task' = [task EXCEPT ![i] = [left |-> steps, at |-> "loop"]]
      /\ report' = [report EXCEPT !.asked[i] = steps, !.overlap = @ \/ Running # {},
                                    !.stopped = IF driver.rotate THEN @ ELSE @ \cup {i}]
      /\ UNCHANGED <<chip, driver>>

Goto(i, at) == task' = [task EXCEPT ![i].at = at]

Rise(i) ==
  /\ task[i].at = "loop" /\ task[i].left > 0 /\ driver.rotate
  /\ chip' = [chip EXCEPT !.level["step"] = 1, !.edges = @ + 1 - chip.level["step"]]
  /\ Goto(i, "high") /\ UNCHANGED <<driver, report>>

Fall(i) ==
  /\ task[i].at = "high"
  /\ chip' = [chip EXCEPT !.level["step"] = 0]
  /\ report' = [report EXCEPT !.done[i] = @ + 1, !.made = @ + 1]
  /\ Goto(i, "low") /\ UNCHANGED driver

Tell(i) == report' = IF driver.rotate THEN [report EXCEPT !.told[i] = @ + 1] ELSE report

(* After the pause of a step the DRV8825 tells the machine of it.           *)
Rest(i) ==
  /\ task[i].at = "low"
  /\ task' = [task EXCEPT ![i] = [left |-> @.left - 1, at |-> "loop"]]
  /\ IF Is8825 THEN Tell(i) ELSE UNCHANGED report
  /\ UNCHANGED <<chip, driver>>

LeaveLoop(i) ==
  /\ task[i].at = "loop" /\ (task[i].left <= 0 \/ ~driver.rotate)
  /\ Goto(i, IF Is8825 THEN "ended" ELSE "tell") /\ UNCHANGED <<chip, driver, report>>

(* The DRV8834 tells it of the move, when the rotation is not stopped now.  *)
EndMove(i) == task[i].at = "tell" /\ Tell(i) /\ Goto(i, "ended") /\ UNCHANGED <<chip, driver>>

MoveNext(i) == Rise(i) \/ Fall(i) \/ Rest(i) \/ LeaveLoop(i) \/ EndMove(i)

StepperNext ==
  \/ Initialize \/ Set
  \/ \E b \in BOOLEAN : SetRotation(b)
  \/ \E i \in MoveIds : MoveNext(i) \/ \E n \in Lengths : Step(i, n)
-----------------------------------------------------------------------------
StepperTypeOK ==
  /\ chip.level \in [Pins -> 0..2] /\ chip.edges \in Nat /\ chip.wired \subseteq Pins
  /\ driver.flag \in [Flags -> 0..1] /\ driver.size \in 0..5
  /\ task \in [MoveIds -> [left : 0..MaxSteps, at : {"none", "loop", "high", "low", "tell", "ended"}]]
  /\ report.told \in [MoveIds -> 0..MaxSteps]

(* What the driver says it set is what the pins say, as far as they were    *)
(* driven: a step size that is refused leaves both. Of the decay this is    *)
(* only so while it is not mixed: that needs an open pin, and set_decay     *)
(* leaves the pin at the level of an earlier call.                          *)
StepperAgrees ==
  /\ \A f \in Flags : chip.level[f] \in {2, 1 - driver.flag[f]}
  /\ LET mode(p, weight) == chip.level[p] \in {2, Bit(driver.size, weight)}
     IN  IF ~Is8825 /\ "mode0" \notin chip.wired
         THEN chip.level["mode1"] \in {2, driver.size - 4}
         ELSE mode("mode0", 1) /\ mode("mode1", 2) /\ mode("mode2", 4)
  /\ driver.decay # "mixed" => chip.level["decay"] = IF driver.decay = "slow" THEN 0 ELSE 1

(* The machine hears of steps that were made: the DRV8825 of each, the      *)
(* DRV8834 of a move, all of it unless the rotation was stopped meanwhile;  *)
(* and the motor made each of them unless two moves overlapped.             *)
StepperReports ==
  /\ \A i \in MoveIds :
       IF Is8825 THEN report.told[i] <= report.done[i]
       ELSE /\ report.told[i] <= 1
            /\ report.told[i] = 1 => i \in report.stopped \/ report.done[i] = report.asked[i]
  /\ ~report.overlap /\ Running = {} => chip.edges = report.made
===============================================================================

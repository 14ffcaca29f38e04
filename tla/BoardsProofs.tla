---------------------------- MODULE BoardsProofs ----------------------------
(***************************************************************************)
(* The invariants of Boards. A behaviour has one kind of board, and its    *)
(* invariant is that of the kind. Here are the motors, the configuration,  *)
(* the memory and the channel of the DMA; ChipProofs has the others.       *)
(***************************************************************************)
EXTENDS ChipProofs

-----------------------------------------------------------------------------
(* the steppers (Steppers)                                                  *)

PinStates == [S!Pins -> 0..2]
StepperChip == [type : Drivers, wired : SUBSET S!Pins, level : PinStates, edges : Nat]
FlagsOf(type) == {"enable", "sleep", "dir"} \cup (IF type = "8825" THEN {"reset"} ELSE {})
Decays == {"slow", "fast", "mixed"}
StepperDriver(type) == [flag : [FlagsOf(type) -> 0..1], size : 0..5, decay : Decays, rotate : BOOLEAN, ready : BOOLEAN]
MoveTasks == [left : Nat, at : {"none", "loop", "high", "low", "tell", "ended"}]
Tallies == [S!MoveIds -> Nat]
StepperHistory == [done : Tallies, told : Tallies, asked : Tallies, made : Int, overlap : BOOLEAN, stopped : SUBSET S!MoveIds]

StepperTypes ==
  /\ chip \in StepperChip /\ driver \in StepperDriver(chip.type)
  /\ task \in [S!MoveIds -> MoveTasks] /\ report \in StepperHistory
  /\ chip.level["step"] \in 0..1

(* What a chip and its driver agree on.                                     *)
FlagsAgree(c, d) == \A f \in FlagsOf(c.type) : c.level[f] \in {2, 1 - d.flag[f]}
ModesAgree(c, d) ==
  /\ c.type # "8825" => c.level["mode2"] = 2
  /\ IF c.type # "8825" /\ "mode0" \notin c.wired
     THEN c.level["mode1"] \in {2, d.size - 4}
     ELSE /\ c.level["mode0"] \in {2, S!Bit(d.size, 1)} /\ c.level["mode1"] \in {2, S!Bit(d.size, 2)}
          /\ c.level["mode2"] \in {2, S!Bit(d.size, 4)}

(* What a move has done, and told, where it is.                             *)
MoveControl(i) ==
  LET at == task[i].at IN
  /\ task[i].left <= MaxSteps /\ report.asked[i] <= MaxSteps /\ report.done[i] <= report.asked[i]
  /\ at = "none" => report.done[i] = 0 /\ report.told[i] = 0
  /\ at \in {"loop", "high"} => report.done[i] + task[i].left = report.asked[i]
  /\ at = "high" => task[i].left > 0
  /\ at = "low" => report.done[i] + task[i].left = report.asked[i] + 1 /\ task[i].left > 0
  /\ at = "tell" => chip.type # "8825"
  /\ at \in {"none", "ended"} \/ driver.rotate \/ i \in report.stopped
  /\ IF chip.type = "8825"
     THEN report.told[i] <= report.done[i] /\ (at = "low" => report.told[i] < report.done[i])
     ELSE /\ at # "ended" => report.told[i] = 0
          /\ at = "tell" => i \in report.stopped \/ report.done[i] = report.asked[i]
          /\ report.told[i] <= 1 /\ (report.told[i] = 1 => i \in report.stopped \/ report.done[i] = report.asked[i])

DecayAgrees(c, d) == d.decay # "mixed" => c.level["decay"] = IF d.decay = "slow" THEN 0 ELSE 1

StepperHigh == \E i \in S!MoveIds : task[i].at = "high"

(* The edges on the step pin are those of the steps that were made, and of  *)
(* the one that is being made.                                              *)
EdgeControl ==
  ~report.overlap =>
    /\ \A i, j \in S!MoveIds : i # j => task[i].at \in {"none", "ended"} \/ task[j].at \in {"none", "ended"}
    /\ chip.level["step"] = IF StepperHigh THEN 1 ELSE 0
    /\ chip.edges = report.made + chip.level["step"]

StepperControl ==
  /\ (\A i \in S!MoveIds : MoveControl(i)) /\ EdgeControl
  /\ FlagsAgree(chip, driver) /\ ModesAgree(chip, driver) /\ DecayAgrees(chip, driver)

StepperInv == StepperTypes /\ StepperControl

LEMMA StepperInit ==
  ASSUME S!StepperInit
  PROVE  StepperInv
<1>1. PICK type \in Drivers, wired \in SUBSET S!Pins :
        chip = [type |-> type, wired |-> wired, level |-> [p \in S!Pins |-> IF p = "step" THEN 0 ELSE 2], edges |-> 0]
  BY StepperAssumption DEF S!StepperInit
<1>2. driver = [flag |-> [f \in FlagsOf(type) |-> IF f = "enable" THEN 1 ELSE 0], size |-> 0, decay |-> "mixed",
                rotate |-> TRUE, ready |-> FALSE]
  BY <1>1 DEF S!StepperInit, S!Flags, S!Is8825, FlagsOf
<1>3. /\ task = [i \in S!MoveIds |-> [left |-> 0, at |-> "none"]]
      /\ report = [done |-> [i \in S!MoveIds |-> 0], told |-> [i \in S!MoveIds |-> 0], asked |-> [i \in S!MoveIds |-> 0],
                   made |-> 0, overlap |-> FALSE, stopped |-> {}]
  BY DEF S!StepperInit
<1>4. chip \in StepperChip
  BY <1>1 DEF StepperChip, PinStates
<1>5. driver \in StepperDriver(chip.type)
  BY <1>1, <1>2 DEF StepperDriver, Decays
<1>6. task \in [S!MoveIds -> MoveTasks] /\ report \in StepperHistory
  BY <1>3 DEF MoveTasks, StepperHistory, Tallies
<1>a. chip.level["step"] \in 0..1
  BY <1>1 DEF S!Pins
<1>7. \A f \in FlagsOf(chip.type) : f \in S!Pins /\ f # "step"
  BY DEF FlagsOf, S!Pins
<1>8. FlagsAgree(chip, driver)
  BY <1>1, <1>7 DEF FlagsAgree
<1>9. ModesAgree(chip, driver) /\ DecayAgrees(chip, driver)
  BY <1>1, <1>2 DEF ModesAgree, DecayAgrees, S!Pins
<1>10. \A i \in S!MoveIds : MoveControl(i)
  BY <1>3, StepperAssumption DEF MoveControl
<1>11. EdgeControl
  <2>1. ~StepperHigh
    BY <1>3 DEF StepperHigh
  <2>2. chip.level["step"] = 0
    BY <1>1 DEF S!Pins
  <2> QED BY <1>1, <1>3, <2>1, <2>2 DEF EdgeControl
<1> QED BY <1>2, <1>4, <1>5, <1>6, <1>a, <1>8, <1>9, <1>10, <1>11 DEF StepperInv, StepperTypes, StepperControl

(* A pair of a chip and a driver that agree, with the motor as it is.       *)
Good(s) ==
  /\ s = [c |-> s.c, d |-> s.d]
  /\ s.c \in StepperChip /\ s.c.type = chip.type /\ s.c.wired = chip.wired
  /\ s.c.edges = chip.edges /\ s.c.level["step"] = chip.level["step"]
  /\ s.d \in StepperDriver(chip.type) /\ s.d.rotate = driver.rotate
  /\ FlagsAgree(s.c, s.d) /\ ModesAgree(s.c, s.d) /\ DecayAgrees(s.c, s.d)

LEMMA NowIsGood ==
  ASSUME StepperInv
  PROVE  Good(S!Now)
BY DEF S!Now, Good, StepperInv, StepperTypes, StepperControl

LEMMA FlagSet ==
  ASSUME NEW s, Good(s), NEW f \in FlagsOf(chip.type), NEW v \in 0..1
  PROVE  Good(S!SetFlag(s, f, v))
<1>1. CASE f \notin s.c.wired
  BY <1>1 DEF S!SetFlag
<1>2. CASE f \in s.c.wired
  <2> DEFINE new == [c |-> [s.c EXCEPT !.level[f] = 1 - v], d |-> [s.d EXCEPT !.flag[f] = v]]
  <2>1. S!SetFlag(s, f, v) = new
    BY <1>2, Zenon DEF S!SetFlag
  <2>2. f \in S!Pins \ {"step", "mode0", "mode1", "mode2", "decay"}
    BY DEF FlagsOf, S!Pins
  <2>3. s.c \in StepperChip /\ s.c.level \in PinStates /\ s.d \in StepperDriver(chip.type)
        /\ s.d.flag \in [FlagsOf(chip.type) -> 0..1]
    BY DEF Good, StepperChip, StepperDriver
  <2>4. PICK level : level = [s.c.level EXCEPT ![f] = 1 - v]
    OBVIOUS
  <2>5. level \in PinStates /\ level[f] = 1 - v /\ \A p \in S!Pins \ {f} : level[p] = s.c.level[p]
    <3>1. 1 - v \in 0..2
      OBVIOUS
    <3> QED BY <2>2, <2>3, <2>4, <3>1 DEF PinStates
  <2>6. PICK flag : flag = [s.d.flag EXCEPT ![f] = v]
    OBVIOUS
  <2>7. flag \in [FlagsOf(chip.type) -> 0..1] /\ flag[f] = v /\ \A g \in FlagsOf(chip.type) \ {f} : flag[g] = s.d.flag[g]
    BY <2>3, <2>6
  <2>8. new.c = [s.c EXCEPT !.level = level] /\ new.d = [s.d EXCEPT !.flag = flag] /\ new = [c |-> new.c, d |-> new.d]
    BY <2>4, <2>6
  <2> HIDE DEF new
  <2>9. /\ new.c \in StepperChip /\ new.c.type = s.c.type /\ new.c.wired = s.c.wired /\ new.c.edges = s.c.edges
        /\ new.c.level = level
    BY <2>3, <2>5, <2>8 DEF StepperChip
  <2>10. /\ new.d \in StepperDriver(chip.type) /\ new.d.rotate = s.d.rotate /\ new.d.size = s.d.size /\ new.d.flag = flag
         /\ new.d.decay = s.d.decay
    BY <2>3, <2>7, <2>8 DEF StepperDriver
  <2>11. FlagsAgree(new.c, new.d)
    <3>1. s.c.type = chip.type /\ FlagsAgree(s.c, s.d)
      BY DEF Good
    <3>2. \A g \in FlagsOf(chip.type) : g \in S!Pins
      BY DEF FlagsOf, S!Pins
    <3> QED BY <2>5, <2>7, <2>9, <2>10, <3>1, <3>2 DEF FlagsAgree
  <2>12. ModesAgree(new.c, new.d) /\ DecayAgrees(new.c, new.d)
    <3>1. \A m \in {"mode0", "mode1", "mode2", "decay"} : level[m] = s.c.level[m]
      BY <2>2, <2>5 DEF S!Pins
    <3>2. ModesAgree(new.c, new.d)
      BY <2>9, <2>10, <3>1 DEF ModesAgree, Good
    <3>3. DecayAgrees(new.c, new.d)
      BY <2>9, <2>10, <3>1 DEF DecayAgrees, Good
    <3> QED BY <3>2, <3>3
  <2>13. level["step"] = s.c.level["step"]
    BY <2>2, <2>5 DEF S!Pins
  <2>14. Good(new)
    BY <2>8, <2>9, <2>10, <2>11, <2>12, <2>13 DEF Good
  <2> QED BY <2>1, <2>14
<1> QED BY <1>1, <1>2

LEMMA ModesSet ==
  ASSUME NEW s, Good(s), NEW size \in 0..5, NEW modePins \in SUBSET {"mode0", "mode1", "mode2"}, NEW modes \in [modePins -> 0..1],
         chip.type # "8825" => "mode2" \notin modePins,
         IF chip.type # "8825" /\ "mode0" \notin chip.wired
         THEN "mode1" \in modePins /\ modes["mode1"] = size - 4
         ELSE /\ "mode0" \in modePins /\ modes["mode0"] = S!Bit(size, 1)
              /\ "mode1" \in modePins /\ modes["mode1"] = S!Bit(size, 2)
              /\ chip.type = "8825" => "mode2" \in modePins /\ modes["mode2"] = S!Bit(size, 4)
  PROVE  Good(S!SetModes(s, size, modes))
<1> DEFINE level == [p \in S!Pins |-> IF p \in DOMAIN modes THEN modes[p] ELSE s.c.level[p]]
<1> DEFINE new == S!SetModes(s, size, modes)
<1>1. new.c = [s.c EXCEPT !.level = level] /\ new.d = [s.d EXCEPT !.size = size] /\ new = [c |-> new.c, d |-> new.d]
  BY DEF S!SetModes
<1>2. s.c \in StepperChip /\ s.c.level \in PinStates /\ s.d \in StepperDriver(chip.type)
      /\ s.d.flag \in [FlagsOf(chip.type) -> 0..1]
  BY DEF Good, StepperChip, StepperDriver
<1>3. \A p \in S!Pins : level[p] = IF p \in modePins THEN modes[p] ELSE s.c.level[p]
  OBVIOUS
<1>4. level \in PinStates
  <2>1. \A p \in S!Pins : s.c.level[p] \in 0..2
    BY <1>2 DEF PinStates
  <2>2. \A p \in modePins : modes[p] \in 0..2
    OBVIOUS
  <2>3. \A p \in S!Pins : level[p] \in 0..2
    BY <2>1, <2>2
  <2> QED BY <2>3 DEF PinStates
<1> HIDE DEF new, level
<1>5. /\ new.c \in StepperChip /\ new.c.type = s.c.type /\ new.c.wired = s.c.wired /\ new.c.edges = s.c.edges
      /\ new.c.level = level
  BY <1>1, <1>2, <1>4 DEF StepperChip
<1>6. /\ new.d \in StepperDriver(chip.type) /\ new.d.rotate = s.d.rotate /\ new.d.size = size /\ new.d.flag = s.d.flag
      /\ new.d.decay = s.d.decay
  BY <1>1, <1>2 DEF StepperDriver
<1>7. FlagsAgree(new.c, new.d)
  <2>1. s.c.type = chip.type /\ FlagsAgree(s.c, s.d)
    BY DEF Good
  <2>2. \A g \in FlagsOf(chip.type) : g \in S!Pins /\ g \notin modePins
    BY DEF FlagsOf, S!Pins
  <2> QED BY <1>3, <1>5, <1>6, <2>1, <2>2 DEF FlagsAgree
<1>8. ModesAgree(new.c, new.d)
  <2>1. s.c.type = chip.type /\ s.c.wired = chip.wired /\ (chip.type # "8825" => s.c.level["mode2"] = 2)
    BY DEF Good, ModesAgree
  <2>2. "mode0" \in S!Pins /\ "mode1" \in S!Pins /\ "mode2" \in S!Pins
    BY DEF S!Pins
  <2> QED BY <1>3, <1>5, <1>6, <2>1, <2>2 DEF ModesAgree
<1>9. level["step"] = s.c.level["step"] /\ level["decay"] = s.c.level["decay"]
  BY <1>3 DEF S!Pins
<1>11. DecayAgrees(new.c, new.d)
  BY <1>5, <1>6, <1>9 DEF Good, DecayAgrees
<1>10. Good(new)
  BY <1>1, <1>5, <1>6, <1>7, <1>8, <1>9, <1>11 DEF Good
<1> QED BY <1>10 DEF new

LEMMA BitIn ==
  ASSUME NEW n \in 0..5, NEW weight \in {1, 2, 4}
  PROVE  S!Bit(n, weight) \in 0..1
<1>1. n \div weight \in Int
  OBVIOUS
<1>2. \A m \in Int : m % 2 \in 0..1
  OBVIOUS
<1> QED BY <1>1, <1>2 DEF S!Bit

LEMMA StepSizeSet ==
  ASSUME NEW s, Good(s), NEW size \in 0..5
  PROVE  Good(S!SetStepSize(s, size))
<1>0. s.c.wired = chip.wired /\ chip.type = s.c.type
  BY DEF Good
<1>1. S!Bit(size, 1) \in 0..1 /\ S!Bit(size, 2) \in 0..1 /\ S!Bit(size, 4) \in 0..1
  BY BitIn
<1>2. CASE S!Is8825
  <2> DEFINE modes == [mode0 |-> S!Bit(size, 1), mode1 |-> S!Bit(size, 2), mode2 |-> S!Bit(size, 4)]
  <2>1. modes \in [{"mode0", "mode1", "mode2"} -> 0..1] /\ modes["mode0"] = S!Bit(size, 1)
        /\ modes["mode1"] = S!Bit(size, 2) /\ modes["mode2"] = S!Bit(size, 4)
    BY <1>1
  <2>2. S!SetStepSize(s, size) = s \/ S!SetStepSize(s, size) = S!SetModes(s, size, modes)
    BY <1>2 DEF S!SetStepSize, S!SetStepSize8825
  <2> HIDE DEF modes
  <2>3. Good(S!SetModes(s, size, modes))
    BY <1>2, <2>1, ModesSet DEF S!Is8825
  <2> QED BY <2>2, <2>3
<1>3. CASE ~S!Is8825 /\ "mode0" \notin s.c.wired
  <2> DEFINE modes == [mode1 |-> size - 4]
  <2>1. S!SetStepSize(s, size) = s \/ (size \in {4, 5} /\ S!SetStepSize(s, size) = S!SetModes(s, size, modes))
    BY <1>3 DEF S!SetStepSize, S!SetStepSize8834
  <2>2. ASSUME size \in {4, 5} PROVE Good(S!SetModes(s, size, modes))
    <3>1. modes \in [{"mode1"} -> 0..1] /\ modes["mode1"] = size - 4
      BY <2>2
    <3> HIDE DEF modes
    <3> QED BY <1>0, <1>3, <3>1, ModesSet DEF S!Is8825
  <2> QED BY <2>1, <2>2
<1>4. CASE ~S!Is8825 /\ "mode0" \in s.c.wired
  <2> DEFINE modes == [mode0 |-> S!Bit(size, 1), mode1 |-> S!Bit(size, 2)]
  <2>1. S!SetStepSize(s, size) = s \/ S!SetStepSize(s, size) = S!SetModes(s, size, modes)
    BY <1>4 DEF S!SetStepSize, S!SetStepSize8834
  <2>2. modes \in [{"mode0", "mode1"} -> 0..1] /\ modes["mode0"] = S!Bit(size, 1) /\ modes["mode1"] = S!Bit(size, 2)
    BY <1>1
  <2> HIDE DEF modes
  <2>3. Good(S!SetModes(s, size, modes))
    BY <1>0, <1>4, <2>2, ModesSet DEF S!Is8825
  <2> QED BY <2>1, <2>3
<1> QED BY <1>2, <1>3, <1>4

LEMMA DecaySet ==
  ASSUME NEW s, Good(s), NEW decay \in Decays
  PROVE  Good(S!SetDecay(s, decay))
<1>1. s.c \in StepperChip /\ s.c.level \in PinStates /\ s.d \in StepperDriver(chip.type)
      /\ s.d.flag \in [FlagsOf(chip.type) -> 0..1]
  BY DEF Good, StepperChip, StepperDriver
<1>2. PICK v \in 0..1 : v = IF decay = "slow" THEN 0 ELSE 1
  OBVIOUS
<1>3. PICK level : level = [s.c.level EXCEPT !["decay"] = v]
  OBVIOUS
<1>4. PICK c : c = [s.c EXCEPT !.level = level]
  OBVIOUS
<1> DEFINE new == S!SetDecay(s, decay)
<1>5. /\ new = [c |-> new.c, d |-> new.d] /\ new.c \in {s.c, c}
      /\ new.d.decay = "mixed" \/ (new.c = c /\ new.d.decay = decay)
      /\ \E kept \in {"mixed", decay} : new.d = [s.d EXCEPT !.decay = kept]
  <2>0. s = [c |-> s.c, d |-> s.d]
    BY DEF Good
  <2>1. CASE decay = "mixed" \/ "decay" \notin s.c.wired
    <3>1. new = [s EXCEPT !.d.decay = "mixed"]
      BY <2>1, Zenon DEF S!SetDecay
    <3>2. PICK d : d = [s.d EXCEPT !.decay = "mixed"]
      OBVIOUS
    <3>3. new = [s EXCEPT !.d = d]
      BY <3>1, <3>2
    <3>4. new = [c |-> s.c, d |-> d]
      BY <2>0, <3>3
    <3>5. d.decay = "mixed"
      BY <1>1, <3>2 DEF StepperDriver
    <3>6. new.c = s.c /\ new.d = d /\ new = [c |-> new.c, d |-> new.d]
      BY <3>4
    <3>7. new.d = [s.d EXCEPT !.decay = "mixed"] /\ new.d.decay = "mixed"
      BY <3>2, <3>5, <3>6
    <3> QED BY ONLY <3>6, <3>7
  <2>2. CASE ~(decay = "mixed" \/ "decay" \notin s.c.wired)
    <3>1. new = [c |-> [s.c EXCEPT !.level["decay"] = v], d |-> [s.d EXCEPT !.decay = decay]]
      BY <1>2, <2>2 DEF S!SetDecay
    <3>2. [s.c EXCEPT !.level["decay"] = v] = c
      BY <1>3, <1>4
    <3>3. new.d.decay = decay
      BY <1>1, <3>1 DEF StepperDriver
    <3> QED BY <3>1, <3>2, <3>3
  <2> QED BY <2>1, <2>2
<1> HIDE DEF new
<1>6. level \in PinStates /\ \A p \in S!Pins \ {"decay"} : level[p] = s.c.level[p]
  <2>1. v \in 0..2
    BY <1>2
  <2> QED BY <1>1, <1>3, <2>1 DEF PinStates
<1>7. c \in StepperChip /\ c.type = s.c.type /\ c.wired = s.c.wired /\ c.edges = s.c.edges /\ c.level = level
  BY <1>1, <1>4, <1>6 DEF StepperChip
<1>8. /\ new.c \in StepperChip /\ new.c.type = s.c.type /\ new.c.wired = s.c.wired /\ new.c.edges = s.c.edges
      /\ \A p \in S!Pins \ {"decay"} : new.c.level[p] = s.c.level[p]
  BY <1>1, <1>5, <1>6, <1>7
<1>9. /\ new.d \in StepperDriver(chip.type) /\ new.d.rotate = s.d.rotate /\ new.d.size = s.d.size /\ new.d.flag = s.d.flag
  <2>1. PICK kept \in {"mixed", decay} : new.d = [s.d EXCEPT !.decay = kept]
    BY <1>5
  <2>2. kept \in Decays
    BY <2>1 DEF Decays
  <2> QED BY <1>1, <2>1, <2>2 DEF StepperDriver
<1>10. "step" \in S!Pins \ {"decay"} /\ {"mode0", "mode1", "mode2"} \subseteq S!Pins \ {"decay"}
       /\ FlagsOf(s.c.type) \subseteq S!Pins \ {"decay"}
  BY DEF S!Pins, FlagsOf
<1>11. FlagsAgree(new.c, new.d) /\ ModesAgree(new.c, new.d)
  <2>1. FlagsAgree(s.c, s.d) /\ ModesAgree(s.c, s.d) /\ DecayAgrees(s.c, s.d)
    BY DEF Good
  <2> QED BY <1>8, <1>9, <1>10, <2>1 DEF FlagsAgree, ModesAgree
<1>13. DecayAgrees(new.c, new.d)
  <2>1. level["decay"] = v
    BY <1>1, <1>3 DEF PinStates, S!Pins
  <2> QED BY <1>2, <1>5, <1>7, <2>1 DEF DecayAgrees
<1>12. Good(new)
  BY <1>5, <1>8, <1>9, <1>10, <1>11, <1>13 DEF Good
<1> QED BY <1>12 DEF new

LEMMA Become ==
  ASSUME StepperInv, NEW s, Good(s), S!Become(s)
  PROVE  StepperInv'
<1>1. chip' = s.c /\ driver' = s.d /\ UNCHANGED <<task, report>>
  BY DEF S!Become
<1>2. StepperTypes'
  BY <1>1 DEF Good, StepperInv, StepperTypes
<1>3. FlagsAgree(chip', driver') /\ ModesAgree(chip', driver') /\ DecayAgrees(chip', driver')
  BY <1>1 DEF Good
<1>4. chip'.type = chip.type /\ chip'.edges = chip.edges /\ chip'.level["step"] = chip.level["step"]
      /\ driver'.rotate = driver.rotate
  BY <1>1 DEF Good
<1>5. EdgeControl'
  BY <1>1, <1>4 DEF StepperInv, StepperControl, EdgeControl, StepperHigh
<1>6. \A i \in S!MoveIds : MoveControl(i)'
  BY <1>1, <1>4 DEF StepperInv, StepperControl, MoveControl
<1>7. (\A i \in S!MoveIds : MoveControl(i))' /\ FlagsAgree(chip, driver)' /\ ModesAgree(chip, driver)' /\ DecayAgrees(chip, driver)'
  BY <1>3, <1>6 DEF S!MoveIds
<1> QED BY <1>1, <1>2, <1>4, <1>5, <1>7 DEF StepperInv, StepperControl

LEMMA StepperInitialized ==
  ASSUME StepperInv, S!Initialize
  PROVE  StepperInv'
<1> DEFINE dir == S!SetFlag(S!Now, "dir", driver.flag["dir"])
           size == S!SetStepSize(dir, driver.size)
           more == IF S!Is8825 THEN S!SetFlag(S!SetDecay(size, driver.decay), "reset", driver.flag["reset"]) ELSE size
           awake == S!SetFlag(more, "sleep", driver.flag["sleep"])
           enabled == S!SetFlag(awake, "enable", driver.flag["enable"])
           ready == [enabled EXCEPT !.d.ready = TRUE]
<1>1. driver.size \in 0..5 /\ driver.decay \in Decays /\ driver.flag \in [FlagsOf(chip.type) -> 0..1]
  BY DEF StepperInv, StepperTypes, StepperDriver
<1>2. \A f \in FlagsOf(chip.type) : driver.flag[f] \in 0..1
  BY <1>1
<1>3. "dir" \in FlagsOf(chip.type) /\ "sleep" \in FlagsOf(chip.type) /\ "enable" \in FlagsOf(chip.type)
      /\ (S!Is8825 => "reset" \in FlagsOf(chip.type))
  BY DEF FlagsOf, S!Is8825
<1>4. Good(dir)
  BY <1>2, <1>3, NowIsGood, FlagSet
<1> HIDE DEF dir
<1>5. Good(size)
  BY <1>1, <1>4, StepSizeSet
<1> HIDE DEF size
<1>6. Good(more)
  <2>1. ASSUME S!Is8825 PROVE Good(S!SetFlag(S!SetDecay(size, driver.decay), "reset", driver.flag["reset"]))
    <3>1. Good(S!SetDecay(size, driver.decay))
      BY <1>1, <1>5, DecaySet
    <3> QED BY <1>2, <1>3, <2>1, <3>1, FlagSet
  <2> QED BY <1>5, <2>1
<1> HIDE DEF more
<1>7. Good(awake)
  BY <1>2, <1>3, <1>6, FlagSet
<1> HIDE DEF awake
<1>8. Good(enabled)
  BY <1>2, <1>3, <1>7, FlagSet
<1>9. S!Become(ready)
  BY Zenon DEF S!Initialize, dir, size, more, awake
<1> HIDE DEF enabled
<1>10. Good(ready)
  <2>1. enabled = [c |-> enabled.c, d |-> enabled.d] /\ enabled.d \in StepperDriver(chip.type)
    BY <1>8 DEF Good
  <2>2. PICK d : d = [enabled.d EXCEPT !.ready = TRUE]
    OBVIOUS
  <2>3. ready = [enabled EXCEPT !.d = d]
    BY <2>2
  <2>4. ready = [c |-> enabled.c, d |-> d]
    BY <2>1, <2>3
  <2>5. d \in StepperDriver(chip.type) /\ d.rotate = enabled.d.rotate /\ d.flag = enabled.d.flag /\ d.size = enabled.d.size
        /\ d.decay = enabled.d.decay
    BY <2>1, <2>2 DEF StepperDriver
  <2> HIDE DEF ready
  <2>6. ready.c = enabled.c /\ ready.d = d /\ ready = [c |-> ready.c, d |-> ready.d]
    BY <2>4
  <2> QED BY <1>8, <2>5, <2>6 DEF Good, FlagsAgree, ModesAgree, DecayAgrees
<1> QED BY <1>9, <1>10, Become

LEMMA StepperSet ==
  ASSUME StepperInv, S!Set
  PROVE  StepperInv'
<1>1. driver.flag \in [FlagsOf(chip.type) -> 0..1] /\ chip.type \in Drivers /\ S!Flags = FlagsOf(chip.type)
  BY DEF StepperInv, StepperTypes, StepperDriver, StepperChip, S!Flags, S!Is8825, FlagsOf
<1>2. Good(S!Now)
  BY NowIsGood
<1>3. ASSUME NEW f \in S!Flags, S!Become(S!SetFlag(S!Now, f, 1 - driver.flag[f])) PROVE StepperInv'
  <2>1. 1 - driver.flag[f] \in 0..1 /\ f \in FlagsOf(chip.type)
    BY <1>1
  <2>2. Good(S!SetFlag(S!Now, f, 1 - driver.flag[f]))
    BY <1>2, <2>1, FlagSet
  <2> QED BY <1>3, <2>2, Become
<1>4. ASSUME NEW size \in Sizes[chip.type], S!Become(S!SetStepSize(S!Now, size)) PROVE StepperInv'
  <2>1. size \in 0..5
    BY <1>1, StepperAssumption
  <2>2. Good(S!SetStepSize(S!Now, size))
    BY <1>2, <2>1, StepSizeSet
  <2> QED BY <1>4, <2>2, Become
<1>5. ASSUME NEW decay \in Decays, S!Become(S!SetDecay(S!Now, decay)) PROVE StepperInv'
  <2>1. Good(S!SetDecay(S!Now, decay))
    BY <1>2, DecaySet
  <2> QED BY <1>5, <2>1, Become
<1> QED BY <1>3, <1>4, <1>5 DEF S!Set, Decays

LEMMA Turning ==
  ASSUME StepperInv, NEW b \in BOOLEAN, S!SetRotation(b)
  PROVE  StepperInv'
<1>1. /\ driver' = [driver EXCEPT !.rotate = b] /\ UNCHANGED <<chip, task>>
      /\ report' = [report EXCEPT !.stopped = IF b THEN @ ELSE @ \cup S!Running]
  BY DEF S!SetRotation
<1>2. PICK x \in SUBSET S!MoveIds : x = IF b THEN report.stopped ELSE report.stopped \cup S!Running
  BY DEF StepperInv, StepperTypes, StepperHistory, S!Running
<1>4. report' = [report EXCEPT !.stopped = x]
  BY <1>1, <1>2
<1>5. report' \in StepperHistory /\ report'.stopped = x /\ report'.done = report.done /\ report'.told = report.told
      /\ report'.asked = report.asked /\ report'.made = report.made /\ report'.overlap = report.overlap
  BY <1>4 DEF StepperInv, StepperTypes, StepperHistory
<1>6. driver' \in StepperDriver(chip.type) /\ driver'.rotate = b /\ driver'.flag = driver.flag /\ driver'.size = driver.size
      /\ driver'.decay = driver.decay
  BY <1>1 DEF StepperInv, StepperTypes, StepperDriver
<1>7. StepperTypes'
  BY <1>1, <1>5, <1>6 DEF StepperInv, StepperTypes
<1>8. EdgeControl' /\ FlagsAgree(chip, driver)' /\ ModesAgree(chip, driver)' /\ DecayAgrees(chip, driver)'
  BY <1>1, <1>5, <1>6 DEF StepperInv, StepperControl, EdgeControl, StepperHigh, FlagsAgree, ModesAgree, DecayAgrees
<1>9. ASSUME NEW i \in S!MoveIds PROVE MoveControl(i)'
  <2>1. MoveControl(i)
    BY DEF StepperInv, StepperControl
  <2>2. i \in report.stopped => i \in x
    BY <1>2
  <2>3. ~b /\ task[i].at \notin {"none", "ended"} => i \in x
    BY <1>2 DEF S!Running
  <2> QED BY <1>1, <1>5, <1>6, <2>1, <2>2, <2>3 DEF MoveControl
<1>10. (\A i \in S!MoveIds : MoveControl(i))'
  BY <1>9 DEF S!MoveIds
<1> QED BY <1>2, <1>5, <1>6, <1>7, <1>8, <1>10 DEF StepperInv, StepperControl

(* A step of a thread leaves the setters' part, and the other moves.        *)
LEMMA OtherMoves ==
  ASSUME StepperInv, NEW i \in S!MoveIds,
         chip'.type = chip.type, UNCHANGED driver,
         \A j \in S!MoveIds \ {i} : /\ j \in report'.stopped <=> j \in report.stopped
                                    /\ task'[j] = task[j] /\ report'.done[j] = report.done[j]
                                    /\ report'.told[j] = report.told[j] /\ report'.asked[j] = report.asked[j],
         MoveControl(i)'
  PROVE  (\A j \in S!MoveIds : MoveControl(j))'
<1>1. ASSUME NEW j \in S!MoveIds \ {i} PROVE MoveControl(j)'
  BY <1>1 DEF StepperInv, StepperControl, MoveControl
<1> QED BY <1>1 DEF S!MoveIds

LEMMA SettingsStay ==
  ASSUME StepperInv, chip'.type = chip.type, chip'.wired = chip.wired, UNCHANGED driver,
         \A p \in S!Pins \ {"step"} : chip'.level[p] = chip.level[p]
  PROVE  FlagsAgree(chip, driver)' /\ ModesAgree(chip, driver)' /\ DecayAgrees(chip, driver)'
<1>1. \A f \in FlagsOf(chip.type) : f \in S!Pins \ {"step"}
  BY DEF FlagsOf, S!Pins
<1>2. {"mode0", "mode1", "mode2", "decay"} \subseteq S!Pins \ {"step"}
  BY DEF S!Pins
<1> QED BY <1>1, <1>2 DEF StepperInv, StepperControl, FlagsAgree, ModesAgree, DecayAgrees

LEMMA TaskFields ==
  ASSUME StepperInv, NEW i \in S!MoveIds, NEW new \in MoveTasks, task' = [task EXCEPT ![i] = new]
  PROVE  task' \in [S!MoveIds -> MoveTasks] /\ task'[i] = new /\ \A j \in S!MoveIds \ {i} : task'[j] = task[j]
BY DEF StepperInv, StepperTypes

LEMMA StepperFields ==
  ASSUME StepperInv, NEW i \in S!MoveIds, NEW at \in {"none", "loop", "high", "low", "tell", "ended"}, S!Goto(i, at)
  PROVE  /\ task' \in [S!MoveIds -> MoveTasks] /\ task'[i].at = at /\ task'[i].left = task[i].left
         /\ \A j \in S!MoveIds \ {i} : task'[j] = task[j]
<1>1. task[i] \in MoveTasks
  BY DEF StepperInv, StepperTypes
<1>2. PICK new : new = [task[i] EXCEPT !.at = at]
  OBVIOUS
<1>3. new \in MoveTasks /\ new.at = at /\ new.left = task[i].left
  BY <1>1, <1>2 DEF MoveTasks
<1>4. task' = [task EXCEPT ![i] = new]
  BY <1>2 DEF S!Goto
<1> QED BY <1>3, <1>4, TaskFields

LEMMA TallyFields ==
  ASSUME NEW tally \in Tallies, NEW i \in S!MoveIds, NEW n \in Nat, NEW new, new = [tally EXCEPT ![i] = n]
  PROVE  new \in Tallies /\ new[i] = n /\ \A j \in S!MoveIds \ {i} : new[j] = tally[j]
BY DEF Tallies

LEMMA MoveTypes ==
  ASSUME StepperInv, NEW i \in S!MoveIds
  PROVE  /\ task[i] \in MoveTasks /\ task[i].left \in Nat
         /\ report.done \in Tallies /\ report.told \in Tallies /\ report.asked \in Tallies
         /\ report.done[i] \in Nat /\ report.told[i] \in Nat /\ report.asked[i] \in Nat
         /\ report.made \in Int /\ report.overlap \in BOOLEAN /\ chip \in StepperChip /\ chip.level \in PinStates
         /\ chip.edges \in Nat /\ chip.level["step"] \in 0..1 /\ MaxSteps \in Nat \ {0}
<1>1. report \in StepperHistory /\ task \in [S!MoveIds -> MoveTasks] /\ chip \in StepperChip /\ chip.level["step"] \in 0..1
  BY DEF StepperInv, StepperTypes
<1>2. report.done \in Tallies /\ report.told \in Tallies /\ report.asked \in Tallies /\ report.made \in Int
      /\ report.overlap \in BOOLEAN
  BY <1>1 DEF StepperHistory
<1>3. task[i] \in MoveTasks
  BY <1>1
<1> QED BY <1>1, <1>2, <1>3, StepperAssumption DEF Tallies, MoveTasks, StepperChip

LEMMA StepperStarted ==
  ASSUME StepperInv, NEW i \in S!MoveIds, NEW n \in Moves, S!Step(i, n)
  PROVE  StepperInv'
<1>1. PICK steps \in Nat : steps = (IF n > MaxSteps THEN MaxSteps ELSE n) /\ steps <= MaxSteps
  BY StepperAssumption
<1>2. /\ task[i].at = "none" /\ task' = [task EXCEPT ![i] = [left |-> steps, at |-> "loop"]]
      /\ report' = [report EXCEPT !.asked[i] = steps, !.overlap = @ \/ S!Running # {},
                                  !.stopped = IF driver.rotate THEN @ ELSE @ \cup {i}]
      /\ UNCHANGED <<chip, driver>>
  BY <1>1 DEF S!Step
<1>3. PICK new \in MoveTasks : new = [left |-> steps, at |-> "loop"]
  BY DEF MoveTasks
<1>4. task' \in [S!MoveIds -> MoveTasks] /\ task'[i].left = steps /\ task'[i].at = "loop"
      /\ \A j \in S!MoveIds \ {i} : task'[j] = task[j]
  BY <1>2, <1>3, TaskFields
<1>5. PICK asked : asked = [report.asked EXCEPT ![i] = steps]
  OBVIOUS
<1>6. PICK x \in BOOLEAN : x <=> report.overlap \/ S!Running # {}
  OBVIOUS
<1>7. x = (report.overlap \/ S!Running # {})
  BY <1>6, MoveTypes
<1>a. PICK stopped \in SUBSET S!MoveIds : stopped = IF driver.rotate THEN report.stopped ELSE report.stopped \cup {i}
  BY DEF StepperInv, StepperTypes, StepperHistory
<1>8. report' = [report EXCEPT !.asked = asked, !.overlap = x, !.stopped = stopped]
  BY <1>2, <1>5, <1>7, <1>a
<1>9. asked \in Tallies /\ asked[i] = steps /\ \A j \in S!MoveIds \ {i} : asked[j] = report.asked[j]
  BY <1>5, MoveTypes, TallyFields
<1>10. report' \in StepperHistory /\ report'.asked = asked /\ report'.overlap = x /\ report'.done = report.done
       /\ report'.told = report.told /\ report'.made = report.made /\ report'.stopped = stopped
  BY <1>8, <1>9 DEF StepperInv, StepperTypes, StepperHistory
<1>11. StepperTypes'
  BY <1>2, <1>4, <1>10 DEF StepperInv, StepperTypes
<1>12. MoveControl(i)'
  <2>1. MoveControl(i)
    BY DEF StepperInv, StepperControl
  <2>2. report.done[i] = 0 /\ report.told[i] = 0
    BY <1>2, <2>1 DEF MoveControl
  <2>3. report'.done[i] = 0 /\ report'.told[i] = 0 /\ report'.asked[i] = steps /\ chip'.type = chip.type
    BY <1>2, <1>9, <1>10, <2>2
  <2>4. driver'.rotate \/ i \in report'.stopped
    BY <1>2, <1>10, <1>a
  <2> QED BY <1>1, <1>4, <2>3, <2>4 DEF MoveControl
<1>b. \A j \in S!MoveIds \ {i} : j \in stopped <=> j \in report.stopped
  BY <1>a
<1>13. (\A j \in S!MoveIds : MoveControl(j))'
  BY <1>2, <1>4, <1>9, <1>10, <1>b, <1>12, OtherMoves
<1>14. EdgeControl'
  <2> SUFFICES ASSUME ~report'.overlap
               PROVE  /\ \A j, k \in S!MoveIds : j # k => task'[j].at \in {"none", "ended"} \/ task'[k].at \in {"none", "ended"}
                      /\ chip'.level["step"] = IF StepperHigh' THEN 1 ELSE 0
                      /\ chip'.edges = report'.made + chip'.level["step"]
    BY DEF EdgeControl, S!MoveIds
  <2>1. ~report.overlap /\ S!Running = {}
    BY <1>6, <1>10
  <2>2. \A j \in S!MoveIds : task[j].at \in {"none", "ended"}
    BY <2>1 DEF S!Running
  <2>3. ~StepperHigh /\ ~StepperHigh'
    BY <1>4, <2>2 DEF StepperHigh, S!MoveIds
  <2>4. chip.level["step"] = 0 /\ chip.edges = report.made + chip.level["step"]
    BY <2>1, <2>3 DEF StepperInv, StepperControl, EdgeControl
  <2> QED BY <1>2, <1>4, <1>10, <2>2, <2>3, <2>4
<1>15. FlagsAgree(chip, driver)' /\ ModesAgree(chip, driver)' /\ DecayAgrees(chip, driver)'
  BY <1>2, SettingsStay
<1> QED BY <1>2, <1>10, <1>11, <1>13, <1>14, <1>15 DEF StepperInv, StepperControl

(* What a step of a thread does not touch.                                  *)
LEMMA StepperKept ==
  ASSUME StepperInv, NEW i \in S!MoveIds, UNCHANGED driver,
         chip' \in StepperChip, chip'.type = chip.type, chip'.wired = chip.wired, chip'.level["step"] \in 0..1,
         \A p \in S!Pins \ {"step"} : chip'.level[p] = chip.level[p],
         report' \in StepperHistory, report'.stopped = report.stopped, report'.asked = report.asked,
         task' \in [S!MoveIds -> MoveTasks],
         \A j \in S!MoveIds \ {i} : /\ task'[j] = task[j] /\ report'.done[j] = report.done[j]
                                    /\ report'.told[j] = report.told[j],
         MoveControl(i)', EdgeControl'
  PROVE  StepperInv'
<1>1. StepperTypes'
  BY DEF StepperInv, StepperTypes
<1>2. (\A j \in S!MoveIds : MoveControl(j))'
  BY OtherMoves
<1>3. FlagsAgree(chip, driver)' /\ ModesAgree(chip, driver)' /\ DecayAgrees(chip, driver)'
  BY SettingsStay
<1> QED BY <1>1, <1>2, <1>3 DEF StepperInv, StepperControl

(* A thread that makes no edge, and is not within a step before or after.   *)
LEMMA EdgesStay ==
  ASSUME StepperInv, NEW i \in S!MoveIds, UNCHANGED chip,
         report'.made = report.made, report'.overlap = report.overlap,
         \A j \in S!MoveIds \ {i} : task'[j] = task[j],
         task[i].at \notin {"none", "ended", "high"}, task'[i].at # "high"
  PROVE  EdgeControl'
<1>1. StepperHigh' <=> StepperHigh
  BY DEF StepperHigh, S!MoveIds
<1> SUFFICES ASSUME ~report'.overlap
             PROVE  /\ \A j, k \in S!MoveIds : j # k => task'[j].at \in {"none", "ended"} \/ task'[k].at \in {"none", "ended"}
                    /\ chip'.level["step"] = IF StepperHigh' THEN 1 ELSE 0
                    /\ chip'.edges = report'.made + chip'.level["step"]
  BY DEF EdgeControl, S!MoveIds
<1>2. /\ \A j, k \in S!MoveIds : j # k => task[j].at \in {"none", "ended"} \/ task[k].at \in {"none", "ended"}
      /\ chip.level["step"] = IF StepperHigh THEN 1 ELSE 0
      /\ chip.edges = report.made + chip.level["step"]
  BY DEF StepperInv, StepperControl, EdgeControl
<1>3. \A j \in S!MoveIds \ {i} : task[j].at \in {"none", "ended"}
  BY <1>2
<1> QED BY <1>1, <1>2, <1>3

LEMMA Rising ==
  ASSUME StepperInv, NEW i \in S!MoveIds, S!Rise(i)
  PROVE  StepperInv'
<1> USE MoveTypes
<1>1. /\ task[i].at = "loop" /\ task[i].left > 0 /\ UNCHANGED <<driver, report>> /\ S!Goto(i, "high")
      /\ chip' = [chip EXCEPT !.level["step"] = 1, !.edges = @ + 1 - chip.level["step"]]
  BY DEF S!Rise
<1>2. PICK level : level = [chip.level EXCEPT !["step"] = 1]
  OBVIOUS
<1>3. PICK edges \in Nat : edges = chip.edges + 1 - chip.level["step"]
  OBVIOUS
<1>4. chip' = [chip EXCEPT !.level = level, !.edges = edges]
  BY <1>1, <1>2, <1>3
<1>5. level \in PinStates /\ level["step"] = 1 /\ \A p \in S!Pins \ {"step"} : level[p] = chip.level[p]
  BY <1>2 DEF PinStates, S!Pins
<1>6. chip' \in StepperChip /\ chip'.type = chip.type /\ chip'.wired = chip.wired /\ chip'.level = level /\ chip'.edges = edges
  BY <1>4, <1>5 DEF StepperChip
<1>7. /\ task' \in [S!MoveIds -> MoveTasks] /\ task'[i].at = "high" /\ task'[i].left = task[i].left
      /\ \A j \in S!MoveIds \ {i} : task'[j] = task[j]
  BY <1>1, StepperFields
<1>8. MoveControl(i)'
  <2>1. MoveControl(i)
    BY DEF StepperInv, StepperControl
  <2> QED BY <1>1, <1>6, <1>7, <2>1 DEF MoveControl
<1>9. EdgeControl'
  <2> SUFFICES ASSUME ~report'.overlap
               PROVE  /\ \A j, k \in S!MoveIds : j # k => task'[j].at \in {"none", "ended"} \/ task'[k].at \in {"none", "ended"}
                      /\ chip'.level["step"] = IF StepperHigh' THEN 1 ELSE 0
                      /\ chip'.edges = report'.made + chip'.level["step"]
    BY DEF EdgeControl, S!MoveIds
  <2>1. /\ \A j, k \in S!MoveIds : j # k => task[j].at \in {"none", "ended"} \/ task[k].at \in {"none", "ended"}
        /\ chip.level["step"] = IF StepperHigh THEN 1 ELSE 0
        /\ chip.edges = report.made + chip.level["step"]
    BY <1>1 DEF StepperInv, StepperControl, EdgeControl
  <2>2. \A j \in S!MoveIds \ {i} : task[j].at \in {"none", "ended"}
    BY <1>1, <2>1
  <2>3. ~StepperHigh
    BY <1>1, <2>2 DEF StepperHigh
  <2>4. StepperHigh'
    BY <1>7 DEF StepperHigh, S!MoveIds
  <2>5. \A j, k \in S!MoveIds : j # k => task'[j].at \in {"none", "ended"} \/ task'[k].at \in {"none", "ended"}
    BY <1>7, <2>2
  <2>6. chip.level["step"] = 0 /\ edges = chip.edges + 1 /\ report'.made = report.made /\ chip.edges = report.made
    BY <1>1, <1>3, <2>1, <2>3
  <2> QED BY <1>5, <1>6, <2>4, <2>5, <2>6
<1>10. report' \in StepperHistory /\ UNCHANGED report
  BY <1>1 DEF StepperInv, StepperTypes
<1> QED BY <1>1, <1>5, <1>6, <1>7, <1>8, <1>9, <1>10, StepperKept

LEMMA Falling ==
  ASSUME StepperInv, NEW i \in S!MoveIds, S!Fall(i)
  PROVE  StepperInv'
<1> USE MoveTypes
<1>1. /\ task[i].at = "high" /\ UNCHANGED driver /\ S!Goto(i, "low")
      /\ chip' = [chip EXCEPT !.level["step"] = 0]
      /\ report' = [report EXCEPT !.done[i] = @ + 1, !.made = @ + 1]
  BY DEF S!Fall
<1>2. PICK level : level = [chip.level EXCEPT !["step"] = 0]
  OBVIOUS
<1>3. PICK n \in Nat : n = report.done[i] + 1
  OBVIOUS
<1>4. PICK done : done = [report.done EXCEPT ![i] = n]
  OBVIOUS
<1>5. PICK made \in Int : made = report.made + 1
  OBVIOUS
<1>6. chip' = [chip EXCEPT !.level = level] /\ report' = [report EXCEPT !.done = done, !.made = made]
  BY <1>1, <1>2, <1>3, <1>4, <1>5
<1>7. level \in PinStates /\ level["step"] = 0 /\ \A p \in S!Pins \ {"step"} : level[p] = chip.level[p]
  BY <1>2 DEF PinStates, S!Pins
<1>8. chip' \in StepperChip /\ chip'.type = chip.type /\ chip'.wired = chip.wired /\ chip'.level = level
      /\ chip'.edges = chip.edges
  BY <1>6, <1>7 DEF StepperChip
<1>9. done \in Tallies /\ done[i] = n /\ \A j \in S!MoveIds \ {i} : done[j] = report.done[j]
  BY <1>4, TallyFields
<1>10. /\ report' \in StepperHistory /\ report'.done = done /\ report'.made = made /\ report'.told = report.told
       /\ report'.asked = report.asked /\ report'.overlap = report.overlap /\ report'.stopped = report.stopped
  BY <1>6, <1>9 DEF StepperInv, StepperTypes, StepperHistory
<1>11. /\ task' \in [S!MoveIds -> MoveTasks] /\ task'[i].at = "low" /\ task'[i].left = task[i].left
       /\ \A j \in S!MoveIds \ {i} : task'[j] = task[j]
  BY <1>1, StepperFields
<1>12. MoveControl(i)'
  <2>1. MoveControl(i)
    BY DEF StepperInv, StepperControl
  <2>2. report'.done[i] = report.done[i] + 1 /\ report'.told[i] = report.told[i] /\ report'.asked[i] = report.asked[i]
    BY <1>3, <1>9, <1>10
  <2>3. report'.stopped = report.stopped /\ chip'.type = chip.type
    BY <1>8, <1>10
  <2> QED BY <1>1, <1>11, <2>1, <2>2, <2>3 DEF MoveControl
<1>13. EdgeControl'
  <2> SUFFICES ASSUME ~report'.overlap
               PROVE  /\ \A j, k \in S!MoveIds : j # k => task'[j].at \in {"none", "ended"} \/ task'[k].at \in {"none", "ended"}
                      /\ chip'.level["step"] = IF StepperHigh' THEN 1 ELSE 0
                      /\ chip'.edges = report'.made + chip'.level["step"]
    BY DEF EdgeControl, S!MoveIds
  <2>1. /\ \A j, k \in S!MoveIds : j # k => task[j].at \in {"none", "ended"} \/ task[k].at \in {"none", "ended"}
        /\ chip.level["step"] = IF StepperHigh THEN 1 ELSE 0
        /\ chip.edges = report.made + chip.level["step"]
    BY <1>10 DEF StepperInv, StepperControl, EdgeControl
  <2>2. \A j \in S!MoveIds \ {i} : task[j].at \in {"none", "ended"}
    BY <1>1, <2>1
  <2>3. StepperHigh
    BY <1>1 DEF StepperHigh
  <2>4. ~StepperHigh'
    BY <1>11, <2>2 DEF StepperHigh, S!MoveIds
  <2> QED BY <1>5, <1>7, <1>8, <1>10, <1>11, <2>1, <2>2, <2>3, <2>4
<1> QED BY <1>1, <1>7, <1>8, <1>9, <1>10, <1>11, <1>12, <1>13, StepperKept

(* The machine is told, unless the rotation is stopped.                     *)
LEMMA Telling ==
  ASSUME StepperInv, NEW i \in S!MoveIds, S!Tell(i)
  PROVE  /\ report' \in StepperHistory /\ report'.stopped = report.stopped /\ report'.asked = report.asked
         /\ report'.done = report.done /\ report'.made = report.made /\ report'.overlap = report.overlap
         /\ report'.told[i] = IF driver.rotate THEN report.told[i] + 1 ELSE report.told[i]
         /\ \A j \in S!MoveIds \ {i} : report'.told[j] = report.told[j]
<1> USE MoveTypes
<1>1. CASE driver.rotate
  <2>1. PICK n \in Nat : n = report.told[i] + 1
    OBVIOUS
  <2>2. PICK number : number = [report.told EXCEPT ![i] = n]
    OBVIOUS
  <2>3. report' = [report EXCEPT !.told = number]
    BY <1>1, <2>1, <2>2 DEF S!Tell
  <2>4. number \in Tallies /\ number[i] = n /\ \A j \in S!MoveIds \ {i} : number[j] = report.told[j]
    BY <2>2, TallyFields
  <2> QED BY <1>1, <2>1, <2>3, <2>4 DEF StepperInv, StepperTypes, StepperHistory
<1>2. CASE ~driver.rotate
  BY <1>2 DEF S!Tell, StepperInv, StepperTypes
<1> QED BY <1>1, <1>2

LEMMA Resting ==
  ASSUME StepperInv, NEW i \in S!MoveIds, S!Rest(i)
  PROVE  StepperInv'
<1> USE MoveTypes
<1>0. MoveControl(i) /\ driver.rotate \in BOOLEAN
  BY DEF StepperInv, StepperControl, StepperTypes, StepperDriver
<1>1. /\ task[i].at = "low" /\ UNCHANGED <<chip, driver>> /\ task' = [task EXCEPT ![i] = [left |-> @.left - 1, at |-> "loop"]]
      /\ IF S!Is8825 THEN S!Tell(i) ELSE UNCHANGED report
  BY DEF S!Rest
<1>2. PICK left \in Nat : left = task[i].left - 1
  BY <1>0, <1>1 DEF MoveControl
<1>3. PICK new \in MoveTasks : new = [left |-> left, at |-> "loop"]
  BY DEF MoveTasks
<1>4. task' = [task EXCEPT ![i] = new]
  BY <1>1, <1>2, <1>3
<1>5. /\ task' \in [S!MoveIds -> MoveTasks] /\ task'[i] = new /\ new.at = "loop" /\ new.left = left
      /\ \A j \in S!MoveIds \ {i} : task'[j] = task[j]
  BY <1>3, <1>4, TaskFields
<1>6. /\ report' \in StepperHistory /\ report'.stopped = report.stopped /\ report'.asked = report.asked
      /\ report'.done = report.done /\ report'.made = report.made /\ report'.overlap = report.overlap
      /\ \A j \in S!MoveIds \ {i} : report'.told[j] = report.told[j]
      /\ report'.told[i] = IF S!Is8825 /\ driver.rotate THEN report.told[i] + 1 ELSE report.told[i]
  <2>1. CASE S!Is8825
    BY <1>1, <2>1, Telling
  <2>2. CASE ~S!Is8825
    BY <1>1, <2>2 DEF StepperInv, StepperTypes
  <2> QED BY <2>1, <2>2
<1>7. report'.told[i] \in {report.told[i], report.told[i] + 1} /\ (~S!Is8825 => report'.told[i] = report.told[i])
  BY <1>6
<1>8. MoveControl(i)'
  BY <1>0, <1>1, <1>2, <1>5, <1>6, <1>7 DEF MoveControl, S!Is8825
<1>9. EdgeControl'
  BY <1>1, <1>5, <1>6, EdgesStay
<1>10. chip' \in StepperChip /\ UNCHANGED chip
  BY <1>1
<1> QED BY <1>1, <1>5, <1>6, <1>8, <1>9, <1>10, StepperKept

LEMMA Leaving ==
  ASSUME StepperInv, NEW i \in S!MoveIds, S!LeaveLoop(i)
  PROVE  StepperInv'
<1> USE MoveTypes
<1>0. MoveControl(i)
  BY DEF StepperInv, StepperControl
<1>1. /\ task[i].at = "loop" /\ (task[i].left <= 0 \/ ~driver.rotate) /\ UNCHANGED <<chip, driver, report>>
      /\ S!Goto(i, IF S!Is8825 THEN "ended" ELSE "tell")
  BY DEF S!LeaveLoop
<1>2. PICK at \in {"tell", "ended"} : at = IF S!Is8825 THEN "ended" ELSE "tell"
  OBVIOUS
<1>3. /\ task' \in [S!MoveIds -> MoveTasks] /\ task'[i].at = at /\ task'[i].left = task[i].left
      /\ \A j \in S!MoveIds \ {i} : task'[j] = task[j]
  <2>1. S!Goto(i, at)
    BY <1>1, <1>2
  <2> QED BY <2>1, StepperFields
<1>4. MoveControl(i)'
  BY <1>0, <1>1, <1>2, <1>3 DEF MoveControl, S!Is8825
<1>5. EdgeControl'
  BY <1>1, <1>3, EdgesStay
<1>6. chip' \in StepperChip /\ report' \in StepperHistory /\ UNCHANGED <<chip, report>>
  BY <1>1 DEF StepperInv, StepperTypes
<1> QED BY <1>1, <1>3, <1>4, <1>5, <1>6, StepperKept

LEMMA Ending ==
  ASSUME StepperInv, NEW i \in S!MoveIds, S!EndMove(i)
  PROVE  StepperInv'
<1> USE MoveTypes
<1>0. MoveControl(i)
  BY DEF StepperInv, StepperControl
<1>1. task[i].at = "tell" /\ S!Tell(i) /\ S!Goto(i, "ended") /\ UNCHANGED <<chip, driver>>
  BY DEF S!EndMove
<1>2. /\ task' \in [S!MoveIds -> MoveTasks] /\ task'[i].at = "ended" /\ task'[i].left = task[i].left
      /\ \A j \in S!MoveIds \ {i} : task'[j] = task[j]
  BY <1>1, StepperFields
<1>3. /\ report' \in StepperHistory /\ report'.stopped = report.stopped /\ report'.asked = report.asked
      /\ report'.done = report.done /\ report'.made = report.made /\ report'.overlap = report.overlap
      /\ report'.told[i] \in {report.told[i], report.told[i] + 1}
      /\ \A j \in S!MoveIds \ {i} : report'.told[j] = report.told[j]
  BY <1>1, Telling
<1>4. chip.type # "8825"
  BY <1>0, <1>1 DEF MoveControl
<1>5. MoveControl(i)'
  BY <1>0, <1>1, <1>2, <1>3, <1>4 DEF MoveControl
<1>6. EdgeControl'
  BY <1>1, <1>2, <1>3, EdgesStay
<1>7. chip' \in StepperChip /\ UNCHANGED chip
  BY <1>1
<1> QED BY <1>1, <1>2, <1>3, <1>5, <1>6, <1>7, StepperKept

LEMMA StepperStep ==
  ASSUME StepperInv, S!StepperNext
  PROVE  StepperInv'
<1>1. ASSUME NEW b \in BOOLEAN, S!SetRotation(b) PROVE StepperInv'
  BY <1>1, Turning
<1>2. ASSUME NEW i \in S!MoveIds, S!MoveNext(i) PROVE StepperInv'
  BY <1>2, Rising, Falling, Resting, Leaving, Ending DEF S!MoveNext
<1>3. ASSUME NEW i \in S!MoveIds, NEW n \in Moves, S!Step(i, n) PROVE StepperInv'
  BY <1>3, StepperStarted
<1> QED BY <1>1, <1>2, <1>3, StepperInitialized, StepperSet DEF S!StepperNext

LEMMA StepperHolds ==
  ASSUME StepperInv
  PROVE  S!StepperTypeOK /\ S!StepperAgrees /\ S!StepperReports
<1>1. S!Flags = FlagsOf(chip.type)
  BY DEF S!Flags, S!Is8825, FlagsOf
<1>2. S!StepperTypeOK
  <2>1. /\ chip.level \in [S!Pins -> 0..2] /\ chip.edges \in Nat /\ chip.wired \subseteq S!Pins
        /\ driver.flag \in [S!Flags -> 0..1] /\ driver.size \in 0..5
    BY <1>1 DEF StepperInv, StepperTypes, StepperChip, StepperDriver, PinStates
  <2>2. ASSUME NEW i \in S!MoveIds
        PROVE  /\ task[i] \in [left : 0..MaxSteps, at : {"none", "loop", "high", "low", "tell", "ended"}]
               /\ report.told[i] \in 0..MaxSteps
    <3>1. MoveControl(i)
      BY DEF StepperInv, StepperControl
    <3>2. task[i].left \in 0..MaxSteps /\ report.told[i] \in 0..MaxSteps
      BY <3>1, MoveTypes DEF MoveControl
    <3> QED BY <3>2, MoveTypes DEF MoveTasks
  <2>3. task \in [S!MoveIds -> MoveTasks] /\ report.told \in Tallies
    BY DEF StepperInv, StepperTypes, StepperHistory
  <2> QED BY <2>1, <2>2, <2>3 DEF S!StepperTypeOK, Tallies
<1>3. S!StepperAgrees
  <2>1. FlagsAgree(chip, driver) /\ ModesAgree(chip, driver) /\ DecayAgrees(chip, driver)
    BY DEF StepperInv, StepperControl
  <2> QED BY <1>1, <2>1 DEF S!StepperAgrees, FlagsAgree, ModesAgree, DecayAgrees, S!Is8825
<1>4. ASSUME NEW i \in S!MoveIds
      PROVE  IF S!Is8825 THEN report.told[i] <= report.done[i]
             ELSE /\ report.told[i] <= 1
                  /\ report.told[i] = 1 => i \in report.stopped \/ report.done[i] = report.asked[i]
  BY DEF StepperInv, StepperControl, MoveControl, S!Is8825
<1>5. ASSUME ~report.overlap, S!Running = {} PROVE chip.edges = report.made
  <2>1. ~StepperHigh
    BY <1>5 DEF StepperHigh, S!Running
  <2>2. chip.level["step"] = 0 /\ chip.edges = report.made + chip.level["step"]
    BY <1>5, <2>1 DEF StepperInv, StepperControl, EdgeControl
  <2> QED BY <2>2 DEF StepperInv, StepperTypes, StepperHistory
<1> QED BY <1>2, <1>3, <1>4, <1>5 DEF S!StepperReports

-----------------------------------------------------------------------------
(* the ULN2003 motor (Uln2003)                                              *)

Coils == {U!Command[i] : i \in 1..8} \cup {0}

Dones == {<<>>} \cup (Int \X Int \X BOOLEAN)

MotorTypes ==
  /\ driver \in [steps : Int, step : 0..7 \cup {10}, dir : 0..1, rotate : BOOLEAN]
  /\ task \in [steps : Int, step : 0..7 \cup {10}, i : Nat]
  /\ report \in [done : Dones, renewed : BOOLEAN]
  /\ chip \in Coils /\ told \in BOOLEAN
  /\ driver.steps \in Orders \cup UnsetSteps \cup {0}

MotorControl ==
  /\ worker # "none" => driver.step \in 0..7
  /\ worker \in {"move", "moved", "save"} => task.step \in 0..7
  /\ worker \in {"prewait", "asleep"} => driver.steps <= 0
  /\ worker = "move" => task.i <= U!Ordered(task.steps)
  /\ worker = "moved" => task.i = U!Ordered(task.steps) \/ ~driver.rotate \/ report.renewed \/ told

MotorInv == MotorTypes /\ MotorControl /\ U!MotorReports /\ U!CoilsOff

LEMMA MotorInit ==
  ASSUME U!MotorInit, ThreadInit
  PROVE  MotorInv
<1> USE OrdersAssumption DEF U!MotorInit, ThreadInit
<1>1. driver \in [steps : Int, step : 0..7 \cup {10}, dir : 0..1, rotate : BOOLEAN] /\ driver.steps \in UnsetSteps
  <2>1. PICK steps \in UnsetSteps, dir \in 0..1 : driver = [steps |-> steps, step |-> 10, dir |-> dir, rotate |-> TRUE]
    OBVIOUS
  <2> QED BY <2>1
<1>4. report = [done |-> <<>>, renewed |-> FALSE] /\ <<>> \in Dones
  BY Zenon DEF Dones
<1>5. report \in [done : Dones, renewed : BOOLEAN]
  BY <1>4
<1>6. MotorTypes
  <2>1. 0 \in Coils
    BY DEF Coils
  <2>2. task \in [steps : Int, step : 0..7 \cup {10}, i : Nat]
    OBVIOUS
  <2>3. chip = 0 /\ told = FALSE
    OBVIOUS
  <2> QED BY <1>1, <1>5, <2>1, <2>2, <2>3 DEF MotorTypes
<1>2. MotorControl
  BY DEF MotorControl
<1>3. U!MotorReports /\ U!CoilsOff
  BY DEF U!MotorReports, U!CoilsOff
<1> QED BY <1>6, <1>2, <1>3 DEF MotorInv

LEMMA MotorAssign ==
  ASSUME MotorTypes, NEW n \in Orders \cup {0}, U!Assign(n)
  PROVE  /\ driver' \in [steps : Int, step : 0..7 \cup {10}, dir : 0..1, rotate : BOOLEAN]
         /\ driver'.steps = n /\ (driver'.rotate => n > 0)
         /\ driver'.step = driver.step /\ worker # "prewait"
<1> USE OrdersAssumption
<1>1. PICK b \in BOOLEAN : b <=> n > 0
  OBVIOUS
<1>2. b = (n > 0)
  BY <1>1
<1>3. driver' = [driver EXCEPT !.steps = n, !.rotate = b]
  BY <1>2 DEF U!Assign
<1>4. driver'.steps = n /\ driver'.rotate = b /\ driver'.step = driver.step /\ driver'.dir = driver.dir
  BY <1>3 DEF MotorTypes
<1>5. driver' = [steps |-> n, step |-> driver.step, dir |-> driver.dir, rotate |-> b]
  BY <1>3 DEF MotorTypes
<1>6. driver' \in [steps : Int, step : 0..7 \cup {10}, dir : 0..1, rotate : BOOLEAN]
  BY <1>5 DEF MotorTypes
<1>7. worker # "prewait"
  BY DEF U!Assign
<1> QED BY <1>1, <1>4, <1>6, <1>7

LEMMA MotorStep ==
  ASSUME MotorInv, U!MotorNext
  PROVE  MotorInv'
<1> USE OrdersAssumption DEF U!Ordered, MotorInv, MotorTypes, MotorControl, U!MotorReports, U!CoilsOff, U!motorVars
<1>1. ASSUME NEW n \in Orders, U!SetSteps(n) PROVE MotorInv'
  BY <1>1, MotorAssign DEF U!SetSteps, U!Notify
<1>2. CASE U!Wakeup
  BY <1>2 DEF U!Wakeup, U!SpuriousWakeup
<1>3. CASE U!Initialize
  BY <1>3 DEF U!Initialize, U!Start
<1>4. CASE U!SetDirection
  <2>1. driver' = [steps |-> driver.steps, step |-> driver.step, dir |-> 1 - driver.dir, rotate |-> driver.rotate]
    BY <1>4 DEF U!SetDirection
  <2> QED BY <1>4, <2>1 DEF U!SetDirection, U!threadVars
<1>5. CASE U!StopCall
  BY <1>5 DEF U!StopCall, U!Tell
<1>6. CASE U!StopJoin
  BY <1>6 DEF U!StopJoin, U!Join, Coils
<1>7. CASE U!WaitForSteps
  BY <1>7 DEF U!WaitForSteps, U!Wait, U!Loop, U!Check, U!Sleep
<1>8. CASE U!Fetch
  <2>1. task' = [steps |-> driver.steps, step |-> driver.step, i |-> 0] /\ report' = [report EXCEPT !.renewed = FALSE]
    BY <1>8 DEF U!Fetch
  <2>2. task'.i = 0 /\ task'.steps = driver.steps /\ task'.step = driver.step
    BY <2>1
  <2>3. worker = "work" /\ worker' = (IF told THEN "ended" ELSE "move") /\ UNCHANGED <<told, chip, driver>>
    BY <1>8 DEF U!Fetch, U!Goto
  <2>4. MotorTypes'
    BY <2>1, <2>3
  <2> QED BY <2>1, <2>2, <2>3, <2>4
<1>9. CASE U!Move
  <2>1. chip' \in Coils
    BY <1>9 DEF U!Move, Coils
  <2>2. task' = [task EXCEPT !.step = U!NextStep(@), !.i = @ + 1] /\ task.step \in 0..7
    BY <1>9 DEF U!Move
  <2>3. PICK s \in 0..7 : s = U!NextStep(task.step)
    BY <2>2 DEF U!NextStep
  <2>4. task.i + 1 <= task.steps
    BY <1>9 DEF U!Move, U!Moving
  <2>5. task' = [task EXCEPT !.step = s, !.i = @ + 1]
    BY <2>2, <2>3
  <2>7. task' = [steps |-> task.steps, step |-> s, i |-> task.i + 1]
    BY <2>5
  <2>6. task' \in [steps : Int, step : 0..7 \cup {10}, i : Nat] /\ task'.i = task.i + 1 /\ task'.steps = task.steps
        /\ task'.step \in 0..7
    BY <2>7
  <2> QED BY <1>9, <2>1, <2>4, <2>6 DEF U!Move, U!threadVars
<1>10. CASE U!LeaveLoop
  BY <1>10 DEF U!LeaveLoop, U!Moving, U!Goto
<1>11. CASE U!Report
  <2>1. <<task.i, task.steps, report.renewed>> \in Dones
    <3>1. task.i \in Int /\ task.steps \in Int /\ report.renewed \in BOOLEAN
      OBVIOUS
    <3> QED BY <3>1, Zenon DEF Dones
  <2> QED BY <1>11, <2>1 DEF U!Report, U!Goto
<1>12. CASE U!Save
  BY <1>12 DEF U!Save, U!Goto
<1>13. CASE U!Clear
  BY <1>13, MotorAssign DEF U!Clear, U!Goto
<1>14. CASE U!StopRotation
  <2>1. driver' = [steps |-> driver.steps, step |-> driver.step, dir |-> driver.dir, rotate |-> FALSE]
    BY <1>14 DEF U!StopRotation
  <2> QED BY <1>14, <2>1 DEF U!StopRotation, U!threadVars
<1>15. ASSUME NEW on \in BOOLEAN, U!SetRotation(on) PROVE MotorInv'
  <2>1. driver' = [steps |-> driver.steps, step |-> driver.step, dir |-> driver.dir, rotate |-> on]
    BY <1>15 DEF U!SetRotation
  <2>2. PICK renewed \in BOOLEAN : renewed <=> (report.renewed \/ on)
    OBVIOUS
  <2>3. report' = [done |-> report.done, renewed |-> renewed]
    BY <1>15, <2>2 DEF U!SetRotation
  <2>4. UNCHANGED <<chip, task, told, worker>>
    BY <1>15 DEF U!SetRotation, U!threadVars
  <2>5. MotorTypes'
    BY <2>1, <2>3, <2>4
  <2>6. MotorControl'
    BY <2>1, <2>2, <2>3, <2>4
  <2> QED BY <2>3, <2>4, <2>5, <2>6
<1> QED
  BY <1>1, <1>2, <1>3, <1>4, <1>5, <1>6, <1>7, <1>8, <1>9, <1>10, <1>11, <1>12, <1>13, <1>14, <1>15 DEF U!MotorNext, U!WorkerNext

LEMMA MotorHolds ==
  ASSUME MotorInv
  PROVE  U!MotorTypeOK /\ U!MotorAwake /\ U!MotorReports /\ U!CoilsOff
<1>1. U!MotorTypeOK
  BY DEF MotorInv, MotorTypes, MotorControl, Coils, U!MotorTypeOK
<1>2. U!MotorAwake
  BY DEF MotorInv, MotorControl, U!MotorAwake
<1> QED BY <1>1, <1>2 DEF MotorInv

-----------------------------------------------------------------------------
(* the PWM motors and servos (PwmMotors)                                    *)

LEMMA SmallRemainder ==
  ASSUME NEW x \in 0..255
  PROVE  x % 256 = x
<1>1. x \div 256 = 0 /\ x % 256 = x - 256 * (x \div 256)
  OBVIOUS
<1> QED BY <1>1

LEMMA FunctionUpdate ==
  ASSUME NEW Dom, NEW Ran, NEW f \in [Dom -> Ran], NEW c \in Dom, NEW x \in Ran
  PROVE  /\ [f EXCEPT ![c] = x] \in [Dom -> Ran] /\ [f EXCEPT ![c] = x][c] = x
         /\ \A d \in Dom \ {c} : [f EXCEPT ![c] = x][d] = f[d]
OBVIOUS

CountRange == 0..4095
Places == 0..4
Low(n) == n % 256
High(n) == (n \div 256) % 256

LEMMA Bytes ==
  ASSUME NEW n \in CountRange
  PROVE  /\ Low(n) \in Byte /\ High(n) \in Byte
         /\ Low(n) + 256 * High(n) = n
<1>1. n \div 256 \in 0..255 /\ n % 256 \in 0..255 /\ n % 256 = n - 256 * (n \div 256) /\ n \in Int
  BY DEF CountRange
<1>2. (n \div 256) % 256 = n \div 256
  BY <1>1, SmallRemainder
<1>3. Low(n) = n - 256 * High(n) /\ Low(n) \in 0..255 /\ High(n) \in 0..255
  BY <1>1, <1>2 DEF Low, High
<1> QED BY <1>1, <1>3 DEF Byte

Quads == [0..3 -> Byte]
Leds == [P!Channels -> Quads]
PerMille == 0..1000
AskedDuties == [P!Channels -> PerMille]
FlagSets == SUBSET P!AllFlags
Marks == SUBSET (P!Channels \cup {"chip"})
PwmChip == [mode1 : FlagSets, prescale : Byte, led : Leds, mode : {1}, dir : {0, 1}]
PwmDriver == [dir : {0, 1}, min : Int, max : Int, frequency : Int]
PwmHistory == [asked : AskedDuties, calibrated : BOOLEAN, bad : Marks, faults : FaultCounts]

PwmTypes == chip \in PwmChip /\ driver \in PwmDriver /\ report \in PwmHistory

(* The pulse that the servo was asked for: its registers follow.            *)
AskedInRange ==
  ~report.calibrated => report.asked["servo"] = 0 \/ report.asked["servo"] \in driver.min..driver.max

PwmControl == chip.dir = driver.dir /\ driver.min < driver.max

PwmInv == PwmTypes /\ PwmControl /\ P!PwmAgrees /\ AskedInRange

LEMMA CountsInRange ==
  ASSUME NEW duty \in PerMille
  PROVE  P!Counts(duty) \in CountRange
BY DEF P!Counts, PerMille, CountRange

Quad(old, off, bad) == [r \in 0..3 |-> IF r + 1 = bad THEN old[r] ELSE P!Registers(0, off)[r + 1]]
Value(quad) == quad[2] + 256 * quad[3]

LEMMA QuadWritten ==
  ASSUME NEW old \in Quads, NEW off \in CountRange, NEW bad \in Places
  PROVE  Quad(old, off, bad) \in Quads /\ (bad = 0 => Value(Quad(old, off, bad)) = off)
<1>1. PICK low \in Byte, high \in Byte : low = Low(off) /\ high = High(off) /\ low + 256 * high = off
  BY Bytes
<1>2. P!Registers(0, off) = <<0, 0, low, high>>
  <2>1. 0 % 256 = 0 /\ (0 \div 256) % 256 = 0
    OBVIOUS
  <2> QED BY <1>1, <2>1 DEF P!Registers, Low, High
<1>3. \A r \in 0..3 : <<0, 0, low, high>>[r + 1] \in Byte
  BY DEF Byte
<1>4. \A r \in 0..3 : old[r] \in Byte
  BY DEF Quads
<1>5. Quad(old, off, bad) \in Quads
  BY <1>2, <1>3, <1>4 DEF Quad, Quads
<1>6. bad = 0 => Quad(old, off, bad)[2] = low /\ Quad(old, off, bad)[3] = high
  <2>1. <<0, 0, low, high>>[3] = low /\ <<0, 0, low, high>>[4] = high
    OBVIOUS
  <2> QED BY <1>2, <2>1 DEF Quad
<1> QED BY <1>1, <1>5, <1>6 DEF Value

LEMMA ChannelWritten ==
  ASSUME NEW c \in P!Channels, NEW off \in CountRange, NEW bad \in Places, chip \in PwmChip, P!SetPWM(c, 0, off, bad)
  PROVE  /\ chip' \in PwmChip /\ chip'.prescale = chip.prescale /\ chip'.dir = chip.dir
         /\ \A d \in P!Channels \ {c} : chip'.led[d] = chip.led[d]
         /\ bad = 0 => Value(chip'.led[c]) = off
<1> DEFINE quad == Quad(chip.led[c], off, bad)
<1> DEFINE led == [chip.led EXCEPT ![c] = quad]
<1>1. chip.led \in Leds
  BY DEF PwmChip
<1>2. chip.led[c] \in Quads
  BY <1>1 DEF Leds
<1>3. quad \in Quads /\ (bad = 0 => Value(quad) = off)
  BY <1>2, QuadWritten, Zenon
<1>4. chip' = [chip EXCEPT !.led = led]
  BY DEF P!SetPWM, Quad
<1>5. led \in Leds /\ led[c] = quad /\ \A d \in P!Channels \ {c} : led[d] = chip.led[d]
  <2> HIDE DEF quad
  <2> QED BY <1>1, <1>3, FunctionUpdate DEF Leds
<1>6. chip' \in PwmChip /\ chip'.prescale = chip.prescale /\ chip'.dir = chip.dir /\ chip'.led = led
  <2> HIDE DEF led
  <2> QED BY <1>4, <1>5 DEF PwmChip
<1> HIDE DEF quad, led
<1> QED BY <1>3, <1>5, <1>6

LEMMA DutyWritten ==
  ASSUME NEW c \in P!Channels, NEW duty \in Int, NEW bad \in Places, P!WritePWM(c, duty, bad), UNCHANGED driver, PwmInv,
         c = "servo" => duty = 0 \/ duty \in driver.min..driver.max
  PROVE  PwmInv'
<1>1. CASE duty < 0 \/ duty > 1000
  <2>1. chip' = chip /\ report' = report
    BY <1>1 DEF P!WritePWM
  <2> QED BY <2>1 DEF PwmInv, PwmTypes, PwmControl, P!PwmAgrees, AskedInRange, P!Off
<1>2. CASE ~(duty < 0 \/ duty > 1000)
  <2>1. duty \in 0..1000 /\ duty \in PerMille
    BY <1>2 DEF PerMille
  <2>2. P!SetPWM(c, 0, P!Counts(duty), bad) /\ (bad # 0 => report.faults < MaxFaults)
    BY <1>2 DEF P!WritePWM, P!Counts
  <2> DEFINE faults == IF bad = 0 THEN report.faults ELSE report.faults + 1
  <2> DEFINE calibrated == IF c = "servo" THEN FALSE ELSE report.calibrated
  <2> DEFINE marks == IF bad = 0 THEN report.bad \ {c} ELSE report.bad \cup {c}
  <2> DEFINE asked == [report.asked EXCEPT ![c] = duty]
  <2>3. report \in PwmHistory /\ chip \in PwmChip
    BY DEF PwmInv, PwmTypes
  <2>4. /\ report.faults \in FaultCounts /\ report.calibrated \in BOOLEAN /\ report.bad \in Marks
        /\ report.asked \in AskedDuties
    BY <2>3 DEF PwmHistory
  <2>5. faults \in FaultCounts
    <3>1. MaxFaults \in Nat
      BY PwmAssumption, FaultsAssumption
    <3>2. bad # 0 => report.faults < MaxFaults
      BY <2>2
    <3>3. CASE bad = 0
      BY <2>4, <3>3
    <3>4. CASE bad # 0
      <4>1. report.faults + 1 \in FaultCounts
        BY <2>4, <3>1, <3>2, <3>4 DEF FaultCounts
      <4> QED BY <3>4, <4>1
    <3> QED BY <3>3, <3>4
  <2>6. calibrated \in BOOLEAN
    BY <2>4
  <2>7. marks \in Marks
    BY <2>4 DEF Marks
  <2>8. asked \in AskedDuties /\ asked[c] = duty /\ \A d \in P!Channels \ {c} : asked[d] = report.asked[d]
    BY <2>1, <2>4, FunctionUpdate DEF AskedDuties
  <2>9. report' = [report EXCEPT !.asked = asked, !.calibrated = calibrated, !.faults = faults, !.bad = marks]
    BY <1>2 DEF P!WritePWM
  <2>10. report' \in PwmHistory /\ report'.calibrated = calibrated /\ report'.bad = marks /\ report'.asked = asked
    <3> HIDE DEF faults, calibrated, marks, asked
    <3> QED BY <2>3, <2>5, <2>6, <2>7, <2>8, <2>9 DEF PwmHistory
  <2>11. /\ chip' \in PwmChip /\ chip'.prescale = chip.prescale /\ chip'.dir = chip.dir
         /\ \A d \in P!Channels \ {c} : chip'.led[d] = chip.led[d]
         /\ bad = 0 => Value(chip'.led[c]) = P!Counts(duty)
    <3>1. P!Counts(duty) \in CountRange
      BY <2>1, CountsInRange
    <3> QED BY <2>2, <2>3, <3>1, ChannelWritten, Zenon
  <2>12. PwmTypes' /\ PwmControl'
    BY <2>10, <2>11 DEF PwmInv, PwmTypes, PwmControl
  <2>13. P!PwmAgrees'
    <3>1. \A d \in P!Channels : d \notin report.bad => Value(chip.led[d]) = P!Counts(report.asked[d])
      BY DEF PwmInv, P!PwmAgrees, P!Off, Value, P!Counts
    <3>2. \A d \in P!Channels : d \notin marks => Value(chip'.led[d]) = P!Counts(asked[d])
      <4> TAKE d \in P!Channels
      <4> HAVE d \notin marks
      <4>1. CASE d = c
        <5>1. bad = 0
          BY <4>1
        <5> HIDE DEF asked
        <5> QED BY <4>1, <5>1, <2>8, <2>11
      <4>2. CASE d # c
        <5>1. d \notin report.bad
          BY <4>2
        <5> HIDE DEF asked
        <5> QED BY <4>2, <5>1, <3>1, <2>8, <2>11
      <4> QED BY <4>1, <4>2
    <3>3. "chip" \notin marks <=> "chip" \notin report.bad
      BY DEF P!Channels
    <3>4. "chip" \notin marks /\ driver'.frequency >= 27 =>
            driver'.frequency \in P!Frequency(chip'.prescale + 1)..P!Frequency(chip'.prescale - 1) + 1
      <4> HIDE DEF marks
      <4> QED BY <3>3, <2>11 DEF PwmInv, P!PwmAgrees
    <3> HIDE DEF marks, asked
    <3> QED BY <2>10, <3>2, <3>4 DEF P!PwmAgrees, P!Off, Value, P!Counts
  <2>14. AskedInRange'
    <3>1. CASE c = "servo"
      <4>1. report'.asked["servo"] = duty
        <5> HIDE DEF asked
        <5> QED BY <3>1, <2>8, <2>10
      <4> QED BY <3>1, <4>1 DEF AskedInRange
    <3>2. CASE c # "servo"
      <4>1. report'.asked["servo"] = report.asked["servo"]
        <5>1. "servo" \in P!Channels \ {c}
          BY <3>2 DEF P!Channels
        <5> HIDE DEF asked
        <5> QED BY <5>1, <2>8, <2>10
      <4>2. report'.calibrated = report.calibrated
        BY <3>2, <2>10
      <4> QED BY <4>1, <4>2 DEF PwmInv, AskedInRange
    <3> QED BY <3>1, <3>2
  <2> QED BY <2>12, <2>13, <2>14 DEF PwmInv
<1> QED BY <1>1, <1>2

LEMMA DivisionBounds ==
  ASSUME NEW a \in Int, NEW b \in Nat, b > 0
  PROVE  a \div b \in Int /\ b * (a \div b) <= a /\ a < b * (a \div b) + b
OBVIOUS

LEMMA ProductMonotonic ==
  ASSUME NEW a \in Int, NEW b \in Int, NEW c \in Nat, a <= b
  PROVE  a * c <= b * c
OBVIOUS

LEMMA ProductLess ==
  ASSUME NEW a \in Int, NEW b \in Int, NEW c \in Nat, a * c < b * c
  PROVE  a < b
<1>1. ~(b <= a)
  BY ProductMonotonic
<1> QED BY <1>1

LEMMA DutyInRange ==
  ASSUME NEW low \in Int, NEW high \in Int, low <= high, NEW r \in Nat, r > 0, NEW angle \in -r..r
  PROVE  ((low + high) * r + angle * (high - low)) \div (2 * r) \in low..high
<1> DEFINE d == (low + high) * r + angle * (high - low)
<1> DEFINE q == d \div (2 * r)
<1>1. d \in Int /\ 2 * r \in Nat /\ 2 * r > 0
  OBVIOUS
<1>2. q \in Int /\ (2 * r) * q <= d /\ d < (2 * r) * q + 2 * r
  <2> HIDE DEF d
  <2> QED BY <1>1, DivisionBounds
<1>3. (-r) * (high - low) <= angle * (high - low) /\ angle * (high - low) <= r * (high - low)
  BY ProductMonotonic
<1>4. low * (2 * r) <= d /\ d <= high * (2 * r)
  BY <1>3
<1>5. q < high + 1 /\ low < q + 1
  <2>1. q * (2 * r) < (high + 1) * (2 * r) /\ low * (2 * r) < (q + 1) * (2 * r)
    <3> HIDE DEF d, q
    <3> QED BY <1>1, <1>2, <1>4
  <2> HIDE DEF d, q
  <2> QED BY <1>1, <1>2, <2>1, ProductLess
<1> HIDE DEF q
<1>6. q \in low..high
  BY <1>2, <1>5
<1> QED BY <1>6 DEF q

(* 1220703 is the oscillator's frequency through 4096                       *)
LEMMA FrequencyInRange ==
  ASSUME NEW f \in Int, f >= 27, f <= 4571
  PROVE  /\ P!Prescaled(f) \in 1..255
         /\ f \in P!Frequency(P!Prescaled(f) + 1)..P!Frequency(P!Prescaled(f) - 1) + 1
<1> DEFINE d == 178 * f
<1> DEFINE n == 1220703 - 89 * f
<1> DEFINE q == n \div d
<1>1. d \in Nat /\ d > 0 /\ n \in Int /\ n >= d /\ n < 256 * d
  OBVIOUS
<1>2. q \in Int /\ d * q <= n /\ n < d * q + d
  <2> HIDE DEF d, n
  <2> QED BY <1>1, DivisionBounds
<1>3. q < 256 /\ 0 < q
  <2>1. q * d < 256 * d /\ 0 * d < q * d
    <3>1. q * d <= n /\ n < q * d + d
      <4> HIDE DEF d, n, q
      <4> QED BY <1>1, <1>2
    <3> HIDE DEF d, n, q
    <3> QED BY <1>1, <1>2, <3>1
  <2> HIDE DEF d, n, q
  <2> QED BY <1>1, <1>2, <2>1, ProductLess
<1>4. P!Prescaled(f) = q
  <2>1. P!Prescale(f) = q
    BY DEF P!Prescale
  <2> HIDE DEF q
  <2> QED BY <1>2, <1>3, <2>1 DEF P!Prescaled
<1>5. f * (178 * q) = d * q /\ f * (178 * (q + 2)) = d * q + 2 * d
  <2> HIDE DEF q
  <2> QED BY <1>2
<1>6. P!Frequency(q + 1) <= f
  <2> DEFINE up == 178 * (q + 2)
  <2> DEFINE g == 1220703 \div up
  <2>1. up \in Nat /\ up > 0 /\ f * up > 1220703
    <3> HIDE DEF q
    <3> QED BY <1>1, <1>2, <1>3, <1>5
  <2>2. g \in Int /\ up * g <= 1220703
    <3> HIDE DEF up
    <3> QED BY <2>1, DivisionBounds
  <2>3. g * up < f * up
    <3> HIDE DEF up, g
    <3> QED BY <2>1, <2>2
  <2>4. g < f
    <3> HIDE DEF up, g
    <3> QED BY <2>1, <2>2, <2>3, ProductLess
  <2>5. P!Frequency(q + 1) = g
    <3>1. (q + 1) + 1 = q + 2
      <4> HIDE DEF q
      <4> QED BY <1>2
    <3> QED BY <3>1 DEF P!Frequency
  <2> HIDE DEF g
  <2> QED BY <2>2, <2>4, <2>5
<1>7. f <= P!Frequency(q - 1)
  <2> DEFINE down == 178 * q
  <2> DEFINE g == 1220703 \div down
  <2>1. down \in Nat /\ down > 0 /\ f * down < 1220703
    <3> HIDE DEF q
    <3> QED BY <1>1, <1>2, <1>3, <1>5
  <2>2. g \in Int /\ 1220703 < down * g + down
    <3> HIDE DEF down
    <3> QED BY <2>1, DivisionBounds
  <2>3. f * down < (g + 1) * down
    <3> HIDE DEF down, g
    <3> QED BY <2>1, <2>2
  <2>4. f < g + 1
    <3> HIDE DEF down, g
    <3> QED BY <2>1, <2>2, <2>3, ProductLess
  <2>5. P!Frequency(q - 1) = g
    <3>1. (q - 1) + 1 = q
      <4> HIDE DEF q
      <4> QED BY <1>2
    <3> QED BY <3>1 DEF P!Frequency
  <2> HIDE DEF g
  <2> QED BY <2>2, <2>4, <2>5
<1>8. P!Frequency(q + 1) \in Int /\ P!Frequency(q - 1) \in Int
  <2>1. (178 * (q + 2)) > 0 /\ (178 * q) > 0 /\ q \in Int
    <3> HIDE DEF q
    <3> QED BY <1>2, <1>3
  <2> HIDE DEF q
  <2> QED BY <2>1, DivisionBounds DEF P!Frequency
<1> HIDE DEF q
<1> QED BY <1>2, <1>3, <1>4, <1>6, <1>7, <1>8

LEMMA PwmInit ==
  ASSUME P!PwmInit
  PROVE  PwmInv
<1>1. PICK led \in Leds : led = [c \in P!Channels |-> [r \in 0..3 |-> 0]]
  <2>1. [c \in P!Channels |-> [r \in 0..3 |-> 0]] \in Leds
    BY DEF Leds, Quads, Byte
  <2> QED BY <2>1, Zenon
<1>2. PICK asked \in AskedDuties : asked = [c \in P!Channels |-> 0]
  <2>1. [c \in P!Channels |-> 0] \in AskedDuties
    BY DEF AskedDuties, PerMille
  <2> QED BY <2>1, Zenon
<1>3. chip = [mode1 |-> P!Default, prescale |-> 113, led |-> led, mode |-> 1, dir |-> 0]
  BY <1>1 DEF P!PwmInit
<1>4. driver = [dir |-> 0, min |-> 31, max |-> 138, frequency |-> 60]
  BY DEF P!PwmInit
<1>5. report = [asked |-> asked, calibrated |-> FALSE, bad |-> {}, faults |-> 0]
  BY <1>2 DEF P!PwmInit
<1>6. PwmTypes
  <2>1. P!Default \in FlagSets /\ 113 \in Byte
    BY DEF FlagSets, P!AllFlags, Byte
  <2>2. chip \in PwmChip
    <3> HIDE DEF PwmAssumption, FaultsAssumption
    <3> QED BY <1>3, <2>1 DEF PwmChip
  <2>3. driver \in PwmDriver
    BY <1>4 DEF PwmDriver
  <2>4. {} \in Marks /\ 0 \in FaultCounts
    BY PwmAssumption, FaultsAssumption DEF Marks, FaultCounts
  <2>5. report \in PwmHistory
    BY <1>5, <2>4 DEF PwmHistory
  <2> QED BY <2>2, <2>3, <2>5 DEF PwmTypes
<1>7. PwmControl /\ AskedInRange
  <2>1. asked["servo"] = 0
    BY <1>2 DEF P!Channels
  <2> QED BY <1>3, <1>4, <1>5, <2>1 DEF PwmControl, AskedInRange
<1>8. P!PwmAgrees
  <2>1. \A c \in P!Channels : P!Off(c) = 0 /\ report.asked[c] = 0
    BY <1>1, <1>2, <1>3, <1>5 DEF P!Off
  <2>2. P!Frequency(114) = 59 /\ P!Frequency(112) = 60
    BY DEF P!Frequency
  <2>3. driver.frequency = 60 /\ chip.prescale = 113
    BY <1>3, <1>4
  <2>4. P!Counts(0) = 0
    BY DEF P!Counts
  <2>5. 60 \in P!Frequency(113 + 1)..P!Frequency(113 - 1) + 1
    BY <2>2
  <2> QED BY <2>1, <2>3, <2>4, <2>5 DEF P!PwmAgrees
<1> QED BY <1>6, <1>7, <1>8 DEF PwmInv

LEMMA DirectionSet ==
  ASSUME NEW d \in {0, 1}, PwmInv, P!SetDirection(d)
  PROVE  PwmInv'
<1>1. driver \in PwmDriver /\ chip \in PwmChip
  BY DEF PwmInv, PwmTypes
<1>2. /\ driver' \in PwmDriver /\ driver'.dir = d /\ driver'.min = driver.min /\ driver'.max = driver.max
      /\ driver'.frequency = driver.frequency
  <2>1. driver' = [driver EXCEPT !.dir = d]
    BY DEF P!SetDirection
  <2> QED BY <1>1, <2>1 DEF PwmDriver
<1>3. chip' \in PwmChip /\ chip'.dir = d /\ chip'.led = chip.led /\ chip'.prescale = chip.prescale
  <2>1. chip' = [chip EXCEPT !.dir = d]
    BY DEF P!SetDirection
  <2> QED BY <1>1, <2>1 DEF PwmChip
<1>4. report' = report
  BY DEF P!SetDirection
<1> QED BY <1>2, <1>3, <1>4 DEF PwmInv, PwmTypes, PwmControl, P!PwmAgrees, AskedInRange, P!Off

LEMMA Calibrated ==
  ASSUME NEW d \in Duties, PwmInv, P!Calibrate(d)
  PROVE  PwmInv'
<1>1. chip' = chip
  BY DEF P!Calibrate
<1>2. CASE d[2] <= d[1]
  <2>1. driver' = driver /\ report' = report
    BY <1>2 DEF P!Calibrate
  <2> QED BY <1>1, <2>1 DEF PwmInv, PwmTypes, PwmControl, P!PwmAgrees, AskedInRange, P!Off
<1>3. CASE ~(d[2] <= d[1])
  <2>1. d[1] \in Int /\ d[2] \in Int /\ d[1] < d[2]
    BY <1>3, PwmAssumption, FaultsAssumption
  <2>2. PICK low \in Int, high \in Int : low = d[1] /\ high = d[2] /\ low < high
    BY <2>1
  <2>3. driver' = [driver EXCEPT !.min = low, !.max = high]
    BY <1>3, <2>2 DEF P!Calibrate
  <2>4. report' = [report EXCEPT !.calibrated = TRUE]
    BY <1>3 DEF P!Calibrate
  <2>5. driver \in PwmDriver /\ report \in PwmHistory
    BY DEF PwmInv, PwmTypes
  <2>6. /\ driver' \in PwmDriver /\ driver'.dir = driver.dir /\ driver'.min = low /\ driver'.max = high
        /\ driver'.frequency = driver.frequency
    BY <2>3, <2>5 DEF PwmDriver
  <2>7. report' \in PwmHistory /\ report'.calibrated /\ report'.asked = report.asked /\ report'.bad = report.bad
    BY <2>4, <2>5 DEF PwmHistory
  <2> QED BY <1>1, <2>2, <2>6, <2>7 DEF PwmInv, PwmTypes, PwmControl, P!PwmAgrees, AskedInRange, P!Off
<1> QED BY <1>2, <1>3

LEMMA AngleSet ==
  ASSUME NEW angle \in Angles, NEW bad \in Places, PwmInv, P!SetAngle(angle, bad)
  PROVE  PwmInv'
<1>1. CASE angle < -ServoRange \/ angle > ServoRange
  <2>1. chip' = chip /\ driver' = driver /\ report' = report
    BY <1>1 DEF P!SetAngle, P!pwmVars
  <2> QED BY <2>1 DEF PwmInv, PwmTypes, PwmControl, P!PwmAgrees, AskedInRange, P!Off
<1>2. CASE ~(angle < -ServoRange \/ angle > ServoRange)
  <2>1. P!WritePWM("servo", P!Duty(angle), bad) /\ UNCHANGED driver
    BY <1>2 DEF P!SetAngle
  <2>2. driver.min \in Int /\ driver.max \in Int /\ driver.min <= driver.max
    BY DEF PwmInv, PwmTypes, PwmControl, PwmDriver
  <2>3. ServoRange \in Nat /\ ServoRange > 0 /\ angle \in -ServoRange..ServoRange
    BY <1>2, PwmAssumption, FaultsAssumption
  <2>4. P!Duty(angle) \in driver.min..driver.max
    BY <2>2, <2>3, DutyInRange DEF P!Duty
  <2>5. P!Duty(angle) \in Int /\ "servo" \in P!Channels
    BY <2>2, <2>4 DEF P!Channels
  <2> QED BY <2>1, <2>4, <2>5, DutyWritten
<1> QED BY <1>1, <1>2

LEMMA LevelSet ==
  ASSUME NEW level \in Int, NEW bad \in Places, PwmInv, P!SetPowerLevel(level, bad)
  PROVE  PwmInv'
<1>1. PICK duty \in Int : duty = 10 * P!Clamped(level)
  BY DEF P!Clamped
<1>2. P!WritePWM("dc", duty, bad) /\ UNCHANGED driver /\ "dc" \in P!Channels
  BY <1>1 DEF P!SetPowerLevel, P!Channels
<1> QED BY <1>2, DutyWritten

LEMMA Transferred ==
  ASSUME NEW bad \in Nat, NEW what \in SUBSET {"chip"}, report \in PwmHistory, P!Transfers(bad, what)
  PROVE  /\ report' \in PwmHistory /\ report'.asked = report.asked /\ report'.calibrated = report.calibrated
         /\ report'.bad \cap P!Channels = report.bad \cap P!Channels
         /\ "chip" \in report'.bad <=> IF bad = 0 THEN "chip" \in report.bad \ what ELSE "chip" \in report.bad \cup what
<1> DEFINE faults == IF bad = 0 THEN report.faults ELSE report.faults + 1
<1> DEFINE marks == IF bad = 0 THEN report.bad \ what ELSE report.bad \cup what
<1>1. report.faults \in FaultCounts /\ report.bad \in Marks
  BY DEF PwmHistory
<1>2. faults \in FaultCounts
  <2>1. MaxFaults \in Nat
    BY PwmAssumption, FaultsAssumption
  <2>2. bad # 0 => report.faults < MaxFaults
    BY DEF P!Transfers
  <2>3. CASE bad = 0
    BY <1>1, <2>3
  <2>4. CASE bad # 0
    <3>1. report.faults + 1 \in FaultCounts
      BY <1>1, <2>1, <2>2, <2>4 DEF FaultCounts
    <3> QED BY <2>4, <3>1
  <2> QED BY <2>3, <2>4
<1>3. marks \in Marks /\ marks \cap P!Channels = report.bad \cap P!Channels
  BY <1>1 DEF Marks, P!Channels
<1>4. report' = [report EXCEPT !.faults = faults, !.bad = marks]
  BY DEF P!Transfers
<1>5. /\ report' \in PwmHistory /\ report'.asked = report.asked /\ report'.calibrated = report.calibrated
      /\ report'.bad = marks
  <2> HIDE DEF faults, marks
  <2> QED BY <1>2, <1>3, <1>4 DEF PwmHistory
<1>6. "chip" \in marks <=> IF bad = 0 THEN "chip" \in report.bad \ what ELSE "chip" \in report.bad \cup what
  OBVIOUS
<1> HIDE DEF marks
<1> QED BY <1>3, <1>5, <1>6

LEMMA PrescaledByte ==
  ASSUME NEW f \in Int, f > 0
  PROVE  P!Prescaled(f) \in Byte
<1>1. 178 * f \in Nat /\ 178 * f > 0 /\ 1220703 - 89 * f \in Int
  OBVIOUS
<1>2. P!Prescale(f) \in Int
  BY <1>1, DivisionBounds DEF P!Prescale
<1> QED BY <1>2 DEF P!Prescaled, Byte

(* The flags of MODE1, whatever is written, leave the rest of the chip.     *)
LEMMA FlagsWritten ==
  ASSUME NEW flags, flags \subseteq P!AllFlags, NEW prescale \in Byte, chip \in PwmChip,
         chip' = [chip EXCEPT !.prescale = prescale, !.mode1 = flags]
  PROVE  chip' \in PwmChip /\ chip'.dir = chip.dir /\ chip'.led = chip.led /\ chip'.prescale = prescale
BY DEF PwmChip, FlagSets

LEMMA FrequencySet ==
  ASSUME NEW f \in Frequencies, NEW bad \in Nat, PwmInv, P!SetFrequency(f, bad)
  PROVE  PwmInv'
<1> DEFINE old == IF bad = 1 THEN P!AllFlags ELSE chip.mode1
<1> DEFINE asleep == IF bad = 2 THEN chip.mode1 ELSE (old \ {"restart"}) \cup {"sleep"}
<1> DEFINE back == IF bad = 4 THEN asleep ELSE old
<1> DEFINE flags == IF bad = 5 THEN back ELSE old \cup P!Default
<1> DEFINE prescale == IF bad = 3 THEN chip.prescale ELSE P!Prescaled(f)
<1>1. f \in Int /\ f > 0 /\ f <= 4571
  BY PwmAssumption, FaultsAssumption
<1>2. chip \in PwmChip /\ driver \in PwmDriver /\ report \in PwmHistory
  BY DEF PwmInv, PwmTypes
<1>3. flags \subseteq P!AllFlags
  <2>1. chip.mode1 \subseteq P!AllFlags
    BY <1>2 DEF PwmChip, FlagSets
  <2>2. "sleep" \in P!AllFlags /\ P!Default \subseteq P!AllFlags
    BY DEF P!AllFlags
  <2> QED BY <2>1, <2>2
<1>4. prescale \in Byte
  <2>1. chip.prescale \in Byte
    BY <1>2 DEF PwmChip
  <2>2. P!Prescaled(f) \in Byte
    BY <1>1, PrescaledByte
  <2> QED BY <2>1, <2>2
<1>5. chip' \in PwmChip /\ chip'.dir = chip.dir /\ chip'.led = chip.led /\ chip'.prescale = prescale
  <2>1. chip' = [chip EXCEPT !.prescale = prescale, !.mode1 = flags]
    BY DEF P!SetFrequency
  <2> HIDE DEF prescale, flags
  <2> QED BY <1>2, <1>3, <1>4, <2>1, FlagsWritten
<1>6. /\ driver' \in PwmDriver /\ driver'.dir = driver.dir /\ driver'.min = driver.min /\ driver'.max = driver.max
      /\ driver'.frequency = f
  <2>1. driver' = [driver EXCEPT !.frequency = f]
    BY DEF P!SetFrequency
  <2> QED BY <1>1, <1>2, <2>1 DEF PwmDriver
<1>7. /\ report' \in PwmHistory /\ report'.asked = report.asked /\ report'.calibrated = report.calibrated
      /\ report'.bad \cap P!Channels = report.bad \cap P!Channels
      /\ "chip" \notin report'.bad => bad = 0
  <2>1. P!Transfers(bad, {"chip"})
    BY DEF P!SetFrequency
  <2> QED BY <1>2, <2>1, Transferred
<1>8. PwmTypes' /\ PwmControl' /\ AskedInRange'
  BY <1>5, <1>6, <1>7 DEF PwmInv, PwmTypes, PwmControl, AskedInRange
<1>9. P!PwmAgrees'
  <2>1. \A c \in P!Channels : c \notin report'.bad => c \notin report.bad
    BY <1>7
  <2>2. \A c \in P!Channels : c \notin report'.bad => P!Off(c)' = P!Counts(report'.asked[c])
    BY <1>5, <1>7, <2>1 DEF PwmInv, P!PwmAgrees, P!Off
  <2>3. "chip" \notin report'.bad /\ f >= 27 => f \in P!Frequency(prescale + 1)..P!Frequency(prescale - 1) + 1
    <3> SUFFICES ASSUME "chip" \notin report'.bad, f >= 27
                 PROVE  f \in P!Frequency(prescale + 1)..P!Frequency(prescale - 1) + 1
      OBVIOUS
    <3>1. prescale = P!Prescaled(f)
      BY <1>7
    <3> HIDE DEF prescale
    <3> QED BY <1>1, <3>1, FrequencyInRange
  <2> HIDE DEF prescale
  <2> QED BY <1>5, <1>6, <2>2, <2>3 DEF P!PwmAgrees
<1> QED BY <1>8, <1>9 DEF PwmInv

LEMMA Slept ==
  ASSUME NEW bad \in Nat, NEW flags, flags \subseteq P!AllFlags, PwmInv,
         chip' = [chip EXCEPT !.mode1 = flags], P!Transfers(bad, {}), UNCHANGED driver
  PROVE  PwmInv'
<1>1. chip \in PwmChip /\ report \in PwmHistory
  BY DEF PwmInv, PwmTypes
<1>2. chip' \in PwmChip /\ chip'.dir = chip.dir /\ chip'.led = chip.led /\ chip'.prescale = chip.prescale
  BY <1>1 DEF PwmChip, FlagSets
<1>3. /\ report' \in PwmHistory /\ report'.asked = report.asked /\ report'.calibrated = report.calibrated
      /\ report'.bad \cap P!Channels = report.bad \cap P!Channels
      /\ "chip" \in report'.bad <=> "chip" \in report.bad
  BY <1>1, Transferred
<1>4. PwmTypes' /\ PwmControl' /\ AskedInRange'
  BY <1>2, <1>3 DEF PwmInv, PwmTypes, PwmControl, AskedInRange
<1>5. P!PwmAgrees'
  <2>1. \A c \in P!Channels : c \notin report'.bad => c \notin report.bad
    BY <1>3
  <2>2. \A c \in P!Channels : c \notin report'.bad => P!Off(c)' = P!Counts(report'.asked[c])
    BY <1>2, <1>3, <2>1 DEF PwmInv, P!PwmAgrees, P!Off
  <2> QED BY <1>2, <1>3, <2>2 DEF PwmInv, P!PwmAgrees
<1> QED BY <1>4, <1>5 DEF PwmInv

LEMMA PwmStep ==
  ASSUME PwmInv, P!PwmNext
  PROVE  PwmInv'
<1>1. ASSUME NEW d \in 0..1, P!SetDirection(d)
      PROVE  PwmInv'
  <2>1. d \in {0, 1}
    BY <1>1
  <2> QED BY <1>1, <2>1, DirectionSet
<1>2. ASSUME NEW d \in Duties, P!Calibrate(d)
      PROVE  PwmInv'
  BY <1>2, Calibrated
<1>3. ASSUME NEW bad \in 0..4, P!StopMotor(bad)
      PROVE  PwmInv'
  <2>1. bad \in Places /\ P!SetPowerLevel(0, bad)
    BY <1>3 DEF Places, P!StopMotor
  <2> QED BY <2>1, LevelSet
<1>4. ASSUME NEW bad \in 0..4, P!StopServo(bad)
      PROVE  PwmInv'
  <2>1. bad \in Places /\ P!WritePWM("servo", 0, bad) /\ UNCHANGED driver /\ "servo" \in P!Channels
    BY <1>4 DEF Places, P!StopServo, P!Channels
  <2> QED BY <2>1, DutyWritten
<1>5. ASSUME NEW bad \in 0..4, NEW level \in Levels, P!SetPowerLevel(level, bad)
      PROVE  PwmInv'
  <2>1. bad \in Places /\ level \in Int
    BY PwmAssumption, FaultsAssumption DEF Places
  <2> QED BY <1>5, <2>1, LevelSet
<1>6. ASSUME NEW bad \in 0..4, NEW angle \in Angles, P!SetAngle(angle, bad)
      PROVE  PwmInv'
  <2>1. bad \in Places
    BY DEF Places
  <2> QED BY <1>6, <2>1, AngleSet
<1>7. ASSUME NEW bad \in 0..5, NEW f \in Frequencies, P!SetFrequency(f, bad)
      PROVE  PwmInv'
  <2>1. bad \in Nat
    OBVIOUS
  <2> QED BY <1>7, <2>1, FrequencySet
<1>8. ASSUME NEW bad \in 0..2, P!Sleep(bad)
      PROVE  PwmInv'
  <2> DEFINE flags == CASE bad = 1 -> P!AllFlags [] bad = 2 -> chip.mode1 [] OTHER -> chip.mode1 \cup {"sleep"}
  <2>1. flags \subseteq P!AllFlags
    <3>1. chip.mode1 \subseteq P!AllFlags
      BY DEF PwmInv, PwmTypes, PwmChip, FlagSets
    <3>2. "sleep" \in P!AllFlags
      BY DEF P!AllFlags
    <3> QED BY <3>1, <3>2
  <2>2. chip' = [chip EXCEPT !.mode1 = flags] /\ P!Transfers(bad, {}) /\ UNCHANGED driver
    BY <1>8 DEF P!Sleep
  <2>3. bad \in Nat
    OBVIOUS
  <2> HIDE DEF flags
  <2> QED BY <2>1, <2>2, <2>3, Slept
<1>9. ASSUME NEW bad \in 0..1, P!Wakeup(bad)
      PROVE  PwmInv'
  <2> DEFINE flags == IF bad = 1 THEN chip.mode1 ELSE P!Default
  <2>1. flags \subseteq P!AllFlags
    BY DEF PwmInv, PwmTypes, PwmChip, FlagSets, P!AllFlags
  <2>2. chip' = [chip EXCEPT !.mode1 = flags] /\ P!Transfers(bad, {}) /\ UNCHANGED driver
    BY <1>9 DEF P!Wakeup
  <2>3. bad \in Nat
    OBVIOUS
  <2> HIDE DEF flags
  <2> QED BY <2>1, <2>2, <2>3, Slept
<1> QED BY <1>1, <1>2, <1>3, <1>4, <1>5, <1>6, <1>7, <1>8, <1>9 DEF P!PwmNext

LEMMA CountsMonotonic ==
  ASSUME NEW low \in Int, NEW high \in Int, low <= high
  PROVE  P!Counts(low) \in Int /\ P!Counts(high) \in Int /\ P!Counts(low) <= P!Counts(high)
BY DEF P!Counts

LEMMA PwmHolds ==
  ASSUME PwmInv
  PROVE  P!PwmTypeOK /\ P!PwmAgrees /\ P!ServoInRange
<1>1. chip.mode1 \subseteq P!AllFlags /\ chip.prescale \in 0..255 /\ chip.led \in [P!Channels -> [0..3 -> 0..255]]
  BY DEF PwmInv, PwmTypes, PwmChip, FlagSets, Byte, Leds, Quads
<1>2. report.faults \in 0..MaxFaults
  BY DEF PwmInv, PwmTypes, PwmHistory, FaultCounts
<1>3. P!PwmTypeOK
  BY ONLY PwmInv, <1>1, <1>2 DEF PwmInv, PwmControl, P!PwmTypeOK
<1>4. P!ServoInRange
  <2> SUFFICES ASSUME "servo" \notin report.bad, ~report.calibrated
               PROVE  P!Off("servo") = 0 \/ P!Off("servo") \in P!Counts(driver.min)..P!Counts(driver.max)
    BY DEF P!ServoInRange
  <2>1. PICK asked \in Int : asked = report.asked["servo"]
    BY DEF PwmInv, PwmTypes, PwmHistory, AskedDuties, PerMille, P!Channels
  <2>2. P!Off("servo") = P!Counts(asked)
    BY <2>1 DEF PwmInv, P!PwmAgrees, P!Channels
  <2>3. driver.min \in Int /\ driver.max \in Int
    BY DEF PwmInv, PwmTypes, PwmDriver
  <2>4. asked = 0 \/ (driver.min <= asked /\ asked <= driver.max)
    BY <2>1, <2>3 DEF PwmInv, AskedInRange
  <2>5. CASE asked = 0
    BY <2>2, <2>5 DEF P!Counts
  <2>6. CASE driver.min <= asked /\ asked <= driver.max
    <3>1. /\ P!Counts(driver.min) \in Int /\ P!Counts(driver.max) \in Int /\ P!Counts(asked) \in Int
          /\ P!Counts(driver.min) <= P!Counts(asked) /\ P!Counts(asked) <= P!Counts(driver.max)
      BY <2>1, <2>3, <2>6, CountsMonotonic
    <3> QED BY <2>2, <3>1
  <2> QED BY <2>4, <2>5, <2>6
<1> QED BY <1>3, <1>4 DEF PwmInv

-----------------------------------------------------------------------------
(* the configuration of the robot (Configuration)                           *)

RobotNames == {e.name : e \in ProviderEntries} \cup {e.name : e \in ItemEntries}
InOrder(n) == \E i \in DOMAIN Order : Order[i] = n
LinkTypes == {"LED", "BUTTON", "DRV8835", "DCMotor", "AnlgDgtConvertor", "ULN2003Stepper", "BLINKER", "LCD"}
LinkPairs == RobotNames \X LinkTypes
Users == Seq(RobotNames)
Read == Seq(ItemEntries)

RobotShape(r) ==
  r = [providers |-> r.providers, gpios |-> r.gpios, low |-> r.low, items |-> r.items, links |-> r.links, users |-> r.users]

Pinned(gpios, low) ==
  /\ \A g \in DOMAIN gpios : gpios[g] \in DOMAIN low /\ low[gpios[g]] = g
  /\ \A l \in DOMAIN low : low[l] \in DOMAIN gpios /\ gpios[low[l]] = l /\ l = C!Low(l[1], l[2])

Linked(links, g, n, type) == g \in DOMAIN links /\ \E k \in DOMAIN links[g] : links[g][k] = <<n, type>>

ItemFits(n, item, gpios, links, users) ==
  /\ item = [type |-> item.type, gpios |-> item.gpios, strips |-> item.strips, on |-> item.on]
  /\ InOrder(n)
  /\ item.type \notin C!Meters =>
       \A i \in DOMAIN item.gpios : item.gpios[i] \in DOMAIN gpios /\ Linked(links, item.gpios[i], n, item.type)
  /\ item.type = "BUTTON" => 1 \in DOMAIN item.gpios
  /\ item.type \in C!OnBus => \E i \in DOMAIN users : users[i] = n

Stems(g, link, entries) ==
  \E i \in DOMAIN entries :
    /\ entries[i].name = link[1] /\ C!TypeByName(entries[i].type) = link[2]
    /\ \E m \in DOMAIN entries[i].gpios : entries[i].gpios[m].name = g

LinkFits(g, link, items, entries) == link[1] \in DOMAIN items /\ Stems(g, link, entries)

ItemsFit(items, gpios, links, users) == \A n \in DOMAIN items : ItemFits(n, items[n], gpios, links, users)
LinksFit(links, items, entries) ==
  \A g \in DOMAIN links : links[g] \in Seq(LinkPairs) /\ \A k \in DOMAIN links[g] : LinkFits(g, links[g][k], items, entries)

Parts(r, entries) ==
  /\ RobotShape(r) /\ Pinned(r.gpios, r.low) /\ r.users \in Users
  /\ ItemsFit(r.items, r.gpios, r.links, r.users) /\ LinksFit(r.links, r.items, entries)

OnceIn(entries, name) == \E i \in DOMAIN entries : \A j \in DOMAIN entries : entries[j].name = name <=> j = i
MadeAs(items, e) ==
  C!TypeByName(e.type) \in C!Made \/ (C!TypeByName(e.type) = "LCD" /\ e.bits = 4) =>
    e.name \in DOMAIN items /\ items[e.name].type = C!TypeByName(e.type) /\ items[e.name].gpios = C!GpioNames(e)
NotUnknown(e) == C!TypeByName(e.type) # "UNKNOWN"
AllMade(items, entries) ==
  \A i \in DOMAIN entries : NotUnknown(entries[i]) /\ (OnceIn(entries, entries[i].name) => MadeAs(items, entries[i]))

OnAsFar(items, stage, read) ==
  /\ stage = "starting" => \A i \in DOMAIN Order : i <= read /\ Order[i] \in DOMAIN items => items[Order[i]].on
  /\ stage = "stopping" => \A i \in DOMAIN Order : i <= read /\ Order[i] \in DOMAIN items => ~items[Order[i]].on
  /\ stage = "running" => \A n \in DOMAIN items : items[n].on
  /\ stage = "stopped" => \A n \in DOMAIN items : ~items[n].on

RobotStages ==
  {"new", "failed", "providers", "gpios", "items", "configured", "starting", "running", "idle", "stopping", "stopped"}
RobotTasks == [stage : RobotStages, read : Nat]
RobotHistory == [result : BOOLEAN, told : {<<>>}, entries : Read]

RobotControl ==
  /\ report.result => task.stage # "failed"
  /\ task.stage \in {"new", "providers"} => C!CE0 \in DOMAIN driver.gpios \/ DOMAIN driver.gpios = {}
  /\ task.stage # "failed" => AllMade(driver.items, report.entries)
  /\ OnAsFar(driver.items, task.stage, task.read)

RobotInv == task \in RobotTasks /\ report \in RobotHistory /\ Parts(driver, report.entries) /\ RobotControl
-----------------------------------------------------------------------------
LEMMA PutIs ==
  ASSUME NEW map, NEW key, NEW value
  PROVE  /\ DOMAIN C!Put(map, key, value) = DOMAIN map \cup {key}
         /\ C!Put(map, key, value)[key] = value
         /\ \A k \in DOMAIN map : k # key => C!Put(map, key, value)[k] = map[k]
BY DEF C!Put

LEMMA TypeNames ==
  \A i \in 1..23 :
    \/ C!ItemTypes[i] = C!ItemNames[i] /\ C!ItemTypes[i] \in C!Made \cup {"LCD", "UNKNOWN"} \cup C!NotMade
    \/ C!ItemNames[i] \in C!Misnamed
<1> DEFINE Same(i) ==
      \/ C!ItemTypes[i] = C!ItemNames[i] /\ C!ItemTypes[i] \in C!Made \cup {"LCD", "UNKNOWN"} \cup C!NotMade
      \/ C!ItemNames[i] \in C!Misnamed
<1> USE DEF C!Made, C!OneGpio, C!OnBus, C!Meters, C!NotMade, C!Misnamed
<1>1. Same(1) /\ Same(2) /\ Same(3) /\ Same(4) /\ Same(5) /\ Same(6)
  BY DEF C!ItemTypes, C!ItemNames
<1>2. Same(7) /\ Same(8) /\ Same(9) /\ Same(10) /\ Same(11) /\ Same(12)
  BY DEF C!ItemTypes, C!ItemNames
<1>3. Same(13) /\ Same(14) /\ Same(15) /\ Same(16) /\ Same(17) /\ Same(18) /\ Same(19)
  BY DEF C!ItemTypes, C!ItemNames
<1>4. Same(20) /\ Same(21) /\ Same(22) /\ Same(23)
  BY DEF C!ItemTypes, C!ItemNames
<1>5. \A i \in 1..23 : Same(i)
  <2> HIDE DEF Same
  <2> QED BY <1>1, <1>2, <1>3, <1>4
<1> QED BY <1>5

LEMMA TypeIs ==
  ASSUME NEW name
  PROVE  \/ C!TypeByName(name) = "UNKNOWN" \/ name \in C!Misnamed
         \/ C!TypeByName(name) = name /\ name \in C!Made \cup {"LCD"} \cup C!NotMade
<1> DEFINE at == {i \in DOMAIN C!ItemTypes : C!ItemNames[i] = name}
<1>1. DOMAIN C!ItemTypes = 1..23
  BY DEF C!ItemTypes
<1>2. CASE at = {}
  BY <1>2 DEF C!TypeByName
<1>3. CASE at # {}
  <2>1. PICK i \in at : i = CHOOSE j \in at : TRUE
    BY <1>3
  <2>2. C!TypeByName(name) = C!ItemTypes[i] /\ C!ItemNames[i] = name /\ i \in 1..23
    BY <1>1, <1>3, <2>1 DEF C!TypeByName
  <2> QED BY <2>2, TypeNames
<1> QED BY <1>2, <1>3

LEMMA RobotInit ==
  ASSUME C!RobotInit
  PROVE  RobotInv
<1>1. /\ driver = [providers |-> <<>>, gpios |-> <<>>, low |-> <<>>, items |-> <<>>, links |-> <<>>, users |-> <<>>]
      /\ task = [stage |-> "new", read |-> 0] /\ report = [result |-> FALSE, told |-> <<>>, entries |-> <<>>]
  BY DEF C!RobotInit
<1>2. <<>> \in Users /\ <<>> \in Read /\ DOMAIN <<>> = {}
  BY DEF Users, Read
<1>3. task \in RobotTasks /\ report \in RobotHistory
  BY <1>1, <1>2 DEF RobotTasks, RobotStages, RobotHistory
<1>4. Parts(driver, report.entries)
  BY <1>1, <1>2 DEF Parts, RobotShape, Pinned, ItemsFit, LinksFit
<1>5. RobotControl
  BY <1>1, <1>2 DEF RobotControl, AllMade, OnAsFar
<1> QED BY <1>3, <1>4, <1>5 DEF RobotInv

LEMMA RobotWith ==
  ASSUME NEW r, RobotShape(r)
  PROVE  \A x, y :
    /\ [r EXCEPT !.providers = x] =
         [providers |-> x, gpios |-> r.gpios, low |-> r.low, items |-> r.items, links |-> r.links, users |-> r.users]
    /\ [r EXCEPT !.gpios = x, !.low = y] =
         [providers |-> r.providers, gpios |-> x, low |-> y, items |-> r.items, links |-> r.links, users |-> r.users]
    /\ [r EXCEPT !.items = x] =
         [providers |-> r.providers, gpios |-> r.gpios, low |-> r.low, items |-> x, links |-> r.links, users |-> r.users]
    /\ [r EXCEPT !.links = x] =
         [providers |-> r.providers, gpios |-> r.gpios, low |-> r.low, items |-> r.items, links |-> x, users |-> r.users]
    /\ [r EXCEPT !.users = x] =
         [providers |-> r.providers, gpios |-> r.gpios, low |-> r.low, items |-> r.items, links |-> r.links, users |-> x]
<1>1. PICK a, b, c, d, e, f : r = [providers |-> a, gpios |-> b, low |-> c, items |-> d, links |-> e, users |-> f]
  BY DEF RobotShape
<1>2. r.providers = a /\ r.gpios = b /\ r.low = c /\ r.items = d /\ r.links = e /\ r.users = f
  BY <1>1
<1> TAKE x, y
<1>3. [r EXCEPT !.providers = x] = [providers |-> x, gpios |-> b, low |-> c, items |-> d, links |-> e, users |-> f]
  BY <1>1
<1>4. [r EXCEPT !.gpios = x, !.low = y] = [providers |-> a, gpios |-> x, low |-> y, items |-> d, links |-> e, users |-> f]
  <2>1. PICK m : m = [r EXCEPT !.gpios = x]
    OBVIOUS
  <2>2. m = [providers |-> a, gpios |-> x, low |-> c, items |-> d, links |-> e, users |-> f]
    BY <1>1, <2>1
  <2>3. [m EXCEPT !.low = y] = [providers |-> a, gpios |-> x, low |-> y, items |-> d, links |-> e, users |-> f]
    BY <2>2
  <2>4. [r EXCEPT !.gpios = x, !.low = y] = [m EXCEPT !.low = y]
    BY <2>1
  <2> QED BY <2>3, <2>4
<1>5. [r EXCEPT !.items = x] = [providers |-> a, gpios |-> b, low |-> c, items |-> x, links |-> e, users |-> f]
  BY <1>1
<1>6. [r EXCEPT !.links = x] = [providers |-> a, gpios |-> b, low |-> c, items |-> d, links |-> x, users |-> f]
  BY <1>1
<1>7. [r EXCEPT !.users = x] = [providers |-> a, gpios |-> b, low |-> c, items |-> d, links |-> e, users |-> x]
  BY <1>1
<1> QED BY <1>2, <1>3, <1>4, <1>5, <1>6, <1>7

LEMMA EntriesGrow ==
  ASSUME NEW links, NEW items, NEW entries \in Read, NEW e \in ItemEntries, LinksFit(links, items, entries)
  PROVE  Append(entries, e) \in Read /\ LinksFit(links, items, Append(entries, e))
<1>1. /\ Append(entries, e) \in Read /\ DOMAIN entries \subseteq DOMAIN Append(entries, e)
      /\ \A i \in DOMAIN entries : Append(entries, e)[i] = entries[i]
  BY DEF Read
<1>2. \A g, link : Stems(g, link, entries) => Stems(g, link, Append(entries, e))
  BY <1>1 DEF Stems
<1> QED BY <1>1, <1>2 DEF LinksFit, LinkFits

LEMMA UsersGrow ==
  ASSUME NEW users \in Users, NEW name \in RobotNames
  PROVE  /\ Append(users, name) \in Users
         /\ \E i \in DOMAIN Append(users, name) : Append(users, name)[i] = name
         /\ \A n : (\E i \in DOMAIN users : users[i] = n) => \E i \in DOMAIN Append(users, name) : Append(users, name)[i] = n
<1>1. /\ Append(users, name) \in Users /\ DOMAIN users \subseteq DOMAIN Append(users, name)
      /\ \A i \in DOMAIN users : Append(users, name)[i] = users[i]
      /\ Len(users) + 1 \in DOMAIN Append(users, name) /\ Append(users, name)[Len(users) + 1] = name
  BY DEF Users
<1> QED BY <1>1

LEMMA WithUserKeeps ==
  ASSUME NEW r, NEW entries, Parts(r, entries), NEW name \in RobotNames
  PROVE  /\ Parts(C!WithUser(r, name), entries)
         /\ C!WithUser(r, name).items = r.items /\ C!WithUser(r, name).gpios = r.gpios
<1>1. PICK users \in Users : users = Append(r.users, name)
  BY UsersGrow DEF Parts
<1>4. RobotShape(r)
  BY DEF Parts
<1>2. C!WithUser(r, name) = [providers |-> r.providers, gpios |-> r.gpios, low |-> r.low, items |-> r.items,
                             links |-> r.links, users |-> users]
  BY <1>1, <1>4, RobotWith DEF C!WithUser
<1>3. ItemsFit(r.items, r.gpios, r.links, users)
  <2>1. \A n : (\E i \in DOMAIN r.users : r.users[i] = n) => \E i \in DOMAIN users : users[i] = n
    <3>1. r.users \in Users
      BY DEF Parts
    <3>2. \A n : (\E i \in DOMAIN r.users : r.users[i] = n) =>
                   \E i \in DOMAIN Append(r.users, name) : Append(r.users, name)[i] = n
      BY ONLY <3>1, name \in RobotNames, UsersGrow
    <3> QED BY <3>2, <1>1
  <2>2. ItemsFit(r.items, r.gpios, r.links, r.users)
    BY DEF Parts
  <2> QED BY <2>1, <2>2 DEF ItemsFit, ItemFits
<1> QED BY <1>2, <1>3 DEF Parts, RobotShape

LEMMA WithProviderKeeps ==
  ASSUME NEW r, NEW entries, Parts(r, entries), NEW name, NEW type, NEW pins
  PROVE  /\ Parts(C!WithProvider(r, name, type, pins), entries)
         /\ C!WithProvider(r, name, type, pins).items = r.items /\ C!WithProvider(r, name, type, pins).gpios = r.gpios
<1>1. PICK p : p = C!Put(r.providers, name, [type |-> type, pins |-> pins])
  OBVIOUS
<1>2. C!WithProvider(r, name, type, pins) =
        [providers |-> p, gpios |-> r.gpios, low |-> r.low, items |-> r.items, links |-> r.links, users |-> r.users]
  <2>1. RobotShape(r)
    BY DEF Parts
  <2> QED BY <1>1, <2>1, RobotWith DEF C!WithProvider
<1> QED BY <1>2 DEF Parts, RobotShape

LEMMA PinnedPut ==
  ASSUME NEW gpios, NEW low, Pinned(gpios, low), NEW name, NEW provider, NEW pin,
         name \notin DOMAIN gpios, C!Low(provider, pin) \notin DOMAIN low
  PROVE  Pinned(C!Put(gpios, name, C!Low(provider, pin)), C!Put(low, C!Low(provider, pin), name))
<1>1. PICK l : l = C!Low(provider, pin) /\ l = C!Low(l[1], l[2])
  BY DEF C!Low
<1> DEFINE gs == C!Put(gpios, name, l)
           ls == C!Put(low, l, name)
<1>2. DOMAIN gs = DOMAIN gpios \cup {name} /\ gs[name] = l /\ \A k \in DOMAIN gpios : k # name => gs[k] = gpios[k]
  BY DEF C!Put
<1>3. DOMAIN ls = DOMAIN low \cup {l} /\ ls[l] = name /\ \A k \in DOMAIN low : k # l => ls[k] = low[k]
  BY DEF C!Put
<1>4. Pinned(gs, ls)
  <2> HIDE DEF gs, ls
  <2> QED BY <1>1, <1>2, <1>3 DEF Pinned
<1> QED BY <1>1, <1>4

LEMMA WithGpioKeeps ==
  ASSUME NEW r, NEW entries, Parts(r, entries), NEW name, NEW provider, NEW pin,
         name \notin DOMAIN r.gpios, C!Low(provider, pin) \notin DOMAIN r.low
  PROVE  /\ Parts(C!WithGpio(r, name, provider, pin), entries)
         /\ C!WithGpio(r, name, provider, pin).items = r.items
         /\ DOMAIN C!WithGpio(r, name, provider, pin).gpios = DOMAIN r.gpios \cup {name}
         /\ DOMAIN C!WithGpio(r, name, provider, pin).low = DOMAIN r.low \cup {C!Low(provider, pin)}
<1> DEFINE gs == C!Put(r.gpios, name, C!Low(provider, pin))
           ls == C!Put(r.low, C!Low(provider, pin), name)
<1>1. DOMAIN gs = DOMAIN r.gpios \cup {name} /\ DOMAIN ls = DOMAIN r.low \cup {C!Low(provider, pin)}
  BY DEF C!Put
<1>2. RobotShape(r) /\ Pinned(r.gpios, r.low) /\ ItemsFit(r.items, r.gpios, r.links, r.users)
  BY DEF Parts
<1>3. C!WithGpio(r, name, provider, pin) =
        [providers |-> r.providers, gpios |-> gs, low |-> ls, items |-> r.items, links |-> r.links, users |-> r.users]
  BY <1>2, RobotWith DEF C!WithGpio
<1>4. Pinned(gs, ls)
  BY <1>2, PinnedPut
<1>5. ItemsFit(r.items, gs, r.links, r.users)
  <2> HIDE DEF gs, ls
  <2> QED BY <1>1, <1>2 DEF ItemsFit, ItemFits
<1> HIDE DEF gs, ls
<1> QED BY <1>1, <1>3, <1>4, <1>5 DEF Parts, RobotShape
-----------------------------------------------------------------------------

LEMMA ItemPlaced ==
  ASSUME NEW r, NEW entries, NEW more, Parts(r, entries), NEW name, NEW item, NEW links, NEW users \in Users, NEW items,
         items = C!Put(r.items, name, item), ItemFits(name, item, r.gpios, links, users),
         \A g, n, type : Linked(r.links, g, n, type) => Linked(links, g, n, type),
         \A n : (\E i \in DOMAIN r.users : r.users[i] = n) => \E i \in DOMAIN users : users[i] = n,
         LinksFit(links, items, more)
  PROVE  Parts([providers |-> r.providers, gpios |-> r.gpios, low |-> r.low, items |-> items, links |-> links, users |-> users],
               more)
<1>1. DOMAIN items = DOMAIN r.items \cup {name} /\ items[name] = item /\ \A k \in DOMAIN r.items : k # name => items[k] = r.items[k]
  BY DEF C!Put
<1>2. ItemsFit(r.items, r.gpios, r.links, r.users) /\ Pinned(r.gpios, r.low)
  BY DEF Parts
<1>3. \A n, it : ItemFits(n, it, r.gpios, r.links, r.users) => ItemFits(n, it, r.gpios, links, users)
  BY DEF ItemFits
<1>4. ItemsFit(items, r.gpios, links, users)
  BY <1>1, <1>2, <1>3 DEF ItemsFit
<1> QED BY <1>2, <1>4 DEF Parts, RobotShape

LEMMA LinksOfMore ==
  ASSUME NEW links, NEW items, NEW entries, NEW name, NEW item, LinksFit(links, items, entries)
  PROVE  LinksFit(links, C!Put(items, name, item), entries)
<1>1. DOMAIN items \subseteq DOMAIN C!Put(items, name, item)
  BY DEF C!Put
<1> QED BY <1>1 DEF LinksFit, LinkFits

NewItem(type, e, strips) == [type |-> type, gpios |-> C!GpioNames(e), strips |-> strips, on |-> FALSE]
RobotIs(r, items, links, users) ==
  [providers |-> r.providers, gpios |-> r.gpios, low |-> r.low, items |-> items, links |-> links, users |-> users]

LEMMA WithItemIs ==
  ASSUME NEW r, NEW entries, Parts(r, entries), NEW type, NEW e
  PROVE  C!WithItem(r, type, e) = RobotIs(r, C!Put(r.items, e.name, NewItem(type, e, 0)), r.links, r.users)
<1>1. RobotShape(r)
  BY DEF Parts
<1>2. PICK items : items = C!Put(r.items, e.name, NewItem(type, e, 0))
  OBVIOUS
<1>3. C!WithItem(r, type, e) = [r EXCEPT !.items = items]
  BY <1>2 DEF C!WithItem, NewItem
<1> QED BY <1>1, <1>2, <1>3, RobotWith DEF RobotIs

LEMMA ItemShape ==
  ASSUME NEW type, NEW e, NEW strips
  PROVE  /\ NewItem(type, e, strips).type = type /\ NewItem(type, e, strips).gpios = C!GpioNames(e)
         /\ DOMAIN C!GpioNames(e) = DOMAIN e.gpios /\ \A i \in DOMAIN e.gpios : C!GpioNames(e)[i] = e.gpios[i].name
         /\ NewItem(type, e, strips) = [type |-> NewItem(type, e, strips).type, gpios |-> NewItem(type, e, strips).gpios,
                                        strips |-> NewItem(type, e, strips).strips, on |-> NewItem(type, e, strips).on]
BY DEF NewItem, C!GpioNames

(* An item whose GPIOs are looked at nowhere.                               *)
LEMMA UnlinkedMade ==
  ASSUME NEW r, NEW entries, Parts(r, entries), NEW e \in ItemEntries, NEW type, NEW strips, NEW users \in Users,
         type \in C!Meters \/ DOMAIN e.gpios = {}, type # "BUTTON",
         type \in C!OnBus => \E i \in DOMAIN users : users[i] = e.name,
         \A n : (\E i \in DOMAIN r.users : r.users[i] = n) => \E i \in DOMAIN users : users[i] = n
  PROVE  Parts(RobotIs(r, C!Put(r.items, e.name, NewItem(type, e, strips)), r.links, users), entries)
<1>1. ItemFits(e.name, NewItem(type, e, strips), r.gpios, r.links, users)
  <2>1. InOrder(e.name)
    BY RobotAssumption DEF InOrder
  <2> QED BY <2>1, ItemShape DEF ItemFits
<1>2. LinksFit(r.links, r.items, entries)
  BY DEF Parts
<1>3. LinksFit(r.links, C!Put(r.items, e.name, NewItem(type, e, strips)), entries)
  BY <1>2, LinksOfMore
<1> DEFINE items == C!Put(r.items, e.name, NewItem(type, e, strips))
<1>4. items = C!Put(r.items, e.name, NewItem(type, e, strips))
  OBVIOUS
<1>5. Parts([providers |-> r.providers, gpios |-> r.gpios, low |-> r.low, items |-> items, links |-> r.links, users |-> users],
            entries)
  <2> HIDE DEF items
  <2> QED BY <1>1, <1>3, <1>4, ItemPlaced
<1> QED BY <1>5 DEF RobotIs

LEMMA OneMore ==
  ASSUME NEW Values, NEW s \in Seq(Values), NEW x \in Values
  PROVE  /\ s \o <<x>> \in Seq(Values) /\ s \o <<>> = s
         /\ DOMAIN s \subseteq DOMAIN (s \o <<x>>) /\ \A k \in DOMAIN s : (s \o <<x>>)[k] = s[k]
         /\ Len(s) + 1 \in DOMAIN (s \o <<x>>) /\ (s \o <<x>>)[Len(s) + 1] = x
         /\ \A k \in DOMAIN (s \o <<x>>) : k \in DOMAIN s \/ (s \o <<x>>)[k] = x
OBVIOUS

Used(e) == {e.gpios[i].name : i \in DOMAIN e.gpios}
OldLinks(links, g) == IF g \in DOMAIN links THEN links[g] ELSE <<>>
MoreLinks(links, type, e) ==
  [g \in DOMAIN links \cup Used(e) |-> OldLinks(links, g) \o (IF g \in Used(e) THEN <<<<e.name, type>>>> ELSE <<>>)]

LEMMA WithLinksIs ==
  ASSUME NEW r, NEW entries, Parts(r, entries), NEW type, NEW e
  PROVE  C!WithLinks(C!WithItem(r, type, e), type, e) =
           RobotIs(r, C!Put(r.items, e.name, NewItem(type, e, 0)), MoreLinks(r.links, type, e), r.users)
<1>1. PICK items : items = C!Put(r.items, e.name, NewItem(type, e, 0))
  OBVIOUS
<1>2. PICK q : q = C!WithItem(r, type, e)
  OBVIOUS
<1>3. q = [providers |-> r.providers, gpios |-> r.gpios, low |-> r.low, items |-> items, links |-> r.links, users |-> r.users]
  BY <1>1, <1>2, WithItemIs DEF RobotIs
<1>4. PICK links : links = MoreLinks(r.links, type, e)
  OBVIOUS
<1>5. RobotShape(q) /\ q.links = r.links
  BY <1>3 DEF RobotShape
<1>6. C!WithLinks(q, type, e) = [q EXCEPT !.links = links]
  BY <1>4, <1>5 DEF C!WithLinks, C!LinksOf, MoreLinks, OldLinks, Used
<1>7. C!WithLinks(q, type, e) =
        [providers |-> q.providers, gpios |-> q.gpios, low |-> q.low, items |-> q.items, links |-> links, users |-> q.users]
  BY <1>5, <1>6, RobotWith
<1> QED BY <1>1, <1>2, <1>3, <1>4, <1>7 DEF RobotIs

LEMMA MoreLinksFit ==
  ASSUME NEW links, NEW items, NEW entries \in Read, LinksFit(links, items, entries), NEW e \in ItemEntries,
         NEW type \in LinkTypes, type = C!TypeByName(e.type), NEW more, e.name \in DOMAIN more, DOMAIN items \subseteq DOMAIN more
  PROVE  /\ LinksFit(MoreLinks(links, type, e), more, Append(entries, e))
         /\ \A g, n, t : Linked(links, g, n, t) => Linked(MoreLinks(links, type, e), g, n, t)
         /\ \A g \in Used(e) : Linked(MoreLinks(links, type, e), g, e.name, type)
<1>1. PICK pair \in LinkPairs : pair = <<e.name, type>> /\ pair[1] = e.name /\ pair[2] = type
  <2>1. e.name \in RobotNames
    BY DEF RobotNames
  <2>2. <<e.name, type>> \in LinkPairs
    BY <2>1 DEF LinkPairs
  <2> QED BY <2>2
<1> DEFINE new == MoreLinks(links, type, e)
<1>2. LinksFit(links, items, Append(entries, e))
  BY EntriesGrow
<1>3. \A g : OldLinks(links, g) \in Seq(LinkPairs) /\ (g \in DOMAIN links => OldLinks(links, g) = links[g])
             /\ \A k \in DOMAIN OldLinks(links, g) : g \in DOMAIN links
  BY DEF OldLinks, LinksFit
<1>4. DOMAIN new = DOMAIN links \cup Used(e)
  BY DEF MoreLinks
<1>5. ASSUME NEW g \in DOMAIN new \ Used(e) PROVE new[g] = links[g] /\ g \in DOMAIN links
  <2>1. new[g] = OldLinks(links, g) \o <<>>
    BY <1>4, <1>5 DEF MoreLinks
  <2>2. g \in DOMAIN links
    BY <1>4, <1>5
  <2>3. OldLinks(links, g) \in Seq(LinkPairs) /\ OldLinks(links, g) = links[g]
    BY <1>3, <2>2
  <2>4. OldLinks(links, g) \o <<>> = OldLinks(links, g)
    BY <2>3
  <2> QED BY <2>1, <2>2, <2>3, <2>4
<1>6. ASSUME NEW g \in Used(e) PROVE new[g] = OldLinks(links, g) \o <<pair>>
  BY <1>1, <1>4, <1>6 DEF MoreLinks
<1>7. ASSUME NEW g \in Used(e) PROVE Stems(g, pair, Append(entries, e))
  <2>1. Len(entries) + 1 \in DOMAIN Append(entries, e) /\ Append(entries, e)[Len(entries) + 1] = e
    BY DEF Read
  <2>2. PICK m \in DOMAIN e.gpios : e.gpios[m].name = g
    BY DEF Used
  <2> QED BY <1>1, <2>1, <2>2 DEF Stems
<1>8. ASSUME NEW g \in Used(e)
      PROVE  /\ new[g] \in Seq(LinkPairs)
             /\ \A k \in DOMAIN new[g] : LinkFits(g, new[g][k], more, Append(entries, e))
             /\ \E k \in DOMAIN new[g] : new[g][k] = pair
             /\ g \in DOMAIN links =>
                  DOMAIN links[g] \subseteq DOMAIN new[g] /\ \A k \in DOMAIN links[g] : new[g][k] = links[g][k]
  <2>1. PICK old \in Seq(LinkPairs) : old = OldLinks(links, g)
    BY <1>3
  <2>2. /\ old \o <<pair>> \in Seq(LinkPairs)
        /\ DOMAIN old \subseteq DOMAIN (old \o <<pair>>) /\ \A k \in DOMAIN old : (old \o <<pair>>)[k] = old[k]
        /\ Len(old) + 1 \in DOMAIN (old \o <<pair>>) /\ (old \o <<pair>>)[Len(old) + 1] = pair
        /\ \A k \in DOMAIN (old \o <<pair>>) : k \in DOMAIN old \/ (old \o <<pair>>)[k] = pair
    BY ONLY OneMore, <2>1, <1>1
  <2>3. new[g] = old \o <<pair>>
    BY <1>6, <2>1
  <2>4. \A k \in DOMAIN old : LinkFits(g, old[k], more, Append(entries, e))
    BY <1>2, <1>3, <2>1 DEF LinksFit, LinkFits
  <2>5. LinkFits(g, pair, more, Append(entries, e))
    BY <1>1, <1>7 DEF LinkFits
  <2> HIDE DEF new
  <2> QED BY <1>3, <2>1, <2>2, <2>3, <2>4, <2>5
<1> HIDE DEF new
<1>9. LinksFit(new, more, Append(entries, e))
  <2>1. ASSUME NEW g \in DOMAIN new \ Used(e)
        PROVE  new[g] \in Seq(LinkPairs) /\ \A k \in DOMAIN new[g] : LinkFits(g, new[g][k], more, Append(entries, e))
    BY <1>2, <1>5, <2>1 DEF LinksFit, LinkFits
  <2> QED BY <2>1, <1>8 DEF LinksFit
<1>10. ASSUME NEW g, NEW n, NEW t, Linked(links, g, n, t) PROVE Linked(new, g, n, t)
  <2>1. CASE g \in Used(e)
    BY <2>1, <1>4, <1>8, <1>10 DEF Linked
  <2>2. CASE g \notin Used(e)
    BY <2>2, <1>4, <1>5, <1>10 DEF Linked
  <2> QED BY <2>1, <2>2
<1>11. \A g \in Used(e) : Linked(new, g, e.name, type)
  BY <1>1, <1>4, <1>8 DEF Linked
<1> QED BY <1>9, <1>10, <1>11 DEF new

LEMMA LinkedMade ==
  ASSUME NEW r, NEW entries \in Read, Parts(r, entries), NEW e \in ItemEntries, NEW type \in LinkTypes,
         type = C!TypeByName(e.type), \A i \in DOMAIN e.gpios : e.gpios[i].name \in DOMAIN r.gpios,
         type = "BUTTON" => 1 \in DOMAIN e.gpios
  PROVE  Parts(RobotIs(r, C!Put(r.items, e.name, NewItem(type, e, 0)), MoreLinks(r.links, type, e), r.users), Append(entries, e))
<1>1. PICK item : item = NewItem(type, e, 0)
  OBVIOUS
<1>2. PICK items : items = C!Put(r.items, e.name, item)
  OBVIOUS
<1>3. PICK links : links = MoreLinks(r.links, type, e)
  OBVIOUS
<1>4. DOMAIN items = DOMAIN r.items \cup {e.name}
  BY <1>2 DEF C!Put
<1>5. LinksFit(r.links, r.items, entries) /\ r.users \in Users
  BY DEF Parts
<1>6. /\ LinksFit(links, items, Append(entries, e))
      /\ \A g, n, t : Linked(r.links, g, n, t) => Linked(links, g, n, t)
      /\ \A g \in Used(e) : Linked(links, g, e.name, type)
  BY <1>3, <1>4, <1>5, MoreLinksFit
<1>7. ItemFits(e.name, item, r.gpios, links, r.users)
  <2>1. InOrder(e.name)
    BY RobotAssumption DEF InOrder
  <2>2. type \notin C!OnBus
    BY DEF LinkTypes, C!OnBus
  <2>3. \A i \in DOMAIN e.gpios : e.gpios[i].name \in Used(e)
    BY DEF Used
  <2> QED BY <1>1, <1>6, <2>1, <2>2, <2>3, ItemShape DEF ItemFits
<1>8. Parts([providers |-> r.providers, gpios |-> r.gpios, low |-> r.low, items |-> items, links |-> links, users |-> r.users],
            Append(entries, e))
  BY <1>2, <1>5, <1>6, <1>7, ItemPlaced
<1> QED BY <1>1, <1>2, <1>3, <1>8 DEF RobotIs
-----------------------------------------------------------------------------
LEMMA RobotTyped ==
  ASSUME RobotInv
  PROVE  /\ task \in RobotTasks /\ report \in RobotHistory /\ Parts(driver, report.entries) /\ RobotControl
         /\ task = [stage |-> task.stage, read |-> task.read] /\ task.stage \in RobotStages /\ task.read \in Nat
         /\ report = [result |-> report.result, told |-> <<>>, entries |-> report.entries]
         /\ report.result \in BOOLEAN /\ report.entries \in Read
<1>1. task \in RobotTasks /\ report \in RobotHistory
  BY DEF RobotInv
<1>2. task = [stage |-> task.stage, read |-> task.read] /\ task.stage \in RobotStages /\ task.read \in Nat
  BY <1>1 DEF RobotTasks
<1>3. PICK b \in BOOLEAN, es \in Read : report = [result |-> b, told |-> <<>>, entries |-> es]
  BY <1>1 DEF RobotHistory
<1> QED BY <1>1, <1>2, <1>3 DEF RobotInv

LEMMA RobotThrown ==
  ASSUME RobotInv, NEW q, Parts(q, report.entries), C!Throw(q)
  PROVE  RobotInv'
<1>1. driver' = q /\ task' = [stage |-> "failed", read |-> 0] /\ report' = [report EXCEPT !.result = FALSE]
  BY DEF C!Throw, C!Fail
<1>2. report' = [result |-> FALSE, told |-> <<>>, entries |-> report.entries]
  <2>1. PICK b, es : report = [result |-> b, told |-> <<>>, entries |-> es]
    BY RobotTyped
  <2> QED BY <1>1, <2>1
<1>3. task' \in RobotTasks /\ report' \in RobotHistory
  BY <1>1, <1>2, RobotTyped DEF RobotTasks, RobotStages, RobotHistory
<1>4. RobotControl'
  BY <1>1, <1>2 DEF RobotControl, OnAsFar
<1> QED BY <1>1, <1>2, <1>3, <1>4 DEF RobotInv

(* An entry of the providers or the GPIOs is read.                          *)
LEMMA RobotReads ==
  ASSUME RobotInv, NEW q, Parts(q, report.entries), driver' = q, q.items = driver.items, C!More,
         task.stage \in {"providers", "gpios"},
         task.stage = "providers" => C!CE0 \in DOMAIN q.gpios \/ DOMAIN q.gpios = {}
  PROVE  RobotInv'
<1>1. task' = [task EXCEPT !.read = @ + 1] /\ report' = report
  BY DEF C!More
<1>2. task' = [stage |-> task.stage, read |-> task.read + 1]
  BY <1>1, RobotTyped
<1>3. task' \in RobotTasks
  BY <1>2, RobotTyped DEF RobotTasks
<1>4. RobotControl'
  <2>1. OnAsFar(driver'.items, task'.stage, task'.read)
    BY <1>2 DEF OnAsFar
  <2> QED BY <1>1, <1>2, <2>1, RobotTyped DEF RobotControl
<1> QED BY <1>1, <1>3, <1>4, RobotTyped DEF RobotInv

LEMMA MadeMore ==
  ASSUME NEW entries \in Read, NEW items, NEW more, AllMade(items, entries), NEW e \in ItemEntries, NotUnknown(e),
         \A n \in DOMAIN items : n # e.name => n \in DOMAIN more /\ more[n] = items[n], MadeAs(more, e)
  PROVE  AllMade(more, Append(entries, e))
<1>1. PICK es \in Read : /\ es = Append(entries, e) /\ DOMAIN es = DOMAIN entries \cup {Len(entries) + 1}
                         /\ Len(entries) + 1 \notin DOMAIN entries /\ es[Len(entries) + 1] = e
                         /\ \A i \in DOMAIN entries : es[i] = entries[i]
  <2>1. /\ Append(entries, e) \in Read /\ DOMAIN Append(entries, e) = DOMAIN entries \cup {Len(entries) + 1}
        /\ Len(entries) + 1 \notin DOMAIN entries /\ Append(entries, e)[Len(entries) + 1] = e
        /\ \A i \in DOMAIN entries : Append(entries, e)[i] = entries[i]
    BY DEF Read
  <2> QED BY <2>1
<1>2. ASSUME NEW i \in DOMAIN entries, OnceIn(es, es[i].name)
      PROVE  entries[i].name # e.name /\ OnceIn(entries, entries[i].name)
  <2>1. PICK k \in DOMAIN es : \A j \in DOMAIN es : es[j].name = es[i].name <=> j = k
    BY <1>2 DEF OnceIn
  <2>2. k = i
    BY <1>1, <2>1
  <2>3. entries[i].name # e.name
    BY <1>1, <2>1, <2>2
  <2>4. \A j \in DOMAIN entries : entries[j].name = entries[i].name <=> j = i
    BY <1>1, <2>1, <2>2
  <2> QED BY <2>3, <2>4 DEF OnceIn
<1>3. ASSUME NEW i \in DOMAIN entries, OnceIn(es, es[i].name) PROVE MadeAs(more, es[i])
  <2>1. MadeAs(items, entries[i]) /\ entries[i].name # e.name /\ es[i] = entries[i]
    BY <1>1, <1>2, <1>3 DEF AllMade
  <2> QED BY <2>1 DEF MadeAs
<1>4. \A i \in DOMAIN entries : NotUnknown(es[i])
  BY <1>1 DEF AllMade
<1> QED BY <1>1, <1>3, <1>4 DEF AllMade

(* An entry of the items is read.                                           *)
LEMMA RobotMakes ==
  ASSUME RobotInv, NEW e \in ItemEntries, NEW q, Parts(q, Append(report.entries, e)), driver' = q, C!Done(e),
         task.stage = "items", NotUnknown(e), MadeAs(q.items, e),
         \A n \in DOMAIN driver.items : n # e.name => n \in DOMAIN q.items /\ q.items[n] = driver.items[n]
  PROVE  RobotInv'
<1>1. task' = [task EXCEPT !.read = @ + 1] /\ report' = [report EXCEPT !.entries = Append(@, e)]
  BY DEF C!Done
<1>2. task' = [stage |-> task.stage, read |-> task.read + 1]
  BY <1>1, RobotTyped
<1>3. task' \in RobotTasks
  BY <1>2, RobotTyped DEF RobotTasks
<1>4. PICK es \in Read : es = Append(report.entries, e)
  <2>1. report.entries \in Read
    BY RobotTyped
  <2>2. Append(report.entries, e) \in Read
    BY <2>1 DEF Read
  <2> QED BY <2>2
<1>5. report' = [result |-> report.result, told |-> <<>>, entries |-> es]
  <2>1. report = [result |-> report.result, told |-> <<>>, entries |-> report.entries]
    BY RobotTyped
  <2>2. report' = [report EXCEPT !.entries = es]
    BY <1>1, <1>4
  <2> QED BY ONLY <2>1, <2>2
<1>6. report' \in RobotHistory
  BY <1>4, <1>5, RobotTyped DEF RobotHistory
<1>7. AllMade(q.items, es)
  <2>1. AllMade(driver.items, report.entries) /\ report.entries \in Read
    BY RobotTyped DEF RobotControl
  <2> QED BY <1>4, <2>1, MadeMore
<1>8. RobotControl'
  <2>1. OnAsFar(driver'.items, task'.stage, task'.read)
    BY <1>2 DEF OnAsFar
  <2> QED BY <1>2, <1>5, <1>7, <2>1, RobotTyped DEF RobotControl
<1>9. Parts(driver', report'.entries)
  BY <1>4, <1>5
<1> QED BY <1>3, <1>6, <1>8, <1>9 DEF RobotInv
-----------------------------------------------------------------------------
LEMMA SpiLoaded ==
  ASSUME RobotInv, NEW e \in ProviderEntries, task.stage = "providers", C!LoadSpi(e)
  PROVE  RobotInv'
<1>1. CASE C!Throw(driver)
  BY <1>1, RobotTyped, RobotThrown
<1>2. ASSUME C!CanAdd(driver, C!CE0, "SIMPLE", 19, "OUT"), C!More,
             driver' = C!WithProvider(C!WithGpio(C!WithGpio(driver, C!CE0, "SIMPLE", 19), C!CE1, "SIMPLE", 18), "SPI", "SPI", 0)
      PROVE  RobotInv'
  <2>1. C!CE0 \notin DOMAIN driver.gpios /\ C!Low("SIMPLE", 19) \notin DOMAIN driver.low
    BY <1>2 DEF C!CanAdd
  <2>2. Parts(driver, report.entries) /\ DOMAIN driver.gpios = {} /\ Pinned(driver.gpios, driver.low)
    BY <2>1, RobotTyped DEF RobotControl, Parts
  <2>3. DOMAIN driver.low = {}
    BY <2>2 DEF Pinned
  <2>4. PICK q : q = C!WithGpio(driver, C!CE0, "SIMPLE", 19)
    OBVIOUS
  <2>5. /\ Parts(q, report.entries) /\ q.items = driver.items
        /\ DOMAIN q.gpios = {C!CE0} /\ DOMAIN q.low = {C!Low("SIMPLE", 19)}
    BY <2>1, <2>2, <2>3, <2>4, WithGpioKeeps
  <2>6. C!CE1 # C!CE0 /\ C!Low("SIMPLE", 18) # C!Low("SIMPLE", 19)
    BY DEF C!CE0, C!CE1, C!Low
  <2>7. C!CE1 \notin DOMAIN q.gpios /\ C!Low("SIMPLE", 18) \notin DOMAIN q.low
    BY <2>5, <2>6
  <2>8. PICK p : p = C!WithGpio(q, C!CE1, "SIMPLE", 18)
    OBVIOUS
  <2>9. Parts(p, report.entries) /\ p.items = q.items /\ C!CE0 \in DOMAIN p.gpios
    BY <2>5, <2>7, <2>8, WithGpioKeeps
  <2>10. /\ Parts(C!WithProvider(p, "SPI", "SPI", 0), report.entries)
         /\ C!WithProvider(p, "SPI", "SPI", 0).items = p.items /\ C!WithProvider(p, "SPI", "SPI", 0).gpios = p.gpios
    BY <2>9, WithProviderKeeps
  <2> QED BY <1>2, <2>4, <2>5, <2>8, <2>9, <2>10, RobotReads
<1> QED BY <1>1, <1>2 DEF C!LoadSpi

LEMMA ProviderKept ==
  ASSUME RobotInv, NEW q, Parts(q, report.entries), driver' = q, C!More, task.stage = "providers",
         q.items = driver.items, q.gpios = driver.gpios
  PROVE  RobotInv'
BY RobotTyped, RobotReads DEF RobotControl

LEMMA ProviderLoaded ==
  ASSUME RobotInv, NEW e \in ProviderEntries, C!LoadProvider(e)
  PROVE  RobotInv'
<1>1. task.stage = "providers" /\ Parts(driver, report.entries) /\ e.name \in RobotNames
  BY RobotTyped DEF C!LoadProvider, C!Reads, RobotNames
<1>2. CASE C!Throw(driver)
  BY <1>1, <1>2, RobotThrown
<1>3. CASE C!LoadFake(e)
  <2>1. driver' = C!WithProvider(driver, e.name, "FAKE", e.pins) /\ C!More
    BY <1>3 DEF C!LoadFake
  <2>2. PICK q : q = C!WithProvider(driver, e.name, "FAKE", e.pins)
    OBVIOUS
  <2>3. Parts(q, report.entries) /\ q.items = driver.items /\ q.gpios = driver.gpios
    BY <1>1, <2>2, WithProviderKeeps
  <2> QED BY <1>1, <2>1, <2>2, <2>3, ProviderKept
<1>4. CASE C!LoadChip(e)
  <2>1. ASSUME driver' = C!WithUser(C!WithProvider(driver, e.name, e.type, C!ChipPins[e.type]), e.name), C!More PROVE RobotInv'
    <3>1. PICK q : q = C!WithProvider(driver, e.name, e.type, C!ChipPins[e.type])
      OBVIOUS
    <3>2. Parts(q, report.entries) /\ q.items = driver.items /\ q.gpios = driver.gpios
      BY <1>1, <3>1, WithProviderKeeps
    <3>3. PICK p : p = C!WithUser(q, e.name)
      OBVIOUS
    <3>4. Parts(p, report.entries) /\ p.items = q.items /\ p.gpios = q.gpios
      BY <1>1, <3>2, <3>3, WithUserKeeps
    <3> QED BY <1>1, <2>1, <3>1, <3>2, <3>3, <3>4, ProviderKept
  <2> QED BY <1>2, <1>4, <2>1 DEF C!LoadChip
<1>5. CASE C!LoadPca(e)
  <2>1. ASSUME driver' = C!WithProvider(driver, e.name, "PCA9685", 16), C!More PROVE RobotInv'
    <3>2. PICK q : q = C!WithProvider(driver, e.name, "PCA9685", 16)
      OBVIOUS
    <3>3. Parts(q, report.entries) /\ q.items = driver.items /\ q.gpios = driver.gpios
      BY <1>1, <3>2, WithProviderKeeps
    <3> QED BY <1>1, <2>1, <3>2, <3>3, ProviderKept
  <2> QED BY <1>2, <1>5, <2>1 DEF C!LoadPca
<1>6. CASE C!LoadSpi(e)
  BY <1>1, <1>6, SpiLoaded
<1> QED BY <1>2, <1>3, <1>4, <1>5, <1>6 DEF C!LoadProvider

LEMMA GpioLoaded ==
  ASSUME RobotInv, NEW e \in GpioEntries, C!LoadGpio(e)
  PROVE  RobotInv'
<1>1. task.stage = "gpios" /\ Parts(driver, report.entries)
  BY RobotTyped DEF C!LoadGpio, C!Reads
<1>2. CASE C!Throw(driver)
  BY <1>1, <1>2, RobotThrown
<1>3. ASSUME C!CanAdd(driver, e.name, e.provider, e.pin, e.mode), C!More, driver' = C!WithGpio(driver, e.name, e.provider, e.pin)
      PROVE  RobotInv'
  <2>1. e.name \notin DOMAIN driver.gpios /\ C!Low(e.provider, e.pin) \notin DOMAIN driver.low
    BY <1>3 DEF C!CanAdd
  <2>2. PICK q : q = C!WithGpio(driver, e.name, e.provider, e.pin)
    OBVIOUS
  <2>3. Parts(q, report.entries) /\ q.items = driver.items
    BY <1>1, <2>1, <2>2, WithGpioKeeps
  <2> QED BY <1>1, <1>3, <2>2, <2>3, RobotReads
<1> QED BY <1>2, <1>3 DEF C!LoadGpio
-----------------------------------------------------------------------------
(* items *)

LEMMA LinkedLoaded ==
  ASSUME RobotInv, NEW e \in ItemEntries, task.stage = "items", C!TypeByName(e.type) \in LinkTypes, C!Done(e),
         driver' = C!WithLinks(C!WithItem(driver, C!TypeByName(e.type), e), C!TypeByName(e.type), e),
         \A i \in DOMAIN e.gpios : e.gpios[i].name \in DOMAIN driver.gpios,
         C!TypeByName(e.type) = "BUTTON" => 1 \in DOMAIN e.gpios
  PROVE  RobotInv'
<1>1. PICK type \in LinkTypes : type = C!TypeByName(e.type) /\ type # "UNKNOWN"
  BY DEF LinkTypes
<1>2. Parts(driver, report.entries) /\ report.entries \in Read
  BY RobotTyped
<1>3. PICK q : q = RobotIs(driver, C!Put(driver.items, e.name, NewItem(type, e, 0)), MoreLinks(driver.links, type, e), driver.users)
  OBVIOUS
<1>4. driver' = q
  BY <1>1, <1>2, <1>3, WithLinksIs
<1>5. Parts(q, Append(report.entries, e))
  BY <1>1, <1>2, <1>3, LinkedMade
<1>6. q.items = C!Put(driver.items, e.name, NewItem(type, e, 0))
  BY <1>3 DEF RobotIs
<1>7. MadeAs(q.items, e) /\ \A n \in DOMAIN driver.items : n # e.name => n \in DOMAIN q.items /\ q.items[n] = driver.items[n]
  BY <1>1, <1>6, ItemShape DEF MadeAs, C!Put
<1> QED BY <1>1, <1>4, <1>5, <1>7, RobotMakes DEF NotUnknown

LEMMA UnlinkedLoaded ==
  ASSUME RobotInv, NEW e \in ItemEntries, task.stage = "items", C!Done(e), NEW strips, NEW users \in Users,
         C!TypeByName(e.type) \in C!Meters \/ DOMAIN e.gpios = {}, C!TypeByName(e.type) \notin {"BUTTON", "UNKNOWN"},
         C!TypeByName(e.type) \in C!OnBus => \E i \in DOMAIN users : users[i] = e.name,
         \A n : (\E i \in DOMAIN driver.users : driver.users[i] = n) => \E i \in DOMAIN users : users[i] = n,
         driver' = RobotIs(driver, C!Put(driver.items, e.name, NewItem(C!TypeByName(e.type), e, strips)), driver.links, users)
  PROVE  RobotInv'
<1>1. PICK type : type = C!TypeByName(e.type)
  OBVIOUS
<1>2. Parts(driver, report.entries) /\ report.entries \in Read
  BY RobotTyped
<1>3. PICK q : q = RobotIs(driver, C!Put(driver.items, e.name, NewItem(type, e, strips)), driver.links, users)
  OBVIOUS
<1>5. Parts(q, report.entries)
  BY <1>1, <1>2, <1>3, UnlinkedMade
<1>8. Parts(q, Append(report.entries, e))
  BY <1>2, <1>5, EntriesGrow DEF Parts
<1>6. q.items = C!Put(driver.items, e.name, NewItem(type, e, strips))
  BY <1>3 DEF RobotIs
<1>7. MadeAs(q.items, e) /\ \A n \in DOMAIN driver.items : n # e.name => n \in DOMAIN q.items /\ q.items[n] = driver.items[n]
  BY <1>1, <1>6, ItemShape DEF MadeAs, C!Put
<1> QED BY <1>1, <1>3, <1>7, <1>8, RobotMakes DEF NotUnknown

LEMMA NothingLoaded ==
  ASSUME RobotInv, NEW e \in ItemEntries, task.stage = "items", C!Done(e), UNCHANGED driver, NotUnknown(e),
         C!TypeByName(e.type) \notin C!Made, C!TypeByName(e.type) = "LCD" => e.bits # 4
  PROVE  RobotInv'
<1>1. Parts(driver, report.entries) /\ report.entries \in Read
  BY RobotTyped
<1>2. Parts(driver, Append(report.entries, e))
  BY <1>1, EntriesGrow DEF Parts
<1>3. MadeAs(driver.items, e)
  BY DEF MadeAs
<1> QED BY <1>2, <1>3, RobotMakes

LEMMA SledIs ==
  ASSUME NEW r, NEW entries, Parts(r, entries), NEW type, NEW e, NEW strips
  PROVE  [C!WithItem(r, type, e) EXCEPT !.items[e.name].strips = strips] =
           RobotIs(r, C!Put(r.items, e.name, NewItem(type, e, strips)), r.links, r.users)
<1>1. PICK items : items = C!Put(r.items, e.name, NewItem(type, e, 0))
  OBVIOUS
<1>2. PICK q : q = C!WithItem(r, type, e)
  OBVIOUS
<1>3. q = [providers |-> r.providers, gpios |-> r.gpios, low |-> r.low, items |-> items, links |-> r.links, users |-> r.users]
  BY <1>1, <1>2, WithItemIs DEF RobotIs
<1>4. q.items = items /\ RobotShape(q) /\ q.links = r.links
  BY <1>3 DEF RobotShape
<1>5. items[e.name] = NewItem(type, e, 0) /\ e.name \in DOMAIN items
  BY <1>1 DEF C!Put
<1>6. [NewItem(type, e, 0) EXCEPT !.strips = strips] = NewItem(type, e, strips)
  <2>1. PICK it, names, off :
          it = [type |-> type, gpios |-> names, strips |-> 0, on |-> off] /\ names = C!GpioNames(e) /\ off = FALSE
    OBVIOUS
  <2>2. [it EXCEPT !.strips = strips] = [type |-> type, gpios |-> names, strips |-> strips, on |-> off]
    BY <2>1
  <2> QED BY <2>1, <2>2 DEF NewItem
<1>7. PICK more : more = [items EXCEPT ![e.name].strips = strips]
  OBVIOUS
<1>8. more = [items EXCEPT ![e.name] = NewItem(type, e, strips)]
  BY <1>5, <1>6, <1>7
<1>9. more = C!Put(r.items, e.name, NewItem(type, e, strips))
  BY <1>1, <1>8 DEF C!Put
<1>10. [q EXCEPT !.items[e.name].strips = strips] = [q EXCEPT !.items = more]
  BY <1>4, <1>7
<1>11. [q EXCEPT !.items = more] =
         [providers |-> q.providers, gpios |-> q.gpios, low |-> q.low, items |-> more, links |-> q.links, users |-> q.users]
  BY <1>4, RobotWith
<1> QED BY <1>2, <1>3, <1>9, <1>10, <1>11 DEF RobotIs

LEMMA SensorIs ==
  ASSUME NEW r, NEW entries, Parts(r, entries), NEW type, NEW e
  PROVE  C!WithUser(C!WithItem(r, type, e), e.name) =
           RobotIs(r, C!Put(r.items, e.name, NewItem(type, e, 0)), r.links, Append(r.users, e.name))
<1>1. PICK items : items = C!Put(r.items, e.name, NewItem(type, e, 0))
  OBVIOUS
<1>2. PICK q : q = C!WithItem(r, type, e)
  OBVIOUS
<1>3. q = [providers |-> r.providers, gpios |-> r.gpios, low |-> r.low, items |-> items, links |-> r.links, users |-> r.users]
  BY <1>1, <1>2, WithItemIs DEF RobotIs
<1>4. RobotShape(q) /\ q.users = r.users
  BY <1>3 DEF RobotShape
<1>5. PICK users : users = Append(r.users, e.name)
  OBVIOUS
<1>6. C!WithUser(q, e.name) = [q EXCEPT !.users = users]
  BY <1>4, <1>5 DEF C!WithUser
<1>7. [q EXCEPT !.users = users] =
        [providers |-> q.providers, gpios |-> q.gpios, low |-> q.low, items |-> q.items, links |-> q.links, users |-> users]
  BY <1>4, RobotWith
<1> QED BY <1>1, <1>2, <1>3, <1>5, <1>6, <1>7 DEF RobotIs

(* What is assumed of the entries of the items.                             *)
LEMMA EntryShape ==
  ASSUME NEW e \in ItemEntries
  PROVE  /\ e.gpios = <<>> \/ 1 \in DOMAIN e.gpios
         /\ C!TypeByName(e.type) \in C!OnBus \cup {"BLINKER", "SLEDCRTLSPI"} => DOMAIN e.gpios = {}
<1>1. \A f \in ItemEntries :
        /\ \E i \in DOMAIN Order : Order[i] = f.name
        /\ f.gpios = <<>> \/ 1 \in DOMAIN f.gpios
        /\ C!TypeByName(f.type) = "BUTTON" => DOMAIN f.gpios \subseteq {1}
        /\ C!TypeByName(f.type) \in C!OnBus \cup {"BLINKER", "SLEDCRTLSPI"} => DOMAIN f.gpios = {}
  BY RobotAssumption
<1>2. e \in ItemEntries
  OBVIOUS
<1> QED BY ONLY <1>1, <1>2

LEMMA ItemLoaded ==
  ASSUME RobotInv, NEW e \in ItemEntries, C!LoadItem(e)
  PROVE  RobotInv'
<1>1. PICK type : type = C!TypeByName(e.type)
  OBVIOUS
<1>2. task.stage = "items" /\ Parts(driver, report.entries) /\ driver.users \in Users
  BY RobotTyped DEF C!LoadItem, C!Reads, Parts
<1>3. CASE C!Throw(driver)
  BY <1>2, <1>3, RobotThrown
<1>4. /\ e.gpios = <<>> \/ 1 \in DOMAIN e.gpios
      /\ type \in C!OnBus \cup {"BLINKER", "SLEDCRTLSPI"} => DOMAIN e.gpios = {}
  BY <1>1, EntryShape
<1>5. CASE type # "UNKNOWN" /\ C!Accepts(type, e)
  <2>1. C!AllHere(e.gpios) => \A i \in DOMAIN e.gpios : e.gpios[i].name \in DOMAIN driver.gpios
    BY DEF C!AllHere, C!Here, C!Gpios
  <2>2. CASE C!LoadPlain(type, e)
    <3>1. type \in LinkTypes /\ type # "LCD"
      BY <2>2 DEF C!LoadPlain, C!Made, C!OneGpio, C!OnBus, C!Meters, LinkTypes
    <3>2. type # "BLINKER" => C!AllHere(e.gpios) /\ e.gpios # <<>>
      BY <1>5, <3>1 DEF C!Accepts, LinkTypes, C!OneGpio
    <3>3. \A i \in DOMAIN e.gpios : e.gpios[i].name \in DOMAIN driver.gpios
      BY <1>4, <2>1, <3>2
    <3>4. type = "BUTTON" => 1 \in DOMAIN e.gpios
      BY <1>4, <3>2
    <3>5. driver' = C!WithLinks(C!WithItem(driver, type, e), type, e) /\ C!Done(e)
      BY <2>2 DEF C!LoadPlain
    <3> QED BY <1>1, <1>2, <3>1, <3>3, <3>4, <3>5, LinkedLoaded
  <2>3. CASE C!LoadLightMeter(type, e)
    <3>1. type \in C!Meters /\ type \notin C!OnBus /\ type \notin {"BUTTON", "UNKNOWN"}
      BY <2>3 DEF C!LoadLightMeter, C!Meters, C!OnBus
    <3>2. driver' = RobotIs(driver, C!Put(driver.items, e.name, NewItem(type, e, 0)), driver.links, driver.users) /\ C!Done(e)
      BY <1>2, <2>3, WithItemIs DEF C!LoadLightMeter
    <3> QED BY <1>1, <1>2, <3>1, <3>2, UnlinkedLoaded
  <2>4. CASE C!LoadMeter(type, e)
    <3>1. type \in C!Meters /\ type \notin C!OnBus /\ type \notin {"BUTTON", "UNKNOWN"}
      BY <2>4 DEF C!LoadMeter, C!Meters, C!OnBus
    <3>2. PICK q : q = RobotIs(driver, C!Put(driver.items, e.name, NewItem(type, e, 0)), driver.links, driver.users)
      OBVIOUS
    <3>3. C!WithItem(driver, type, e) = q
      BY <1>2, <3>2, WithItemIs
    <3>4. CASE driver' = q /\ C!Done(e)
      BY <1>1, <1>2, <3>1, <3>2, <3>4, UnlinkedLoaded
    <3>5. CASE C!Throw(q)
      <4>1. Parts(q, report.entries)
        BY <1>2, <3>1, <3>2, UnlinkedMade
      <4> QED BY <3>5, <4>1, RobotThrown
    <3> QED BY <2>4, <3>3, <3>4, <3>5 DEF C!LoadMeter
  <2>5. CASE C!LoadSensor(type, e)
    <3>1. type \in C!OnBus /\ type \notin {"BUTTON", "UNKNOWN"}
      BY <2>5 DEF C!LoadSensor, C!OnBus
    <3>2. CASE driver' = C!WithUser(C!WithItem(driver, type, e), e.name) /\ C!Done(e)
      <4>1. e.name \in RobotNames
        BY DEF RobotNames
      <4>2. PICK users \in Users : users = Append(driver.users, e.name)
        BY <1>2, <4>1, UsersGrow
      <4>3. /\ \E i \in DOMAIN Append(driver.users, e.name) : Append(driver.users, e.name)[i] = e.name
            /\ \A n : (\E i \in DOMAIN driver.users : driver.users[i] = n) =>
                 \E i \in DOMAIN Append(driver.users, e.name) : Append(driver.users, e.name)[i] = n
        BY ONLY <1>2, <4>1, UsersGrow
      <4>4. driver' = RobotIs(driver, C!Put(driver.items, e.name, NewItem(type, e, 0)), driver.links, users)
        BY <1>2, <3>2, <4>2, SensorIs
      <4>5. DOMAIN e.gpios = {}
        BY <1>4, <3>1
      <4> QED BY <1>1, <1>2, <3>1, <3>2, <4>2, <4>3, <4>4, <4>5, UnlinkedLoaded
    <3> QED BY <1>3, <2>5, <3>2 DEF C!LoadSensor
  <2>6. CASE C!LoadSled(type, e)
    <3>1. type = "SLEDCRTLSPI" /\ type \notin C!OnBus
      BY <2>6 DEF C!LoadSled, C!OnBus
    <3>2. PICK strips : strips = (IF e.strips < e.room THEN e.strips ELSE e.room)
      OBVIOUS
    <3>3. driver' = [C!WithItem(driver, type, e) EXCEPT !.items[e.name].strips = strips] /\ C!Done(e)
      BY <2>6, <3>2 DEF C!LoadSled
    <3>4. driver' = RobotIs(driver, C!Put(driver.items, e.name, NewItem(type, e, strips)), driver.links, driver.users)
      BY <1>2, <3>3, SledIs
    <3>5. DOMAIN e.gpios = {}
      BY <1>4, <3>1
    <3> QED BY <1>1, <1>2, <3>1, <3>3, <3>4, <3>5, UnlinkedLoaded
  <2>7. CASE C!LoadLcd(type, e)
    <3>1. type = "LCD" /\ type \notin C!Made /\ type \in LinkTypes /\ C!Done(e)
      BY <2>7 DEF C!LoadLcd, C!Made, C!OneGpio, C!OnBus, C!Meters, LinkTypes
    <3>2. CASE e.bits = 4
      <4>1. driver' = C!WithLinks(C!WithItem(driver, type, e), type, e)
        BY <2>7, <3>2 DEF C!LoadLcd
      <4>2. \A i \in DOMAIN e.gpios : e.gpios[i].name \in DOMAIN driver.gpios
        BY <1>5, <3>1, <3>2 DEF C!Accepts, C!Here, C!Gpios
      <4> QED BY <1>1, <1>2, <3>1, <4>1, <4>2, LinkedLoaded
    <3>3. CASE e.bits # 4
      <4>1. UNCHANGED driver
        BY <2>7, <3>3 DEF C!LoadLcd
      <4> QED BY <1>1, <1>2, <1>5, <3>1, <3>3, <4>1, NothingLoaded DEF NotUnknown
    <3> QED BY <3>2, <3>3
  <2>8. CASE C!LoadNothing(type, e)
    BY <1>1, <1>2, <1>5, <2>8, NothingLoaded DEF C!LoadNothing, NotUnknown
  <2>9. C!Throw(driver) \/ C!LoadPlain(type, e) \/ C!LoadLightMeter(type, e) \/ C!LoadMeter(type, e)
        \/ C!LoadSensor(type, e) \/ C!LoadSled(type, e) \/ C!LoadLcd(type, e) \/ C!LoadNothing(type, e)
    BY <1>1 DEF C!LoadItem
  <2> QED BY <1>3, <2>2, <2>3, <2>4, <2>5, <2>6, <2>7, <2>8, <2>9
<1>6. C!Throw(driver) \/ (type # "UNKNOWN" /\ C!Accepts(type, e))
  BY <1>1 DEF C!LoadItem
<1> QED BY <1>3, <1>5, <1>6
-----------------------------------------------------------------------------
LEMMA Configured ==
  ASSUME RobotInv, C!Refuse \/ C!Begin \/ C!EndOfList
  PROVE  RobotInv'
<1>0. Parts(driver, report.entries) /\ RobotControl /\ RobotShape(driver)
  BY RobotTyped DEF Parts
<1>1. CASE C!Refuse
  <2>1. C!Throw(driver)
    BY <1>1 DEF C!Refuse, C!Throw
  <2> QED BY <1>0, <2>1, RobotThrown
<1>2. CASE C!Begin
  <2>1. PICK x : driver' = [driver EXCEPT !.providers = x]
    BY <1>2 DEF C!Begin
  <2>2. driver' = [providers |-> x, gpios |-> driver.gpios, low |-> driver.low, items |-> driver.items,
                   links |-> driver.links, users |-> driver.users]
    BY <1>0, <2>1, RobotWith
  <2>3. task.stage = "new" /\ task' = [stage |-> "providers", read |-> 0] /\ report' = report
    BY <1>2 DEF C!Begin
  <2>4. Parts(driver', report'.entries)
    BY <1>0, <2>2, <2>3 DEF Parts, RobotShape
  <2>5. RobotControl'
    BY <1>0, <2>2, <2>3 DEF RobotControl, OnAsFar
  <2>6. task' \in RobotTasks /\ report' \in RobotHistory
    BY <2>3, RobotTyped DEF RobotTasks, RobotStages
  <2> QED BY <2>4, <2>5, <2>6 DEF RobotInv
<1>3. CASE C!EndOfList
  <2>1. PICK i \in 1..3 :
          /\ task.stage = C!Stages[i] /\ driver' = driver
          /\ task' = [stage |-> IF i = 3 THEN "configured" ELSE C!Stages[i + 1], read |-> 0]
          /\ report' = [report EXCEPT !.result = (i = 3)]
    BY <1>3 DEF C!EndOfList
  <2>2. C!Stages[1] = "providers" /\ C!Stages[2] = "gpios" /\ C!Stages[3] = "items"
    BY DEF C!Stages
  <2>3. PICK stage \in {"gpios", "items", "configured"} : task' = [stage |-> stage, read |-> 0]
    BY <2>1, <2>2
  <2>4. PICK b \in BOOLEAN : b <=> i = 3
    OBVIOUS
  <2>5. b = (i = 3)
    BY <2>4
  <2>6. report' = [result |-> b, told |-> <<>>, entries |-> report.entries]
    <3>1. PICK x, es : report = [result |-> x, told |-> <<>>, entries |-> es]
      BY RobotTyped
    <3> QED BY <2>1, <2>5, <3>1
  <2>7. task' \in RobotTasks /\ report' \in RobotHistory
    BY <2>3, <2>6, RobotTyped DEF RobotTasks, RobotStages, RobotHistory
  <2>8. task.stage # "failed"
    BY <2>1, <2>2
  <2>9. RobotControl'
    BY <1>0, <2>1, <2>3, <2>6, <2>8 DEF RobotControl, OnAsFar
  <2> QED BY <1>0, <2>1, <2>6, <2>7, <2>9 DEF RobotInv
<1> QED BY <1>1, <1>2, <1>3

SwitchedTo(r, name, on, q) == name \in DOMAIN r.items /\ q = [r EXCEPT !.items[name].on = on]

(* An item is switched on or off.                                           *)
LEMMA Switched ==
  ASSUME NEW r, NEW entries, Parts(r, entries), NEW name, NEW on, NEW q, SwitchedTo(r, name, on, q)
  PROVE  /\ Parts(q, entries) /\ DOMAIN q.items = DOMAIN r.items /\ q.gpios = r.gpios
         /\ q.items[name].on = on /\ \A n \in DOMAIN r.items : n # name => q.items[n] = r.items[n]
         /\ AllMade(r.items, entries) => AllMade(q.items, entries)
<1>0. /\ RobotShape(r) /\ ItemsFit(r.items, r.gpios, r.links, r.users)
      /\ LinksFit(r.links, r.items, entries) /\ Pinned(r.gpios, r.low) /\ r.users \in Users
  BY DEF Parts
<1>1. PICK type, gpios, strips, old : r.items[name] = [type |-> type, gpios |-> gpios, strips |-> strips, on |-> old]
  BY <1>0 DEF ItemsFit, ItemFits, SwitchedTo
<1>2. PICK item : item = [type |-> type, gpios |-> gpios, strips |-> strips, on |-> on]
  OBVIOUS
<1>3. [r.items[name] EXCEPT !.on = on] = item
  BY <1>1, <1>2
<1>4. PICK items : items = [r.items EXCEPT ![name] = item]
  OBVIOUS
<1>5. [r.items EXCEPT ![name].on = on] = items
  BY <1>3, <1>4
<1>6. q = [r EXCEPT !.items = items]
  BY <1>5 DEF SwitchedTo
<1>7. q = [providers |-> r.providers, gpios |-> r.gpios, low |-> r.low, items |-> items, links |-> r.links, users |-> r.users]
  BY <1>0, <1>6, RobotWith
<1>8. DOMAIN items = DOMAIN r.items /\ items[name] = item /\ \A n \in DOMAIN r.items : n # name => items[n] = r.items[n]
  BY <1>4 DEF SwitchedTo
<1>9. ItemFits(name, item, r.gpios, r.links, r.users)
  <2>1. ItemFits(name, r.items[name], r.gpios, r.links, r.users)
    BY <1>0 DEF ItemsFit, SwitchedTo
  <2>2. item.type = r.items[name].type /\ item.gpios = r.items[name].gpios
    BY <1>1, <1>2
  <2>3. item = [type |-> item.type, gpios |-> item.gpios, strips |-> item.strips, on |-> item.on]
    BY <1>2
  <2> QED BY <2>1, <2>2, <2>3 DEF ItemFits
<1>10. ItemsFit(items, r.gpios, r.links, r.users)
  BY <1>0, <1>8, <1>9 DEF ItemsFit
<1>11. LinksFit(r.links, items, entries)
  BY <1>0, <1>8 DEF LinksFit, LinkFits
<1>12. \A n \in DOMAIN items : items[n].type = r.items[n].type /\ items[n].gpios = r.items[n].gpios
  BY <1>1, <1>2, <1>8
<1>13. AllMade(r.items, entries) => AllMade(items, entries)
  BY <1>8, <1>12 DEF AllMade, MadeAs
<1>14. q.items = items /\ q.gpios = r.gpios /\ item.on = on
  BY <1>2, <1>7
<1>15. Parts(q, entries)
  BY <1>0, <1>7, <1>10, <1>11 DEF Parts, RobotShape
<1> QED BY <1>8, <1>13, <1>14, <1>15

LEMMA RobotStarts ==
  ASSUME RobotInv, C!Start \/ C!Stop \/ C!Through
  PROVE  RobotInv'
<1>0. Parts(driver, report.entries) /\ RobotControl /\ task.stage \in RobotStages
  BY RobotTyped
<1>1. PICK stage \in {"starting", "stopping", "running", "stopped"} :
        C!Onward(stage) /\ task.stage \in {"configured", "running", "idle", "starting", "stopping"}
  BY DEF C!Start, C!Stop, C!Through
<1>2. task' = [stage |-> stage, read |-> 0] /\ driver' = driver /\ report' = report
  BY <1>1 DEF C!Onward
<1>3. \A i \in DOMAIN Order : ~(i <= 0)
  BY RobotAssumption
<1>5. OnAsFar(driver.items, stage, 0)
  <2>1. CASE stage \in {"running", "stopped"}
    <3>1. C!Through
      BY <1>1, <2>1 DEF C!Start, C!Stop, C!Onward
    <3>2. \A i \in DOMAIN Order : Order[i] \in DOMAIN driver.items => i <= task.read
      BY <3>1 DEF C!Through, C!Named, C!Items
    <3>3. \A n \in DOMAIN driver.items : InOrder(n)
      BY <1>0 DEF Parts, ItemsFit, ItemFits
    <3>4. stage = "running" => task.stage = "starting"
      BY <1>2, <3>1 DEF C!Through, C!Onward
    <3>5. stage = "stopped" => task.stage = "stopping"
      BY <1>2, <3>1 DEF C!Through, C!Onward
    <3>6. OnAsFar(driver.items, task.stage, task.read)
      BY <1>0 DEF RobotControl
    <3> QED BY <2>1, <3>2, <3>3, <3>4, <3>5, <3>6 DEF OnAsFar, InOrder
  <2>2. CASE stage \in {"starting", "stopping"}
    BY <1>3, <2>2 DEF OnAsFar
  <2> QED BY <2>1, <2>2
<1>6. task' \in RobotTasks /\ report' \in RobotHistory
  BY <1>2, RobotTyped DEF RobotTasks, RobotStages
<1>7. RobotControl'
  BY <1>0, <1>1, <1>2, <1>5 DEF RobotControl
<1> QED BY <1>0, <1>2, <1>6, <1>7 DEF RobotInv

LEMMA ItemsGo ==
  ASSUME RobotInv, C!Initialize \/ C!StopItem
  PROVE  RobotInv'
<1>0. /\ Parts(driver, report.entries) /\ RobotControl /\ task.stage \in RobotStages /\ task.read \in Nat
      /\ task = [stage |-> task.stage, read |-> task.read]
  BY RobotTyped
<1>1. CASE C!Initialize /\ task' = [stage |-> "idle", read |-> 0] /\ UNCHANGED driver
  <2>1. report' = report /\ task.stage = "starting"
    BY <1>1 DEF C!Initialize
  <2>2. task' \in RobotTasks /\ report' \in RobotHistory
    BY <1>1, <2>1, RobotTyped DEF RobotTasks, RobotStages
  <2>3. RobotControl'
    BY <1>0, <1>1, <2>1 DEF RobotControl, OnAsFar
  <2> QED BY <1>0, <1>1, <2>1, <2>2, <2>3 DEF RobotInv
<1>2. ASSUME NEW i \in DOMAIN Order, NEW on \in BOOLEAN, NEW stage \in {"starting", "stopping"},
             task.stage = stage, on <=> stage = "starting",
             C!Named(i), i > task.read, \A j \in task.read + 1 .. i - 1 : ~C!Named(j),
             C!Switch(Order[i], on), task' = [task EXCEPT !.read = i], UNCHANGED report
      PROVE  RobotInv'
  <2>1. PICK name \in DOMAIN driver.items : name = Order[i] /\ driver' = [driver EXCEPT !.items[name].on = on]
    BY <1>2 DEF C!Switch, C!Named, C!Items
  <2>2. i \in Nat /\ DOMAIN Order \subseteq Nat
    BY RobotAssumption
  <2>3. task' = [stage |-> stage, read |-> i]
    BY <1>0, <1>2
  <2>4. /\ Parts(driver', report.entries) /\ DOMAIN driver'.items = DOMAIN driver.items /\ driver'.gpios = driver.gpios
        /\ driver'.items[name].on = on /\ \A n \in DOMAIN driver.items : n # name => driver'.items[n] = driver.items[n]
        /\ AllMade(driver.items, report.entries) => AllMade(driver'.items, report.entries)
    <3>1. PICK q : q = driver'
      OBVIOUS
    <3>2. SwitchedTo(driver, name, on, q)
      BY <2>1, <3>1 DEF SwitchedTo
    <3>3. /\ Parts(q, report.entries) /\ DOMAIN q.items = DOMAIN driver.items /\ q.gpios = driver.gpios
          /\ q.items[name].on = on /\ \A n \in DOMAIN driver.items : n # name => q.items[n] = driver.items[n]
          /\ AllMade(driver.items, report.entries) => AllMade(q.items, report.entries)
      BY <1>0, <3>2, Switched
    <3> QED BY <3>1, <3>3
  <2>5. ASSUME NEW j \in DOMAIN Order, j <= i, Order[j] \in DOMAIN driver'.items PROVE driver'.items[Order[j]].on <=> on
    <3>1. CASE Order[j] = name
      BY <2>4, <3>1
    <3>2. CASE Order[j] # name
      <4>1. j <= task.read
        <5>1. C!Named(j)
          BY <2>4, <2>5 DEF C!Named, C!Items
        <5>2. j # i /\ j \in Nat
          BY <2>1, <2>2, <3>2
        <5> QED BY <1>0, <1>2, <2>2, <2>5, <5>1, <5>2
      <4>2. driver.items[Order[j]].on <=> on
        BY <1>0, <1>2, <2>4, <2>5, <4>1 DEF RobotControl, OnAsFar
      <4> QED BY <2>4, <2>5, <3>2, <4>2
    <3> QED BY <3>1, <3>2
  <2>6. OnAsFar(driver'.items, stage, i)
    BY <1>2, <2>5 DEF OnAsFar
  <2>7. task' \in RobotTasks /\ report' \in RobotHistory
    BY <1>2, <2>2, <2>3, RobotTyped DEF RobotTasks, RobotStages
  <2>8. RobotControl'
    BY <1>0, <1>2, <2>3, <2>4, <2>6 DEF RobotControl
  <2> QED BY <1>2, <2>4, <2>7, <2>8 DEF RobotInv
<1>3. CASE C!StopItem
  BY <1>2, <1>3 DEF C!StopItem
<1>4. CASE C!Initialize
  BY <1>1, <1>2, <1>4 DEF C!Initialize
<1> QED BY <1>3, <1>4

LEMMA RobotStep ==
  ASSUME RobotInv, C!RobotNext
  PROVE  RobotInv'
BY Configured, ProviderLoaded, GpioLoaded, ItemLoaded, RobotStarts, ItemsGo DEF C!RobotNext

LEMMA RobotHolds ==
  ASSUME RobotInv
  PROVE  C!RobotTypeOK /\ C!RobotAgrees /\ C!RobotReports
<1>0. /\ Parts(driver, report.entries) /\ RobotControl /\ task.stage \in RobotStages /\ task.read \in Nat
      /\ report.result \in BOOLEAN
  BY RobotTyped
<1>1. /\ Pinned(driver.gpios, driver.low) /\ ItemsFit(driver.items, driver.gpios, driver.links, driver.users)
      /\ LinksFit(driver.links, driver.items, report.entries)
  BY <1>0 DEF Parts
<1>2. C!RobotTypeOK
  <2>1. C!Stages[1] = "providers" /\ C!Stages[2] = "gpios" /\ C!Stages[3] = "items"
    BY DEF C!Stages
  <2>2. task.stage \in {"new", "failed", "configured", "starting", "running", "idle", "stopping", "stopped"}
                       \cup {C!Stages[i] : i \in 1..3}
    BY <1>0, <2>1 DEF RobotStages
  <2>3. DOMAIN C!Items \subseteq {Order[i] : i \in DOMAIN Order}
    BY <1>1 DEF C!Items, ItemsFit, ItemFits, InOrder
  <2> QED BY <1>0, <2>2, <2>3 DEF C!RobotTypeOK
<1>3. C!RobotAgrees
  <2>1. ASSUME NEW n \in DOMAIN driver.items, driver.items[n].type \notin C!Meters, NEW i \in DOMAIN driver.items[n].gpios
        PROVE  LET g == driver.items[n].gpios[i] IN
               /\ g \in DOMAIN driver.gpios
               /\ \E k \in DOMAIN C!LinksOf(driver, g) : driver.links[g][k] = <<n, driver.items[n].type>>
    BY <1>1, <2>1 DEF ItemsFit, ItemFits, Linked, C!LinksOf
  <2>2. \A g \in DOMAIN driver.links : \A k \in DOMAIN driver.links[g] : driver.links[g][k][1] \in DOMAIN driver.items
    BY <1>1 DEF LinksFit, LinkFits
  <2>3. \A n \in DOMAIN driver.items : driver.items[n].type \in C!OnBus => \E i \in DOMAIN driver.users : driver.users[i] = n
    BY <1>1 DEF ItemsFit, ItemFits
  <2> QED BY <1>1, <2>1, <2>2, <2>3 DEF C!RobotAgrees, C!Gpios, C!Items, Pinned
<1>4. C!RobotReports
  <2>1. ASSUME report.result, NEW i \in DOMAIN report.entries
        PROVE  LET e == report.entries[i] IN
               \/ e.type \in C!Misnamed \cup C!NotMade \/ ~C!Once(e.name) \/ (e.type = "LCD" /\ e.bits # 4)
               \/ e.name \in DOMAIN driver.items /\ driver.items[e.name].type = e.type
    <3>1. PICK e : e = report.entries[i]
      OBVIOUS
    <3>2. NotUnknown(e) /\ (OnceIn(report.entries, e.name) => MadeAs(driver.items, e))
      BY <1>0, <2>1, <3>1 DEF RobotControl, AllMade
    <3>3. C!Once(e.name) => OnceIn(report.entries, e.name)
      BY DEF C!Once, OnceIn
    <3>4. \/ C!TypeByName(e.type) = "UNKNOWN" \/ e.type \in C!Misnamed
          \/ C!TypeByName(e.type) = e.type /\ e.type \in C!Made \cup {"LCD"} \cup C!NotMade
      BY TypeIs
    <3> QED BY <3>1, <3>2, <3>3, <3>4 DEF NotUnknown, MadeAs
  <2>2. /\ task.stage = "running" => \A n \in DOMAIN driver.items : driver.items[n].on
        /\ task.stage = "stopped" => \A n \in DOMAIN driver.items : ~driver.items[n].on
    BY <1>0 DEF RobotControl, OnAsFar
  <2>3. ASSUME NEW g \in DOMAIN driver.gpios, driver.gpios[g] = g
        PROVE  LET hears == C!NotifyLow(g[1], g[2]) IN
               /\ \A n \in DOMAIN driver.items :
                    driver.items[n].type = "BUTTON" /\ driver.items[n].gpios[1] = g => n \in hears
               /\ \A n \in hears : C!Once(n) /\ task.stage # "failed" =>
                    driver.items[n].type = "BUTTON" /\ driver.items[n].gpios[1] = g
    <3>1. C!Low(g[1], g[2]) = g
      BY <1>1, <2>3 DEF Pinned
    <3>2. PICK links : links = C!LinksOf(driver, g)
      OBVIOUS
    <3>3. C!NotifyLow(g[1], g[2]) = {links[i][1] : i \in {j \in DOMAIN links : links[j][2] = "BUTTON"}}
      BY <3>1, <3>2 DEF C!NotifyLow
    <3>4. ASSUME NEW n \in DOMAIN driver.items, driver.items[n].type = "BUTTON", driver.items[n].gpios[1] = g
          PROVE  n \in C!NotifyLow(g[1], g[2])
      <4>1. Linked(driver.links, g, n, "BUTTON")
        BY <1>1, <3>4 DEF ItemsFit, ItemFits, C!Meters
      <4>2. PICK k \in DOMAIN links : links[k] = <<n, "BUTTON">>
        BY <3>2, <4>1 DEF Linked, C!LinksOf
      <4>3. links[k][1] = n /\ links[k][2] = "BUTTON"
        BY <4>2
      <4> QED BY <3>3, <4>3
    <3>5. ASSUME NEW n \in C!NotifyLow(g[1], g[2]), C!Once(n), task.stage # "failed"
          PROVE  driver.items[n].type = "BUTTON" /\ driver.items[n].gpios[1] = g
      <4>1. PICK k \in DOMAIN links : links[k][1] = n /\ links[k][2] = "BUTTON"
        BY <3>3, <3>5
      <4>2. Stems(g, links[k], report.entries)
        <5>1. g \in DOMAIN driver.links /\ links = driver.links[g]
          BY <3>2, <4>1 DEF C!LinksOf
        <5> QED BY <1>1, <4>1, <5>1 DEF LinksFit, LinkFits
      <4>3. PICK i \in DOMAIN report.entries :
              /\ report.entries[i].name = n /\ C!TypeByName(report.entries[i].type) = "BUTTON"
              /\ \E m \in DOMAIN report.entries[i].gpios : report.entries[i].gpios[m].name = g
        BY <4>1, <4>2 DEF Stems
      <4>4. PICK e \in ItemEntries : e = report.entries[i]
        BY RobotTyped DEF Read
      <4>5. MadeAs(driver.items, e)
        BY <1>0, <3>5, <4>3, <4>4 DEF RobotControl, AllMade, C!Once, OnceIn
      <4>6. driver.items[n].type = "BUTTON" /\ driver.items[n].gpios = C!GpioNames(e)
        BY <4>3, <4>4, <4>5 DEF MadeAs, C!Made, C!OneGpio
      <4>7. 1 \in DOMAIN e.gpios /\ e.gpios[1].name = g
        BY <4>3, <4>4, RobotAssumption
      <4> QED BY <4>6, <4>7 DEF C!GpioNames
    <3> QED BY <3>4, <3>5
  <2> QED BY <2>1, <2>2, <2>3 DEF C!RobotReports, C!Gpios, C!Items
<1> QED BY <1>2, <1>3, <1>4

-----------------------------------------------------------------------------
(* the memory of the DMA (PhysMemory)                                       *)

HandleStates == {"free", "allocated", "locked"}
MemoryChip == [pages : [Owners -> Nat], handle : [D!Handles -> HandleStates], descriptors : Nat]
MemoryHistory == [faults : Nat, mailbox : BOOLEAN, refreed : BOOLEAN]
PageInfos == [kind : {"page"}, len : Blocks, virtual : VirtualPages, physical : Int]
MailboxInfos == [kind : {"mailbox"}, len : Blocks, virtual : Int, physical : Int, handle : Int]
MemInfos == {D!None} \cup PageInfos \cup MailboxInfos

MemoryTypes == chip \in MemoryChip /\ driver \in [Owners -> MemInfos] /\ report \in MemoryHistory

MemoryInv == MemoryTypes /\ D!MemoryAgrees /\ D!MemoryReports

LEMMA PagesIn ==
  ASSUME NEW len \in Nat
  PROVE  D!Pages(len) \in Nat
<1>1. len % 4096 \in 0..4095 /\ len - (len % 4096) = 4096 * (len \div 4096) /\ len \div 4096 \in Nat
  OBVIOUS
<1>2. D!AlignToPageSize(len) \in Nat
  BY <1>1 DEF D!AlignToPageSize, D!PageSize
<1> QED BY <1>2 DEF D!Pages, D!PageSize

LEMMA HandleIn ==
  ASSUME NEW h \in D!Handles
  PROVE  h \in Int /\ D!BusOf(h) \in Int /\ D!BusToPhys(D!BusOf(h)) \in Int /\ D!BusToPhys(D!BusOf(h)) # 0
<1>1. h \in Int /\ 1 <= h /\ h <= 16383
  BY MemoryAssumption
<1>2. (49152 + h) % 16384 \in Int /\ (49152 + h) % 16384 # 0
  BY <1>1
<1> QED BY <1>1, <1>2 DEF D!BusOf, D!BusToPhys

LEMMA MemoryConstants ==
  /\ Blocks \subseteq Nat /\ VirtualPages \subseteq Nat
  /\ \A len \in Blocks : D!Pages(len) \in Nat
<1>1. Blocks \subseteq Nat /\ VirtualPages \subseteq Nat
  BY MemoryAssumption
<1> QED BY <1>1, PagesIn

LEMMA MemoryInit ==
  ASSUME D!MemoryInit
  PROVE  MemoryInv
<1>1. chip = [pages |-> [o \in Owners |-> 0], handle |-> [h \in D!Handles |-> "free"], descriptors |-> 0]
      /\ driver = [o \in Owners |-> D!None] /\ report = [faults |-> 0, mailbox |-> FALSE, refreed |-> FALSE]
  BY DEF D!MemoryInit
<1>2. chip \in MemoryChip
  BY <1>1 DEF MemoryChip, HandleStates
<1>3. driver \in [Owners -> MemInfos] /\ report \in MemoryHistory
  BY <1>1 DEF MemInfos, MemoryHistory
<1>4. \A o \in Owners : driver[o].kind = "none" /\ ~D!Usable(o)
  BY <1>1 DEF D!None, D!Usable
<1>5. \A h \in D!Handles : chip.handle[h] = "free"
  BY <1>1
<1>6. \A o \in Owners : chip.pages[o] = 0
  BY <1>1
<1>7. D!MemoryAgrees
  BY <1>4, <1>5, <1>6 DEF D!MemoryAgrees
<1>8. D!MemoryReports
  BY <1>4 DEF D!MemoryReports
<1> QED BY <1>2, <1>3, <1>7, <1>8 DEF MemoryInv, MemoryTypes

LEMMA FaultFields ==
  ASSUME MemoryTypes, D!Fault
  PROVE  report' \in MemoryHistory /\ report'.mailbox = report.mailbox /\ report'.refreed = report.refreed
<1>1. PICK n : n = report.faults + 1
  OBVIOUS
<1>2. report' = [report EXCEPT !.faults = n] /\ n \in Nat
  BY <1>1 DEF D!Fault, MemoryTypes, MemoryHistory
<1> QED BY <1>2 DEF MemoryTypes, MemoryHistory

LEMMA MailboxFaultFields ==
  ASSUME MemoryTypes, D!MailboxFault
  PROVE  report' \in MemoryHistory /\ report'.mailbox = TRUE
<1>1. PICK n : n = report.faults + 1
  OBVIOUS
<1>2. report' = [report EXCEPT !.faults = n, !.mailbox = TRUE] /\ n \in Nat
  BY <1>1 DEF D!MailboxFault, MemoryTypes, MemoryHistory
<1> QED BY <1>2 DEF MemoryTypes, MemoryHistory

LEMMA GiveFields ==
  ASSUME MemoryTypes, NEW o \in Owners, NEW info \in MemInfos, D!Give(o, info)
  PROVE  /\ driver' \in [Owners -> MemInfos] /\ driver'[o] = info
         /\ \A p \in Owners \ {o} : driver'[p] = driver[p]
<1>1. driver' = [driver EXCEPT ![o] = info]
  BY DEF D!Give
<1> QED BY <1>1 DEF MemoryTypes

LEMMA SetHandleFields ==
  ASSUME NEW c \in MemoryChip, NEW h, NEW state \in HandleStates
  PROVE  /\ D!SetHandle(c, h, state) \in MemoryChip /\ D!SetHandle(c, h, state).pages = c.pages
         /\ h \in D!Handles => D!SetHandle(c, h, state).handle = [c.handle EXCEPT ![h] = state]
         /\ h \notin D!Handles => D!SetHandle(c, h, state) = c
<1>1. CASE h \in D!Handles
  <2>1. D!SetHandle(c, h, state) = [c EXCEPT !.handle[h] = state]
    BY <1>1 DEF D!SetHandle
  <2>2. c.handle \in [D!Handles -> HandleStates]
    BY DEF MemoryChip
  <2>3. PICK new \in [D!Handles -> HandleStates] : new = [c.handle EXCEPT ![h] = state]
    BY <1>1, <2>2
  <2>4. D!SetHandle(c, h, state) = [c EXCEPT !.handle = new]
    BY <2>1, <2>3
  <2>5. D!SetHandle(c, h, state) = [pages |-> c.pages, handle |-> new, descriptors |-> c.descriptors]
    BY <2>4 DEF MemoryChip
  <2> QED BY <1>1, <2>3, <2>5 DEF MemoryChip
<1>2. CASE h \notin D!Handles
  BY <1>2 DEF D!SetHandle
<1> QED BY <1>1, <1>2

LEMMA PageTaken ==
  ASSUME MemoryInv, NEW o \in Owners, NEW len \in Blocks, NEW page \in VirtualPages, driver[o] = D!None,
         UNCHANGED report, chip' = [chip EXCEPT !.pages[o] = @ + D!Pages(len)],
         D!Give(o, [kind |-> "page", len |-> len, virtual |-> page, physical |-> D!Frame(page)])
  PROVE  MemoryInv'
<1> DEFINE info == [kind |-> "page", len |-> len, virtual |-> page, physical |-> D!Frame(page)]
<1>0. MemoryTypes /\ driver[o].kind = "none"
  BY DEF MemoryInv, D!None
<1>1. info \in PageInfos
  BY MemoryConstants DEF PageInfos, D!Frame
<1>2. info.kind = "page" /\ info.len = len /\ info.physical = D!Frame(info.virtual)
  OBVIOUS
<1>a. D!Give(o, info)
  OBVIOUS
<1> HIDE DEF info
<1>3. /\ driver' \in [Owners -> MemInfos] /\ driver'[o] = info
      /\ \A p \in Owners \ {o} : driver'[p] = driver[p]
  BY <1>0, <1>1, <1>a, GiveFields DEF MemInfos
<1>4. chip.pages \in [Owners -> Nat] /\ D!Pages(len) \in Nat
  BY <1>0, MemoryConstants DEF MemoryTypes, MemoryChip
<1>5. PICK new \in [Owners -> Nat] : new = [chip.pages EXCEPT ![o] = @ + D!Pages(len)]
  <2>1. chip.pages[o] + D!Pages(len) \in Nat
    BY <1>4
  <2> QED BY <1>4, <2>1
<1>6. chip' = [chip EXCEPT !.pages = new]
  BY <1>5
<1>7. chip' \in MemoryChip /\ chip'.pages = new /\ chip'.handle = chip.handle
  BY <1>0, <1>6 DEF MemoryTypes, MemoryChip
<1>8. new[o] = chip.pages[o] + D!Pages(len) /\ \A p \in Owners \ {o} : new[p] = chip.pages[p]
  BY <1>4, <1>5
<1>9. chip.pages[o] = 0
  BY <1>0 DEF MemoryInv, D!MemoryAgrees
<1>10. MemoryTypes'
  BY <1>0, <1>3, <1>7 DEF MemoryTypes
<1>11. ~D!Usable(o) /\ ~D!Usable(o)' /\ \A p \in Owners \ {o} : D!Usable(p)' = D!Usable(p)
  BY <1>0, <1>2, <1>3 DEF D!Usable
<1>12. \A p \in Owners : chip'.pages[p] = IF driver'[p].kind = "page" THEN D!Pages(driver'[p].len) ELSE 0
  <2> TAKE p \in Owners
  <2>1. CASE p = o
    BY <1>2, <1>3, <1>4, <1>7, <1>8, <1>9, <2>1
  <2>2. CASE p # o
    BY <1>3, <1>7, <1>8, <2>2 DEF MemoryInv, D!MemoryAgrees
  <2> QED BY <2>1, <2>2
<1>13. (report.mailbox \/ report.refreed) \/
       /\ \A q, p \in Owners : D!Usable(q)' /\ D!Usable(p)' /\ q # p => driver'[q].handle # driver'[p].handle
       /\ {h \in D!Handles : chip'.handle[h] # "free"} = {driver'[q].handle : q \in {p \in Owners : D!Usable(p)'}}
       /\ \A q \in Owners : D!Usable(q)' => chip'.handle[driver'[q].handle] = "locked"
  <2> SUFFICES ASSUME ~(report.mailbox \/ report.refreed)
               PROVE  /\ \A q, p \in Owners : D!Usable(q)' /\ D!Usable(p)' /\ q # p => driver'[q].handle # driver'[p].handle
                      /\ {h \in D!Handles : chip'.handle[h] # "free"} = {driver'[q].handle : q \in {p \in Owners : D!Usable(p)'}}
                      /\ \A q \in Owners : D!Usable(q)' => chip'.handle[driver'[q].handle] = "locked"
    OBVIOUS
  <2>1. \A q \in Owners : D!Usable(q)' <=> D!Usable(q)
    BY <1>11
  <2>2. \A q \in Owners : D!Usable(q) => driver'[q] = driver[q]
    BY <1>3, <1>11
  <2>3. {driver'[q].handle : q \in {p \in Owners : D!Usable(p)'}} = {driver[q].handle : q \in {p \in Owners : D!Usable(p)}}
    BY <2>1, <2>2
  <2> QED BY <1>7, <2>1, <2>2, <2>3 DEF MemoryInv, D!MemoryAgrees
<1>14. D!MemoryAgrees'
  BY <1>12, <1>13 DEF D!MemoryAgrees
<1>15. D!MemoryReports'
  <2> SUFFICES ASSUME NEW p \in Owners
               PROVE  /\ driver'[p].kind = "page" => driver'[p].physical = D!Frame(driver'[p].virtual)
                      /\ D!Usable(p)' /\ ~report.mailbox => driver'[p].physical = D!BusOf(driver'[p].handle)
    BY DEF D!MemoryReports, D!Frame, D!BusOf
  <2>1. CASE p = o
    BY <1>2, <1>3, <1>11, <2>1
  <2>2. CASE p # o
    BY <1>3, <1>11, <2>2 DEF MemoryInv, D!MemoryReports
  <2> QED BY <2>1, <2>2
<1> QED BY <1>10, <1>14, <1>15 DEF MemoryInv

(* The others' part of the agreement on handles, without the mailbox.       *)
HandlesAgree ==
  /\ \A o, p \in Owners : D!Usable(o) /\ D!Usable(p) /\ o # p => driver[o].handle # driver[p].handle
  /\ \A o \in Owners : D!Usable(o) => driver[o].handle \in D!Handles /\ chip.handle[driver[o].handle] = "locked"
  /\ \A h \in D!Handles : chip.handle[h] # "free" => \E o \in Owners : D!Usable(o) /\ driver[o].handle = h

PagesAgree == \A o \in Owners : chip.pages[o] = IF driver[o].kind = "page" THEN D!Pages(driver[o].len) ELSE 0

LEMMA AgreesByParts ==
  ASSUME MemoryTypes
  PROVE  D!MemoryAgrees <=> PagesAgree /\ (report.mailbox \/ report.refreed \/ HandlesAgree)
<1>1. ASSUME HandlesAgree
      PROVE  {h \in D!Handles : chip.handle[h] # "free"} = {driver[o].handle : o \in {p \in Owners : D!Usable(p)}}
  <2>1. ASSUME NEW h \in D!Handles, chip.handle[h] # "free"
        PROVE  h \in {driver[o].handle : o \in {p \in Owners : D!Usable(p)}}
    BY <1>1, <2>1 DEF HandlesAgree
  <2>2. ASSUME NEW o \in Owners, D!Usable(o)
        PROVE  driver[o].handle \in D!Handles /\ chip.handle[driver[o].handle] # "free"
    BY <1>1, <2>2 DEF HandlesAgree
  <2> QED BY <2>1, <2>2
<1>2. ASSUME {h \in D!Handles : chip.handle[h] # "free"} = {driver[o].handle : o \in {p \in Owners : D!Usable(p)}}
      PROVE  /\ \A o \in Owners : D!Usable(o) => driver[o].handle \in D!Handles
             /\ \A h \in D!Handles : chip.handle[h] # "free" => \E o \in Owners : D!Usable(o) /\ driver[o].handle = h
  <2>1. ASSUME NEW o \in Owners, D!Usable(o) PROVE driver[o].handle \in D!Handles
    <3>1. driver[o].handle \in {driver[q].handle : q \in {p \in Owners : D!Usable(p)}}
      BY <2>1
    <3> QED BY <1>2, <3>1
  <2>2. ASSUME NEW h \in D!Handles, chip.handle[h] # "free" PROVE \E o \in Owners : D!Usable(o) /\ driver[o].handle = h
    <3>1. h \in {driver[q].handle : q \in {p \in Owners : D!Usable(p)}}
      BY <1>2, <2>2
    <3> QED BY <3>1
  <2> QED BY <2>1, <2>2
<1>3. ASSUME PagesAgree, HandlesAgree PROVE D!MemoryAgrees
  BY <1>1, <1>3 DEF PagesAgree, HandlesAgree, D!MemoryAgrees
<1>4. ASSUME PagesAgree, report.mailbox \/ report.refreed PROVE D!MemoryAgrees
  BY <1>4 DEF PagesAgree, D!MemoryAgrees
<1>5. ASSUME D!MemoryAgrees, ~report.mailbox, ~report.refreed PROVE HandlesAgree
  BY <1>2, <1>5 DEF D!MemoryAgrees, HandlesAgree
<1>6. ASSUME D!MemoryAgrees PROVE PagesAgree
  BY <1>6 DEF D!MemoryAgrees, PagesAgree
<1> QED BY <1>3, <1>4, <1>5, <1>6

LEMMA AgreesNext ==
  MemoryTypes => (D!MemoryAgrees <=> PagesAgree /\ (report.mailbox \/ report.refreed \/ HandlesAgree))
BY AgreesByParts

LEMMA AgreesPrimed ==
  MemoryTypes' => (D!MemoryAgrees' <=> PagesAgree' /\ (report'.mailbox \/ report'.refreed \/ HandlesAgree'))
<1>1. (MemoryTypes => (D!MemoryAgrees <=> PagesAgree /\ (report.mailbox \/ report.refreed \/ HandlesAgree)))'
  BY AgreesNext, PTL
<1> QED BY <1>1

LEMMA PageFreed ==
  ASSUME MemoryInv, NEW o \in Owners, D!FreeMemory(o)
  PROVE  MemoryInv'
<1>0. MemoryTypes /\ driver[o].kind = "page" /\ PagesAgree /\ (report.mailbox \/ report.refreed \/ HandlesAgree)
  BY AgreesByParts DEF MemoryInv, D!FreeMemory
<1>1. CASE D!Fault /\ UNCHANGED <<chip, driver>>
  <2>1. report' \in MemoryHistory /\ report'.mailbox = report.mailbox /\ report'.refreed = report.refreed
    BY <1>0, <1>1, FaultFields
  <2> QED BY <1>1, <2>1 DEF MemoryInv, MemoryTypes, D!MemoryAgrees, D!MemoryReports, D!Usable
<1>2. CASE /\ chip' = [chip EXCEPT !.pages[o] = @ - D!Pages(driver[o].len)]
           /\ D!Give(o, D!None) /\ UNCHANGED report
  <2>1. /\ driver' \in [Owners -> MemInfos] /\ driver'[o] = D!None
        /\ \A p \in Owners \ {o} : driver'[p] = driver[p]
    <3>1. D!None \in MemInfos
      BY DEF MemInfos
    <3> QED BY <1>0, <1>2, <3>1, GiveFields
  <2>2. chip.pages \in [Owners -> Nat] /\ chip.pages[o] = D!Pages(driver[o].len)
    BY <1>0 DEF MemoryTypes, MemoryChip, PagesAgree
  <2>3. chip.pages[o] - D!Pages(driver[o].len) = 0
    BY <2>2
  <2>4. PICK new \in [Owners -> Nat] : new = [chip.pages EXCEPT ![o] = 0]
    BY <2>2
  <2>5. chip' = [chip EXCEPT !.pages = new]
    BY <1>2, <2>3, <2>4
  <2>6. chip' \in MemoryChip /\ chip'.pages = new /\ chip'.handle = chip.handle
    BY <1>0, <2>5 DEF MemoryTypes, MemoryChip
  <2>7. MemoryTypes'
    BY <1>0, <1>2, <2>1, <2>6 DEF MemoryTypes
  <2>8. driver'[o].kind = "none" /\ \A q \in Owners : D!Usable(q)' <=> D!Usable(q)
    BY <1>0, <2>1 DEF D!Usable, D!None
  <2>9. PagesAgree'
    BY <1>0, <2>1, <2>2, <2>4, <2>6, <2>8 DEF PagesAgree, D!Pages, D!AlignToPageSize, D!PageSize
  <2>10. HandlesAgree => HandlesAgree'
    <3>1. \A q \in Owners : D!Usable(q) => driver'[q] = driver[q]
      BY <1>0, <2>1 DEF D!Usable
    <3> QED BY <2>6, <2>8, <3>1 DEF HandlesAgree, D!Handles
  <2>11. D!MemoryAgrees'
    <3>1. MemoryTypes' => (D!MemoryAgrees' <=> PagesAgree' /\ (report'.mailbox \/ report'.refreed \/ HandlesAgree'))
      BY AgreesPrimed
    <3> QED BY <1>0, <1>2, <2>7, <2>9, <2>10, <3>1
  <2>12. D!MemoryReports'
    <3>1. \A q \in Owners : D!Usable(q)' => driver'[q] = driver[q] /\ D!Usable(q)
      BY <1>0, <2>1, <2>8 DEF D!Usable
    <3> QED BY <1>2, <2>1, <2>8, <3>1 DEF MemoryInv, D!MemoryReports, D!Frame, D!BusOf
  <2> QED BY <2>7, <2>11, <2>12 DEF MemoryInv
<1> QED BY <1>1, <1>2 DEF D!FreeMemory

(* What a mailbox call leaves: a block for its owner, in a handle that is   *)
(* free, locked or allocated.                                               *)
LEMMA BlockGiven ==
  ASSUME MemoryInv, NEW o \in Owners, NEW len \in Blocks, driver[o] = D!None,
         NEW virtual \in Int, NEW physical \in Int, NEW handle \in Int,
         D!Give(o, [kind |-> "mailbox", len |-> len, virtual |-> virtual, physical |-> physical, handle |-> handle]),
         chip' \in MemoryChip, chip'.pages = chip.pages,
         report' \in MemoryHistory, report.mailbox => report'.mailbox, report'.refreed = report.refreed,
         report'.mailbox \/
           /\ virtual # 0 => /\ handle \in D!Handles /\ chip.handle[handle] = "free" /\ physical = D!BusOf(handle)
                             /\ chip'.handle = [chip.handle EXCEPT ![handle] = "locked"]
           /\ virtual = 0 => chip'.handle = chip.handle
  PROVE  MemoryInv'
<1> DEFINE info == [kind |-> "mailbox", len |-> len, virtual |-> virtual, physical |-> physical, handle |-> handle]
<1>1. info \in MemInfos
  BY DEF MemInfos, MailboxInfos
<1>2. info.kind = "mailbox" /\ info.virtual = virtual /\ info.physical = physical /\ info.handle = handle
  OBVIOUS
<1>a. D!Give(o, info)
  OBVIOUS
<1> HIDE DEF info
<1>0. MemoryTypes /\ PagesAgree /\ (report.mailbox \/ report.refreed \/ HandlesAgree) /\ driver[o].kind = "none"
  BY AgreesByParts DEF MemoryInv, D!None
<1>3. /\ driver' \in [Owners -> MemInfos] /\ driver'[o] = info
      /\ \A p \in Owners \ {o} : driver'[p] = driver[p]
  BY <1>0, <1>1, <1>a, GiveFields
<1>4. MemoryTypes'
  BY <1>3 DEF MemoryTypes
<1>5. ~D!Usable(o) /\ (D!Usable(o)' <=> virtual # 0) /\ \A p \in Owners \ {o} : D!Usable(p)' <=> D!Usable(p)
  BY <1>0, <1>2, <1>3 DEF D!Usable
<1>6. PagesAgree'
  <2> SUFFICES ASSUME NEW p \in Owners
               PROVE  chip'.pages[p] = IF driver'[p].kind = "page" THEN D!Pages(driver'[p].len) ELSE 0
    BY DEF PagesAgree, D!Pages, D!AlignToPageSize, D!PageSize
  <2> QED BY <1>0, <1>2, <1>3 DEF PagesAgree
<1>7. ASSUME ~report'.mailbox, ~report'.refreed PROVE HandlesAgree'
  <2>1. HandlesAgree
    BY <1>0, <1>7
  <2>2. chip.handle \in [D!Handles -> HandleStates]
    BY <1>0 DEF MemoryTypes, MemoryChip
  <2>3. CASE virtual = 0
    <3>1. chip'.handle = chip.handle
      BY <1>7, <2>3
    <3>2. \A p \in Owners : D!Usable(p)' <=> D!Usable(p)
      BY <1>5, <2>3
    <3>3. \A p \in Owners : D!Usable(p) => driver'[p] = driver[p]
      BY <1>3, <1>5
    <3> QED BY <2>1, <3>1, <3>2, <3>3 DEF HandlesAgree, D!Handles
  <2>4. CASE virtual # 0
    <3>1. handle \in D!Handles /\ chip.handle[handle] = "free" /\ chip'.handle = [chip.handle EXCEPT ![handle] = "locked"]
      BY <1>7, <2>4
    <3>2. chip'.handle[handle] = "locked" /\ \A h \in D!Handles \ {handle} : chip'.handle[h] = chip.handle[h]
      BY <2>2, <3>1
    <3>3. driver'[o].handle = handle /\ D!Usable(o)'
      BY <1>2, <1>3, <1>5, <2>4
    <3>4. \A p \in Owners \ {o} : D!Usable(p)' => D!Usable(p) /\ driver'[p] = driver[p] /\ driver[p].handle # handle
      BY <1>3, <1>5, <2>1, <3>1 DEF HandlesAgree
    <3>5. \A p, q \in Owners : D!Usable(p)' /\ D!Usable(q)' /\ p # q => driver'[p].handle # driver'[q].handle
      BY <2>1, <3>3, <3>4 DEF HandlesAgree
    <3>6. \A p \in Owners : D!Usable(p)' => driver'[p].handle \in D!Handles /\ chip'.handle[driver'[p].handle] = "locked"
      BY <2>1, <3>1, <3>2, <3>3, <3>4 DEF HandlesAgree
    <3>7. \A h \in D!Handles : chip'.handle[h] # "free" => \E p \in Owners : D!Usable(p)' /\ driver'[p].handle = h
      <4> TAKE h \in D!Handles
      <4>1. CASE h = handle
        BY <3>3, <4>1
      <4>2. ASSUME h # handle, chip'.handle[h] # "free" PROVE \E p \in Owners : D!Usable(p)' /\ driver'[p].handle = h
        <5>1. PICK p \in Owners : D!Usable(p) /\ driver[p].handle = h
          BY <2>1, <3>2, <4>2 DEF HandlesAgree
        <5> QED BY <1>3, <1>5, <5>1
      <4> QED BY <4>1, <4>2
    <3> QED BY <3>5, <3>6, <3>7 DEF HandlesAgree, D!Handles
  <2> QED BY <2>3, <2>4
<1>8. D!MemoryAgrees'
  <2>1. MemoryTypes' => (D!MemoryAgrees' <=> PagesAgree' /\ (report'.mailbox \/ report'.refreed \/ HandlesAgree'))
    BY AgreesPrimed
  <2> QED BY <1>4, <1>6, <1>7, <2>1
<1>9. D!MemoryReports'
  <2> SUFFICES ASSUME NEW p \in Owners
               PROVE  /\ driver'[p].kind = "page" => driver'[p].physical = D!Frame(driver'[p].virtual)
                      /\ D!Usable(p)' /\ ~report'.mailbox => driver'[p].physical = D!BusOf(driver'[p].handle)
    BY DEF D!MemoryReports, D!Frame, D!BusOf
  <2>1. CASE p = o
    BY <1>2, <1>3, <1>5, <2>1
  <2>2. CASE p # o
    BY <1>3, <1>5, <2>2 DEF MemoryInv, D!MemoryReports
  <2> QED BY <2>1, <2>2
<1> QED BY <1>4, <1>8, <1>9 DEF MemoryInv

LEMMA MailboxAllocated ==
  ASSUME MemoryInv, NEW o \in Owners, NEW len \in Blocks, D!AllocAndMap(o, len)
  PROVE  MemoryInv'
<1>1. PICK h \in D!Handles :
        driver[o] = D!None /\ chip.handle[h] = "free" /\ D!MapOrNot(o, D!SetHandle(chip, h, "locked"), len, h, D!BusOf(h))
  BY DEF D!AllocAndMap, D!Fresh
<1>2. MemoryTypes /\ chip \in MemoryChip /\ chip.handle \in [D!Handles -> HandleStates] /\ report \in MemoryHistory
  BY DEF MemoryInv, MemoryTypes, MemoryChip
<1>3. h \in Int /\ D!BusOf(h) \in Int /\ D!BusToPhys(D!BusOf(h)) \in Int /\ D!BusToPhys(D!BusOf(h)) # 0
  BY HandleIn
<1> DEFINE got == D!SetHandle(chip, h, "locked")
<1>4. got \in MemoryChip /\ got.pages = chip.pages /\ got.handle = [chip.handle EXCEPT ![h] = "locked"]
  BY <1>2, SetHandleFields DEF HandleStates
<1> DEFINE more == [got EXCEPT !.descriptors = @ + 1]
<1>5. more \in MemoryChip /\ more.pages = chip.pages /\ more.handle = got.handle
  <2> HIDE DEF got
  <2> QED BY <1>4 DEF MemoryChip
<1>6. \/ chip' = got /\ D!Give(o, D!Info(len, D!BusToPhys(D!BusOf(h)), h, D!BusOf(h))) /\ UNCHANGED report
      \/ D!Unusable(o, got, len, h, D!BusOf(h)) /\ D!Fault
      \/ D!Unusable(o, more, len, h, D!BusOf(h)) /\ D!Fault
  BY <1>1 DEF D!MapOrNot
<1> HIDE DEF got, more
<1>7. CASE chip' = got /\ D!Give(o, D!Info(len, D!BusToPhys(D!BusOf(h)), h, D!BusOf(h))) /\ UNCHANGED report
  <2>1. D!Give(o, [kind |-> "mailbox", len |-> len, virtual |-> D!BusToPhys(D!BusOf(h)), physical |-> D!BusOf(h), handle |-> h])
    BY <1>7 DEF D!Info
  <2>2. chip' \in MemoryChip /\ chip'.pages = chip.pages /\ chip'.handle = [chip.handle EXCEPT ![h] = "locked"]
    BY <1>4, <1>7
  <2>3. report' \in MemoryHistory /\ report'.mailbox = report.mailbox /\ report'.refreed = report.refreed
    BY <1>2, <1>7
  <2> QED BY <1>1, <1>3, <2>1, <2>2, <2>3, BlockGiven
<1>8. ASSUME NEW c \in {got, more}, D!Unusable(o, c, len, h, D!BusOf(h)), D!Fault PROVE MemoryInv'
  <2>1. c \in MemoryChip /\ c.pages = chip.pages /\ c.handle = [chip.handle EXCEPT ![h] = "locked"]
    BY <1>4, <1>5, <1>8
  <2>2. chip' = D!SetHandle(c, h, "free")
    BY <1>8 DEF D!Unusable
  <2>3. chip' \in MemoryChip /\ chip'.pages = chip.pages /\ chip'.handle = [c.handle EXCEPT ![h] = "free"]
    BY <2>1, <2>2, SetHandleFields DEF HandleStates
  <2>4. chip'.handle = chip.handle
    BY <1>1, <1>2, <2>1, <2>3
  <2>a. PICK bus \in Int : bus = D!BusOf(h)
    BY <1>3
  <2>5. D!Give(o, [kind |-> "mailbox", len |-> len, virtual |-> 0, physical |-> bus, handle |-> h])
    BY <1>8, <2>a DEF D!Unusable, D!Info
  <2>b. 0 \in Int /\ ~(0 # 0)
    OBVIOUS
  <2>6. report' \in MemoryHistory /\ report'.mailbox = report.mailbox /\ report'.refreed = report.refreed
    BY <1>2, <1>8, FaultFields
  <2> QED BY <1>1, <1>3, <2>3, <2>4, <2>5, <2>6, <2>b, BlockGiven, Zenon
<1> QED BY <1>6, <1>7, <1>8

LEMMA MailboxFails ==
  ASSUME MemoryInv, NEW o \in Owners, NEW len \in Blocks, D!LockFails(o, len) \/ D!AllocFails(o, len)
  PROVE  MemoryInv'
<1>1. MemoryTypes /\ chip \in MemoryChip
  BY DEF MemoryInv, MemoryTypes
<1>2. driver[o] = D!None /\ D!MailboxFault
  BY DEF D!LockFails, D!AllocFails
<1>3. report' \in MemoryHistory /\ report'.mailbox = TRUE
  BY <1>1, <1>2, MailboxFaultFields
<1>a. report'.refreed = report.refreed
  BY <1>1, <1>2 DEF D!MailboxFault, MemoryTypes, MemoryHistory
<1>4. CASE D!LockFails(o, len)
  <2>1. PICK h \in D!Handles :
          /\ chip' = D!SetHandle(chip, h, "allocated")
          /\ D!Give(o, D!Info(len, D!BusToPhys(h), h, h))
    BY <1>4 DEF D!LockFails, D!Fresh
  <2>2. chip' \in MemoryChip /\ chip'.pages = chip.pages
    BY <1>1, <2>1, SetHandleFields DEF HandleStates
  <2>3. h \in Int /\ D!BusToPhys(h) \in Int
    <3>1. h \in Int
      BY HandleIn
    <3> QED BY <3>1 DEF D!BusToPhys
  <2>4. PICK v \in Int : v = D!BusToPhys(h)
    BY <2>3
  <2>5. D!Give(o, [kind |-> "mailbox", len |-> len, virtual |-> v, physical |-> h, handle |-> h])
    BY <2>1, <2>4 DEF D!Info
  <2>6. report'.mailbox
    BY <1>3
  <2> QED BY <1>2, <1>3, <1>a, <2>2, <2>3, <2>5, <2>6, BlockGiven, Zenon
<1>5. CASE D!AllocFails(o, len)
  <2>1. chip' = D!SetHandle(chip, len, "free") /\ D!Give(o, D!Info(len, 0, len, 0))
    BY <1>5 DEF D!AllocFails, D!Unusable
  <2>2. chip' \in MemoryChip /\ chip'.pages = chip.pages
    BY <1>1, <2>1, SetHandleFields DEF HandleStates
  <2>3. len \in Int
    BY MemoryConstants
  <2>4. D!Give(o, [kind |-> "mailbox", len |-> len, virtual |-> 0, physical |-> 0, handle |-> len])
    BY <2>1 DEF D!Info
  <2>5. report'.mailbox /\ 0 \in Int
    BY <1>3
  <2> QED BY <1>2, <1>3, <1>a, <2>2, <2>3, <2>4, <2>5, BlockGiven, Zenon
<1> QED BY <1>4, <1>5

LEMMA MailboxFreed ==
  ASSUME MemoryInv, NEW o \in Owners, D!FreeMailbox(o)
  PROVE  MemoryInv'
<1> DEFINE handle == driver[o].handle
<1>1. MemoryTypes /\ PagesAgree /\ (report.mailbox \/ report.refreed \/ HandlesAgree)
      /\ driver[o].kind = "mailbox" /\ chip \in MemoryChip /\ chip.handle \in [D!Handles -> HandleStates]
  BY AgreesByParts DEF MemoryInv, D!FreeMailbox, MemoryTypes, MemoryChip
<1>2. chip' = D!SetHandle(chip, handle, "free") /\ D!Give(o, D!None)
  BY DEF D!FreeMailbox
<1>3. PICK x \in BOOLEAN : x <=> report.refreed \/ driver[o].virtual = 0
  OBVIOUS
<1>4. x = (report.refreed \/ driver[o].virtual = 0)
  BY <1>1, <1>3 DEF MemoryTypes, MemoryHistory
<1>5. report' = [report EXCEPT !.refreed = x]
  BY <1>4 DEF D!FreeMailbox
<1>6. report' \in MemoryHistory /\ report'.mailbox = report.mailbox /\ report'.refreed = x
  BY <1>1, <1>5 DEF MemoryTypes, MemoryHistory
<1> HIDE DEF handle
<1>7. /\ chip' \in MemoryChip /\ chip'.pages = chip.pages
      /\ handle \in D!Handles => chip'.handle = [chip.handle EXCEPT ![handle] = "free"]
  BY <1>1, <1>2, SetHandleFields DEF HandleStates
<1>8. /\ driver' \in [Owners -> MemInfos] /\ driver'[o] = D!None
      /\ \A p \in Owners \ {o} : driver'[p] = driver[p]
  <2>1. D!None \in MemInfos
    BY DEF MemInfos
  <2> QED BY <1>1, <1>2, <2>1, GiveFields
<1>9. MemoryTypes'
  BY <1>6, <1>7, <1>8 DEF MemoryTypes
<1>10. driver'[o].kind = "none" /\ ~D!Usable(o)' /\ \A p \in Owners \ {o} : D!Usable(p)' <=> D!Usable(p)
  BY <1>8 DEF D!Usable, D!None
<1>11. PagesAgree'
  <2> SUFFICES ASSUME NEW p \in Owners
               PROVE  chip'.pages[p] = IF driver'[p].kind = "page" THEN D!Pages(driver'[p].len) ELSE 0
    BY DEF PagesAgree, D!Pages, D!AlignToPageSize, D!PageSize
  <2> QED BY <1>1, <1>7, <1>8, <1>10 DEF PagesAgree
<1>12. ASSUME ~report'.mailbox, ~report'.refreed PROVE HandlesAgree'
  <2>1. HandlesAgree /\ driver[o].virtual # 0 /\ D!Usable(o)
    BY <1>1, <1>3, <1>6, <1>12 DEF D!Usable
  <2>2. handle \in D!Handles /\ chip.handle[handle] = "locked"
    BY <2>1 DEF HandlesAgree, handle
  <2>3. chip'.handle[handle] = "free" /\ \A h \in D!Handles \ {handle} : chip'.handle[h] = chip.handle[h]
    BY <1>1, <1>7, <2>2
  <2>4. \A p \in Owners : D!Usable(p)' => p # o /\ D!Usable(p) /\ driver'[p] = driver[p] /\ driver[p].handle # handle
    BY <1>8, <1>10, <2>1 DEF HandlesAgree, handle
  <2>5. \A p, q \in Owners : D!Usable(p)' /\ D!Usable(q)' /\ p # q => driver'[p].handle # driver'[q].handle
    BY <2>1, <2>4 DEF HandlesAgree
  <2>6. \A p \in Owners : D!Usable(p)' => driver'[p].handle \in D!Handles /\ chip'.handle[driver'[p].handle] = "locked"
    BY <2>1, <2>3, <2>4 DEF HandlesAgree
  <2>7. \A h \in D!Handles : chip'.handle[h] # "free" => \E p \in Owners : D!Usable(p)' /\ driver'[p].handle = h
    <3>1. ASSUME NEW h \in D!Handles, chip'.handle[h] # "free" PROVE \E p \in Owners : D!Usable(p)' /\ driver'[p].handle = h
      <4>1. h # handle
        BY <2>3, <3>1
      <4>2. PICK p \in Owners : D!Usable(p) /\ driver[p].handle = h
        BY <2>1, <2>3, <3>1, <4>1 DEF HandlesAgree
      <4>3. p # o
        BY <4>1, <4>2 DEF handle
      <4> QED BY <1>8, <1>10, <4>2, <4>3
    <3> QED BY <3>1
  <2> QED BY <2>5, <2>6, <2>7 DEF HandlesAgree, D!Handles
<1>13. D!MemoryAgrees'
  BY <1>9, <1>11, <1>12, AgreesPrimed
<1>14. D!MemoryReports'
  <2> SUFFICES ASSUME NEW p \in Owners
               PROVE  /\ driver'[p].kind = "page" => driver'[p].physical = D!Frame(driver'[p].virtual)
                      /\ D!Usable(p)' /\ ~report'.mailbox => driver'[p].physical = D!BusOf(driver'[p].handle)
    BY DEF D!MemoryReports, D!Frame, D!BusOf
  <2>1. CASE p = o
    BY <1>10, <2>1
  <2>2. CASE p # o
    BY <1>6, <1>8, <1>10, <2>2 DEF MemoryInv, D!MemoryReports
  <2> QED BY <2>1, <2>2
<1> QED BY <1>9, <1>13, <1>14 DEF MemoryInv

LEMMA MemoryGot ==
  ASSUME MemoryInv, NEW o \in Owners, NEW len \in Blocks, D!GetMemory(o, len)
  PROVE  MemoryInv'
<1>1. ASSUME NEW page \in VirtualPages, UNCHANGED report, chip' = [chip EXCEPT !.pages[o] = @ + D!Pages(len)],
             D!Give(o, [kind |-> "page", len |-> len, virtual |-> page, physical |-> D!Frame(page)])
      PROVE  MemoryInv'
  BY <1>1, PageTaken DEF D!GetMemory
<1>2. CASE UNCHANGED <<chip, driver, report>>
  BY <1>2 DEF MemoryInv, MemoryTypes, D!MemoryAgrees, D!MemoryReports, D!Usable
<1>3. CASE D!Fault /\ UNCHANGED <<chip, driver>>
  <2>1. report' \in MemoryHistory /\ report'.mailbox = report.mailbox /\ report'.refreed = report.refreed
    BY <1>3, FaultFields DEF MemoryInv
  <2> QED BY <1>3, <2>1 DEF MemoryInv, MemoryTypes, D!MemoryAgrees, D!MemoryReports, D!Usable
<1> QED BY <1>1, <1>2, <1>3 DEF D!GetMemory

LEMMA MemoryStep ==
  ASSUME MemoryInv, D!MemoryNext
  PROVE  MemoryInv'
BY PageFreed, MailboxFreed, MemoryGot, MailboxAllocated, MailboxFails DEF D!MemoryNext

LEMMA MemoryHolds ==
  ASSUME MemoryInv
  PROVE  D!MemoryTypeOK /\ D!MemoryAgrees /\ D!MemoryReports
<1>1. \A o \in Owners : driver[o] \in MemInfos
  BY DEF MemoryInv, MemoryTypes
<1>2. \A info \in MemInfos : info.kind \in {"none", "page", "mailbox"}
  BY DEF MemInfos, D!None, PageInfos, MailboxInfos
<1>3. chip.pages \in [Owners -> Nat] /\ chip.handle \in [D!Handles -> HandleStates] /\ chip.descriptors \in Nat
  BY DEF MemoryInv, MemoryTypes, MemoryChip
<1>4. D!MemoryTypeOK
  BY <1>1, <1>2, <1>3 DEF D!MemoryTypeOK, HandleStates
<1> QED BY <1>4 DEF MemoryInv

-----------------------------------------------------------------------------
(* the DMA channel (DmaPwm)                                                 *)

Clocks == [source : {"osc", "gnd"}, running : BOOLEAN]
Channel ==
  [enabled : BOOLEAN, active : BOOLEAN, end : BOOLEAN, block : DmaPages \cup {0}, mapped : SUBSET DmaPages,
   pwm : BOOLEAN, dreq : BOOLEAN, clock : Clocks, moved : Nat]
Cores == [state : {"none", "alive", "crashed"}, dma : BOOLEAN, started : BOOLEAN]
WriteTasks ==
  [step : {"idle", "process", "check", "give up"}, block : DmaPages \cup {0}, checks : 0..A!CheckLimit]
Results == [len : Nat, result : {"none", "sent", "busy", "timeout"}, moved : Nat]
DmaHistory ==
  [answer : Results, timedOut : BOOLEAN, ready : BOOLEAN, cores : Nat, writes : Nat, faults : Nat]

DmaTypes == chip \in Channel /\ driver \in Cores /\ task \in WriteTasks /\ report \in DmaHistory

DmaControl ==
  /\ task.step \in {"check", "give up"} =>
       /\ driver.started /\ ~report.timedOut
       /\ chip.end => chip.moved = A!Kept(report.answer.len)
  /\ task.step \in {"idle", "process"} /\ driver.started => report.timedOut
  /\ report.timedOut /\ driver.state # "none" => driver.started /\ ~chip.end /\ ~chip.active
  /\ task.step = "idle" => task = A!Idle
  /\ task.step # "idle" => driver.state = "alive"

DmaInv == DmaTypes /\ DmaControl /\ A!DmaAgrees /\ A!DmaReports /\ A!DmaOff

LEMMA DmaInit ==
  ASSUME A!DmaInit
  PROVE  DmaInv
<1>1. PICK on \in BOOLEAN, enabled \in BOOLEAN, end \in BOOLEAN :
        chip = [enabled |-> enabled, active |-> FALSE, end |-> end, block |-> 0, mapped |-> {}, pwm |-> on, dreq |-> on,
                clock |-> [source |-> "osc", running |-> on], moved |-> 0]
  BY DEF A!DmaInit
<1>2. driver = [state |-> "none", dma |-> FALSE, started |-> FALSE] /\ task = A!Idle
  BY DEF A!DmaInit
<1>3. report = [answer |-> A!NoAnswer, timedOut |-> FALSE, ready |-> FALSE, cores |-> 0, writes |-> 0, faults |-> 0]
  BY DEF A!DmaInit
<1>4. DmaTypes
  BY <1>1, <1>2, <1>3, LensAssumption, FaultsAssumption DEF DmaTypes, Channel, Clocks, Cores, WriteTasks, DmaHistory, Results, A!Idle, A!NoAnswer, A!CheckLimit
<1>5. DmaControl
  BY <1>1, <1>2, <1>3 DEF DmaControl, A!Idle
<1>6. A!DmaAgrees /\ A!DmaOff
  BY <1>1, <1>2, <1>3 DEF A!DmaAgrees, A!DmaOff, A!Idle
<1>7. A!DmaReports
  BY <1>1, <1>2, <1>3 DEF A!DmaReports, A!NoAnswer
<1> QED BY <1>4, <1>5, <1>6, <1>7 DEF DmaInv

LEMMA ResetLiteFields ==
  ASSUME NEW c \in Channel
  PROVE  /\ A!ResetLite(c) \in Channel
         /\ ~A!ResetLite(c).active /\ ~A!ResetLite(c).end
         /\ A!ResetLite(c).mapped = c.mapped /\ A!ResetLite(c).moved = c.moved
         /\ A!ResetLite(c).pwm = c.pwm /\ A!ResetLite(c).dreq = c.dreq /\ A!ResetLite(c).clock = c.clock
BY DEF A!ResetLite, Channel

LEMMA ResetFields ==
  ASSUME NEW c \in Channel
  PROVE  /\ A!Reset(c) \in Channel
         /\ ~A!Reset(c).active /\ ~A!Reset(c).end
         /\ A!Reset(c).mapped = c.mapped /\ A!Reset(c).moved = c.moved
         /\ A!Reset(c).pwm = c.pwm /\ A!Reset(c).dreq = c.dreq /\ A!Reset(c).clock = c.clock
BY ResetLiteFields DEF A!Reset, Channel

LEMMA FreeBlockFields ==
  ASSUME NEW c \in Channel
  PROVE  /\ A!FreeBlock(c) \in Channel
         /\ A!FreeBlock(c).mapped = c.mapped \ {task.block}
         /\ A!FreeBlock(c).active = c.active /\ A!FreeBlock(c).end = c.end /\ A!FreeBlock(c).moved = c.moved
         /\ A!FreeBlock(c).pwm = c.pwm /\ A!FreeBlock(c).dreq = c.dreq /\ A!FreeBlock(c).clock = c.clock
BY DEF A!FreeBlock, Channel

LEMMA StopClockFields ==
  ASSUME NEW c \in Channel
  PROVE  /\ A!StopClock(c) \in Channel /\ ~A!StopClock(c).clock.running
         /\ A!StopClock(c).active = c.active /\ A!StopClock(c).end = c.end
         /\ A!StopClock(c).mapped = c.mapped /\ A!StopClock(c).moved = c.moved
BY DEF A!StopClock, Channel, Clocks

LEMMA ClearFields ==
  ASSUME NEW c \in Channel
  PROVE  /\ A!Clear(c) \in Channel /\ ~A!Clear(c).pwm /\ ~A!Clear(c).dreq /\ A!Clear(c).clock = c.clock
         /\ A!Clear(c).active = c.active /\ A!Clear(c).end = c.end
         /\ A!Clear(c).mapped = c.mapped /\ A!Clear(c).moved = c.moved
BY DEF A!Clear, Channel

LEMMA ConfigureFields ==
  ASSUME NEW c \in Channel
  PROVE  /\ A!Configure(c) \in Channel /\ A!Configure(c).pwm /\ A!Configure(c).dreq /\ A!Configure(c).clock = c.clock
         /\ A!Configure(c).active = c.active /\ A!Configure(c).end = c.end
         /\ A!Configure(c).mapped = c.mapped /\ A!Configure(c).moved = c.moved
BY DEF A!Configure, Channel

LEMMA AnswerFields ==
  ASSUME NEW c \in Channel, NEW result \in {"sent", "busy", "timeout"}, report \in DmaHistory, A!Answer(c, result)
  PROVE  /\ report' \in DmaHistory
         /\ report'.answer.result = result /\ report'.answer.moved = c.moved /\ report'.answer.len = report.answer.len
         /\ report'.timedOut = (report.timedOut \/ result = "timeout")
         /\ report'.ready = report.ready /\ report'.cores = report.cores
<1>1. PICK b \in BOOLEAN : b = (report.timedOut \/ result = "timeout")
  BY DEF DmaHistory
<1>2. PICK m \in Nat : m = c.moved
  BY DEF Channel
<1>3. report' = [report EXCEPT !.answer.result = result, !.answer.moved = m, !.timedOut = b]
  BY <1>1, <1>2 DEF A!Answer
<1> QED BY <1>1, <1>2, <1>3 DEF DmaHistory, Results

LEMMA NoAnswerFields ==
  ASSUME NEW len \in Nat
  PROVE  /\ A!NoAnswer \in Results /\ A!NoAnswer.result = "none"
         /\ [A!NoAnswer EXCEPT !.len = len] \in Results /\ [A!NoAnswer EXCEPT !.len = len].result = "none"
<1>1. A!NoAnswer = [len |-> 0, result |-> "none", moved |-> 0]
  BY DEF A!NoAnswer
<1>2. [A!NoAnswer EXCEPT !.len = len] = [len |-> len, result |-> "none", moved |-> 0]
  BY <1>1
<1> QED BY <1>1, <1>2 DEF Results

LEMMA AskedFields ==
  ASSUME NEW len \in Lens, A!Asked(len), report \in DmaHistory
  PROVE  /\ report' \in DmaHistory /\ report'.answer.result = "none"
         /\ report'.timedOut = report.timedOut /\ report'.ready = report.ready /\ report'.cores = report.cores
<1>1. PICK answer \in Results : answer = [A!NoAnswer EXCEPT !.len = len] /\ answer.result = "none"
  BY LensAssumption, FaultsAssumption, NoAnswerFields
<1>5. PICK writes \in Nat : writes = report.writes + 1
  BY DEF DmaHistory
<1>2. report' = [report EXCEPT !.writes = writes, !.answer = answer]
  BY <1>1, <1>5 DEF A!Asked
<1>3. report' \in DmaHistory
  BY <1>2 DEF DmaHistory
<1>4. report'.answer = answer /\ report'.timedOut = report.timedOut /\ report'.ready = report.ready /\ report'.cores = report.cores
  BY <1>2 DEF DmaHistory
<1> QED BY <1>1, <1>3, <1>4

LEMMA IdleFields ==
  A!Idle \in WriteTasks /\ A!Idle.step = "idle"
BY DEF A!Idle, WriteTasks, A!CheckLimit

LEMMA AnswerStep ==
  ASSUME DmaInv, NEW c \in Channel, NEW result \in {"sent", "busy", "timeout"},
         A!Answer(A!FreeBlock(c), result), task' = A!Idle, task.step # "idle",
         driver' \in Cores, driver'.state = driver.state,
         c.mapped = chip.mapped, c.pwm = chip.pwm, c.dreq = chip.dreq, c.clock = chip.clock, ~c.active,
         result = "busy" => report.timedOut,
         result = "sent" => ~report.timedOut /\ c.moved = A!Kept(report.answer.len),
         report.timedOut \/ result = "timeout" <=> driver'.started,
         driver'.started => ~c.end
  PROVE  DmaInv'
<1> USE DEF DmaInv
<1>0. chip \in Channel /\ driver \in Cores /\ task \in WriteTasks /\ report \in DmaHistory
  BY DEF DmaTypes
<1>1. chip' = A!FreeBlock(c)
  BY DEF A!Answer
<1>2. chip' \in Channel /\ chip'.mapped = chip.mapped \ {task.block} /\ ~chip'.active /\ chip'.end = c.end
      /\ chip'.moved = c.moved /\ chip'.pwm = chip.pwm /\ chip'.dreq = chip.dreq /\ chip'.clock = chip.clock
  BY <1>1, FreeBlockFields
<1>3. /\ report' \in DmaHistory
      /\ report'.answer.result = result /\ report'.answer.moved = c.moved /\ report'.answer.len = report.answer.len
      /\ report'.timedOut = (report.timedOut \/ result = "timeout")
      /\ report'.ready = report.ready /\ report'.cores = report.cores
  <2>1. A!FreeBlock(c) \in Channel /\ A!FreeBlock(c).moved = c.moved
    BY FreeBlockFields
  <2> QED BY <1>0, <2>1, AnswerFields
<1>4. driver.state = "alive" /\ chip'.mapped = {}
  BY <1>2 DEF DmaControl, A!DmaAgrees
<1>5. DmaTypes'
  BY <1>2, <1>3, IdleFields DEF DmaTypes
<1>6. task'.step = "idle"
  BY IdleFields
<1>7. DmaControl'
  BY <1>2, <1>3, <1>4, <1>6 DEF DmaControl
<1>8. A!DmaAgrees'
  BY <1>2, <1>4, <1>6 DEF A!DmaAgrees
<1>9. A!DmaReports'
  BY <1>2, <1>3 DEF A!DmaReports
<1>10. A!DmaOff'
  BY <1>2, <1>4 DEF A!DmaOff
<1> QED BY <1>5, <1>7, <1>8, <1>9, <1>10

LEMMA DmaStep ==
  ASSUME DmaInv, A!DmaNext
  PROVE  DmaInv'
<1> USE DEF DmaInv
<1> DEFINE Sound == DmaControl /\ A!DmaAgrees /\ A!DmaReports /\ A!DmaOff
<1>0. chip \in Channel /\ driver \in Cores /\ task \in WriteTasks /\ report \in DmaHistory
  BY DEF DmaTypes
<1>1. CASE A!Transfer
  <2>1. PICK m \in Nat : m = A!Kept(report.answer.len)
    BY <1>0 DEF A!Kept, DmaHistory, Results
  <2>2. chip' = [chip EXCEPT !.active = FALSE, !.end = TRUE, !.moved = m] 
    BY <1>1, <2>1 DEF A!Transfer
  <2>6. chip.active /\ UNCHANGED <<driver, task, report>>
    BY <1>1 DEF A!Transfer
  <2>3. chip' \in Channel /\ chip'.mapped = chip.mapped /\ ~chip'.active /\ chip'.moved = m
        /\ chip'.pwm = chip.pwm /\ chip'.dreq = chip.dreq /\ chip'.clock = chip.clock
    BY <1>0, <2>2 DEF Channel
  <2>4. DmaTypes'
    BY <1>0, <2>6, <2>3 DEF DmaTypes
  <2>5. Sound'
    <3>1. DmaControl'
      BY <1>0, <2>1, <2>6, <2>3 DEF DmaControl
    <3>2. A!DmaAgrees'
      BY <1>0, <2>1, <2>6, <2>3 DEF A!DmaAgrees, DmaControl
    <3>3. A!DmaReports'
      BY <1>0, <2>1, <2>6, <2>3 DEF A!DmaReports, DmaControl
    <3>4. A!DmaOff'
      BY <1>0, <2>1, <2>6, <2>3 DEF A!DmaOff
    <3> QED BY <3>1, <3>2, <3>3, <3>4
  <2> QED BY <2>4, <2>5
<1>2. CASE A!Create
  <2>1. PICK dma \in BOOLEAN : driver' = [state |-> "alive", dma |-> dma, started |-> FALSE]
    BY <1>2 DEF A!Create
  <2>2. report' = [report EXCEPT !.cores = @ + 1, !.timedOut = FALSE, !.answer = A!NoAnswer]
    BY <1>2 DEF A!Create
  <2>8. driver.state = "none" /\ UNCHANGED <<chip, task>>
    BY <1>2 DEF A!Create
  <2>3. PICK answer \in Results : answer = A!NoAnswer /\ answer.result = "none"
    BY NoAnswerFields
  <2>12. PICK cores \in Nat : cores = report.cores + 1
    BY <1>0 DEF DmaHistory
  <2>9. report' = [report EXCEPT !.cores = cores, !.timedOut = FALSE, !.answer = answer]
    BY <2>2, <2>3, <2>12
  <2>10. report' \in DmaHistory
    BY <1>0, <2>9 DEF DmaHistory
  <2>11. report'.ready = report.ready /\ report'.timedOut = FALSE /\ report'.answer = answer
    BY <1>0, <2>9 DEF DmaHistory
  <2>4. report' \in DmaHistory /\ report'.ready = report.ready /\ ~report'.timedOut /\ report'.answer.result = "none"
    BY <2>3, <2>10, <2>11
  <2>5. DmaTypes'
    BY <1>0, <2>1, <2>8, <2>4 DEF DmaTypes, Cores
  <2>6. driver'.state = "alive" /\ ~driver'.started
    BY <2>1
  <2>7. Sound'
    <3>1. DmaControl'
      BY <2>8, <2>4, <2>6 DEF DmaControl
    <3>2. A!DmaAgrees'
      BY <2>8, <2>4, <2>6 DEF A!DmaAgrees, DmaControl
    <3>3. A!DmaReports'
      BY <2>8, <2>4, <2>6 DEF A!DmaReports, DmaControl
    <3>4. A!DmaOff'
      BY <2>8, <2>4, <2>6 DEF A!DmaOff
    <3> QED BY <3>1, <3>2, <3>3, <3>4
  <2> QED BY <2>5, <2>7
<1>4. ASSUME NEW len \in Lens, A!WriteNothing(len) PROVE DmaInv'
  <2>1. A!Asked(len) /\ UNCHANGED <<chip, driver, task>>
    BY <1>4 DEF A!WriteNothing
  <2>4. task.step = "idle"
    BY <2>1 DEF A!Asked, A!Free, A!Idle
  <2>2. DmaTypes'
    BY <1>0, <2>1, <2>4, AskedFields DEF DmaTypes
  <2>3. Sound'
    <3>1. DmaControl'
      BY <1>0, <2>1, <2>4, AskedFields DEF DmaControl, A!DmaAgrees
    <3>2. A!DmaAgrees'
      BY <1>0, <2>1, <2>4, AskedFields DEF A!DmaAgrees, DmaControl
    <3>3. A!DmaReports'
      BY <1>0, <2>1, <2>4, AskedFields DEF A!DmaReports, DmaControl
    <3>4. A!DmaOff'
      BY <1>0, <2>1, <2>4, AskedFields DEF A!DmaOff, DmaControl
    <3> QED BY <3>1, <3>2, <3>3, <3>4
  <2> QED BY <2>2, <2>3
<1>5. ASSUME NEW len \in Lens, A!WriteCrashes(len) PROVE DmaInv'
  <2>1. driver' = [driver EXCEPT !.state = "crashed"] /\ report' = [report EXCEPT !.faults = @ + 1]
        /\ report.faults < MaxFaults
    BY <1>5 DEF A!WriteCrashes
  <2>2. task = A!Idle /\ driver.state = "alive" /\ UNCHANGED <<chip, task>>
    BY <1>5 DEF A!WriteCrashes, A!Free
  <2>7. task.step = "idle"
    BY <2>2 DEF A!Idle
  <2>3. driver' \in Cores /\ driver'.started = driver.started /\ driver'.state = "crashed"
    BY <1>0, <2>1 DEF Cores
  <2>4. report' \in DmaHistory /\ report'.answer = report.answer /\ report'.timedOut = report.timedOut
        /\ report'.ready = report.ready /\ report'.cores = report.cores
    BY <1>0, <2>1, LensAssumption, FaultsAssumption DEF DmaHistory
  <2>5. DmaTypes'
    BY <1>0, <2>2, <2>7, <2>3, <2>4 DEF DmaTypes
  <2>6. Sound'
    <3>1. DmaControl'
      BY <1>0, <2>2, <2>7, <2>3, <2>4 DEF DmaControl, A!DmaAgrees
    <3>2. A!DmaAgrees'
      BY <1>0, <2>2, <2>7, <2>3, <2>4 DEF A!DmaAgrees, DmaControl
    <3>3. A!DmaReports'
      BY <1>0, <2>2, <2>7, <2>3, <2>4 DEF A!DmaReports, DmaControl
    <3>4. A!DmaOff'
      BY <1>0, <2>2, <2>7, <2>3, <2>4 DEF A!DmaOff, DmaControl
    <3> QED BY <3>1, <3>2, <3>3, <3>4
  <2> QED BY <2>5, <2>6
<1>6. ASSUME NEW len \in Lens, A!Write(len) PROVE DmaInv'
  <2>1. PICK page \in DmaPages \ chip.mapped :
          /\ chip' = [chip EXCEPT !.mapped = @ \cup {page}, !.moved = 0]
          /\ task' = [step |-> "process", block |-> page, checks |-> 0]
    BY <1>6 DEF A!Write
  <2>2. A!Asked(len) /\ task = A!Idle /\ driver.state = "alive" /\ driver' = driver
    BY <1>6 DEF A!Write, A!Asked, A!Free
  <2>3. chip' \in Channel /\ chip'.mapped = chip.mapped \cup {page} /\ chip'.active = chip.active /\ chip'.end = chip.end
        /\ chip'.pwm = chip.pwm /\ chip'.dreq = chip.dreq /\ chip'.clock = chip.clock
    BY <1>0, <2>1 DEF Channel
  <2>4. task' \in WriteTasks /\ task'.step = "process" /\ task'.block = page /\ task.step = "idle"
    BY <2>1, <2>2 DEF WriteTasks, A!Idle, A!CheckLimit
  <2>5. DmaTypes'
    BY <1>0, <2>2, <2>3, <2>4, AskedFields DEF DmaTypes
  <2>6. Sound'
    <3>1. DmaControl'
      BY <1>0, <2>2, <2>3, <2>4, AskedFields DEF DmaControl, A!DmaAgrees
    <3>2. A!DmaAgrees'
      BY <1>0, <2>2, <2>3, <2>4, AskedFields DEF A!DmaAgrees, DmaControl
    <3>3. A!DmaReports'
      BY <1>0, <2>2, <2>3, <2>4, AskedFields DEF A!DmaReports, DmaControl
    <3>4. A!DmaOff'
      BY <1>0, <2>2, <2>3, <2>4, AskedFields DEF A!DmaOff, DmaControl
    <3> QED BY <3>1, <3>2, <3>3, <3>4
  <2> QED BY <2>5, <2>6
<1>11. CASE A!EnableChannel
  <2>1. chip' = [chip EXCEPT !.enabled = TRUE] /\ UNCHANGED <<driver, task, report>>
    BY <1>11 DEF A!EnableChannel
  <2>2. chip' \in Channel /\ chip'.mapped = chip.mapped /\ chip'.active = chip.active /\ chip'.end = chip.end
        /\ chip'.moved = chip.moved /\ chip'.block = chip.block
        /\ chip'.pwm = chip.pwm /\ chip'.dreq = chip.dreq /\ chip'.clock = chip.clock
    BY <1>0, <2>1 DEF Channel
  <2>3. UNCHANGED <<driver, task, report>>
    BY <2>1
  <2>5. DmaTypes'
    BY <1>0, <2>2, <2>3 DEF DmaTypes
  <2>6. Sound'
    <3>1. DmaControl'
      BY <1>0, <2>2, <2>3 DEF DmaControl, A!DmaAgrees
    <3>2. A!DmaAgrees'
      BY <1>0, <2>2, <2>3 DEF A!DmaAgrees, DmaControl
    <3>3. A!DmaReports'
      BY <1>0, <2>2, <2>3 DEF A!DmaReports, DmaControl
    <3>4. A!DmaOff'
      BY <1>0, <2>2, <2>3 DEF A!DmaOff, DmaControl
    <3> QED BY <3>1, <3>2, <3>3, <3>4
  <2> QED BY <2>5, <2>6
<1>7. CASE A!Process /\ A!Finished(chip)
  <2>1. chip' = [A!ResetLite(chip) EXCEPT !.block = task.block, !.active = TRUE]
        /\ driver' = [driver EXCEPT !.started = TRUE] /\ task' = [task EXCEPT !.step = "check"]
    BY <1>7 DEF A!Process
  <2>2. task.step = "process" /\ (driver.started => chip.end) /\ report' = report
    BY <1>7 DEF A!Process, A!Finished
  <2>3. chip' \in Channel /\ chip'.mapped = chip.mapped /\ chip'.active /\ ~chip'.end /\ chip'.block = task.block
        /\ chip'.pwm = chip.pwm /\ chip'.dreq = chip.dreq /\ chip'.clock = chip.clock
    <3>1. PICK c \in Channel : c = A!ResetLite(chip)
      BY <1>0, ResetLiteFields
    <3>2. chip' = [c EXCEPT !.block = task.block, !.active = TRUE]
      BY <2>1, <3>1
    <3>3. chip' \in Channel /\ chip'.mapped = c.mapped /\ chip'.active /\ chip'.end = c.end /\ chip'.block = task.block
          /\ chip'.pwm = c.pwm /\ chip'.dreq = c.dreq /\ chip'.clock = c.clock
      BY <1>0, <3>2 DEF Channel, WriteTasks
    <3> QED BY <1>0, <3>1, <3>3, ResetLiteFields
  <2>4. driver' \in Cores /\ driver'.started /\ driver'.state = driver.state
    BY <1>0, <2>1 DEF Cores
  <2>5. task' \in WriteTasks /\ task'.step = "check" /\ task'.block = task.block
    BY <1>0, <2>1 DEF WriteTasks
  <2>6. DmaTypes'
    BY <1>0, <2>2, <2>3, <2>4, <2>5 DEF DmaTypes
  <2>7. Sound'
    <3>1. DmaControl'
      BY <1>0, <2>2, <2>3, <2>4, <2>5 DEF DmaControl, A!DmaAgrees
    <3>2. A!DmaAgrees'
      BY <1>0, <2>2, <2>3, <2>4, <2>5 DEF A!DmaAgrees, DmaControl
    <3>3. A!DmaReports'
      BY <1>0, <2>2, <2>3, <2>4, <2>5 DEF A!DmaReports, DmaControl
    <3>4. A!DmaOff'
      BY <1>0, <2>2, <2>3, <2>4, <2>5 DEF A!DmaOff, DmaControl
    <3> QED BY <3>1, <3>2, <3>3, <3>4
  <2> QED BY <2>6, <2>7
<1>8. CASE A!Process /\ ~A!Finished(chip)
  <2>1. A!Answer(A!FreeBlock(chip), "busy") /\ task' = A!Idle /\ driver' = driver
    BY <1>8 DEF A!Process
  <2>2. task.step = "process" /\ driver.started /\ ~chip.end
    BY <1>8 DEF A!Process, A!Finished
  <2>3. chip' = A!FreeBlock(chip)
    BY <2>1 DEF A!Answer
  <2> QED BY <1>0, <2>1, <2>2, AnswerStep DEF DmaControl
<1>9. CASE A!Check /\ chip.end
  <2>1. PICK c \in Channel : c = A!Reset(chip)
    BY <1>0, ResetFields
  <2>2. task.step = "check" /\ driver' = [driver EXCEPT !.started = FALSE] /\ A!Answer(A!FreeBlock(c), "sent") /\ task' = A!Idle
    BY <1>9, <2>1 DEF A!Check
  <2>3. driver' \in Cores /\ ~driver'.started /\ driver'.state = driver.state
    BY <1>0, <2>2 DEF Cores
  <2>4. /\ c.mapped = chip.mapped /\ c.pwm = chip.pwm /\ c.dreq = chip.dreq /\ c.clock = chip.clock
        /\ ~c.active /\ ~c.end /\ c.moved = chip.moved
    BY <1>0, <2>1, ResetFields
  <2>5. ~report.timedOut /\ c.moved = A!Kept(report.answer.len)
    BY <1>9, <2>2, <2>4 DEF DmaControl
  <2> QED BY <2>2, <2>3, <2>4, <2>5, AnswerStep
<1>10. CASE A!Check /\ ~chip.end
  <2>1. /\ task.step = "check" /\ UNCHANGED <<chip, driver, report>>
        /\ \/ task.checks + 1 < A!CheckLimit /\ task' = [task EXCEPT !.checks = @ + 1]
           \/ task' = [task EXCEPT !.step = "give up"]
    BY <1>10 DEF A!Check
  <2>2. task' \in WriteTasks /\ task'.step \in {"check", "give up"} /\ task'.block = task.block
    <3>1. CASE task.checks + 1 < A!CheckLimit /\ task' = [task EXCEPT !.checks = @ + 1]
      <4>1. PICK checks \in 0..A!CheckLimit : checks = task.checks + 1
        <5>1. task.checks \in 0..10
          BY <1>0 DEF WriteTasks, A!CheckLimit
        <5>2. task.checks + 1 < 10
          BY <3>1 DEF A!CheckLimit
        <5>3. task.checks + 1 \in 0..10
          BY <5>1, <5>2
        <5> QED BY <5>3 DEF A!CheckLimit
      <4>2. task' = [task EXCEPT !.checks = checks]
        BY <3>1, <4>1
      <4>3. task' \in WriteTasks /\ task'.step = task.step /\ task'.block = task.block
        BY <1>0, <4>2 DEF WriteTasks
      <4>4. task.step = "check"
        BY <2>1, Zenon
      <4> QED BY <4>3, <4>4
    <3>2. CASE task' = [task EXCEPT !.step = "give up"]
      BY <1>0, <3>2 DEF WriteTasks
    <3> QED BY <2>1, <3>1, <3>2
  <2>3. UNCHANGED <<chip, driver, report>> /\ task.step = "check"
    BY <2>1
  <2>4. DmaTypes'
    BY <1>0, <2>2, <2>3 DEF DmaTypes
  <2>5. Sound'
    <3>1. DmaControl'
      BY <1>0, <2>2, <2>3 DEF DmaControl, A!DmaAgrees
    <3>2. A!DmaAgrees'
      BY <1>0, <2>2, <2>3 DEF A!DmaAgrees, DmaControl
    <3>3. A!DmaReports'
      BY <1>0, <2>2, <2>3 DEF A!DmaReports, DmaControl
    <3>4. A!DmaOff'
      BY <1>0, <2>2, <2>3 DEF A!DmaOff, DmaControl
    <3> QED BY <3>1, <3>2, <3>3, <3>4
  <2> QED BY <2>4, <2>5
<1>12. CASE A!GiveUp
  <2>1. PICK c \in Channel : c = A!Reset(chip)
    BY <1>0, ResetFields
  <2>2. task.step = "give up" /\ driver' = driver /\ A!Answer(A!FreeBlock(c), "timeout") /\ task' = A!Idle
    BY <1>12, <2>1 DEF A!GiveUp
  <2>3. driver' \in Cores /\ driver'.started /\ driver'.state = driver.state
    BY <1>0, <2>2 DEF DmaControl
  <2>4. /\ c.mapped = chip.mapped /\ c.pwm = chip.pwm /\ c.dreq = chip.dreq /\ c.clock = chip.clock
        /\ ~c.active /\ ~c.end
    BY <1>0, <2>1, ResetFields
  <2> QED BY <2>2, <2>3, <2>4, AnswerStep
<1>13. CASE A!Destroy
  <2>1. PICK c \in Channel : c = A!StopClock(chip)
    BY <1>0, StopClockFields
  <2>2. ~c.active /\ ~c.clock.running /\ c.mapped = {} /\ task.step = "idle"
    <3>1. task = A!Idle
      BY <1>13 DEF A!Destroy, A!Free
    <3> QED BY <1>0, <2>1, <3>1, IdleFields, StopClockFields DEF A!DmaAgrees
  <2>3. PICK d \in Channel : ~d.active /\ ~d.clock.running /\ d.mapped = {} /\ chip' = A!Clear(d)
    <3>1. chip' = A!Clear(c) \/ chip' = A!Clear([c EXCEPT !.active = FALSE])
      BY <1>13, <2>1 DEF A!Destroy
    <3>2. [c EXCEPT !.active = FALSE] \in Channel /\ ~[c EXCEPT !.active = FALSE].active
          /\ [c EXCEPT !.active = FALSE].clock = c.clock /\ [c EXCEPT !.active = FALSE].mapped = c.mapped
      BY DEF Channel
    <3> QED BY <2>2, <3>1, <3>2
  <2>4. chip' \in Channel /\ ~chip'.active /\ ~chip'.pwm /\ ~chip'.dreq /\ ~chip'.clock.running /\ chip'.mapped = {}
    BY <2>3, ClearFields
  <2>5. driver' = [driver EXCEPT !.state = "none", !.dma = FALSE, !.started = FALSE]
        /\ report' = [report EXCEPT !.ready = FALSE] /\ task' = task
    BY <1>13 DEF A!Destroy
  <2>6. driver' \in Cores /\ driver'.state = "none" /\ ~driver'.started
    BY <1>0, <2>5 DEF Cores
  <2>7. report' \in DmaHistory /\ ~report'.ready /\ report'.timedOut = report.timedOut /\ report'.answer = report.answer
        /\ report'.cores = report.cores
    BY <1>0, <2>5 DEF DmaHistory
  <2>8. task' = task
    BY <2>5
  <2>9. DmaTypes'
    BY <1>0, <2>4, <2>6, <2>7, <2>8 DEF DmaTypes
  <2>10. Sound'
    <3>1. DmaControl'
      BY <1>0, <2>2, <2>4, <2>6, <2>7, <2>8 DEF DmaControl, A!DmaAgrees
    <3>2. A!DmaAgrees'
      BY <1>0, <2>2, <2>4, <2>6, <2>7, <2>8 DEF A!DmaAgrees, DmaControl
    <3>3. A!DmaReports'
      BY <1>0, <2>2, <2>4, <2>6, <2>7, <2>8 DEF A!DmaReports, DmaControl
    <3>4. A!DmaOff'
      BY <1>0, <2>2, <2>4, <2>6, <2>7, <2>8 DEF A!DmaOff, DmaControl
    <3> QED BY <3>1, <3>2, <3>3, <3>4
  <2> QED BY <2>9, <2>10
<1>14. CASE A!Initialize
  <2>1. task = A!Idle /\ task.step = "idle" /\ chip.mapped = {} /\ ~chip.active
    <3>1. task = A!Idle
      BY <1>14 DEF A!Initialize, A!Free
    <3> QED BY <1>0, <3>1, IdleFields DEF A!DmaAgrees
  <2>2. PICK clock \in Clocks :
          LET stopped == [A!StopClock(A!Clear(chip)) EXCEPT !.clock = clock] IN
          /\ chip' = IF clock.running THEN stopped
                     ELSE A!Configure(IF driver.dma THEN A!Reset(stopped) ELSE stopped)
          /\ report' = [report EXCEPT !.ready = ~clock.running]
    <3>1. A!Enabled(A!Source) \subseteq Clocks
      BY DEF A!Enabled, A!Source, Clocks
    <3> QED BY <1>14, <3>1 DEF A!Initialize
  <2>3. PICK s \in Channel : /\ s = [A!StopClock(A!Clear(chip)) EXCEPT !.clock = clock]
                             /\ s.clock = clock /\ s.mapped = {} /\ ~s.active /\ s.end = chip.end
    <3>1. PICK c \in Channel : c = A!StopClock(A!Clear(chip)) /\ c.mapped = {} /\ ~c.active /\ c.end = chip.end
      BY <1>0, <2>1, ClearFields, StopClockFields
    <3>2. [c EXCEPT !.clock = clock] \in Channel /\ [c EXCEPT !.clock = clock].clock = clock
          /\ [c EXCEPT !.clock = clock].mapped = c.mapped /\ [c EXCEPT !.clock = clock].active = c.active
          /\ [c EXCEPT !.clock = clock].end = c.end
      BY DEF Channel
    <3> QED BY <3>1, <3>2
  <2>4. chip' = IF clock.running THEN s ELSE A!Configure(IF driver.dma THEN A!Reset(s) ELSE s)
    BY <2>2, <2>3
  <2>5. /\ chip' \in Channel /\ chip'.mapped = {} /\ ~chip'.active /\ (chip'.end => chip.end)
        /\ ~clock.running => chip'.pwm /\ chip'.dreq /\ ~chip'.clock.running
    <3>1. CASE clock.running
      BY <2>3, <2>4, <3>1
    <3>2. CASE ~clock.running
      <4>1. PICK r \in Channel : /\ chip' = A!Configure(r) /\ r.mapped = {} /\ ~r.active /\ (r.end => chip.end)
                                 /\ r.clock = clock
        <5>1. PICK r \in Channel : r = (IF driver.dma THEN A!Reset(s) ELSE s)
          BY <2>3, ResetFields
        <5>2. r.mapped = {} /\ ~r.active /\ (r.end => chip.end) /\ r.clock = clock
          BY <2>3, <5>1, ResetFields
        <5> QED BY <2>4, <3>2, <5>1, <5>2
      <4> QED BY <3>2, <4>1, ConfigureFields
    <3> QED BY <3>1, <3>2
  <2>6. PICK ready \in BOOLEAN : report' = [report EXCEPT !.ready = ready] /\ (ready => ~clock.running)
    BY <2>2
  <2>7. report' \in DmaHistory /\ report'.ready = ready /\ report'.timedOut = report.timedOut /\ report'.answer = report.answer
        /\ report'.cores = report.cores
    BY <1>0, <2>6 DEF DmaHistory
  <2>8. UNCHANGED <<driver, task>> /\ driver.state = "alive"
    BY <1>14 DEF A!Initialize, A!Free
  <2>9. DmaTypes'
    BY <1>0, <2>5, <2>7, <2>8 DEF DmaTypes
  <2>10. Sound'
    <3>1. DmaControl'
      BY <1>0, <2>1, <2>5, <2>6, <2>7, <2>8 DEF DmaControl, A!DmaAgrees
    <3>2. A!DmaAgrees'
      BY <1>0, <2>1, <2>5, <2>6, <2>7, <2>8 DEF A!DmaAgrees, DmaControl
    <3>3. A!DmaReports'
      BY <1>0, <2>1, <2>5, <2>6, <2>7, <2>8 DEF A!DmaReports, DmaControl
    <3>4. A!DmaOff'
      BY <1>0, <2>1, <2>5, <2>6, <2>7, <2>8 DEF A!DmaOff, DmaControl
    <3> QED BY <3>1, <3>2, <3>3, <3>4
  <2> QED BY <2>9, <2>10
<1> QED
  BY <1>1, <1>2, <1>4, <1>5, <1>6, <1>7, <1>8, <1>9, <1>10, <1>11, <1>12, <1>13, <1>14 DEF A!DmaNext, A!Check

LEMMA DmaHolds ==
  ASSUME DmaInv
  PROVE  A!DmaTypeOK /\ A!DmaAgrees /\ A!DmaReports /\ A!DmaOff
<1>1. A!DmaTypeOK
  BY DEF DmaInv, DmaTypes, Channel, Cores, WriteTasks, A!DmaTypeOK
<1> QED BY <1>1 DEF DmaInv

-----------------------------------------------------------------------------
(* All kinds *)

(* The invariant of a behaviour is that of its kind.                        *)
BoardsInv ==
  /\ kind \in Kinds
  /\ kind = "stepper" => StepperInv
  /\ kind = "uln2003" => MotorInv
  /\ kind = "pwm" => PwmInv
  /\ kind = "expander" => ExpanderInv
  /\ kind = "gpio" => GpioInv
  /\ kind = "sgp30" => SgpInv
  /\ kind = "tsl2561" => TslInv
  /\ kind = "bmp280" => BmpInv
  /\ kind = "si7021" => SiInv
  /\ kind = "mpu6050" => MpuInv
  /\ kind = "robot" => RobotInv
  /\ kind = "memory" => MemoryInv
  /\ kind = "dma" => DmaInv
  /\ kind = "spi" => SpiInv

(* A step that changes nothing, kind by kind.                               *)
LEMMA StepperStays ==
  ASSUME StepperInv, UNCHANGED vars
  PROVE  StepperInv'
BY DEF vars, threadVars, StepperInv, StepperControl, EdgeControl, StepperHigh, MoveControl, StepperTypes

LEMMA MotorStays ==
  ASSUME MotorInv, UNCHANGED vars
  PROVE  MotorInv'
BY DEF vars, threadVars, MotorInv, U!CoilsOff, U!MotorReports, MotorControl, MotorTypes

LEMMA PwmStays ==
  ASSUME PwmInv, UNCHANGED vars
  PROVE  PwmInv'
BY DEF vars, threadVars, PwmInv, AskedInRange, P!PwmAgrees, P!Off, PwmControl, PwmTypes

LEMMA ExpanderStays ==
  ASSUME ExpanderInv, UNCHANGED vars
  PROVE  ExpanderInv'
BY DEF vars, threadVars, ExpanderInv, ExpanderControl, Writing, CallControl, E!NewRegister, Meets, Kept, ExpanderTypes

LEMMA GpioStays ==
  ASSUME GpioInv, UNCHANGED vars
  PROVE  GpioInv'
BY DEF vars, threadVars, GpioInv, GpioControl, GpioTypes

LEMMA SgpStays ==
  ASSUME SgpInv, UNCHANGED vars
  PROVE  SgpInv'
BY DEF vars, threadVars, SgpInv, SgpControl, ReadingControl, BaselineControl, HumidityControl, SgpTypes

LEMMA TslStays ==
  ASSUME TslInv, UNCHANGED vars
  PROVE  TslInv'
BY DEF vars, threadVars, TslInv, T!TslReports, T!TslAgrees

LEMMA BmpStays ==
  ASSUME BmpInv, UNCHANGED vars
  PROVE  BmpInv'
BY DEF vars, threadVars, BmpInv, BmpControl, BmpTypes

LEMMA SiStays ==
  ASSUME SiInv, UNCHANGED vars
  PROVE  SiInv'
BY DEF vars, threadVars, SiInv, I!HeaterOff, I!SiReports, I!SiAgrees, SiTypes

LEMMA MpuStays ==
  ASSUME MpuInv, UNCHANGED vars
  PROVE  MpuInv'
BY DEF vars, threadVars, MpuInv, M!MpuAgrees, MpuBase, MpuControl, MpuTypes

LEMMA RobotStays ==
  ASSUME RobotInv, UNCHANGED vars
  PROVE  RobotInv'
BY DEF vars, threadVars, RobotInv, RobotControl

LEMMA MemoryStays ==
  ASSUME MemoryInv, UNCHANGED vars
  PROVE  MemoryInv'
BY DEF vars, threadVars, MemoryInv, D!MemoryReports, D!MemoryAgrees, D!Usable, MemoryTypes

LEMMA DmaStays ==
  ASSUME DmaInv, UNCHANGED vars
  PROVE  DmaInv'
<1>1. chip' = chip /\ driver' = driver /\ task' = task /\ report' = report
  BY DEF vars
<1>2. DmaTypes'
  BY <1>1 DEF DmaInv, DmaTypes
<1>3. DmaControl'
  <2>1. DmaControl /\ task \in WriteTasks /\ chip \in Channel /\ driver \in Cores /\ report \in DmaHistory
    BY DEF DmaInv, DmaTypes
  <2> QED BY ONLY <1>1, <2>1 DEF DmaControl
<1>4. A!DmaAgrees'
  BY <1>1 DEF DmaInv, A!DmaAgrees
<1>6. A!DmaReports'
  BY <1>1 DEF DmaInv, A!DmaReports
<1>5. A!DmaOff'
  BY <1>1 DEF DmaInv, A!DmaOff
<1> QED BY <1>2, <1>3, <1>4, <1>5, <1>6 DEF DmaInv

LEMMA SpiStays ==
  ASSUME SpiInv, UNCHANGED vars
  PROVE  SpiInv'
BY DEF vars, threadVars, SpiInv, Q!SpiAgrees, SpiControl, LastReaches, UserControl, Q!Known, Alone, SpiTypes

LEMMA BoardsStart ==
  ASSUME Init
  PROVE  BoardsInv
<1>1. kind \in Kinds /\ ThreadInit
  BY DEF Init
<1>2. kind = "stepper" => StepperInv
  BY <1>1, StepperInit DEF Init
<1>3. kind = "uln2003" => MotorInv
  BY <1>1, MotorInit DEF Init
<1>4. kind = "pwm" => PwmInv
  BY <1>1, PwmInit DEF Init
<1>5. kind = "expander" => ExpanderInv
  BY <1>1, ExpanderInit DEF Init
<1>6. kind = "gpio" => GpioInv
  BY <1>1, GpioInit DEF Init
<1>7. kind = "sgp30" => SgpInv
  BY <1>1, SgpInit DEF Init
<1>8. kind = "tsl2561" => TslInv
  BY <1>1, TslInit DEF Init
<1>9. kind = "bmp280" => BmpInv
  BY <1>1, BmpInit DEF Init
<1>10. kind = "si7021" => SiInv
  BY <1>1, SiInit DEF Init
<1>11. kind = "mpu6050" => MpuInv
  BY <1>1, MpuInit DEF Init
<1>12. kind = "robot" => RobotInv
  BY <1>1, RobotInit DEF Init
<1>13. kind = "memory" => MemoryInv
  BY <1>1, MemoryInit DEF Init
<1>14. kind = "dma" => DmaInv
  BY <1>1, DmaInit DEF Init
<1>15. kind = "spi" => SpiInv
  BY <1>1, SpiInit DEF Init
<1> QED BY <1>1, <1>2, <1>3, <1>4, <1>5, <1>6, <1>7, <1>8, <1>9, <1>10, <1>11, <1>12, <1>13, <1>14, <1>15 DEF BoardsInv

LEMMA BoardsStep ==
  ASSUME BoardsInv, [Next]_vars
  PROVE  BoardsInv'
<1>1. kind' = kind /\ kind \in Kinds
  BY DEF BoardsInv, Next, Only, OnlyCalls, vars
<1>2. ASSUME kind = "stepper" PROVE StepperInv'
  <2>1. StepperInv
    BY <1>2 DEF BoardsInv
  <2>2. S!StepperNext \/ UNCHANGED vars
    BY <1>2 DEF Next, Only, OnlyCalls
  <2> QED BY <2>1, <2>2, StepperStep, StepperStays
<1>3. ASSUME kind = "uln2003" PROVE MotorInv'
  <2>1. MotorInv
    BY <1>3 DEF BoardsInv
  <2>2. U!MotorNext \/ UNCHANGED vars
    BY <1>3 DEF Next, Only, OnlyCalls
  <2> QED BY <2>1, <2>2, MotorStep, MotorStays
<1>4. ASSUME kind = "pwm" PROVE PwmInv'
  <2>1. PwmInv
    BY <1>4 DEF BoardsInv
  <2>2. P!PwmNext \/ UNCHANGED vars
    BY <1>4 DEF Next, Only, OnlyCalls
  <2> QED BY <2>1, <2>2, PwmStep, PwmStays
<1>5. ASSUME kind = "expander" PROVE ExpanderInv'
  <2>1. ExpanderInv
    BY <1>5 DEF BoardsInv
  <2>2. E!ExpanderNext \/ UNCHANGED vars
    BY <1>5 DEF Next, Only, OnlyCalls
  <2> QED BY <2>1, <2>2, ExpanderStep, ExpanderStays
<1>6. ASSUME kind = "gpio" PROVE GpioInv'
  <2>1. GpioInv
    BY <1>6 DEF BoardsInv
  <2>2. G!GpioNext \/ UNCHANGED vars
    BY <1>6 DEF Next, Only, OnlyCalls
  <2> QED BY <2>1, <2>2, GpioStep, GpioStays
<1>7. ASSUME kind = "sgp30" PROVE SgpInv'
  <2>1. SgpInv
    BY <1>7 DEF BoardsInv
  <2>2. Y!SgpNext \/ UNCHANGED vars
    BY <1>7 DEF Next, Only, OnlyCalls
  <2> QED BY <2>1, <2>2, SgpStep, SgpStays
<1>8. ASSUME kind = "tsl2561" PROVE TslInv'
  <2>1. TslInv
    BY <1>8 DEF BoardsInv
  <2>2. T!TslNext \/ UNCHANGED vars
    BY <1>8 DEF Next, Only, OnlyCalls
  <2> QED BY <2>1, <2>2, TslStep, TslStays
<1>9. ASSUME kind = "bmp280" PROVE BmpInv'
  <2>1. BmpInv
    BY <1>9 DEF BoardsInv
  <2>2. B!BmpNext \/ UNCHANGED vars
    BY <1>9 DEF Next, Only, OnlyCalls
  <2> QED BY <2>1, <2>2, BmpStep, BmpStays
<1>10. ASSUME kind = "si7021" PROVE SiInv'
  <2>1. SiInv
    BY <1>10 DEF BoardsInv
  <2>2. I!SiNext \/ UNCHANGED vars
    BY <1>10 DEF Next, Only, OnlyCalls
  <2> QED BY <2>1, <2>2, SiStep, SiStays
<1>11. ASSUME kind = "mpu6050" PROVE MpuInv'
  <2>1. MpuInv
    BY <1>11 DEF BoardsInv
  <2>2. M!MpuNext \/ UNCHANGED vars
    BY <1>11 DEF Next, Only, OnlyCalls
  <2> QED BY <2>1, <2>2, MpuStep, MpuStays
<1>12. ASSUME kind = "robot" PROVE RobotInv'
  <2>1. RobotInv
    BY <1>12 DEF BoardsInv
  <2>2. C!RobotNext \/ UNCHANGED vars
    BY <1>12 DEF Next, Only, OnlyCalls
  <2> QED BY <2>1, <2>2, RobotStep, RobotStays
<1>13. ASSUME kind = "memory" PROVE MemoryInv'
  <2>1. MemoryInv
    BY <1>13 DEF BoardsInv
  <2>2. D!MemoryNext \/ UNCHANGED vars
    BY <1>13 DEF Next, Only, OnlyCalls
  <2> QED BY <2>1, <2>2, MemoryStep, MemoryStays
<1>14. ASSUME kind = "dma" PROVE DmaInv'
  <2>1. DmaInv
    BY <1>14 DEF BoardsInv
  <2>2. A!DmaNext \/ UNCHANGED vars
    BY <1>14 DEF Next, Only, OnlyCalls
  <2> QED BY <2>1, <2>2, DmaStep, DmaStays
<1>15. ASSUME kind = "spi" PROVE SpiInv'
  <2>1. SpiInv
    BY <1>15 DEF BoardsInv
  <2>2. Q!SpiNext \/ UNCHANGED vars
    BY <1>15 DEF Next, Only, OnlyCalls
  <2> QED BY <2>1, <2>2, SpiStep, SpiStays
<1> QED BY <1>1, <1>2, <1>3, <1>4, <1>5, <1>6, <1>7, <1>8, <1>9, <1>10, <1>11, <1>12, <1>13, <1>14, <1>15 DEF BoardsInv

(* The invariant of the kind holds in every behaviour.                      *)
THEOREM BoardsInvCorrect == Spec => []BoardsInv
<1>1. BoardsInv /\ [Next]_vars => BoardsInv'
  BY BoardsStep
<1> QED BY BoardsStart, <1>1, PTL DEF Spec

(* What the invariant of the kind says of the three properties.             *)
LEMMA BoardsHold ==
  ASSUME BoardsInv
  PROVE  ReportsAreTrue /\ SafeOutputs /\ (kind # "lcd" => DriverAgrees)
<1>1. kind = "stepper" => S!StepperTypeOK /\ S!StepperAgrees /\ S!StepperReports
  BY StepperHolds DEF BoardsInv
<1>2. kind = "uln2003" => U!MotorTypeOK /\ U!MotorAwake /\ U!MotorReports /\ U!CoilsOff
  BY MotorHolds DEF BoardsInv
<1>3. kind = "pwm" => P!PwmTypeOK /\ P!PwmAgrees /\ P!ServoInRange
  BY PwmHolds DEF BoardsInv
<1>4. kind = "expander" => E!ExpanderTypeOK /\ E!ExpanderAgrees
  BY ExpanderHolds DEF BoardsInv
<1>5. kind = "gpio" => G!GpioTypeOK /\ G!GpioAgrees /\ G!EdgesAgree
  BY GpioHolds DEF BoardsInv
<1>6. kind = "sgp30" => Y!SgpTypeOK /\ Y!SgpAgrees /\ Y!SgpReports
  BY SgpHolds DEF BoardsInv
<1>7. kind = "tsl2561" => T!TslTypeOK /\ T!TslAgrees /\ T!TslReports
  BY TslHolds DEF BoardsInv
<1>8. kind = "bmp280" => B!BmpTypeOK /\ B!BmpAgrees /\ B!BmpReports
  BY BmpHolds DEF BoardsInv
<1>9. kind = "si7021" => I!SiTypeOK /\ I!SiAgrees /\ I!SiReports /\ I!HeaterOff
  BY SiHolds DEF BoardsInv
<1>10. kind = "mpu6050" => M!MpuTypeOK /\ M!MpuAgrees /\ M!MpuReports
  BY MpuHolds DEF BoardsInv
<1>11. kind = "robot" => C!RobotTypeOK /\ C!RobotAgrees /\ C!RobotReports
  BY RobotHolds DEF BoardsInv
<1>12. kind = "memory" => D!MemoryTypeOK /\ D!MemoryAgrees /\ D!MemoryReports
  BY MemoryHolds DEF BoardsInv
<1>13. kind = "dma" => A!DmaTypeOK /\ A!DmaAgrees /\ A!DmaReports /\ A!DmaOff
  BY DmaHolds DEF BoardsInv
<1>14. kind = "spi" => Q!SpiTypeOK /\ Q!SpiAgrees /\ Q!SpiReports
  BY SpiHolds DEF BoardsInv
<1>15. ReportsAreTrue /\ SafeOutputs
  BY <1>1, <1>2, <1>3, <1>4, <1>5, <1>6, <1>7, <1>8, <1>9, <1>10, <1>11, <1>12, <1>13, <1>14 DEF ReportsAreTrue, SafeOutputs
<1>16. kind # "lcd" => DriverAgrees
  BY <1>1, <1>2, <1>3, <1>4, <1>5, <1>6, <1>7, <1>8, <1>9, <1>10, <1>11, <1>12, <1>13, <1>14 DEF DriverAgrees, TypeOK
<1> QED BY <1>15, <1>16

(* What a driver tells the state machine or its caller is so, for every     *)
(* kind of board, chip, wiring, number of calls and of failed transfers.    *)
THEOREM ReportsAreTrueCorrect == Spec => []ReportsAreTrue
<1>1. BoardsInv => ReportsAreTrue
  BY BoardsHold
<1> QED BY BoardsInvCorrect, <1>1, PTL

(* What a driver drives stays in its range, and is off with its driver: the *)
(* coils, the servo, the DMA channel and the heater.                        *)
THEOREM SafeOutputsCorrect == Spec => []SafeOutputs
<1>1. BoardsInv => SafeOutputs
  BY BoardsHold
<1> QED BY BoardsInvCorrect, <1>1, PTL

(* What a driver says it set is what its chip has, and both keep their      *)
(* types: for every kind but the LCD.                                       *)
THEOREM DriverAgreesCorrect == Spec => [](kind # "lcd" => DriverAgrees)
<1>1. BoardsInv => (kind # "lcd" => DriverAgrees)
  BY BoardsHold
<1> QED BY BoardsInvCorrect, <1>1, PTL
=============================================================================

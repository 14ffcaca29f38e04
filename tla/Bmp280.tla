-------------------------------- MODULE Bmp280 --------------------------------
(***************************************************************************)
(* The pressure sensor BMP280: its settings are packed into two registers, *)
(* and in forced mode each call starts a measurement of its own.           *)
(***************************************************************************)
EXTENDS Integers

CONSTANTS
  Settings,     (* of the configuration and of the callers: mode, the two  *)
                (* oversamplings, the standby time and the filter          *)
  MaxFaults     (* bound: transfers that fail                              *)

VARIABLES
  chip,         (* ctrl_meas and config, each the set of its bits that are *)
                (* 1; the number of the measurement in its data registers, *)
                (* and of the one it makes                                 *)
  driver,       (* the settings, and whether a compensation value is -1    *)
  report        (* history: the last results and the measurement they had  *)
                (* to be of; what was last asked of the two registers, by  *)
                (* whom, and whether the write failed; the measurements    *)

bmpVars == <<chip, driver, report>>

(* The bits of a byte; n << first, in a uint8_t; a field of a register.     *)
Weights == <<1, 2, 4, 8, 16, 32, 64, 128>>
Bits(n) == {i \in 0..7 : (n \div Weights[i + 1]) % 2 = 1}
Shifted(n, first) == {i \in first..7 : i - first \in Bits(n)}
Field(register, first, length) == {i \in 0..length - 1 : first + i \in register}

Sleeps == 0
Forced == 1
Normal == 3
Skipped == 0
Unset == 255

(* What a chip has after a reset                                            *)
AtReset == [p |-> Skipped, t |-> Skipped]

(* get_mode_by_name, of the configuration                                   *)
GetModeByName(name) == CASE name = "FORCED" -> Forced [] name = "NORMAL" -> Normal [] OTHER -> Sleeps

(* set_measure_control: what it asserts, what it refuses, and otherwise     *)
(* pressure_over << 2, temp_over << 5, in a uint8_t                         *)
Asserted(over) == over.p \in 0..8 /\ over.t \in 0..8 \cup {Unset}
Refused(over) == over.p > 8 \/ (over.t > 8 /\ over.t # Unset) \/ (over.p = Skipped /\ over.t = Unset)
TempOver(over) == IF over.t # Unset THEN over.t ELSE IF over.p >= 5 THEN 2 ELSE 1
MeasCtrl(mode, over) == Shifted(TempOver(over), 5) \cup Shifted(over.p, 2) \cup Bits(mode)

(* set_config: filter << 2, standby_time << 5                               *)
Config(s) == Shifted(s.standby, 5) \cup Shifted(s.filter, 2)

(* What get_measure_control and get_config show of the registers            *)
Mode(ctrl) == Field(ctrl, 0, 2)
Measures(ctrl) == [mode |-> Mode(ctrl), p |-> Field(ctrl, 2, 3), t |-> Field(ctrl, 5, 3)]
Configured(config) == [filter |-> Field(config, 2, 3), standby |-> Field(config, 5, 3)]

(* The chip measures when forced mode is written, and always in normal one. *)
Control(c, ctrl) ==
  [c EXCEPT !.ctrl = ctrl, !.making = IF Mode(ctrl) \in {{0}, {1}} THEN report.measured + 1 ELSE @]

(* The constructor: asleep, the configuration, the compensation values, and *)
(* normal mode; bad is the transfer that fails, of 3 with the compensation  *)
(* values as one.                                                           *)
BmpInit ==
  \E s \in Settings, bad \in 0..4 :
    LET over == [p |-> s.p, t |-> s.t]
        control == ~Refused(over)
        mode == GetModeByName(s.mode)
        asleep == IF control /\ bad # 1 THEN MeasCtrl(Sleeps, over) ELSE {}
        on == control /\ mode = Normal
    IN  /\ bad # 0 => MaxFaults > 0
        /\ Asserted(over)
        /\ driver = [mode |-> mode, over |-> over, s |-> s, wrong |-> bad = 3]
        /\ chip = [ctrl |-> IF on /\ bad # 4 THEN MeasCtrl(Normal, over) ELSE asleep,
                   config |-> IF bad = 2 THEN {} ELSE Config(s), data |-> 0, making |-> 0]
        /\ report = [ok |-> FALSE, of |-> 0, last |-> 0, ended |-> 0, measured |-> 0,
                     mode |-> IF on THEN Normal ELSE Sleeps,
                     over |-> IF control THEN over ELSE AtReset, own |-> control,
                     bad |-> control /\ bad = (IF on THEN 4 ELSE 1),
                     set |-> [filter |-> s.filter, standby |-> s.standby], config |-> bad # 2,
                     faults |-> IF bad = 0 THEN 0 ELSE 1]

(* A measurement ends.                                                      *)
Measured ==
  /\ Mode(chip.ctrl) = Bits(Normal) \/ chip.making > chip.data
  /\ report.measured < 2
  /\ report' = [report EXCEPT !.measured = @ + 1, !.ended = report.measured + 1]
  /\ chip' = [chip EXCEPT !.data = report.measured + 1, !.making = 0,
                          !.ctrl = IF Mode(@) = Bits(Normal) THEN @ ELSE @ \ {0, 1}]
  /\ UNCHANGED driver

(* get_results: in any other mode than normal set_measure_control, whose    *)
(* result nobody looks at, and at once the data; false when they are not    *)
(* read. The compensation is left out.                                      *)
GetResults(bad) ==
  LET forces == driver.mode # Normal /\ ~Refused(driver.over)
      asked == [report EXCEPT !.mode = driver.mode, !.over = driver.over, !.own = TRUE, !.bad = bad = 1]
  IN  /\ (bad = 1 => forces) /\ (bad # 0 => report.faults < MaxFaults)
      /\ chip' = IF forces /\ bad # 1 THEN Control(chip, MeasCtrl(driver.mode, driver.over)) ELSE chip
      /\ report' = [(IF forces THEN asked ELSE report) EXCEPT
                       !.ok = bad # 2, !.of = IF bad = 2 THEN 0 ELSE chip.data, !.last = report.ended,
                       !.faults = IF bad = 0 THEN @ ELSE @ + 1]
      /\ UNCHANGED driver

(* set_measure_control of a caller, in any mode; the driver's settings stay *)
(* as they are.                                                             *)
SetMeasureControl(mode, over, bad) ==
  /\ Asserted(over) /\ ~Refused(over) /\ (bad = 1 => report.faults < MaxFaults)
  /\ chip' = IF bad = 1 THEN chip ELSE Control(chip, MeasCtrl(mode, over))
  /\ report' = [report EXCEPT !.mode = mode, !.over = over, !.own = FALSE, !.bad = bad = 1,
                              !.faults = @ + bad]
  /\ UNCHANGED driver

(* set_config of a caller                                                   *)
SetConfig(s, bad) ==
  /\ bad = 1 => report.faults < MaxFaults
  /\ chip' = IF bad = 1 THEN chip ELSE [chip EXCEPT !.config = Config(s)]
  /\ report' = [report EXCEPT !.set = [filter |-> s.filter, standby |-> s.standby], !.config = bad = 0,
                              !.faults = @ + bad]
  /\ UNCHANGED driver

(* reset: the registers are 0, and nothing writes the settings again.       *)
Reset ==
  /\ chip' = [ctrl |-> {}, config |-> {}, data |-> 0, making |-> 0]
  /\ report' = [report EXCEPT !.mode = Sleeps, !.over = AtReset, !.own = FALSE, !.bad = FALSE,
                              !.set = [filter |-> 0, standby |-> 0], !.config = TRUE, !.ended = 0]
  /\ UNCHANGED driver

ResetFails ==
  /\ report.faults < MaxFaults /\ report' = [report EXCEPT !.faults = @ + 1]
  /\ UNCHANGED <<chip, driver>>

BmpNext ==
  \/ Measured \/ Reset \/ ResetFails
  \/ \E bad \in 0..2 : GetResults(bad)
  \/ \E s \in Settings, bad \in 0..1 :
       \/ SetConfig(s, bad)
       \/ \E mode \in 0..3 : SetMeasureControl(mode, [p |-> s.p, t |-> s.t], bad)
-----------------------------------------------------------------------------
BmpTypeOK ==
  /\ chip.ctrl \subseteq 0..7 /\ chip.config \subseteq 0..7 /\ chip.data \in 0..2 /\ chip.making \in 0..3
  /\ report.faults \in 0..MaxFaults

(* Oversamplings of 16x at most fit into their fields.                      *)
Fits(over) == ~Refused(over) /\ over.p < 8 /\ TempOver(over) < 8

(* The registers have what was last asked of them, by the driver or by a    *)
(* caller, unless that write failed; a chip in forced mode falls asleep by  *)
(* itself. What the driver asked last are its own settings, and it leaves a *)
(* chip in normal mode there.                                               *)
BmpAgrees ==
  /\ Fits(report.over) /\ ~report.bad =>
       LET m == Measures(chip.ctrl)
       IN  /\ m.p = Bits(report.over.p) /\ m.t = Bits(TempOver(report.over))
           /\ m.mode \in {Bits(report.mode), IF report.mode = Normal THEN Bits(Normal) ELSE {}}
  /\ report.own => report.over = driver.over /\ (driver.mode = Normal <=> report.mode = Normal)
  /\ report.config /\ report.set.filter < 8 =>
       Configured(chip.config) = [filter |-> Bits(report.set.filter), standby |-> Bits(report.set.standby)]

(* The results of a call are of the last measurement that had ended then,   *)
(* if there was one since the last reset.                                   *)
BmpReports == report.ok => report.of = report.last
===============================================================================

------------------------------- MODULE Mpu6050 -------------------------------
(***************************************************************************)
(* The accelerometer and gyroscope MPU6050: a thread of its own reads the  *)
(* registers byte by byte and adds the rate of turning to an angle.        *)
(***************************************************************************)
EXTENDS Integers, Threaded

CONSTANTS
  Ranges,       (* FS_SEL of the chip at the start                         *)
  Rates,        (* degrees that the chip turns in a unit of time           *)
  Epoch,        (* the clock at the start                                  *)
  MaxTime,      (* bound: units of time                                    *)
  MaxFaults     (* bound: transfers that fail                              *)

VARIABLES
  chip,         (* FS_SEL, the self test and sleep bits, and its turning   *)
  driver,       (* m_gyro_conf, m_sleep_mode, the base of the axis, m_val: *)
                (* time and angle, in eighths of a degree                  *)
  task,         (* the clock, and what update_values has read              *)
  report        (* history: the last data taken, the turning since the     *)
                (* epoch as far as it was read, what is not known, and the *)
                (* faults                                                  *)

mpuVars == <<chip, driver, task, report>>

Unread == 255

(* gyro_LSB_Sensitivity: the figure that the chip gives for a degree in a   *)
(* unit of time, and the eighths that stand for one figure.                 *)
Lsb == <<8, 4, 2, 1>>
Eighths(figure, range) == figure * (8 \div Lsb[range + 1])

(* What a chip that resets has                                              *)
AfterReset(c) == [range |-> 0, test |-> FALSE, asleep |-> TRUE, rate |-> c.rate]

(* The constructor. A register that is not read is 255: the largest range   *)
(* (bad is 1), and asleep (2 of the first get_sleep, 5 of the second).      *)
(* set_sleep(false), of a chip that is seen asleep, writes it back without  *)
(* the sleep bit, and so resets the chip (3), or the write fails (4). The   *)
(* base of a chip that rests is 0, unless a reading fails (6).              *)
MpuInit ==
  \E range \in Ranges, rate \in Rates, asleep \in BOOLEAN, bad \in 0..6 :
    LET found == [range |-> range, test |-> FALSE, asleep |-> asleep /\ bad = 4, rate |-> rate]
    IN  /\ bad # 0 => MaxFaults > 0
        /\ bad \in {3, 4} => asleep
        /\ chip = IF bad = 3 THEN AfterReset(found) ELSE found
        /\ driver = [range |-> IF bad = 1 THEN 3 ELSE range, asleep |-> bad \in {3, 4, 5},
                     base |-> IF bad = 6 THEN Unread ELSE 0, time |-> 0, angle |-> 0]
        /\ task = [clock |-> Epoch, read |-> 0]
        /\ report = [time |-> 0, angle |-> 0,
                     bad |-> CASE bad \in {1, 3} -> {"range"} [] bad = 5 -> {"sleep"} [] bad = 6 -> {"base"}
                               [] OTHER -> {},
                     faults |-> IF bad = 0 THEN 0 ELSE 1]

Failing(bad) == bad # 0 => report.faults < MaxFaults
Faults(bad) == IF bad = 0 THEN report.faults ELSE report.faults + 1
-----------------------------------------------------------------------------
(* callers *)

(* gyro_set_full_scale_range: each case of the switch falls through to the  *)
(* default, which returns before the register is written.                   *)
SetRange(range) == caller = "free" /\ UNCHANGED <<threadVars, mpuVars>>

(* set_sleep: the register is read, and written with or without a bit; bad  *)
(* is 1 when the write fails. When the read fails (2), what is written has  *)
(* the bit that resets the chip.                                            *)
SetSleep(on, bad) ==
  /\ caller = "free" /\ Failing(bad)
  /\ driver' = [driver EXCEPT !.asleep = on]
  /\ chip' = CASE bad = 0 -> [chip EXCEPT !.asleep = on] [] bad = 1 -> chip [] bad = 2 -> AfterReset(chip)
  /\ report' = [report EXCEPT !.faults = Faults(bad),
                   !.bad = CASE bad = 0 -> @ \ {"sleep"} [] bad = 1 -> @ \cup {"sleep"}
                             [] bad = 2 -> @ \cup {"range", "sleep"}]
  /\ UNCHANGED <<task, threadVars>>

(* self_check turns the test on, and half a second later off, with the      *)
(* smallest range; nobody looks at whether a write failed.                  *)
SelfCheck(bad) ==
  /\ \/ caller = "free" /\ caller' = "testing"
     \/ caller = "testing" /\ caller' = "free"
  /\ Failing(bad)
  /\ chip' = IF bad = 1 THEN chip ELSE [chip EXCEPT !.range = 0, !.test = caller = "free"]
  /\ report' = [report EXCEPT !.bad = @ \cup {"range"}, !.faults = Faults(bad)]
  /\ UNCHANGED <<driver, task, worker, told, missed>>

(* calibrate_sensors, of a chip that rests, as it has to                    *)
Calibrate(bad) ==
  /\ caller = "free" /\ chip.rate = 0 /\ Failing(bad)
  /\ driver' = [driver EXCEPT !.base = IF bad = 1 THEN Unread ELSE 0]
  /\ report' = [report EXCEPT !.faults = Faults(bad),
                              !.bad = IF bad = 1 THEN @ \cup {"base"} ELSE @ \ {"base"}]
  /\ UNCHANGED <<chip, task, threadVars>>

(* get_last_read_angle_data, with the mutex                                 *)
GetLast ==
  /\ caller = "free"
  /\ report' = [report EXCEPT !.time = driver.time, !.angle = driver.angle]
  /\ UNCHANGED <<chip, driver, task, threadVars>>

StartCall == Start /\ UNCHANGED mpuVars
StopCall == Tell /\ UNCHANGED mpuVars
StopJoin == Join /\ UNCHANGED mpuVars

Tick ==
  /\ task.clock < Epoch + MaxTime
  /\ task' = [task EXCEPT !.clock = @ + 1]
  /\ UNCHANGED <<chip, driver, report, threadVars>>
-----------------------------------------------------------------------------
(* worker *)

Goto(from, to) == worker = from /\ worker' = to /\ UNCHANGED <<told, missed, caller>>

LoopHead == Goto("top", IF told THEN "ended" ELSE "read") /\ UNCHANGED mpuVars

(* read_gyro_accel_vals: the two bytes of an axis, a figure of the range of *)
(* the chip; a byte that is not read is 255.                                *)
Read(bad) ==
  /\ Goto("read", "store") /\ Failing(bad)
  /\ task' = [task EXCEPT !.read = IF bad = 1 THEN Unread
                                   ELSE IF chip.test \/ chip.asleep THEN 0 ELSE chip.rate * Lsb[chip.range + 1]]
  /\ report' = [report EXCEPT !.faults = Faults(bad),
                   !.bad = IF bad = 1 \/ chip.test \/ chip.asleep \/ "range" \in @
                           THEN @ \cup {"angle"} ELSE @]
  /\ UNCHANGED <<chip, driver>>

(* update_values: the base is taken off, and the rest divided by the        *)
(* sensitivity of the range that the driver knows; dt is the time since the *)
(* reading before, which is 0 and not now before the first.                 *)
Store ==
  /\ Goto("store", "top")
  /\ driver' = [driver EXCEPT !.time = task.clock,
                   !.angle = @ + Eighths(task.read - driver.base, driver.range) * (task.clock - driver.time)]
  /\ task' = [task EXCEPT !.read = 0]
  /\ report' = [report EXCEPT !.bad = IF "base" \in @ THEN @ \cup {"angle"} ELSE @]
  /\ UNCHANGED chip

WorkerNext == LoopHead \/ Store \/ \E bad \in 0..1 : Read(bad)

MpuNext ==
  \/ \E range \in Ranges : SetRange(range)
  \/ \E on \in BOOLEAN, bad \in 0..2 : SetSleep(on, bad)
  \/ \E bad \in 0..1 : SelfCheck(bad) \/ Calibrate(bad)
  \/ GetLast \/ StartCall \/ StopCall \/ StopJoin \/ Tick \/ WorkerNext
-----------------------------------------------------------------------------
MpuTypeOK ==
  /\ chip.range \in 0..3 /\ driver.range \in 0..3 /\ task.clock \in Epoch..Epoch + MaxTime
  /\ driver.time \in {0} \cup Epoch..task.clock /\ report.faults \in 0..MaxFaults

(* The sensitivity that update_values takes is that of the chip, unless the *)
(* register was not read, or self_check or a reset changed it; the driver   *)
(* knows whether the chip sleeps, unless a transfer of it failed.           *)
MpuAgrees ==
  /\ "range" \notin report.bad => driver.range = chip.range
  /\ "sleep" \notin report.bad => driver.asleep = chip.asleep

(* The angle and the time that are taken belong together: the angle is the  *)
(* turning until that time, counted from 0 of the clock and not from the    *)
(* start; unless a reading or the base failed, the range was not known, or  *)
(* the chip tested itself or slept.                                         *)
MpuReports == report.angle = 8 * (chip.rate * report.time) \/ "angle" \in report.bad
===============================================================================

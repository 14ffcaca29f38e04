------------------------------ MODULE PwmMotors ------------------------------
(***************************************************************************)
(* The DC motor behind a DRV8835 and the servo, on two channels of a       *)
(* PCA9685: a channel is four registers that are written one by one over   *)
(* I2C, and nobody looks at the result of a write.                         *)
(***************************************************************************)
EXTENDS Integers, Sequences

CONSTANTS
  Levels,       (* what set_power_level is called with, in percent         *)
  Angles,       (* what setAngle is called with                            *)
  Duties,       (* what calibrate is called with: <<min, max>>, in 0.1 %   *)
  Frequencies,  (* what setFrequency is called with                        *)
  Range,        (* m_plusMinusRange                                        *)
  MaxFaults     (* bound: transfers that fail                              *)

VARIABLES
  chip,         (* the flags of MODE1, PRESCALE, the registers of the      *)
                (* channels, and the pins of the DRV8835                   *)
  driver,       (* m_direction, the calibration, and the frequency         *)
  report        (* history: what each channel was last asked for, in 0.1 % *)
                (* and in the range of the chip, the calls of calibrate    *)
                (* since, where a transfer failed, and how many             *)

pwmVars == <<chip, driver, report>>

Channels == {"dc", "servo"}
Default == {"restart", "increment", "allcall"}
AllFlags == Default \cup {"sleep", "clock", "sub1", "sub2", "sub3"}

(* begin and setFrequency are called by the constructor of the provider,    *)
(* the DRV8835 is put in PH/EN mode, and the motor stopped.                 *)
PwmInit ==
  /\ chip = [mode1 |-> Default, prescale |-> 113, led |-> [c \in Channels |-> [r \in 0..3 |-> 0]],
             mode |-> 1, dir |-> 0]
  /\ driver = [dir |-> 0, min |-> 31, max |-> 138, frequency |-> 60]
  /\ report = [asked |-> [c \in Channels |-> 0], calibrated |-> FALSE, bad |-> {}, faults |-> 0]

(* The transfers of a call; at most one of them fails.                      *)
Transfers(bad, what) ==
  /\ bad # 0 => report.faults < MaxFaults
  /\ report' = [report EXCEPT !.faults = IF bad = 0 THEN @ ELSE @ + 1,
                              !.bad = IF bad = 0 THEN @ \ what ELSE @ \cup what]
-----------------------------------------------------------------------------
(* Adafruit_PWMServoDriver and GpioProviderPCA9685 *)

(* The counts of 4096 that a channel is on: dgtWritePWM, at phase 0         *)
Counts(duty) == (4095 * duty) \div 1000

Registers(on, off) == <<on % 256, (on \div 256) % 256, off % 256, (off \div 256) % 256>>

SetPWM(c, on, off, bad) ==
  chip' = [chip EXCEPT !.led[c] = [r \in 0..3 |-> IF r + 1 = bad THEN @[r] ELSE Registers(on, off)[r + 1]]]

(* dgtWritePWM, at phase 0, of a duty cycle in 0.1 %: outside of the range  *)
(* nothing is written.                                                      *)
WritePWM(c, duty, bad) ==
  IF duty < 0 \/ duty > 1000
  THEN bad = 0 /\ UNCHANGED <<chip, report>>
  ELSE /\ SetPWM(c, 0, Counts(duty), bad)
       /\ bad # 0 => report.faults < MaxFaults
       /\ report' = [report EXCEPT !.asked[c] = duty, !.calibrated = IF c = "servo" THEN FALSE ELSE @,
                                   !.faults = IF bad = 0 THEN @ ELSE @ + 1,
                                   !.bad = IF bad = 0 THEN @ \ {c} ELSE @ \cup {c}]

(* floor(25 MHz / 4096 / (0.89 * f) - 1 + 0.5), and what a uint8_t keeps      *)
Prescale(f) == (1220703 - 89 * f) \div (178 * f)

Prescaled(f) == Prescale(f) % 256

(* MODE1 is read, the chip put to sleep, the prescaler set, and the old     *)
(* mode written back twice. A read that fails returns -1, all flags: the    *)
(* chip then stays asleep.                                                  *)
SetFrequency(f, bad) ==
  LET old == IF bad = 1 THEN AllFlags ELSE chip.mode1
      asleep == IF bad = 2 THEN chip.mode1 ELSE (old \ {"restart"}) \cup {"sleep"}
      back == IF bad = 4 THEN asleep ELSE old
  IN  /\ driver' = [driver EXCEPT !.frequency = f]
      /\ chip' = [chip EXCEPT !.prescale = IF bad = 3 THEN @ ELSE Prescaled(f),
                              !.mode1 = IF bad = 5 THEN back ELSE old \cup Default]
      /\ Transfers(bad, {"chip"})

(* sleep and wakeup                                                         *)
Sleep(bad) ==
  /\ chip' = [chip EXCEPT !.mode1 = CASE bad = 1 -> AllFlags [] bad = 2 -> @ [] OTHER -> @ \cup {"sleep"}]
  /\ Transfers(bad, {}) /\ UNCHANGED driver

Wakeup(bad) ==
  /\ chip' = [chip EXCEPT !.mode1 = IF bad = 1 THEN @ ELSE Default]
  /\ Transfers(bad, {}) /\ UNCHANGED driver

(* getFrequency                                                             *)
Frequency(prescale) == 1220703 \div (178 * (prescale + 1))
-----------------------------------------------------------------------------
(* DCMotor and ServoMotor *)

Clamped(level) == IF level > 100 THEN 100 ELSE IF level <= 0 THEN 0 ELSE level

SetPowerLevel(level, bad) == WritePWM("dc", 10 * Clamped(level), bad) /\ UNCHANGED driver
StopMotor(bad) == SetPowerLevel(0, bad)

(* Clockwise is Low here.                                                   *)
SetDirection(d) ==
  /\ driver' = [driver EXCEPT !.dir = d]
  /\ chip' = [chip EXCEPT !.dir = d]
  /\ UNCHANGED report

StopServo(bad) == WritePWM("servo", 0, bad) /\ UNCHANGED driver

Calibrate(d) ==
  /\ IF d[2] <= d[1] THEN UNCHANGED <<driver, report>>
     ELSE /\ driver' = [driver EXCEPT !.min = d[1], !.max = d[2]]
          /\ report' = [report EXCEPT !.calibrated = TRUE]
  /\ UNCHANGED chip

(* zero + angle * (max - min) / (2 * range)                                 *)
Duty(angle) == ((driver.min + driver.max) * Range + angle * (driver.max - driver.min)) \div (2 * Range)

(* Faulty variant: the range is not checked.                                *)
SetAngleAlways(angle, bad) == WritePWM("servo", Duty(angle), bad) /\ UNCHANGED driver

SetAngle(angle, bad) ==
  IF angle < -Range \/ angle > Range THEN bad = 0 /\ UNCHANGED pwmVars
  ELSE WritePWM("servo", Duty(angle), bad) /\ UNCHANGED driver

PwmNext ==
  \/ \E d \in 0..1 : d # driver.dir /\ SetDirection(d)
  \/ \E d \in Duties : Calibrate(d)
  \/ \E bad \in 0..4 :
       \/ StopMotor(bad) \/ StopServo(bad)
       \/ \E level \in Levels : SetPowerLevel(level, bad)
       \/ \E angle \in Angles : SetAngle(angle, bad)
  \/ \E bad \in 0..5, f \in Frequencies : SetFrequency(f, bad)
  \/ \E bad \in 0..2 : Sleep(bad)
  \/ \E bad \in 0..1 : Wakeup(bad)
-----------------------------------------------------------------------------
PwmTypeOK ==
  /\ chip.mode1 \subseteq AllFlags /\ chip.prescale \in 0..255
  /\ chip.led \in [Channels -> [0..3 -> 0..255]] /\ chip.dir = driver.dir
  /\ report.faults \in 0..MaxFaults

Off(c) == chip.led[c][2] + 256 * chip.led[c][3]

(* A channel has the duty cycle it was last asked for, until one of its     *)
(* writes fails; and the chip has the frequency, unless its prescaler does  *)
(* not fit into 8 bits (below 27 Hz).                                       *)
PwmAgrees ==
  /\ \A c \in Channels : c \notin report.bad => Off(c) = Counts(report.asked[c])
  /\ "chip" \notin report.bad /\ driver.frequency >= 27 =>
       driver.frequency \in Frequency(chip.prescale + 1)..Frequency(chip.prescale - 1) + 1

(* The pulse that the registers give the servo is within the last           *)
(* calibration, or off: unless calibrate was called since setAngle, or one  *)
(* of the four writes of the last call failed. The bytes of two pulses are  *)
(* then together, and no caller hears of it: that may be any pulse.         *)
ServoInRange ==
  "servo" \notin report.bad /\ ~report.calibrated =>
    Off("servo") = 0 \/ Off("servo") \in Counts(driver.min)..Counts(driver.max)
==============================================================================

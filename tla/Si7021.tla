-------------------------------- MODULE Si7021 --------------------------------
(***************************************************************************)
(* The humidity and temperature sensor SI7021. Its results are read byte   *)
(* by byte, and a byte that is not read is 255.                            *)
(***************************************************************************)
EXTENDS Integers

CONSTANTS
  Registers,    (* the user register of the chip at the start              *)
  Garbage,      (* what the stack has where user_reg of set_heater is      *)
  Airs,         (* what the chip measures: <<humidity, temperature>>, raw  *)
  MaxFaults     (* bound: transfers that fail                              *)

VARIABLES
  chip,         (* its user register                                       *)
  driver,       (* _user_reg, and the values in % and 0.01 degrees         *)
  report        (* history: the air of the last results, and the faults    *)

siVars == <<chip, driver, report>>

(* is_Heater_Enabled                                                        *)
Heated(register) == (register \div 4) % 2 = 1

Unread == 255

(* The constructor: the register is read, and a heater that is on switched  *)
(* off by set_heater: written is not _user_reg without the bit but a local  *)
(* variable that nobody has set, without the bit.                           *)
SetHeaterOff(user, garbage, bad) ==
  IF bad = 2 THEN user ELSE IF Heated(garbage) THEN garbage - 4 ELSE garbage

SiInit ==
  \E user \in Registers, garbage \in Garbage, bad \in 0..3 :
    LET first == IF bad = 1 THEN Unread ELSE user
        now == IF Heated(first) THEN SetHeaterOff(user, garbage, bad) ELSE user
    IN  /\ bad # 0 => MaxFaults > 0
        /\ bad \in {2, 3} => Heated(first)
        /\ chip = now
        /\ driver = [user |-> IF ~Heated(first) THEN first ELSE IF bad = 3 THEN Unread ELSE now,
                     humidity |-> 0, temperature |-> 0]
        /\ report = [air |-> <<0, 0>>, whole |-> FALSE, bad |-> bad, faults |-> IF bad = 0 THEN 0 ELSE 1]
-----------------------------------------------------------------------------
(* The bytes n and n + 1 of an answer.                                      *)
Word(raw, n, bad) ==
  256 * (IF bad = n THEN Unread ELSE raw \div 256) + (IF bad = n + 1 THEN Unread ELSE raw % 256)

(* The whole division in (125 * last_MRH) / 65536 - 6; below 0 it stays: == *)
Humidity(raw) == LET mrh == (125 * raw) \div 65536 - 6 IN IF mrh > 100 THEN 100 ELSE mrh

(* 175.72 * last_Temp / 65536 - 46.85, in 0.01                              *)
Temperature(raw) == ((17572 * raw) \div 65536) - 4685

(* get_results: a command and two bytes, twice; bad is the byte that is not *)
(* read, or 5, a command that fails: then the bytes are not there either.   *)
GetResults(air, bad) ==
  LET mrh == IF bad = 5 THEN 65535 ELSE Word(air[1], 1, bad)
      temp == Word(air[2], 3, bad)
  IN  /\ bad # 0 => report.faults < MaxFaults
      /\ driver' = [driver EXCEPT !.humidity = Humidity(mrh), !.temperature = Temperature(temp)]
      /\ report' = [report EXCEPT !.air = air, !.whole = bad = 0, !.faults = IF bad = 0 THEN @ ELSE @ + 1]
      /\ UNCHANGED chip

(* reset: the register gets its default, and _user_reg is not read again.   *)
Reset(bad) ==
  /\ bad = 1 => report.faults < MaxFaults
  /\ chip' = IF bad = 1 THEN chip ELSE 58
  /\ report' = [report EXCEPT !.faults = @ + bad, !.bad = IF bad = 1 THEN @ ELSE 6]
  /\ UNCHANGED driver

SiNext ==
  \/ \E air \in Airs, bad \in 0..5 : GetResults(air, bad)
  \/ \E bad \in 0..1 : Reset(bad)
-----------------------------------------------------------------------------
Percents == -6..100
Hundredths == -4685..12887

SiTypeOK ==
  /\ chip \in 0..255 /\ driver.user \in 0..255
  /\ driver.humidity \in Percents /\ driver.temperature \in Hundredths
  /\ report.faults \in 0..MaxFaults

(* The driver knows the user register, unless it was not read, or reset.    *)
SiAgrees == report.bad = 0 => driver.user = chip

(* Results that were read whole are the air, to a percent and 0.01 degrees. *)
IsAir(humidity, temperature, air) ==
  /\ humidity < 100 => (humidity + 6) * 65536 \in 125 * air[1] - 65535..125 * air[1]
  /\ (temperature + 4685) * 65536 \in 17572 * air[2] - 65535..17572 * air[2]

SiReports == report.whole => IsAir(driver.humidity, driver.temperature, report.air)

(* The heater is off once the driver is there, unless that write failed.    *)
HeaterOff == report.bad # 2 => ~Heated(chip)
===============================================================================

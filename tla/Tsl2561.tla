------------------------------- MODULE Tsl2561 -------------------------------
(***************************************************************************)
(* The light sensor TSL2561, with the automatic choice of the gain. One    *)
(* thread calls it; a call is one step, in which a transfer may fail.      *)
(***************************************************************************)
EXTENDS Integers, Sequences

CONSTANTS
  Lights,       (* the two channels of the chip, in counts of 402 ms at 1x *)
  Timings,      (* the timing register at the start                        *)
  MaxFaults     (* bound: transfers that fail                              *)

VARIABLES
  chip,         (* its timing and control registers                        *)
  driver,       (* _timing, _is_power_on, the time, the gain and the data  *)
  report        (* history: the last results, the registers that were not  *)
                (* read or written, and the faults                         *)

tslVars == <<chip, driver, report>>

Gain1x == 0
Gain16x == 16

(* get_integration_time and get_gain                                        *)
Timed(s, timing) ==
  [s EXCEPT !.timing = timing, !.time = timing % 4,
            !.gain = IF (timing \div 16) % 2 = 0 THEN Gain1x ELSE Gain16x]

TslInit ==
  /\ \E timing \in Timings, on \in BOOLEAN : chip = [timing |-> timing, on |-> on]
  /\ \E n \in 0..1 :
       /\ n <= MaxFaults
       /\ driver = Timed([timing |-> 0, time |-> 0, gain |-> 0, on |-> FALSE, vis |-> 0, ir |-> 0],
                         IF n = 1 THEN 255 ELSE chip.timing)
       /\ report = [ok |-> FALSE, lux |-> 0, light |-> <<0, 0>>,
                    faults |-> n,
                    bad |-> (IF n = 1 THEN {"timing"} ELSE {}) \cup (IF chip.on THEN {"power"} ELSE {})]
-----------------------------------------------------------------------------
(* the chip *)

AtMost(n, top) == IF n < top THEN n ELSE top

Count(n, timing) ==
  LET gained == IF (timing \div 16) % 2 = 0 THEN n ELSE 16 * n
  IN  CASE timing % 4 = 0 -> AtMost((gained * 11) \div 322, 5047)
        [] timing % 4 = 1 -> AtMost((gained * 81) \div 322, 37177)
        [] OTHER -> AtMost(gained, 65535)
-----------------------------------------------------------------------------
(* calculateLux *)

(* The upper bound of the ratio, b and m of the T, FN and CL packages       *)
Segments == <<<<64, 498, 446>>, <<128, 532, 721>>, <<192, 575, 891>>, <<256, 624, 1022>>,
              <<312, 367, 508>>, <<410, 210, 251>>, <<666, 24, 18>>>>

ClipThreshold(time) == CASE time = 0 -> 4900 [] time = 1 -> 37000 [] OTHER -> 65000
Scale(time) == CASE time = 0 -> 29975 [] time = 1 -> 4071 [] OTHER -> 1024

(* (counts * chScale) >> 10, and at 1x chScale is shifted by 4              *)
Channel(n, time, gain) == IF gain = Gain1x THEN (n * Scale(time)) \div 64 ELSE (n * Scale(time)) \div 1024

Ratio(c0, c1) == ((IF c0 = 0 THEN 0 ELSE (c1 \div c0) * 1024 + ((c1 % c0) * 1024) \div c0) + 1) \div 2

(* The difference is unsigned: were it negative, the result would be huge.  *)
Saturated == 65536
Lux(vis, ir, time, gain) ==
  LET c0 == Channel(vis, time, gain)
      c1 == Channel(ir, time, gain)
      fitting == {i \in 1..7 : Ratio(c0, c1) <= Segments[i][1]}
      s == IF fitting = {} THEN <<0, 0, 0>> ELSE Segments[CHOOSE i \in fitting : \A j \in fitting : i <= j]
      temp == c0 * s[2] - c1 * s[3]
  IN  IF vis > ClipThreshold(time) \/ ir > ClipThreshold(time) \/ temp < 0 THEN Saturated
      ELSE (temp + 8192) \div 16384
-----------------------------------------------------------------------------
(* A call works on s: the chip, the driver, and the place of the transfer   *)
(* that fails, counted down.                                                *)

Next1(s) == [s EXCEPT !.left = @ - 1]
Fails(s) == s.left = 1
Spoil(s, what) == [s EXCEPT !.bad = IF Fails(s) THEN @ \cup {what} ELSE @ \ {what}]

(* set_power                                                                *)
SetPower(s, on) ==
  IF s.driver.on = on THEN s
  ELSE Next1(Spoil([s EXCEPT !.driver.on = on, !.chip.on = IF Fails(s) THEN @ ELSE on], "power"))

(* read16: a read that fails leaves buff as it was on the stack.            *)
Read16(s, n, garbage) == IF Fails(s) \/ ~s.chip.on THEN garbage ELSE Count(n, s.chip.timing)

ReadVis(s, garbage) == Next1([s EXCEPT !.driver.vis = Read16(s, s.light[1], garbage)])
ReadIr(s, garbage) == Next1([s EXCEPT !.driver.ir = Read16(s, s.light[2], garbage)])

ReadRawData(s, garbage) ==
  SetPower(ReadIr(ReadVis(SetPower(s, TRUE), garbage), garbage), FALSE)

(* set_timing: gain << 4 in a uint8_t, so that 16x is lost                  *)
SetTiming(s, time, gain) ==
  LET timing == (16 * gain + time) % 256
  IN  Next1(Spoil([s EXCEPT !.driver = Timed(@, timing),
                            !.chip.timing = IF Fails(s) THEN @ ELSE timing], "timing"))

SetGain(s, gain) == SetTiming(s, s.driver.time, gain)

Lowest(time) == CASE time = 0 -> 100 [] time = 1 -> 200 [] OTHER -> 500
Highest(time) == CASE time = 0 -> 4850 [] time = 1 -> 36000 [] OTHER -> 63000

(* getLuminosity: the gain changes once at most, and then two further       *)
(* readings are made.                                                       *)
GetLuminosity(s, garbage) ==
  LET first == ReadRawData(s, garbage)
      d == first.driver
      Again(gain) == ReadRawData(ReadRawData(SetGain(first, gain), garbage), garbage)
  IN  IF d.vis < Lowest(d.time) /\ d.gain = Gain1x THEN Again(Gain16x)
      ELSE IF d.vis > Highest(d.time) /\ d.gain = Gain16x THEN Again(Gain1x)
      ELSE first

Call(light, bad) == [chip |-> chip, driver |-> driver, light |-> light, left |-> bad, bad |-> report.bad]

Return(s, bad) ==
  /\ bad # 0 => report.faults < MaxFaults /\ s.left < 1
  /\ chip' = s.chip /\ driver' = s.driver

(* get_results: below 65535 it is no overflow. (Not judged after a transfer *)
(* of its own that failed, or a power_on that did.)                         *)
GetResults(light, bad, garbage) ==
  LET s == GetLuminosity(Call(light, bad), garbage)
      lux == Lux(s.driver.vis, s.driver.ir, s.driver.time, s.driver.gain)
  IN  /\ Return(s, bad)
      /\ report' = [ok |-> lux < 65535 /\ bad = 0 /\ (driver.on => chip.on), lux |-> lux, light |-> light, bad |-> s.bad,
                    faults |-> IF bad = 0 THEN report.faults ELSE report.faults + 1]

Setting(s, bad) ==
  /\ Return(s, bad)
  /\ report' = [report EXCEPT !.ok = FALSE, !.bad = s.bad, !.faults = IF bad = 0 THEN @ ELSE @ + 1]

ChangeTiming(time, gain, bad) == Setting(SetTiming(Call(<<0, 0>>, bad), time, gain), bad)
SwitchPower(on, bad) == Setting(SetPower(Call(<<0, 0>>, bad), on), bad)

TslNext ==
  \/ \E light \in Lights, bad \in 0..13, garbage \in {0, 65535} : GetResults(light, bad, garbage)
  \/ \E time \in 0..2, gain \in {Gain1x, Gain16x}, bad \in 0..1 : ChangeTiming(time, gain, bad)
  \/ \E on \in BOOLEAN, bad \in 0..1 : SwitchPower(on, bad)
-----------------------------------------------------------------------------
IsWord(n) == n \in Nat /\ n <= 65535      (* uint16_t                      *)

TslTypeOK ==
  /\ chip.timing \in 0..255 /\ driver = Timed(driver, driver.timing)
  /\ IsWord(driver.vis) /\ IsWord(driver.ir) /\ report.faults \in 0..MaxFaults

(* The driver has the gain, the time and the power of the chip, unless the  *)
(* register was not read or written.                                        *)
TslAgrees ==
  /\ "timing" \notin report.bad => driver.timing = chip.timing
  /\ "power" \notin report.bad => driver.on = chip.on

(* The light that is reported is the light there is, whatever the gain and  *)
(* the integration time, up to the counts that a short integration drops.   *)
TslReports ==
  LET true == Lux(report.light[1], report.light[2], 2, Gain1x)
  IN  report.ok /\ report.bad = {} => report.lux \in true \div 2 - 40 .. 2 * true + 40
===============================================================================

-------------------------------- MODULE Sgp30 --------------------------------
(***************************************************************************)
(* The air quality sensor SGP30: a thread of its own measures once in a    *)
(* second, sends a humidity that changed, and takes the baseline of the    *)
(* chip when it ends. A word of an answer is two bytes and their CRC.      *)
(***************************************************************************)
EXTENDS Integers, Sequences, FiniteSets, Threaded

CONSTANTS
  Readings,     (* what the chip measures: <<CO2, TVOC>>                   *)
  Baselines,    (* what set_baseline is called with, and the chip learns:  *)
                (* <<CO2, TVOC>>                                           *)
  Humidities,   (* what set_humidity is called with, in 1/256 g/m3         *)
  Valid,        (* the frames with the right CRC                           *)
  MaxFaults     (* bound: transfers that fail, or frames with a wrong bit  *)

VARIABLES
  chip,         (* its baseline and humidity                               *)
  driver,       (* values, baseline and _humidity                          *)
  task,         (* hmdt, hmdt_now, and what the worker copied              *)
  report        (* history: the last results, whether a humidity was lost  *)
                (* or not sent, a baseline replaced, and the faults        *)

sgpVars == <<chip, driver, task, report>>

Both == {"co2", "tvoc"}
Pair(w) == [k \in Both |-> IF k = "co2" THEN w[1] ELSE w[2]]
Nothing == Pair(<<0, 0>>)

SgpInit ==
  /\ chip = [baseline |-> Nothing, humidity |-> 0]
  /\ driver = [values |-> Nothing, baseline |-> Nothing, humidity |-> 0]
  /\ task = [hmdt |-> 0, now |-> 0, base |-> Nothing]
  /\ report = [result |-> Nothing, lost |-> FALSE,
               replaced |-> FALSE, unsent |-> FALSE, faults |-> 0]
-----------------------------------------------------------------------------
(* frames *)

(* A transfer that fails leaves the zeros of data[].                        *)
Unread == <<0, 0, 0>>

Frame(w) == CHOOSE f \in Valid : f[1] = w \div 256 /\ f[2] = w % 256
Garbled(frame) == [frame EXCEPT ![2] = (@ + 4) % 256]

(* What may be read of two words: both frames, both with one of them        *)
(* garbled, or nothing.                                                     *)
Answers(words) ==
  LET sent == [k \in Both |-> Frame(words[k])]
  IN  {[data |-> sent, faults |-> 0], [data |-> [k \in Both |-> Unread], faults |-> 1]}
        \cup {[data |-> [sent EXCEPT ![k] = Garbled(@)], faults |-> 1] : k \in Both}

ConvertResult(frame) == 256 * frame[1] + frame[2]
Success(frame) == frame \in Valid

(* Each of the two is taken when its own CRC is right.                      *)
Taken(old, data) == [k \in Both |-> IF Success(data[k]) THEN ConvertResult(data[k]) ELSE old[k]]
-----------------------------------------------------------------------------
(* callers *)

Lowers(n) == n % 256

(* More than 255 g/m3 and a change below 12/256 are refused.                *)
SetHumidity(n) ==
  /\ caller = "free"
  /\ LET diff == Lowers(n) - Lowers(driver.humidity)
     IN  IF n \div 256 > 255 \/ (n \div 256 = driver.humidity \div 256 /\ diff \in -11..11)
         THEN UNCHANGED <<driver, report>>
         ELSE /\ driver' = [driver EXCEPT !.humidity = n]
              /\ report' = [report EXCEPT !.lost = @ \/ worker \in {"send", "remember", "refetch"}]
  /\ UNCHANGED <<chip, task, threadVars>>

SetBaseline(b) ==
  /\ caller = "free"
  /\ driver' = [driver EXCEPT !.baseline = Pair(b)]
  /\ report' = [report EXCEPT !.replaced = worker \in {"save", "ended"}]
  /\ UNCHANGED <<chip, task, threadVars>>

GetResults ==
  /\ caller = "free"
  /\ report' = [report EXCEPT !.result = driver.values]
  /\ UNCHANGED <<chip, driver, task, threadVars>>

StartCall == Start /\ UNCHANGED sgpVars
StopCall == Tell /\ UNCHANGED sgpVars
StopJoin == Join /\ UNCHANGED sgpVars
-----------------------------------------------------------------------------
(* worker *)

Goto(from, to) == worker = from /\ worker' = to /\ UNCHANGED <<told, missed, caller>>

(* init_air_quality and _set_baseline: a copy is sent.                      *)
FetchBaseline ==
  /\ Goto("top", "baseline")
  /\ task' = [task EXCEPT !.base = driver.baseline, !.hmdt = 0]
  /\ report' = [report EXCEPT !.lost = FALSE, !.replaced = FALSE]
  /\ UNCHANGED <<chip, driver>>

WriteFails(n) == n = 0 \/ report.faults < MaxFaults

SendBaseline(n) ==
  /\ Goto("baseline", "fetch") /\ WriteFails(n)
  /\ chip' = IF n = 0 THEN [chip EXCEPT !.baseline = task.base] ELSE chip
  /\ task' = [task EXCEPT !.base = Nothing]
  /\ report' = [report EXCEPT !.faults = @ + n]
  /\ UNCHANGED driver

(* _set_humidity                                                            *)
FetchHumidity ==
  /\ Goto("fetch", "send") \/ Goto("refetch", "resend")
  /\ task' = [task EXCEPT !.now = driver.humidity]
  /\ UNCHANGED <<chip, driver, report>>

Send(n) ==
  /\ WriteFails(n) /\ (task.now = 0 => n = 0)
  /\ task' = [task EXCEPT !.now = 0]
  /\ chip' = IF n = 0 /\ task.now # 0 THEN [chip EXCEPT !.humidity = task.now] ELSE chip
  /\ report' = [report EXCEPT !.faults = @ + n, !.unsent = n = 1]

SendFirst(n) == Goto("send", "remember") /\ Send(n) /\ UNCHANGED driver

(* hmdt is what _humidity is now, which need not be what was sent.          *)
Remember ==
  /\ Goto("remember", "loop")
  /\ task' = [task EXCEPT !.hmdt = driver.humidity]
  /\ UNCHANGED <<chip, driver, report>>

LoopHead == Goto("loop", IF told THEN "end" ELSE "measure") /\ UNCHANGED sgpVars

(* 400 and 0 are the values of a chip that warms up.                        *)
Measure ==
  \E r \in Readings : \E answer \in Answers(Pair(r)) :
    /\ Goto("measure", "look") /\ report.faults + answer.faults <= MaxFaults
    /\ LET got == [k \in Both |-> ConvertResult(answer.data[k])]
           skip == got = Pair(<<400, 0>>)
       IN  /\ driver' = IF skip THEN driver ELSE [driver EXCEPT !.values = Taken(@, answer.data)]
           /\ report' = [report EXCEPT !.faults = @ + answer.faults]
    /\ UNCHANGED <<chip, task>>

Look ==
  /\ Goto("look", IF driver.humidity # task.hmdt THEN "refetch" ELSE "loop")
  /\ task' = [task EXCEPT !.hmdt = driver.humidity]
  /\ report' = [report EXCEPT !.lost = @ /\ driver.humidity = task.hmdt]
  /\ UNCHANGED <<chip, driver>>

Resend(n) == Goto("resend", "loop") /\ Send(n) /\ UNCHANGED driver

(* get_baseline: what is not read again is written back.                    *)
LastBaseline ==
  /\ Goto("end", "save")
  /\ task' = [task EXCEPT !.base = driver.baseline]
  /\ report' = [report EXCEPT !.replaced = FALSE]
  /\ UNCHANGED <<chip, driver>>

SaveBaseline ==
  \E answer \in Answers(chip.baseline) :
    /\ Goto("save", "ended") /\ report.faults + answer.faults <= MaxFaults
    /\ driver' = [driver EXCEPT !.baseline = Taken(task.base, answer.data)]
    /\ report' = [report EXCEPT !.faults = @ + answer.faults,
                                !.replaced = @ \/ answer.faults > 0]
    /\ task' = [task EXCEPT !.base = Nothing]
    /\ UNCHANGED chip

(* The chip finds another baseline as it measures.                          *)
Learn ==
  \E b \in Baselines :
    /\ worker = "measure" /\ chip.baseline # Pair(b)
    /\ chip' = [chip EXCEPT !.baseline = Pair(b)]
    /\ UNCHANGED <<driver, task, report, threadVars>>

WorkerNext ==
  \/ FetchBaseline \/ FetchHumidity \/ Remember \/ LoopHead \/ Measure \/ Look
  \/ LastBaseline \/ SaveBaseline
  \/ \E n \in 0..1 : SendBaseline(n) \/ SendFirst(n) \/ Resend(n)

SgpNext ==
  \/ \E n \in Humidities : SetHumidity(n)
  \/ \E b \in Baselines : SetBaseline(b)
  \/ GetResults \/ StartCall \/ StopCall \/ StopJoin \/ WorkerNext \/ Learn
-----------------------------------------------------------------------------
IsWord(n) == n \in Nat /\ n <= 65535      (* uint16_t                      *)

SgpTypeOK ==
  /\ IsWord(driver.humidity) /\ IsWord(chip.humidity)
  /\ report.faults \in 0..MaxFaults
  /\ \A k \in Both : IsWord(driver.values[k]) /\ IsWord(driver.baseline[k])

(* In its loop the chip has the last humidity, unless it is 0, which is not *)
(* sent, its write failed, or it was set between two looks that the worker  *)
(* takes for one; and after the last round the driver has the baseline of   *)
(* the chip.                                                                *)
SgpAgrees ==
  /\ worker \in {"loop", "measure", "look"} /\ ~report.lost /\ ~report.unsent
       /\ driver.humidity = task.hmdt /\ driver.humidity # 0 => chip.humidity = driver.humidity
  /\ worker = "ended" /\ ~report.replaced => driver.baseline = chip.baseline

(* What get_results returns the chip has measured.                          *)
SgpReports == \A k \in Both : report.result[k] \in {0} \cup {Pair(r)[k] : r \in Readings}
===============================================================================

----------------------------- MODULE AnalogChain -----------------------------
(***************************************************************************)
(* The MCP320X reads its analog inputs in a thread of its own and hands    *)
(* each value to the receiver of the input: a simple one keeps the last    *)
(* value, the dust sensor is switched on for the reading and averages the  *)
(* last ones, the light meter queues the values for its own thread, which  *)
(* tells the state machine of a change that is large enough.               *)
(***************************************************************************)
EXTENDS Integers, Sequences, SequencesExt, Threaded

CONSTANTS
  Inputs,       (* of the converter, from 0                                *)
  LightInput,   (* the input of the light meter; the others have a simple  *)
                (* receiver or a dust sensor                               *)
  Readings,     (* what the converter delivers                             *)
  Diff,         (* value_diff_for_event                                    *)
  MaxSize,      (* of the light meter's buffer (20 in the code)            *)
  Window        (* of the dust sensor's filter (10 in the code)            *)

VARIABLES
  active,       (* inputs whose receiver is active                         *)
  receiver,     (* inputs with a registered receiver                       *)
  selected,     (* the chip is selected (its GPIO is low)                  *)
  at,           (* inputs that the round still has to read                 *)
  value,        (* the value read, or Error                                *)
  fan,          (* the dust sensor is switched on                          *)
  data,         (* _data of the simple receivers                           *)
  window,       (* _buff of the filter; empty before the first value       *)
  sum,          (* _sum of the filter                                      *)
  buffer,       (* the light meter's buffer                                *)
  meter, mtold, mmissed, mcaller,  (* the thread of the light meter        *)
  previous,     (* values[1]                                               *)
  notified,     (* history: the value the machine was told last, or 0      *)
  dozed,        (* history: the meter was deactivated with values left, or *)
                (* a value came while it was not active                    *)
  unwoken       (* history: registered since the converter was woken       *)

meterVars == <<meter, mtold, mmissed, mcaller>>
analogVars == <<active, receiver, selected, at, value, fan, data, window, sum, buffer, meterVars,
                previous, notified, dozed, unwoken>>

Error == -1

Meter == INSTANCE Threaded WITH
  worker <- meter, told <- mtold, missed <- mmissed, caller <- mcaller
Buf == INSTANCE CircularBuffer WITH Values <- Readings \cup {0}, Empty <- Error, Moves <- FALSE

AnalogInit ==
  /\ active = {} /\ receiver = {} /\ selected = FALSE /\ at = {} /\ value = Error /\ fan = {}
  /\ data = [i \in Inputs |-> 0] /\ window = <<>> /\ sum = 0
  /\ buffer = Buf!NewBuffer /\ Meter!ThreadInit
  /\ previous = 0 /\ notified = 0 /\ dozed = FALSE /\ unwoken = FALSE
-----------------------------------------------------------------------------
(* callers *)

chipVars == <<selected, at, value, fan>>
lightVars == <<buffer, meterVars, previous, notified>>

Initialize ==
  /\ Start
  /\ UNCHANGED analogVars
StopCall == Tell /\ UNCHANGED analogVars
StopJoin == Join /\ UNCHANGED analogVars

(* AnalogMeterSimple::add_receiver registers one and sets it active; nobody *)
(* wakes the converter. An input is taken once.                             *)
AddReceiver(i) ==
  /\ caller = "free" /\ i # LightInput /\ i \notin receiver
  /\ receiver' = receiver \cup {i} /\ active' = active \cup {i}
  /\ unwoken' = TRUE
  /\ UNCHANGED <<chipVars, data, window, sum, lightVars, dozed, threadVars>>

(* The light meter registers when it is initialized ...                     *)
InitializeMeter ==
  /\ Meter!Start
  /\ receiver' = receiver \cup {LightInput}
  /\ unwoken' = (unwoken \/ LightInput \in active)
  /\ UNCHANGED <<active, chipVars, data, window, sum, buffer, previous, notified, dozed,
                 threadVars>>

(* ... and wakes the converter when it is activated, but not its own thread.*)
Activate ==
  /\ mcaller = "free" /\ LightInput \notin active
  /\ active' = active \cup {LightInput}
  /\ unwoken' = FALSE
  /\ Notify
  /\ UNCHANGED <<receiver, chipVars, data, window, sum, lightVars, dozed, told, caller>>

Deactivate ==
  /\ mcaller = "free" /\ LightInput \in active
  /\ active' = active \ {LightInput}
  /\ dozed' = (dozed \/ ~Buf!IsEmpty(buffer))
  /\ UNCHANGED <<receiver, chipVars, data, window, sum, lightVars, unwoken, threadVars>>

MeterOnly == UNCHANGED <<active, receiver, chipVars, data, window, sum, buffer, previous, notified,
                         dozed, unwoken, threadVars>>
StopMeter == Meter!Tell /\ MeterOnly
JoinMeter == Meter!Join /\ MeterOnly
-----------------------------------------------------------------------------
(* worker of the converter *)

Chip(from, to) ==
  /\ worker = from /\ worker' = to
  /\ UNCHANGED <<active, receiver, told, missed, caller>>

ActiveAgents == receiver \cap active

WaitForAgents == Wait(ActiveAgents # {}) /\ UNCHANGED analogVars
Wakeup == SpuriousWakeup /\ UNCHANGED analogVars

(* The SPI channel is selected, or everything begins anew.                  *)
SelectChannel ==
  /\ Chip("work", IF told THEN "ended" ELSE "idle") \/ (~told /\ Chip("work", "top"))
  /\ UNCHANGED <<chipVars, data, window, sum, lightVars, dozed, unwoken>>

StartRound ==
  /\ Chip("idle", IF ~told /\ ActiveAgents # {} THEN "read" ELSE "top")
  /\ selected' = (worker' = "read")
  /\ at' = IF worker' = "read" THEN Inputs ELSE {}
  /\ UNCHANGED <<value, fan, data, window, sum, lightVars, dozed, unwoken>>

Input == Min(at)

SkipInput ==
  /\ at # {} /\ Input \notin ActiveAgents
  /\ Chip("read", "read") /\ at' = at \ {Input}
  /\ UNCHANGED <<selected, value, fan, data, window, sum, lightVars, dozed, unwoken>>

Before ==
  /\ at # {} /\ Input \in ActiveAgents
  /\ Chip("read", "convert")
  /\ fan' = IF Input = LightInput THEN fan ELSE {Input}
  /\ UNCHANGED <<selected, at, value, data, window, sum, lightVars, dozed, unwoken>>

(* get_value: an answer without its null bit counts as a value of 0; the    *)
(* result of the transfer is not looked at.                                 *)
Convert ==
  /\ Chip("convert", "deliver")
  /\ value' \in Readings \cup {0}
  /\ fan' = {}
  /\ UNCHANGED <<selected, at, data, window, sum, lightVars, dozed, unwoken>>

(* The buffer takes it, and its thread is woken if the buffer was empty.    *)
Deliver ==
  /\ Chip("deliver", "read") /\ at' = at \ {Input} /\ value' = Error
  /\ IF Input = LightInput
     THEN /\ buffer' = Buf!Put(buffer, value)
          /\ IF Buf!IsEmpty(buffer) THEN Meter!Notify ELSE UNCHANGED <<meter, mmissed>>
          /\ dozed' = (dozed \/ LightInput \notin active)
          /\ UNCHANGED data
     ELSE data' = [data EXCEPT ![Input] = value] /\ UNCHANGED <<buffer, meter, mmissed, dozed>>
  /\ UNCHANGED <<selected, fan, window, sum, mtold, mcaller, previous, notified, unwoken>>

EndRound ==
  /\ at = {} /\ Chip("read", "idle") /\ selected' = FALSE
  /\ UNCHANGED <<at, value, fan, data, window, sum, lightVars, dozed, unwoken>>
-----------------------------------------------------------------------------
(* the filter of the dust sensor, one step per get_data *)

(* Faulty variant: the oldest value stays in the sum.                       *)
FilterKeeps(m) ==
  IF window = <<>> THEN <<[i \in 1..Window |-> m], Window * m>>
  ELSE <<Append(Tail(window), m), sum + m>>

(* The first value fills the window; later ones move it.                    *)
Filter(m) ==
  IF window = <<>> THEN <<[i \in 1..Window |-> m], Window * m>>
  ELSE <<Append(Tail(window), m), sum - Head(window) + m>>

(* A value of 0 is not taken.                                               *)
GetData(i) ==
  /\ i \in receiver \ {LightInput} /\ data[i] # 0
  /\ LET f == Filter(data[i]) IN window' = f[1] /\ sum' = f[2]
  /\ UNCHANGED <<active, receiver, chipVars, data, lightVars, dozed, unwoken, threadVars>>
-----------------------------------------------------------------------------
(* worker of the light meter *)

MeterStep ==
  UNCHANGED <<active, receiver, chipVars, data, window, sum, mtold, mmissed, mcaller, dozed, unwoken,
              threadVars>>

Present == LightInput \in active /\ ~Buf!IsEmpty(buffer)

WaitForData == Meter!Wait(Present) /\ MeterOnly
MeterWakeup == Meter!SpuriousWakeup /\ MeterOnly

Differs(a, b) == (IF a > b THEN a - b ELSE b - a) > Diff

(* The first value that is not 0 is only remembered; a value that differs   *)
(* enough from the one remembered replaces it and is told.                  *)
Take ==
  /\ MeterStep /\ meter = "work"
  /\ \/ (mtold \/ ~Present) /\ meter' = "top" /\ UNCHANGED <<buffer, previous, notified>>
     \/ /\ ~mtold /\ Present /\ UNCHANGED meter
        /\ buffer' = Buf!Get(buffer)
        /\ LET v == Buf!Got(buffer) IN
           \/ previous = 0 /\ previous' = v /\ UNCHANGED notified
           \/ /\ previous # 0 /\ Diff > 0 /\ Differs(v, previous)
              /\ notified' = v /\ previous' = v
           \/ /\ previous # 0 /\ ~(Diff > 0 /\ Differs(v, previous))
              /\ UNCHANGED <<previous, notified>>

ChipNext ==
  \/ WaitForAgents \/ SelectChannel \/ StartRound \/ SkipInput \/ Before \/ Convert \/ Deliver
  \/ EndRound
MeterNext == WaitForData \/ Take

AnalogNext ==
  \/ \E i \in Inputs : AddReceiver(i) \/ GetData(i)
  \/ Initialize \/ StopCall \/ StopJoin \/ InitializeMeter \/ Activate \/ Deactivate \/ StopMeter \/ JoinMeter \/ Wakeup \/ MeterWakeup
  \/ ChipNext \/ MeterNext
-----------------------------------------------------------------------------
AnalogTypeOK ==
  /\ active \subseteq Inputs /\ receiver \subseteq Inputs /\ at \subseteq Inputs
  /\ selected \in BOOLEAN /\ dozed \in BOOLEAN /\ unwoken \in BOOLEAN
  /\ value \in Readings \cup {0, Error} /\ {previous, notified} \subseteq Readings \cup {0}
  /\ fan \subseteq Inputs \ {LightInput}
  /\ data \in [Inputs -> Readings \cup {0}]
  /\ window = <<>> \/ window \in [1..Window -> Readings]

(* A sequence of natural numbers adds up to c: its partial sums end in c.   *)
AddsUpTo(s, c) ==
  \E partial \in [0..Len(s) -> 0..c] :
    /\ partial[0] = 0 /\ partial[Len(s)] = c
    /\ \A i \in 1..Len(s) : partial[i] = partial[i - 1] + s[i]

(* The filter's sum, which every call changes by the oldest and the newest  *)
(* value only, is that of its window: the average never drifts.             *)
SumOfWindow == AddsUpTo(window, sum)

(* The dust sensor's LED is lit for the conversion of its own input only,   *)
(* and the chip is selected whenever an input is converted.                 *)
LitForOwnInput == worker = "convert" => selected /\ fan = {Input} \ {LightInput}

(* An event is about a change from the value told before, unless that was   *)
(* 0, which counts as no value: what lies between two events is no drift    *)
(* nobody heard of.                                                         *)
EventsChain == notified' # notified => notified \in {0, previous}
=============================================================================

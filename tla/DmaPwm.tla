-------------------------------- MODULE DmaPwm --------------------------------
(***************************************************************************)
(* PwmCore: bytes sent to the PWM of the Raspberry Pi by a DMA channel. A  *)
(* DmaControlBlock in physical memory tells the channel what to move, the  *)
(* PwmClock paces it. The registers outlive the objects, and the channel   *)
(* works by itself while write_data looks at it once a second.             *)
(***************************************************************************)
EXTENDS Integers

CONSTANTS
  Lens,         (* lengths of the data, in bytes                           *)
  Pages,        (* pages of physical memory                                *)
  MaxCores,     (* bound: PwmCore objects, one after the other             *)
  MaxWrites,    (* bound: writes of all objects                            *)
  MaxFaults     (* bound: pages that are not given                         *)

VARIABLES
  chip,         (* the channel: enabled, active, its END flag and the      *)
                (* block it works on; the pages that are mapped; the PWM    *)
                (* and its clock, and the bytes that were moved            *)
  driver,       (* the object: "none", "alive" or "crashed", whether it    *)
                (* has a DMA channel, and _started                         *)
  task,         (* write_data: its step, control block and checks so far   *)
  report        (* history: what the last write was asked and returned,    *)
                (* whether one of this object timed out, whether Initialize *)
                (* was the last to change the clock, and the bounds' counts *)

dmaVars == <<chip, driver, task, report>>

Idle == [step |-> "idle", block |-> 0, checks |-> 0]
NoAnswer == [len |-> 0, result |-> "none", moved |-> 0]

(* A program before this one may have left its PWM and its clock running.   *)
DmaInit ==
  /\ \E on, enabled, end \in BOOLEAN :
       chip = [enabled |-> enabled, active |-> FALSE, end |-> end, block |-> 0, mapped |-> {}, pwm |-> on, dreq |-> on,
               clock |-> [source |-> "osc", running |-> on], moved |-> 0]
  /\ driver = [state |-> "none", dma |-> FALSE, started |-> FALSE]
  /\ task = Idle
  /\ report = [answer |-> NoAnswer, timedOut |-> FALSE, ready |-> FALSE, cores |-> 0, writes |-> 0, faults |-> 0]

Free == driver.state = "alive" /\ task = Idle
-----------------------------------------------------------------------------
(* the hardware                                                             *)

(* What a uint16_t keeps of a length                                        *)
Kept(len) == len % 65536

(* An enabled channel moves the bytes of its block, whose length the driver *)
(* passed as a uint16_t, and sets END. How long it takes is not known: the  *)
(* PWM asks for data at the pace of its clock.                              *)
Transfer ==
  /\ chip.active /\ chip.enabled
  /\ chip' = [chip EXCEPT !.active = FALSE, !.end = TRUE, !.moved = Kept(report.answer.len)]
  /\ UNCHANGED <<driver, task, report>>

(* BUSY once a clock with a source is enabled; without one it may be either. *)
Enabled(source) == [source : {source}, running : IF source = "gnd" THEN BOOLEAN ELSE {TRUE}]
-----------------------------------------------------------------------------
(* registers of the channel, the clock and the PWM                          *)

ResetLite(c) == [c EXCEPT !.active = FALSE, !.end = FALSE]
Reset(c) == [ResetLite(c) EXCEPT !.block = 0]

StopClock(c) == [c EXCEPT !.clock.source = "gnd", !.clock.running = FALSE]

(* The second write to the control register, which enables the clock, has   *)
(* no source in it: the oscillator of the first one is lost.                *)
Source == "gnd"

Clear(c) == [c EXCEPT !.dreq = FALSE, !.pwm = FALSE]
Configure(c) == [c EXCEPT !.dreq = TRUE, !.pwm = TRUE]

Finished(c) == driver.started => c.end
-----------------------------------------------------------------------------
(* PwmCore: one object, used by one thread                                  *)

Create ==
  /\ driver.state = "none" /\ report.cores < MaxCores
  /\ \E dma \in BOOLEAN : driver' = [state |-> "alive", dma |-> dma, started |-> FALSE]
  /\ report' = [report EXCEPT !.cores = @ + 1, !.timedOut = FALSE, !.answer = NoAnswer]
  /\ UNCHANGED <<chip, task>>

(* The clock is ready when it is no longer busy, which here says that it    *)
(* does not run; else the channel and the PWM stay as they were stopped.    *)
Initialize ==
  /\ Free
  /\ \E clock \in Enabled(Source) :
       LET stopped == [StopClock(Clear(chip)) EXCEPT !.clock = clock] IN
       /\ chip' = IF clock.running THEN stopped
                  ELSE Configure(IF driver.dma THEN Reset(stopped) ELSE stopped)
       /\ report' = [report EXCEPT !.ready = ~clock.running]
  /\ UNCHANGED <<driver, task>>

Answer(c, result) ==
  /\ chip' = c
  /\ report' = [report EXCEPT !.answer.result = result, !.answer.moved = c.moved,
                              !.timedOut = @ \/ result = "timeout"]

Asked(len) ==
  /\ Free /\ report.writes < MaxWrites
  /\ report' = [report EXCEPT !.writes = @ + 1, !.answer = [NoAnswer EXCEPT !.len = len]]

(* Without a channel nothing is sent.                                       *)
WriteNothing(len) ==
  /\ Asked(len) /\ ~driver.dma
  /\ UNCHANGED <<chip, driver, task>>

(* get_memory gives no MemInfo: it is looked into before it is tested.      *)
WriteCrashes(len) ==
  /\ Free /\ driver.dma /\ report.writes < MaxWrites /\ report.faults < MaxFaults
  /\ driver' = [driver EXCEPT !.state = "crashed"]
  /\ report' = [report EXCEPT !.faults = @ + 1]
  /\ UNCHANGED <<chip, task>>

Write(len) ==
  /\ Asked(len) /\ driver.dma
  /\ \E page \in Pages \ chip.mapped :
       /\ chip' = [chip EXCEPT !.mapped = @ \cup {page}, !.moved = 0]
       /\ task' = [step |-> "process", block |-> page, checks |-> 0]
  /\ UNCHANGED driver

FreeBlock(c) == [c EXCEPT !.mapped = @ \ {task.block}]

(* process_control_block: a channel that did not say END is busy.           *)
Process ==
  /\ task.step = "process"
  /\ IF Finished(chip)
     THEN /\ chip' = [ResetLite(chip) EXCEPT !.block = task.block, !.active = TRUE]
          /\ driver' = [driver EXCEPT !.started = TRUE]
          /\ task' = [task EXCEPT !.step = "check"]
          /\ UNCHANGED report
     ELSE Answer(FreeBlock(chip), "busy") /\ task' = Idle /\ UNCHANGED driver

(* is_finished, up to ten times. The channel is reset before the block is   *)
(* freed, whatever the result; _started only by an END that was seen.       *)
CheckLimit == 10

Check ==
  /\ task.step = "check"
  /\ \/ /\ chip.end
        /\ driver' = [driver EXCEPT !.started = FALSE]
        /\ Answer(FreeBlock(Reset(chip)), "sent") /\ task' = Idle
     \/ /\ ~chip.end /\ task.checks + 1 < CheckLimit
        /\ task' = [task EXCEPT !.checks = @ + 1]
        /\ UNCHANGED <<chip, driver, report>>
     \/ /\ ~chip.end /\ task.checks + 1 = CheckLimit
        /\ task' = [task EXCEPT !.step = "give up"]
        /\ UNCHANGED <<chip, driver, report>>

GiveUp ==
  /\ task.step = "give up"
  /\ Answer(FreeBlock(Reset(chip)), "timeout") /\ task' = Idle
  /\ UNCHANGED driver

(* The clock, then the channel, which is aborted when it stays busy, then   *)
(* the PWM.                                                                 *)
Destroy ==
  /\ Free
  /\ chip' = Clear(IF driver.dma /\ ~Finished(chip) THEN [StopClock(chip) EXCEPT !.active = FALSE] ELSE StopClock(chip))
  /\ driver' = [driver EXCEPT !.state = "none", !.dma = FALSE, !.started = FALSE]
  /\ report' = [report EXCEPT !.ready = FALSE]
  /\ UNCHANGED task

(* DmaInfo::dma_channel_enable, which no driver calls                       *)
EnableChannel ==
  /\ ~chip.enabled /\ chip' = [chip EXCEPT !.enabled = TRUE]
  /\ UNCHANGED <<driver, task, report>>

DmaNext ==
  \/ Transfer \/ Create \/ Initialize \/ Process \/ Check \/ GiveUp \/ Destroy \/ EnableChannel
  \/ \E len \in Lens : WriteNothing(len) \/ WriteCrashes(len) \/ Write(len)
-----------------------------------------------------------------------------
DmaTypeOK ==
  /\ chip.enabled \in BOOLEAN /\ chip.active \in BOOLEAN /\ chip.end \in BOOLEAN /\ chip.mapped \subseteq Pages
  /\ driver.state \in {"none", "alive", "crashed"} /\ driver.started \in BOOLEAN
  /\ task.step \in {"idle", "process", "check", "give up"} /\ task.checks \in 0..CheckLimit

(* The channel works on a block that is mapped, only during a write, and no *)
(* page stays mapped after one.                                             *)
DmaAgrees ==
  /\ chip.active => chip.block \in chip.mapped /\ task.step \in {"check", "give up"}
  /\ chip.mapped = IF task.step = "idle" THEN {} ELSE {task.block}

(* A write that is reported as sent moved its data, of which a uint16_t     *)
(* holds the length; one is refused as busy only by an object of which one  *)
(* timed out before, and then each is. An Initialize that succeeds leaves   *)
(* the PWM on, without a clock that runs.                                   *)
DmaReports ==
  LET answer == report.answer IN
  /\ answer.result = "sent" => answer.moved = Kept(answer.len)
  /\ answer.result = "busy" => report.timedOut
  /\ answer.result = "sent" => ~report.timedOut
  /\ report.ready => chip.pwm /\ chip.dreq /\ ~chip.clock.running

(* Once the object is gone, its channel, its PWM and its clock are off.     *)
DmaOff ==
  driver.state = "none" /\ report.cores > 0 => ~chip.active /\ ~chip.pwm /\ ~chip.dreq /\ ~chip.clock.running
===============================================================================

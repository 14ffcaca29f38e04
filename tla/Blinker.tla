------------------------------- MODULE Blinker -------------------------------
(***************************************************************************)
(* Blinking<Led>: callers switch a blinker on and off, its worker switches *)
(* the LED a number of times, then switches the blinker off itself and     *)
(* tells the state machine.                                                *)
(***************************************************************************)
EXTENDS Integers, Threaded

CONSTANTS
  Ten,          (* the blinks of a round without an end (10 in the code)   *)
  Settings,     (* what set and the constructor take: records of on, off   *)
                (* (ms, scaled) and blinks                                 *)
  LoopDelay,    (* get_loop_delay()                                        *)
  Long,         (* 2000 ms: a shorter interval is slept at once            *)
  Wide,         (* values of an unsigned int                               *)
  LedStart,     (* m_init_state of the LED: TRUE is ON                     *)
  MaxShown      (* bound: blinks of a round that are counted               *)

VARIABLES
  setting,      (* m_tm_on, m_tm_off and m_blinks                          *)
  on,           (* m_on                                                    *)
  lit,          (* the level of the LED's GPIO                             *)
  blinks,       (* the worker's count of the round                         *)
  rest,         (* _tm of wait_loop                                        *)
  shown,        (* history: blinks of the round                            *)
  ended,        (* history: the round of the last GN_DONE: its blinks, the *)
                (* number that is set, and whether set was called          *)
  reset         (* history: set was called during the round                *)

blinkVars == <<setting, on, lit, blinks, rest, shown, ended, reset>>

BlinkInit ==
  /\ setting \in Settings /\ on = FALSE /\ lit = LedStart /\ blinks = 0 /\ rest = 0
  /\ shown = 0 /\ ended = <<>> /\ reset = FALSE

Round(s) == IF s.blinks > 0 THEN s.blinks ELSE Ten
-----------------------------------------------------------------------------
(* callers *)

(* initialize and stop of the LED, an item of its own.                      *)
RestoreLed ==
  /\ caller = "free" /\ lit # LedStart
  /\ lit' = LedStart
  /\ UNCHANGED <<setting, on, blinks, rest, shown, ended, reset, threadVars>>

Initialize == Start /\ UNCHANGED blinkVars

Set(s) ==
  /\ caller = "free" /\ s # setting
  /\ setting' = s /\ reset' = TRUE
  /\ UNCHANGED <<on, lit, blinks, rest, shown, ended, threadVars>>

On ==
  /\ caller = "free"
  /\ on' = TRUE
  /\ Notify
  /\ UNCHANGED <<setting, lit, blinks, rest, shown, ended, reset, told, caller>>

Off ==
  /\ caller = "free" /\ on
  /\ on' = FALSE
  /\ UNCHANGED <<setting, lit, blinks, rest, shown, ended, reset, threadVars>>

(* stop switches the blinker off before it tells and joins the thread.      *)
StopCall == Tell /\ on' = FALSE /\ UNCHANGED <<setting, lit, blinks, rest, shown, ended, reset>>
StopJoin == Join /\ UNCHANGED blinkVars
-----------------------------------------------------------------------------
(* worker *)

Step(from, to) ==
  /\ worker = from /\ worker' = to
  /\ UNCHANGED <<told, missed, caller, setting>>

WaitForOn == Wait(on) /\ UNCHANGED blinkVars
Wakeup == SpuriousWakeup /\ UNCHANGED blinkVars

StartRound ==
  /\ Step("work", "round")
  /\ blinks' = Round(setting) /\ shown' = 0 /\ reset' = FALSE
  /\ UNCHANGED <<on, lit, rest, ended>>

(* wait_loop: a short interval is slept at once, a long one in a loop ...   *)
Slept(interval) == IF interval < Long THEN 0 ELSE interval

(* Faulty variant: the state of the blinker is not asked in the round.      *)
BlinkToTheEnd ==
  /\ Step("round", IF ~told /\ blinks > 0 THEN "lit" ELSE "over")
  /\ lit' = IF worker' = "lit" THEN TRUE ELSE lit
  /\ rest' = Slept(setting.on)
  /\ UNCHANGED <<on, blinks, shown, ended, reset>>

(* The LED is switched on, for the interval that is set now.                *)
Blink ==
  /\ Step("round", IF ~told /\ on /\ blinks > 0 THEN "lit" ELSE "over")
  /\ lit' = IF worker' = "lit" THEN TRUE ELSE lit
  /\ rest' = Slept(setting.on)
  /\ UNCHANGED <<on, blinks, shown, ended, reset>>

(* ... of which, in pieces while the blinker is on, the larger of the loop  *)
(* delay and the rest: the whole of it, or more than it, whereupon the      *)
(* unsigned rest wraps around.                                              *)
Pause ==
  /\ worker \in {"lit", "dark"} /\ on /\ rest > 0
  /\ rest' = (rest - (IF LoopDelay > rest THEN LoopDelay ELSE rest)) % Wide
  /\ UNCHANGED <<setting, on, lit, blinks, shown, ended, reset, threadVars>>

PauseOver == ~on \/ rest = 0

SwitchOff ==
  /\ PauseOver
  /\ Step("lit", "dark")
  /\ lit' = FALSE /\ rest' = Slept(setting.off)
  /\ UNCHANGED <<on, blinks, shown, ended, reset>>

(* Faulty variant: the count of an infinite blinker is not renewed.         *)
CountOnce ==
  /\ PauseOver
  /\ Step("dark", "round")
  /\ blinks' = blinks - 1
  /\ shown' = IF shown < MaxShown THEN shown + 1 ELSE shown
  /\ UNCHANGED <<on, lit, rest, ended, reset>>

Count ==
  /\ PauseOver
  /\ Step("dark", "round")
  /\ blinks' = IF blinks = 1 /\ setting.blinks = 0 THEN Ten ELSE blinks - 1
  /\ shown' = IF shown < MaxShown THEN shown + 1 ELSE shown
  /\ UNCHANGED <<on, lit, rest, ended, reset>>

(* At the end of a round the blinker is switched off, with what On asked    *)
(* for since the last count ...                                             *)
EndRound ==
  /\ Step("over", IF on /\ blinks = 0 THEN "off" ELSE "top")
  /\ UNCHANGED <<on, lit, blinks, rest, shown, ended, reset>>

OwnOff ==
  /\ Step("off", "done")
  /\ on' = FALSE
  /\ UNCHANGED <<lit, blinks, rest, shown, ended, reset>>

(* ... and the state machine is told.                                       *)
Done ==
  /\ Step("done", "top")
  /\ ended' = <<shown, setting.blinks, reset>>
  /\ UNCHANGED <<on, lit, blinks, rest, shown, reset>>

WorkerNext ==
  \/ WaitForOn \/ StartRound \/ Blink \/ Pause
  \/ SwitchOff \/ Count \/ EndRound \/ OwnOff \/ Done

BlinkNext ==
  \/ \E s \in Settings : Set(s)
  \/ RestoreLed \/ Wakeup \/ Initialize \/ On \/ Off \/ StopCall \/ StopJoin \/ WorkerNext
-----------------------------------------------------------------------------
BlinkTypeOK ==
  /\ setting \in Settings /\ on \in BOOLEAN /\ lit \in BOOLEAN /\ reset \in BOOLEAN
  /\ blinks \in Nat /\ rest \in 0..(Wide - 1) /\ shown \in 0..MaxShown
  /\ ended = <<>> \/ ended \in Nat \X Nat \X BOOLEAN

(* The machine hears GN_DONE only of a round with as many blinks as were    *)
(* set, so never of a blinker without an end; a call of set during the      *)
(* round excepted.                                                          *)
RoundComplete == ended # <<>> /\ ~ended[3] => ended[1] = ended[2]
=============================================================================

------------------------------- MODULE Weather -------------------------------
(***************************************************************************)
(* The weather application on the state machine: the states StateInit,     *)
(* StInitialization, StInitializeLcd, StInitializeSensors, StMeasurement,  *)
(* their timers, the events they send themselves, and the items they       *)
(* drive. One action is one event handled by the worker (see StateMachine) *)
(* or one step of what surrounds it: a timer expires (see Timers), a       *)
(* button is pressed or released, the process is told to finish.           *)
(*                                                                         *)
(* A gas is high at level 4 of context.h. The items and files the states   *)
(* use are configured, so that no handler throws.                          *)
(***************************************************************************)
EXTENDS Naturals, Sequences, FiniteSets

CONSTANTS
  MqttEnabled,  (* "enable" of the mqtt configuration                      *)
  Buttons,      (* those that are wired                                    *)
  Lengths,      (* seconds a button is held                                *)
  Epoch,        (* seconds from 1970 to now: a release without its press   *)
  MaxPresses,   (* bound: presses in a behaviour                           *)
  MaxQueue      (* bound: events queued when the environment adds one      *)

ASSUME WeatherAssumption ==
  /\ MqttEnabled \in BOOLEAN
  /\ Buttons \subseteq {"btn_1", "btn_2"}
  /\ Lengths \subseteq Nat /\ Epoch \in Nat /\ Epoch > 5
  /\ MaxPresses \in Nat /\ MaxQueue \in Nat \ {0}

Gases == {"co2", "tvoc"}
White == {"led_white_r", "led_white_l"}
Timers == {"FINISH_ROBOT", "WARM", "UPDATE", "LCD", "IP_CHECK", "SHOW_DATA",
           "MEASURE_LIGHT", "WRITE_DATA"}
UserEvents == {"SHOW_IP", "LCD_ON", "LCD_OFF", "HIGH_ON", "HIGH_OFF"}
States == {"StateInit", "StInitialization", "StInitializeLcd", "StInitializeSensors",
           "StMeasurement"}

Change(state) == [type |-> "CHANGE", name |-> state]
Pop == [type |-> "POP", name |-> "PopState"]
Tick(id) == [type |-> "TIMER", name |-> id]
User(name) == [type |-> "USER", name |-> name]
Finish == [type |-> "FINISH", name |-> "Finish"]
Down(b) == [type |-> "BTN_DOWN", name |-> b]
Up(b, n) == [type |-> "BTN_UP", name |-> b, held |-> n]

Events ==
  {Change(s) : s \in States} \cup {Pop, Finish} \cup {Tick(id) : id \in Timers}
    \cup {User(n) : n \in UserEvents} \cup {Down(b) : b \in Buttons}
    \cup {Up(b, n) : b \in Buttons, n \in Lengths}

VARIABLES
  queue,     (* events of the state machine                                *)
  stack,     (* its states, the active one first                           *)
  ended,     (* "no", "finished" or "crashed"                              *)
  created,   (* timers in the map                                          *)
  armed,     (* timers that run                                            *)
  lights,    (* white LEDs that are on                                     *)
  lcd,       (* the LCD and its backlight are on                           *)
  screen,    (* what the LCD shows                                         *)
  high,      (* gases at the high level                                    *)
  blinker,   (* the red blinker is on                                      *)
  storage,   (* "off", "failed" or "running"                               *)
  client,    (* the MQTT storage has its client                            *)
  held,      (* button to the seconds it will have been held, 0 when up    *)
  seen,      (* buttons whose press StInitialization has seen              *)
  presses,   (* history: presses so far                                    *)
  tested,    (* history: a test press asked for HIGH_ON                    *)
  alarmLit   (* history: HIGH_ON lit the LCD, not refreshed since          *)

loopVars == <<queue, stack, ended>>
timerVars == <<created, armed>>
lcdVars == <<lcd, screen, alarmLit>>
alarmVars == <<high, blinker>>
storeVars == <<storage, client>>
buttonVars == <<held, seen, presses, tested>>
vars == <<loopVars, timerVars, lights, lcdVars, alarmVars, storeVars, buttonVars>>

OnStack(s) == \E i \in DOMAIN stack : stack[i] = s
Active(s) == stack # <<>> /\ Head(stack) = s
Robot == OnStack("StateInit")

Init ==
  /\ queue = <<Change("StateInit")>> /\ stack = <<>> /\ ended = "no"
  /\ created = {} /\ armed = {} /\ lights = {}
  /\ lcd = TRUE /\ screen = "blank" /\ alarmLit = FALSE
  /\ high = {} /\ blinker = FALSE
  /\ storage = "off" /\ client = FALSE
  /\ held \in [Buttons -> Lengths \cup {0}] /\ seen = {} /\ presses = 0
  /\ tested = FALSE
-----------------------------------------------------------------------------
(* The environment *)

HasRoom == ended = "no" /\ Len(queue) < MaxQueue
Queued(id) == \E i \in DOMAIN queue : queue[i] = Tick(id)

Interval(id) == id = "IP_CHECK"

Expire(id) ==
  /\ HasRoom /\ id \in armed /\ ~Queued(id)
  /\ queue' = Append(queue, Tick(id))
  /\ armed' = IF Interval(id) THEN armed ELSE armed \ {id}
  /\ UNCHANGED <<stack, ended, created, lights, lcdVars, alarmVars, storeVars, buttonVars>>

Press(b) ==
  /\ HasRoom /\ Robot
  /\ held[b] = 0 /\ presses < MaxPresses
  /\ \E n \in Lengths : held' = [held EXCEPT ![b] = n]
  /\ presses' = presses + 1
  /\ queue' = Append(queue, Down(b))
  /\ UNCHANGED <<stack, ended, timerVars, lights, lcdVars, alarmVars, storeVars, seen, tested>>

(* A button that was held while the robot started is released as well.      *)
Release(b) ==
  /\ HasRoom /\ Robot
  /\ held[b] # 0
  /\ queue' = Append(queue, Up(b, held[b]))
  /\ held' = [held EXCEPT ![b] = 0]
  /\ UNCHANGED <<stack, ended, timerVars, lights, lcdVars, alarmVars, storeVars, seen, presses, tested>>

(* A signal to the process.                                                 *)
FinishRequest ==
  /\ HasRoom
  /\ queue' = Append(queue, Finish)
  /\ UNCHANGED <<stack, ended, timerVars, lights, lcdVars, alarmVars, storeVars, buttonVars>>
-----------------------------------------------------------------------------
(* The worker takes an event; its handler adds others behind the queue.     *)
Takes(e) == ended = "no" /\ queue # <<>> /\ Head(queue) = e
Adds(events) == queue' = Tail(queue) \o events

Entering(s) ==
  /\ Takes(Change(s)) /\ ~OnStack(s)
  /\ stack' = <<s>> \o stack

(* init_timer and reset_timer: a reset needs a timer in the map.            *)
InitTimers(ids) == created' = created \cup ids /\ armed' = armed \cup ids
Restart(id) == armed' = armed \cup ({id} \cap created) /\ UNCHANGED created

(* StateInit::OnEntry: configuring or starting the robot may fail.          *)
EnterStateInit ==
  /\ Entering("StateInit")
  /\ \E failed \in 0..2 :
       Adds([i \in 1..failed |-> Finish] \o <<Change("StInitialization")>>)
  /\ UNCHANGED <<ended, timerVars, lights, lcdVars, alarmVars, storeVars, buttonVars>>

EnterInitialization ==
  /\ Entering("StInitialization")
  /\ Adds(<<Change("StInitializeLcd")>>)
  /\ UNCHANGED <<ended, timerVars, lights, lcdVars, alarmVars, storeVars, buttonVars>>

EnterLcd ==
  /\ Entering("StInitializeLcd")
  /\ Adds(<<>>)
  /\ lcd' = TRUE /\ screen' = "status"
  /\ lights' = lights \cup {"led_white_r"}
  /\ InitTimers({"LCD"})
  /\ UNCHANGED <<ended, alarmLit, alarmVars, storeVars, buttonVars>>

(* Faulty variant: the state changes to its successor and is not popped.    *)
LcdReadyChanges ==
  /\ Takes(Tick("LCD")) /\ Active("StInitializeLcd")
  /\ lights' = lights \ {"led_white_r"}
  /\ Adds(<<Change("StInitializeSensors")>>)
  /\ UNCHANGED <<stack, ended, timerVars, lcdVars, alarmVars, storeVars, buttonVars>>

LcdReady ==
  /\ Takes(Tick("LCD")) /\ Active("StInitializeLcd")
  /\ lights' = lights \ {"led_white_r"}
  /\ Adds(<<Pop>>)
  /\ UNCHANGED <<stack, ended, timerVars, lcdVars, alarmVars, storeVars, buttonVars>>

(* detect_ip_address: a new address is shown.                               *)
DetectIp(others) == \E news \in {<<>>, <<User("SHOW_IP")>>} : Adds(news \o others)

(* OnSubstateExit of StInitialization, for either substate.                 *)
LeaveLcd ==
  /\ Takes(Pop) /\ Active("StInitializeLcd")
  /\ stack' = Tail(stack)
  /\ DetectIp(<<Change("StInitializeSensors")>>)
  /\ InitTimers({"IP_CHECK"})
  /\ UNCHANGED <<ended, lights, lcdVars, alarmVars, storeVars, buttonVars>>

(* Faulty variant: StInitialization does not react to the end of a substate. *)
LeaveSensorsOnly ==
  /\ Takes(Pop) /\ Active("StInitializeSensors")
  /\ stack' = Tail(stack)
  /\ Adds(<<>>)
  /\ UNCHANGED <<ended, timerVars, lights, lcdVars, alarmVars, storeVars, buttonVars>>

LeaveSensors ==
  /\ Takes(Pop) /\ Active("StInitializeSensors")
  /\ stack' = Tail(stack)
  /\ Adds(<<Change("StMeasurement")>>)
  /\ UNCHANGED <<ended, timerVars, lights, lcdVars, alarmVars, storeVars, buttonVars>>

EnterSensors ==
  /\ Entering("StInitializeSensors")
  /\ Adds(<<>>)
  /\ lights' = White
  /\ screen' = IF lcd THEN "status" ELSE screen
  /\ InitTimers({"WARM"})
  /\ UNCHANGED <<ended, lcd, alarmLit, alarmVars, storeVars, buttonVars>>

SensorsWarm ==
  /\ Takes(Tick("WARM")) /\ Active("StInitializeSensors")
  /\ lights' = {}
  /\ Adds(<<Pop>>)
  /\ UNCHANGED <<stack, ended, timerVars, lcdVars, alarmVars, storeVars, buttonVars>>

CheckIp ==
  /\ Takes(Tick("IP_CHECK")) /\ OnStack("StInitialization")
  /\ DetectIp(<<>>)
  /\ InitTimers({"IP_CHECK"})
  /\ UNCHANGED <<stack, ended, lights, lcdVars, alarmVars, storeVars, buttonVars>>

ShowIp ==
  /\ Takes(User("SHOW_IP")) /\ OnStack("StInitialization")
  /\ Adds(<<>>)
  /\ screen' = IF lcd THEN "ip" ELSE screen
  /\ UNCHANGED <<stack, ended, timerVars, lights, lcd, alarmLit, alarmVars, storeVars, buttonVars>>
-----------------------------------------------------------------------------
(* Buttons, handled by StInitialization under every other state *)

ButtonDown(b) ==
  /\ Takes(Down(b))
  /\ Adds(<<>>)
  /\ seen' = IF OnStack("StInitialization") THEN seen \cup {b} ELSE seen
  /\ UNCHANGED <<stack, ended, timerVars, lights, lcdVars, alarmVars, storeVars, held, presses, tested>>

(* The duration is taken from the last press that was handled.              *)
Duration(b, n) == IF b \notin seen THEN Epoch ELSE IF n = 0 THEN 1 ELSE n

GeneratedBy(b, d) ==
  IF b = "btn_2" THEN (IF d >= 5 THEN {Finish} ELSE {})
  ELSE {User(IF d <= 1 THEN "LCD_ON" ELSE IF d <= 3 THEN "SHOW_IP" ELSE "HIGH_ON")}

ButtonUp(b, n) ==
  /\ Takes(Up(b, n)) /\ OnStack("StInitialization")
  /\ LET generated == GeneratedBy(b, Duration(b, n)) IN
       /\ Adds(IF generated = {} THEN <<>> ELSE <<CHOOSE e \in generated : TRUE>>)
       /\ tested' = (tested \/ User("HIGH_ON") \in generated)
  /\ UNCHANGED <<stack, ended, timerVars, lights, lcdVars, alarmVars, storeVars, held, seen, presses>>

(* No state on the stack processes the event.                               *)
Unprocessed ==
  /\ ended = "no" /\ queue # <<>>
  /\ \/ Head(queue).type = "BTN_UP" /\ ~OnStack("StInitialization")
     \/ Head(queue) \in {User(n) : n \in UserEvents \ {"SHOW_IP"}} /\ ~Active("StMeasurement")
  /\ Adds(<<>>)
  /\ UNCHANGED <<stack, ended, timerVars, lights, lcdVars, alarmVars, storeVars, buttonVars>>
-----------------------------------------------------------------------------
(* StMeasurement *)

(* The level of a gas stays as it is when its value is above the table.     *)
HighAfter(values) == {g \in Gases : values[g] = "high" \/ (values[g] = "above" /\ g \in high)}

LcdEvents(bright) ==
  IF bright = lcd THEN <<>> ELSE <<User(IF bright THEN "LCD_ON" ELSE "LCD_OFF")>>

(* Faulty variant: the alarm ends when one of the gases is back to normal.  *)
AlarmEventsEitherEnds(now) ==
  IF high = {} /\ now # {} THEN <<User("HIGH_ON")>>
  ELSE IF high \ now # {} THEN <<User("HIGH_OFF")>> ELSE <<>>

AlarmEvents(now) ==
  IF (high = {}) = (now = {}) THEN <<>>
  ELSE <<User(IF now # {} THEN "HIGH_ON" ELSE "HIGH_OFF")>>

(* Faulty variant: the timer of the headlights is not started.              *)
MeasureTimersNone == {}

(* measure: the headlights are on until their timer expires, the events     *)
(* follow the light and the levels that were measured.                      *)
MeasureTimers == {"MEASURE_LIGHT"}
Measure ==
  \E values \in [Gases -> {"normal", "high", "above"}], bright \in BOOLEAN :
    /\ high' = HighAfter(values)
    /\ Adds(LcdEvents(bright) \o AlarmEvents(HighAfter(values)))
    /\ lights' = White

(* OnEntry: the file storage is started, then the MQTT storage, which makes *)
(* its client; when either fails only the finish timer is started.          *)
EnterMeasurement ==
  /\ Entering("StMeasurement")
  /\ MqttEnabled
  /\ Measure
  /\ InitTimers(MeasureTimers \cup {"UPDATE", "SHOW_DATA", "WRITE_DATA"})
  /\ storage' = "running" /\ client' = TRUE
  /\ UNCHANGED <<ended, lcdVars, blinker, buttonVars>>

(* Faulty variant: the finish timer is not started.                         *)
StorageFailsQuietly ==
  /\ Entering("StMeasurement")
  /\ Adds(<<>>)
  /\ storage' = "failed"
  /\ client' \in {FALSE, MqttEnabled}
  /\ UNCHANGED <<ended, timerVars, lights, lcdVars, alarmVars, buttonVars>>

StorageFails ==
  /\ Entering("StMeasurement")
  /\ Adds(<<>>)
  /\ InitTimers({"FINISH_ROBOT"})
  /\ storage' = "failed"
  /\ client' \in {FALSE, MqttEnabled}
  /\ UNCHANGED <<ended, lights, lcdVars, alarmVars, buttonVars>>

InMeasurement(e) == Takes(e) /\ Active("StMeasurement") /\ UNCHANGED <<stack, buttonVars>>

(* Faulty variant: the measurement is not repeated.                         *)
UpdateOnce ==
  /\ InMeasurement(Tick("UPDATE"))
  /\ Measure
  /\ InitTimers(MeasureTimers)
  /\ UNCHANGED <<ended, lcdVars, blinker, storeVars>>

Update ==
  /\ InMeasurement(Tick("UPDATE"))
  /\ Measure
  /\ InitTimers(MeasureTimers \cup ({"UPDATE"} \cap created))
  /\ UNCHANGED <<ended, lcdVars, blinker, storeVars>>

(* Faulty variant: the result is written once.                              *)
WriteOnce ==
  /\ InMeasurement(Tick("WRITE_DATA"))
  /\ Adds(<<>>)
  /\ UNCHANGED <<ended, timerVars, lights, lcdVars, alarmVars, storeVars>>

Write ==
  /\ InMeasurement(Tick("WRITE_DATA"))
  /\ Adds(<<>>)
  /\ Restart("WRITE_DATA")
  /\ UNCHANGED <<ended, lights, lcdVars, alarmVars, storeVars>>

LightOff ==
  /\ InMeasurement(Tick("MEASURE_LIGHT"))
  /\ Adds(<<>>)
  /\ lights' = {}
  /\ UNCHANGED <<ended, timerVars, lcdVars, alarmVars, storeVars>>

(* Faulty variant: the timer is not restarted.                              *)
UpdateLcdOnce == screen' = "measure" /\ alarmLit' = FALSE /\ UNCHANGED timerVars

(* update_lcd with the LCD on: the screen is written, the timer restarted.  *)
UpdateLcd == screen' = "measure" /\ alarmLit' = FALSE /\ Restart("SHOW_DATA")

UpdateLcdIfOn == IF lcd THEN UpdateLcd ELSE UNCHANGED <<screen, alarmLit, timerVars>>

Show ==
  /\ InMeasurement(Tick("SHOW_DATA"))
  /\ Adds(<<>>)
  /\ UpdateLcdIfOn
  /\ UNCHANGED <<ended, lights, lcd, alarmVars, storeVars>>

(* The LCD is initialised again, which clears it, when it was off.          *)
HighOn ==
  /\ InMeasurement(User("HIGH_ON"))
  /\ Adds(<<>>)
  /\ lcd' = TRUE
  /\ screen' = IF lcd THEN screen ELSE "blank"
  /\ alarmLit' = (alarmLit \/ ~lcd)
  /\ blinker' = TRUE
  /\ UNCHANGED <<ended, timerVars, lights, high, storeVars>>

HighOff ==
  /\ InMeasurement(User("HIGH_OFF"))
  /\ Adds(<<>>)
  /\ blinker' = FALSE
  /\ UpdateLcdIfOn
  /\ UNCHANGED <<ended, lights, lcd, high, storeVars>>

LcdOff ==
  /\ InMeasurement(User("LCD_OFF"))
  /\ Adds(<<>>)
  /\ lcd' = FALSE /\ alarmLit' = FALSE
  /\ armed' = IF lcd THEN armed \ {"SHOW_DATA"} ELSE armed
  /\ UNCHANGED <<ended, created, lights, screen, alarmVars, storeVars>>

LcdOn ==
  /\ InMeasurement(User("LCD_ON"))
  /\ Adds(<<>>)
  /\ lcd' = TRUE
  /\ IF lcd THEN UNCHANGED <<screen, alarmLit, timerVars>> ELSE UpdateLcd
  /\ UNCHANGED <<ended, lights, alarmVars, storeVars>>

(* save_data_and_finish; storage_stop stops the MQTT storage that is        *)
(* configured, whose client is a null pointer when it was not started.      *)
SaveAndFinish ==
  /\ InMeasurement(Tick("FINISH_ROBOT"))
  /\ armed' = armed \ {"UPDATE", "IP_CHECK", "SHOW_DATA", "WRITE_DATA"}
  /\ lcd' = FALSE /\ screen' = "blank"
  /\ IF MqttEnabled /\ ~client
       THEN ended' = "crashed" /\ Adds(<<>>)
       ELSE Adds(<<Finish>>) /\ UNCHANGED ended
  /\ UNCHANGED <<created, alarmLit, lights, alarmVars, storeVars>>

(* process_finish_event stops the robot, and with it every item.            *)
End ==
  /\ Takes(Finish)
  /\ Adds(<<>>)
  /\ ended' = "finished"
  /\ lights' = {} /\ lcd' = FALSE /\ blinker' = FALSE
  /\ UNCHANGED <<stack, timerVars, screen, alarmLit, high, storeVars, buttonVars>>
-----------------------------------------------------------------------------
Handle ==
  \/ EnterStateInit \/ EnterInitialization \/ EnterLcd \/ LcdReady \/ LeaveLcd
  \/ EnterSensors \/ SensorsWarm \/ LeaveSensors \/ EnterMeasurement \/ StorageFails
  \/ CheckIp \/ ShowIp \/ Update \/ Write \/ LightOff \/ Show
  \/ HighOn \/ HighOff \/ LcdOff \/ LcdOn \/ SaveAndFinish \/ End
  \/ \E b \in Buttons : ButtonDown(b) \/ \E n \in Lengths : ButtonUp(b, n)
  \/ Unprocessed

Next ==
  \/ \E id \in Timers : Expire(id)
  \/ \E b \in Buttons : Press(b) \/ Release(b)
  \/ FinishRequest
  \/ Handle

Spec == Init /\ [][Next]_vars

(* The worker handles what is queued, and time passes for armed timers,     *)
(* which only the bound on the queue can disable for a while.               *)
FairSpec == Spec /\ WF_vars(Handle) /\ \A id \in Timers : SF_vars(Expire(id))
-----------------------------------------------------------------------------
TypeOK ==
  /\ queue \in Seq(Events) /\ stack \in Seq(States)
  /\ ended \in {"no", "finished", "crashed"}
  /\ created \subseteq Timers /\ armed \subseteq created
  /\ lights \subseteq White
  /\ lcd \in BOOLEAN /\ screen \in {"blank", "status", "measure", "ip"}
  /\ high \subseteq Gases /\ blinker \in BOOLEAN
  /\ storage \in {"off", "failed", "running"} /\ client \in BOOLEAN
  /\ held \in [Buttons -> Lengths \cup {0}] /\ seen \subseteq Buttons
  /\ presses \in 0..MaxPresses /\ tested \in BOOLEAN /\ alarmLit \in BOOLEAN

(* The event of the timer is on its way.                                    *)
Coming(id) == id \in armed \/ Queued(id)
Running == ended = "no"
Measuring == Running /\ storage = "running"

(* The start-up walks through its states one after the other, each popped   *)
(* once, and never changes to a state that is on the stack already          *)
(* (OnSubstateExit of StInitialization, process_pop_state).                 *)
StartupOrder ==
  /\ stack \in { <<>>, <<"StateInit">>, <<"StInitialization", "StateInit">> }
       \cup { <<s, "StInitialization", "StateInit">> :
                s \in {"StInitializeLcd", "StInitializeSensors", "StMeasurement"} }
  /\ \A i \in DOMAIN queue : queue[i].type = "CHANGE" => ~OnStack(queue[i].name)

(* While the station measures, the next measurement and the next write are  *)
(* always on their way: no order of timers, events and buttons loses the    *)
(* restart of a one-shot timer (StMeasurement::OnTimer).                    *)
MeasuringGoesOn == Measuring => Coming("UPDATE") /\ Coming("WRITE_DATA")

(* White LEDs that are on will be switched off: the timer that does it is   *)
(* on its way and the state that listens to it is active (headlights).      *)
LightsGoOff ==
  (Running /\ lights # {}) =>
    \/ Active("StInitializeLcd") /\ Coming("LCD")
    \/ Active("StInitializeSensors") /\ Coming("WARM")
    \/ Active("StMeasurement") /\ Coming("MEASURE_LIGHT")

Alarms == {User("HIGH_ON"), User("HIGH_OFF")}
Quiet(q) == \A i \in DOMAIN q : q[i] \notin Alarms
LastAlarm(q, i) == q[i] \in Alarms /\ \A j \in DOMAIN q : j > i => q[j] \notin Alarms

(* The last alarm event of q, or else the blinker, says whether a gas is    *)
(* high.                                                                    *)
Follows(q, gasHigh, lit) ==
  /\ Quiet(q) => (gasHigh <=> lit)
  /\ \A i \in DOMAIN q : LastAlarm(q, i) => (gasHigh <=> q[i] = User("HIGH_ON"))

(* The red blinker, or the last alarm event that is still queued, agrees    *)
(* with the levels that were measured, unless a test press interfered       *)
(* (measure, OnEvent, update_CO2_TVOC_levels).                              *)
AlarmFollowsLevel == (Running /\ ~tested) => Follows(queue, high # {}, blinker)

(* While the station measures with the LCD on, the next refresh of the LCD  *)
(* is on its way, unless the LCD was lit by HIGH_ON (update_lcd).           *)
RefreshLostOnlyByAlarm == (Measuring /\ lcd) => (Coming("SHOW_DATA") \/ alarmLit)

(* The station gets to its measurements, or it ends.                        *)
StartupEnds == <>(OnStack("StMeasurement") \/ ~Running)

(* While the station measures, results are written again and again.         *)
WritesGoOn == []<>(Queued("WRITE_DATA") \/ storage # "running" \/ ~Running)

(* A station whose storage could not be started does not stay up.           *)
FailureEnds == (storage = "failed") ~> ~Running

(* timers_info.txt: TIMER_FINISH_ROBOT shuts the system down.               *)
FinishTimerShutsDown == ended # "crashed"
==============================================================================

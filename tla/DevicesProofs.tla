--------------------------- MODULE DevicesProofs ---------------------------
(***************************************************************************)
(* The items with threads of their own, for any strips, transformations,   *)
(* settings of a blinker, pins and inputs of the converter: when a thread  *)
(* sleeps over its work, what its figures are worth, and what it reports.  *)
(***************************************************************************)
EXTENDS Devices, SequenceTheorems, FiniteSetTheorems, TLAPS

(* The thread has found nothing to do and sleeps, or is about to.           *)
Dozing == worker \in {"prewait", "asleep"}
MeterDozing == meter \in {"prewait", "asleep"}

StripAwake == Dozing /\ L!Pending => missed \/ untold
BlinkerAwake == Dozing /\ on => missed
InputsAwake ==
  /\ open \in [Pins -> BOOLEAN]
  /\ request = <<>> \/ request[1] \in Pins
  /\ Dozing /\ I!FdCount > 0 => missed
ChainAwake == Dozing /\ A!ActiveAgents # {} => missed \/ unwoken

(* Values that lie in the buffer of a meter that is not active are those it *)
(* was not woken for.                                                       *)
MeterAwake ==
  /\ LightInput \notin active /\ ~A!Buf!IsEmpty(buffer) => dozed
  /\ MeterDozing /\ A!Present => mmissed \/ dozed

AwakeInv ==
  /\ kind \in Kinds
  /\ kind = "strip" => StripAwake
  /\ kind = "blinker" => BlinkerAwake
  /\ kind = "inputs" => InputsAwake
  /\ kind \in {"light", "dust"} => ChainAwake
  /\ kind = "light" => MeterAwake

(* The strip: a transformation that is added is untold until the restart,   *)
(* which notifies; clearing leaves none.                                    *)
LEMMA StripStaysAwake ==
  ASSUME StripAwake, L!LedNext
  PROVE  StripAwake'
<1> USE DEF Dozing, L!Pending, StripAwake
<1>1. CASE \E n \in Lengths : L!AddSled(n)
  BY <1>1 DEF L!AddSled, L!Disturb
<1>2. CASE \E t \in Offers : L!Add(t)
  BY <1>2 DEF L!Add, L!Disturb
<1>3. CASE L!Initialize
  BY <1>3 DEF L!Initialize, L!Start
<1>4. CASE L!Wakeup
  BY <1>4 DEF L!Wakeup, L!SpuriousWakeup, L!ledVars
<1>5. CASE L!Clear
  <2>1. list' = <<>> /\ next' = 0
    BY <1>5 DEF L!Clear
  <2>2. ~(next' < Len(list'))
    BY <2>1, EmptySeq
  <2>3. QED
    BY <2>2
<1>6. CASE L!Restart
  BY <1>6 DEF L!Restart, L!Notify
<1>7. CASE L!StopCall \/ L!StopJoin
  BY <1>7 DEF L!StopCall, L!Tell, L!StopJoin, L!Join, L!ledVars
<1>8. CASE L!WaitForWork
  BY <1>8 DEF L!WaitForWork, L!Wait, L!Loop, L!Check, L!Sleep, L!ledVars
<1>9. CASE \/ L!Fetch \/ L!TakeIndex \/ L!Copy \/ L!CopyFails \/ L!CopyNothing
           \/ L!ApplyLast \/ L!ApplyToStrip
  BY <1>9 DEF L!Fetch, L!TakeIndex, L!Copy, L!CopyFails, L!CopyNothing, L!ApplyLast,
              L!ApplyToStrip, L!WritesOutside, L!Step
<1>10. CASE L!StartRefresh \/ L!Refresh \/ L!EndRefresh \/ L!Applied
  BY <1>10 DEF L!StartRefresh, L!Refresh, L!EndRefresh, L!Applied, L!WritesOutside, L!Step
<1>11. QED
  BY <1>1, <1>2, <1>3, <1>4, <1>5, <1>6, <1>7, <1>8, <1>9, <1>10 DEF L!LedNext, L!WorkerNext

(* The blinker: On notifies, and its thread reads the switch before it      *)
(* dozes.                                                                   *)
LEMMA BlinkerStaysAwake ==
  ASSUME BlinkerAwake, B!BlinkNext
  PROVE  BlinkerAwake'
<1> USE DEF Dozing, BlinkerAwake
<1>1. CASE \E s \in Settings : B!Set(s)
  BY <1>1 DEF B!Set, B!threadVars
<1>2. CASE B!RestoreLed \/ B!Wakeup \/ B!Initialize
  BY <1>2 DEF B!RestoreLed, B!threadVars, B!Wakeup, B!SpuriousWakeup, B!blinkVars, B!Initialize, B!Start
<1>3. CASE B!On \/ B!Off
  BY <1>3 DEF B!On, B!Notify, B!Off, B!threadVars
<1>4. CASE B!StopCall \/ B!StopJoin
  BY <1>4 DEF B!StopCall, B!Tell, B!StopJoin, B!Join, B!blinkVars
<1>5. CASE B!WaitForOn
  BY <1>5 DEF B!WaitForOn, B!Wait, B!Loop, B!Check, B!Sleep, B!blinkVars
<1>6. CASE B!StartRound \/ B!Blink \/ B!Pause \/ B!SwitchOff
  BY <1>6 DEF B!StartRound, B!Blink, B!Pause, B!SwitchOff, B!Step, B!threadVars
<1>7. CASE B!Count \/ B!EndRound \/ B!OwnOff \/ B!Done
  BY <1>7 DEF B!Count, B!EndRound, B!OwnOff, B!Done, B!Step
<1>8. QED
  BY <1>1, <1>2, <1>3, <1>4, <1>5, <1>6, <1>7 DEF B!BlinkNext, B!WorkerNext

(* The provider of the GPIOs: a descriptor is opened and closed with a      *)
(* notification, so that their number changes under nobody's sleep.         *)
LEMMA SetEdgeAwake ==
  ASSUME InputsAwake, NEW p \in Pins, NEW e, I!SetEdge(p, e)
  PROVE  InputsAwake'
<1>1. /\ open' = [open EXCEPT ![p] = FALSE] /\ request' = <<p, e>>
      /\ IF open[p] THEN I!Notify ELSE UNCHANGED <<worker, missed>>
  BY DEF I!SetEdge
<1>2. open \in [Pins -> BOOLEAN] /\ (Dozing /\ I!FdCount > 0 => missed)
  BY DEF InputsAwake
<1>3. open' \in [Pins -> BOOLEAN] /\ request'[1] \in Pins
  BY <1>1, <1>2
<1>4. CASE open[p]
  BY <1>1, <1>3, <1>4 DEF I!Notify, InputsAwake, Dozing
<1>5. CASE ~open[p]
  <2>1. {q \in Pins : open'[q]} = {q \in Pins : open[q]}
    BY <1>1, <1>2, <1>5
  <2>2. I!FdCount' = I!FdCount
    BY <2>1 DEF I!FdCount
  <2>3. QED
    BY <1>1, <1>2, <1>3, <1>5, <2>2 DEF InputsAwake, Dozing
<1>6. QED
  BY <1>4, <1>5

LEMMA OpenFolderAwake ==
  ASSUME InputsAwake, I!OpenFolder
  PROVE  InputsAwake'
<1>1. request # <<>> /\ request' = <<>> /\ request[1] \in Pins /\ open \in [Pins -> BOOLEAN]
  BY DEF I!OpenFolder, InputsAwake
<1>2. CASE /\ open' = [open EXCEPT ![request[1]] = TRUE] /\ I!Notify
  BY <1>1, <1>2 DEF I!Notify, InputsAwake, Dozing
<1>3. CASE UNCHANGED <<open, worker, missed>>
  <2>1. I!FdCount' = I!FdCount
    BY <1>3 DEF I!FdCount
  <2>2. QED
    BY <1>1, <1>3, <2>1 DEF InputsAwake, Dozing
<1>4. QED
  BY <1>2, <1>3 DEF I!OpenFolder

LEMMA InputsStayAwake ==
  ASSUME InputsAwake, I!InputsNext
  PROVE  InputsAwake'
<1> USE DEF Dozing, InputsAwake
<1>1. ASSUME NEW p \in Pins, NEW e \in Edges, I!SetEdge(p, e) PROVE InputsAwake'
  BY <1>1, SetEdgeAwake
<1>2. CASE I!OpenFolder
  BY <1>2, OpenFolderAwake
<1>3. CASE UNCHANGED <<open, request>>
  <2>1. I!FdCount' = I!FdCount
    BY <1>3 DEF I!FdCount
  <2>2. CASE UNCHANGED <<worker, missed>>
    BY <1>3, <2>1, <2>2
  <2>3. CASE I!Wakeup \/ I!StartProvider \/ I!StopCall \/ I!StopJoin
    BY <1>3, <2>1, <2>3 DEF I!Wakeup, I!SpuriousWakeup, I!StartProvider, I!Start, I!StopCall,
       I!Tell, I!StopJoin, I!Join
  <2>4. CASE I!WaitForDescriptor
    BY <1>3, <2>1, <2>4 DEF I!WaitForDescriptor, I!Wait, I!Loop, I!Check, I!Sleep
  <2>5. CASE I!Awake \/ I!Arm \/ I!PollTimeout \/ I!PollEvents
    BY <1>3, <2>1, <2>5 DEF I!Awake, I!Arm, I!PollTimeout, I!PollEvents, I!Prov
  <2>6. CASE I!ReadValue \/ I!ProviderSets \/ I!ProviderTells \/ I!Scanned
    BY <1>3, <2>1, <2>6 DEF I!ReadValue, I!ProviderSets, I!ProviderTells, I!Scanned, I!Prov
  <2>7. ASSUME NEW p \in Pins,
               \/ I!Press(p) \/ I!Initialize(p) \/ I!PollerNext(p) \/ I!StopButton(p)
               \/ I!JoinButton(p)
        PROVE  UNCHANGED <<worker, missed>>
    BY <2>7 DEF I!Press, I!Initialize, I!PollerNext, I!PollerBegins, I!PollerReads,
       I!PollerSets, I!PollerTells, I!Poller, I!StopButton, I!JoinButton, I!threadVars
  <2>8. QED
    BY <1>1, <1>2, <2>2, <2>3, <2>4, <2>5, <2>6, <2>7 DEF I!InputsNext, I!ProviderNext
<1>4. CASE I!Wakeup \/ I!StartProvider \/ I!StopCall \/ I!StopJoin \/ I!WaitForDescriptor
  BY <1>3, <1>4 DEF I!Wakeup, I!StartProvider, I!StopCall, I!StopJoin, I!WaitForDescriptor, I!inputVars
<1>5. CASE I!Awake \/ I!Arm \/ I!PollTimeout \/ I!PollEvents \/ I!ReadValue
  BY <1>3, <1>5 DEF I!Awake, I!Arm, I!PollTimeout, I!PollEvents, I!ReadValue, I!Prov
<1>6. CASE I!ProviderSets \/ I!ProviderTells \/ I!Scanned
  BY <1>3, <1>6 DEF I!ProviderSets, I!ProviderTells, I!Scanned, I!Prov
<1>7. ASSUME NEW p \in Pins,
             \/ I!Press(p) \/ I!Initialize(p) \/ I!PollerNext(p) \/ I!StopButton(p)
             \/ I!JoinButton(p)
      PROVE  UNCHANGED <<open, request>>
  BY <1>7 DEF I!Press, I!Initialize, I!PollerNext, I!PollerBegins, I!PollerReads,
     I!PollerSets, I!PollerTells, I!Poller, I!StopButton, I!JoinButton, I!fdVars
<1>8. QED
  BY <1>1, <1>2, <1>3, <1>4, <1>5, <1>6, <1>7 DEF I!InputsNext, I!ProviderNext

(* The converter: a receiver that is registered is unwoken until the next   *)
(* notification, which comes with the activation of the light meter.        *)
LEMMA ChainStaysAwake ==
  ASSUME ChainAwake, A!AnalogNext
  PROVE  ChainAwake'
<1> USE DEF Dozing, ChainAwake, A!ActiveAgents
<1>1. CASE \E i \in Channels : A!AddReceiver(i) \/ A!GetData(i)
  BY <1>1 DEF A!AddReceiver, A!GetData, A!threadVars
<1>2. CASE A!Initialize \/ A!StopCall \/ A!StopJoin \/ A!Wakeup
  BY <1>2 DEF A!Initialize, A!Start, A!StopCall, A!Tell, A!StopJoin, A!Join, A!Wakeup,
     A!SpuriousWakeup, A!analogVars
<1>3. CASE A!InitializeMeter
  BY <1>3 DEF A!InitializeMeter, A!threadVars
<1>4. CASE A!Activate
  BY <1>4 DEF A!Activate, A!Notify
<1>5. CASE A!Deactivate
  BY <1>5 DEF A!Deactivate, A!threadVars
<1>6. CASE A!StopMeter \/ A!JoinMeter \/ A!MeterWakeup \/ A!WaitForData
  BY <1>6 DEF A!StopMeter, A!JoinMeter, A!MeterWakeup, A!WaitForData, A!MeterOnly, A!threadVars
<1>7. CASE A!Take
  BY <1>7 DEF A!Take, A!MeterStep, A!threadVars
<1>8. CASE A!WaitForAgents
  BY <1>8 DEF A!WaitForAgents, A!Wait, A!Loop, A!Check, A!Sleep, A!analogVars
<1>9. CASE A!SelectChannel \/ A!StartRound \/ A!SkipInput \/ A!Before
  BY <1>9 DEF A!SelectChannel, A!StartRound, A!SkipInput, A!Before, A!Chip
<1>10. CASE A!Convert \/ A!Deliver \/ A!EndRound
  BY <1>10 DEF A!Convert, A!Deliver, A!EndRound, A!Chip
<1>11. QED
  BY <1>1, <1>2, <1>3, <1>4, <1>5, <1>6, <1>7, <1>8, <1>9, <1>10
  DEF A!AnalogNext, A!ChipNext, A!MeterNext

(* The light meter: a value that comes while it is active notifies when the *)
(* buffer was empty; any other is one that dozed has.                       *)
LEMMA MeterStaysAwake ==
  ASSUME MeterAwake, A!AnalogNext, LightInput \in Channels
  PROVE  MeterAwake'
<1> USE DEF MeterDozing, MeterAwake, A!Present
<1>1. CASE \E i \in Channels : A!AddReceiver(i) \/ A!GetData(i)
  BY <1>1 DEF A!AddReceiver, A!GetData, A!lightVars, A!meterVars
<1>2. CASE A!Initialize \/ A!StopCall \/ A!StopJoin \/ A!Wakeup \/ A!WaitForAgents
  BY <1>2 DEF A!Initialize, A!StopCall, A!StopJoin, A!Wakeup, A!WaitForAgents, A!analogVars, A!meterVars
<1>3. CASE A!InitializeMeter
  BY <1>3 DEF A!InitializeMeter, A!Meter!Start
<1>4. CASE A!Activate \/ A!Deactivate
  BY <1>4 DEF A!Activate, A!Deactivate, A!lightVars, A!meterVars
<1>5. CASE A!StopMeter \/ A!JoinMeter \/ A!MeterWakeup
  BY <1>5 DEF A!StopMeter, A!Meter!Tell, A!JoinMeter, A!Meter!Join, A!MeterWakeup,
     A!Meter!SpuriousWakeup, A!MeterOnly
<1>6. CASE A!WaitForData
  BY <1>6 DEF A!WaitForData, A!Meter!Wait, A!Meter!Loop, A!Meter!Check, A!Meter!Sleep, A!MeterOnly
<1>7. CASE A!Take
  <2>1. meter' \in {"work", "top"} /\ active' = active /\ dozed' = dozed
    BY <1>7 DEF A!Take, A!MeterStep
  <2>2. buffer' = buffer \/ LightInput \in active
    BY <1>7 DEF A!Take
  <2>3. QED
    BY <2>1, <2>2
<1>8. CASE A!SelectChannel \/ A!StartRound \/ A!SkipInput \/ A!Before
  BY <1>8 DEF A!SelectChannel, A!StartRound, A!SkipInput, A!Before, A!Chip, A!lightVars, A!meterVars
<1>9. CASE A!Convert \/ A!EndRound
  BY <1>9 DEF A!Convert, A!EndRound, A!Chip, A!lightVars, A!meterVars
<1>10. CASE A!Deliver
  <2>1. CASE A!Input = LightInput
    <3>1. /\ dozed' = (dozed \/ LightInput \notin active) /\ active' = active
          /\ IF A!Buf!IsEmpty(buffer) THEN A!Meter!Notify ELSE UNCHANGED <<meter, mmissed>>
      BY <1>10, <2>1 DEF A!Deliver, A!Chip
    <3>2. QED
      BY <3>1 DEF A!Meter!Notify
  <2>2. CASE A!Input # LightInput
    BY <1>10, <2>2 DEF A!Deliver, A!Chip
  <2>3. QED
    BY <2>1, <2>2
<1>11. QED
  BY <1>1, <1>2, <1>3, <1>4, <1>5, <1>6, <1>7, <1>8, <1>9, <1>10
  DEF A!AnalogNext, A!ChipNext, A!MeterNext

LEMMA InitAwake == Init => AwakeInv
<1> SUFFICES ASSUME Init PROVE AwakeInv
  OBVIOUS
<1>1. worker = "none" /\ meter = "none"
  BY DEF Init, ThreadInit, A!AnalogInit, A!Meter!ThreadInit
<1>2. open \in [Pins -> BOOLEAN] /\ request = <<>>
  BY DEF Init, I!InputsInit
<1>3. A!Buf!IsEmpty(buffer)
  BY DEF Init, A!AnalogInit, A!Buf!NewBuffer, A!Buf!IsEmpty
<1>4. kind \in Kinds
  BY DEF Init
<1>5. QED
  BY <1>1, <1>2, <1>3, <1>4 DEF AwakeInv, StripAwake, BlinkerAwake, InputsAwake, ChainAwake, MeterAwake,
     Dozing, MeterDozing

LEMMA AwakeStep == AwakeInv /\ [Next]_vars => AwakeInv'
<1> SUFFICES ASSUME AwakeInv, [Next]_vars PROVE AwakeInv'
  OBVIOUS
<1>1. CASE StripOnly /\ L!LedNext
  BY <1>1, StripStaysAwake DEF AwakeInv, StripOnly
<1>2. CASE BlinkerOnly /\ B!BlinkNext
  BY <1>2, BlinkerStaysAwake DEF AwakeInv, BlinkerOnly
<1>3. CASE InputsOnly /\ I!InputsNext
  BY <1>3, InputsStayAwake DEF AwakeInv, InputsOnly
<1>4. CASE ChainOnly("light") /\ A!AnalogNext
  BY <1>4, ChainStaysAwake, MeterStaysAwake, ChainAssumption DEF AwakeInv, ChainOnly
<1>5. CASE ChainOnly("dust") /\ A!AnalogNext
  BY <1>5, ChainStaysAwake DEF AwakeInv, ChainOnly
<1>6. CASE UNCHANGED vars
  <2> USE <1>6 DEF vars, threadVars, stripVars, blinkerVars, inputsVars, chainVars
  <2>1. UNCHANGED <<kind, Dozing, MeterDozing, missed, untold, open, request, unwoken, active, dozed, mmissed, on>>
    BY DEF Dozing, MeterDozing
  <2>2. UNCHANGED <<L!Pending, I!FdCount, A!ActiveAgents, A!Present, A!Buf!IsEmpty(buffer)>>
    BY DEF L!Pending, I!FdCount, A!ActiveAgents, A!Present, A!Buf!IsEmpty
  <2>3. QED
    BY <2>1, <2>2 DEF AwakeInv, StripAwake, BlinkerAwake, InputsAwake, ChainAwake, MeterAwake
<1>7. QED
  BY <1>1, <1>2, <1>3, <1>4, <1>5, <1>6 DEF Next

(* A thread sleeps over work only when a notification fell between its      *)
(* check and its sleep, or when the code tells nobody of the work: the      *)
(* waits of SLedCtrl::worker, Blinking::worker, GpioProviderSimple::worker, *)
(* MCP320X::worker and AnalogLightMeter::worker.                            *)
THEOREM AwakeCorrect == Spec => []NoWorkLeftAsleep
<1>1. AwakeInv => NoWorkLeftAsleep
  BY KindsAssumption DEF NoWorkLeftAsleep, AwakeInv, StripAwake, BlinkerAwake, InputsAwake,
     ChainAwake, MeterAwake, Dozing, MeterDozing
<1>2. QED
  BY <1>1, InitAwake, AwakeStep, PTL DEF Spec
-----------------------------------------------------------------------------
(* The blinker's figures. In a round that set did not disturb the blinks    *)
(* that were shown and those to come are as many as were set; a blinker     *)
(* without an end always has some to come.                                  *)
InRound == worker \in {"round", "lit", "dark", "over", "off", "done"}

RoundInv ==
  /\ worker \in {"lit", "dark"} => blinks > 0
  /\ worker \in {"off", "done"} => blinks = 0
  /\ InRound /\ ~reset =>
       IF setting.blinks = 0 THEN blinks > 0 ELSE shown + blinks = setting.blinks
  /\ B!RoundComplete

BlinkInv == B!BlinkTypeOK /\ RoundInv

LEMMA InitBlink == Init => BlinkInv /\ ended = <<>>
<1> SUFFICES ASSUME Init PROVE BlinkInv /\ ended = <<>>
  OBVIOUS
<1>1. worker = "none" /\ setting \in Settings /\ ended = <<>>
      /\ on = FALSE /\ lit = LedStart /\ blinks = 0 /\ rest = 0 /\ shown = 0 /\ reset = FALSE
  BY DEF Init, ThreadInit, B!BlinkInit
<1>2. LedStart \in BOOLEAN /\ 0 \in 0..(Wide - 1) /\ 0 \in 0..MaxShown
  BY BlinkerAssumption
<1>3. B!BlinkTypeOK
  BY <1>1, <1>2 DEF B!BlinkTypeOK
<1>4. RoundInv
  BY <1>1 DEF RoundInv, InRound, B!RoundComplete
<1>5. QED
  BY <1>1, <1>3, <1>4 DEF BlinkInv

LEMMA BlinkType ==
  ASSUME BlinkInv, B!BlinkNext
  PROVE  B!BlinkTypeOK'
<1> USE DEF BlinkInv, B!BlinkTypeOK
<1>1. CASE \E s \in Settings : B!Set(s)
  BY <1>1 DEF B!Set
<1>2. CASE B!RestoreLed \/ B!Wakeup \/ B!Initialize \/ B!On \/ B!Off
  BY <1>2, BlinkerAssumption DEF B!RestoreLed, B!Wakeup, B!blinkVars, B!Initialize, B!On, B!Off
<1>3. CASE B!StopCall \/ B!StopJoin \/ B!WaitForOn
  BY <1>3 DEF B!StopCall, B!StopJoin, B!WaitForOn, B!blinkVars
<1>4. CASE B!StartRound
  <2>1. setting' = setting /\ blinks' = B!Round(setting) /\ shown' = 0 /\ reset' = FALSE
        /\ UNCHANGED <<on, lit, rest, ended>>
    BY <1>4 DEF B!StartRound, B!Step
  <2>2. setting.blinks \in Nat /\ Ten \in Nat /\ 0 \in 0..MaxShown
    BY BlinkerAssumption
  <2>3. blinks' \in Nat
    BY <2>1, <2>2 DEF B!Round
  <2>4. QED
    BY <2>1, <2>2, <2>3
<1>5. CASE B!Blink \/ B!SwitchOff
  <2>1. setting.on \in 0..(Wide - 1) /\ setting.off \in 0..(Wide - 1) /\ 0 \in 0..(Wide - 1)
    BY BlinkerAssumption
  <2>2. B!Slept(setting.on) \in 0..(Wide - 1) /\ B!Slept(setting.off) \in 0..(Wide - 1)
    BY <2>1 DEF B!Slept
  <2>3. setting' = setting /\ rest' \in 0..(Wide - 1) /\ lit' \in BOOLEAN
        /\ UNCHANGED <<on, blinks, shown, ended, reset>>
    BY <1>5, <2>2 DEF B!Blink, B!SwitchOff, B!Step
  <2>4. QED
    BY <2>3
<1>6. CASE B!Pause
  <2>1. rest' \in 0..(Wide - 1)
    BY <1>6, BlinkerAssumption DEF B!Pause
  <2>2. QED
    BY <1>6, <2>1 DEF B!Pause
<1>7. CASE B!Count
  <2>1. blinks' \in Nat /\ shown' \in 0..MaxShown
    BY <1>7, BlinkerAssumption DEF B!Count, B!Step, RoundInv
  <2>2. QED
    BY <1>7, <2>1 DEF B!Count, B!Step
<1>8. CASE B!EndRound \/ B!OwnOff
  BY <1>8 DEF B!EndRound, B!OwnOff, B!Step
<1>9. CASE B!Done
  <2>1. setting.blinks \in Nat /\ shown \in Nat /\ reset \in BOOLEAN
    BY BlinkerAssumption
  <2>2. ended' \in Nat \X Nat \X BOOLEAN
    BY <1>9, <2>1 DEF B!Done
  <2>3. QED
    BY <1>9, <2>2 DEF B!Done, B!Step
<1>10. QED
  BY <1>1, <1>2, <1>3, <1>4, <1>5, <1>6, <1>7, <1>8, <1>9 DEF B!BlinkNext, B!WorkerNext

LEMMA BlinkRound ==
  ASSUME BlinkInv, B!BlinkNext
  PROVE  RoundInv'
<1> USE DEF BlinkInv, RoundInv, InRound
<1>t. /\ setting \in Settings /\ setting.blinks \in Nat /\ setting.blinks < MaxShown
      /\ blinks \in Nat /\ shown \in Nat /\ Ten \in Nat \ {0} /\ MaxShown \in Nat
  BY BlinkerAssumption DEF B!BlinkTypeOK
<1>1. CASE \E s \in Settings : B!Set(s)
  BY <1>1 DEF B!Set, B!threadVars, B!RoundComplete
<1>2. CASE B!RestoreLed \/ B!Wakeup \/ B!Initialize
  BY <1>2 DEF B!RestoreLed, B!threadVars, B!Wakeup, B!SpuriousWakeup, B!blinkVars, B!Initialize,
     B!Start, B!RoundComplete
<1>3. CASE B!On \/ B!Off \/ B!StopCall \/ B!StopJoin
  BY <1>3 DEF B!On, B!Notify, B!Off, B!threadVars, B!StopCall, B!Tell, B!StopJoin, B!Join,
     B!blinkVars, B!RoundComplete
<1>4. CASE B!WaitForOn
  BY <1>4 DEF B!WaitForOn, B!Wait, B!Loop, B!Check, B!Sleep, B!blinkVars, B!RoundComplete
<1>5. CASE B!StartRound
  BY <1>5, <1>t DEF B!StartRound, B!Step, B!Round, B!RoundComplete
<1>6. CASE B!Blink \/ B!SwitchOff \/ B!EndRound \/ B!OwnOff
  BY <1>6, <1>t DEF B!Blink, B!SwitchOff, B!EndRound, B!OwnOff, B!Step, B!RoundComplete
<1>7. CASE B!Pause
  BY <1>7 DEF B!Pause, B!threadVars, B!RoundComplete
<1>8. CASE B!Count
  <2>1. /\ worker = "dark" /\ worker' = "round" /\ blinks > 0
        /\ UNCHANGED <<setting, reset, ended>>
    BY <1>8 DEF B!Count, B!Step
  <2>2. ASSUME ~reset
        PROVE  IF setting.blinks = 0 THEN blinks' > 0 ELSE shown' + blinks' = setting.blinks
    BY <1>8, <2>1, <2>2, <1>t DEF B!Count
  <2>3. QED
    BY <2>1, <2>2 DEF B!RoundComplete
<1>9. CASE B!Done
  <2>1. worker = "done" /\ worker' = "top" /\ ended' = <<shown, setting.blinks, reset>>
    BY <1>9 DEF B!Done, B!Step
  <2>2. ~reset => shown = setting.blinks
    BY <2>1, <1>t
  <2>3. QED
    BY <2>1, <2>2 DEF B!RoundComplete
<1>10. QED
  BY <1>1, <1>2, <1>3, <1>4, <1>5, <1>6, <1>7, <1>8, <1>9 DEF B!BlinkNext, B!WorkerNext
-----------------------------------------------------------------------------
(* Of a set of natural numbers there is a least, of a finite one that is    *)
(* not empty a greatest: the intervals from 0 to its members, and the parts *)
(* of it from a member on, are ordered by inclusion, which is well-founded. *)
LEMMA LeastNatural ==
  ASSUME NEW S, S \subseteq Nat, S # {}
  PROVE  \E m \in S : \A n \in S : m <= n
<1> DEFINE T == {0 .. n : n \in S}
<1>1. T \subseteq FiniteSubsetsOf(Nat) /\ T # {}
  <2>1. \A n \in S : IsFiniteSet(0 .. n) /\ 0 .. n \in SUBSET Nat
    BY FS_Interval
  <2>2. QED
    BY <2>1 DEF FiniteSubsetsOf
<1>2. PICK x \in T : \A y \in T : ~(<<y, x>> \in StrictSubsetOrdering(Nat))
  <2> HIDE DEF T
  <2>1. IsWellFoundedOn(StrictSubsetOrdering(Nat), FiniteSubsetsOf(Nat))
    BY FS_StrictSubsetOrderingWellFounded
  <2>2. QED
    BY <1>1, <2>1, WFMin
<1>3. PICK m \in S : x = 0 .. m
  OBVIOUS
<1>4. ASSUME NEW n \in S, n < m PROVE FALSE
  <2>1. 0 .. n \subseteq 0 .. m /\ m \in 0 .. m /\ m \notin 0 .. n
    BY <1>4
  <2>2. <<0 .. n, x>> \in StrictSubsetOrdering(Nat)
    BY <2>1, <1>3 DEF StrictSubsetOrdering
  <2>3. QED
    BY <2>2, <1>2
<1>5. QED
  BY <1>4

LEMMA GreatestNatural ==
  ASSUME NEW S, S \subseteq Nat, IsFiniteSet(S), S # {}
  PROVE  \E m \in S : \A n \in S : n <= m
<1> DEFINE From(n) == {k \in S : n <= k}
           T == {From(n) : n \in S}
<1>1. T \subseteq FiniteSubsetsOf(S) /\ T # {}
  <2>1. \A n \in S : From(n) \subseteq S /\ IsFiniteSet(From(n))
    BY FS_Subset
  <2>2. QED
    BY <2>1 DEF FiniteSubsetsOf
<1>2. PICK x \in T : \A y \in T : ~(<<y, x>> \in StrictSubsetOrdering(S))
  <2> HIDE DEF T
  <2>1. IsWellFoundedOn(StrictSubsetOrdering(S), FiniteSubsetsOf(S))
    BY FS_StrictSubsetOrderingWellFounded
  <2>2. QED
    BY <1>1, <2>1, WFMin
<1>3. PICK m \in S : x = From(m)
  OBVIOUS
<1>4. ASSUME NEW n \in S, ~(n <= m) PROVE FALSE
  <2>1. m < n /\ \A k \in S : n <= k => m <= k
    BY <1>4
  <2>2. From(n) \subseteq From(m) /\ From(m) \subseteq S
    BY <2>1
  <2>3. m \in From(m) /\ m \notin From(n)
    BY <2>1
  <2>4. <<From(n), x>> \in StrictSubsetOrdering(S)
    BY <2>2, <2>3, <1>3 DEF StrictSubsetOrdering
  <2>5. QED
    BY <2>4, <1>2
<1>5. QED
  BY <1>4

(* Min and Max of the community modules, under the names they have here.    *)
LEMMA MinOfNaturals ==
  ASSUME NEW S, S \subseteq Nat, S # {}
  PROVE  \A m \in {L!Min(S), I!Min(S), A!Min(S)} : m \in S /\ \A n \in S : m <= n
<1>1. \E m \in S : \A n \in S : m <= n
  BY LeastNatural
<1>2. L!Min(S) \in S /\ \A n \in S : L!Min(S) <= n
  BY <1>1, Zenon DEF L!Min
<1>3. I!Min(S) \in S /\ \A n \in S : I!Min(S) <= n
  BY <1>1, Zenon DEF I!Min
<1>4. A!Min(S) \in S /\ \A n \in S : A!Min(S) <= n
  BY <1>1, Zenon DEF A!Min
<1>5. QED
  BY <1>2, <1>3, <1>4

LEMMA MaxOfNaturals ==
  ASSUME NEW S, S \subseteq Nat, IsFiniteSet(S), S # {}
  PROVE  L!Max(S) \in S /\ \A n \in S : n <= L!Max(S)
<1>1. \E m \in S : \A n \in S : n <= m
  BY GreatestNatural
<1>2. \E m \in S : \A n \in S : m >= n
  BY <1>1
<1>3. L!Max(S) \in S /\ \A n \in S : L!Max(S) >= n
  BY <1>2, Zenon DEF L!Max
<1>4. QED
  BY <1>3

LEMMA FunctionIsSeq ==
  ASSUME NEW n \in Nat, NEW S, NEW f \in [1..n -> S]
  PROVE  f \in Seq(S) /\ Len(f) = n
<1>1. f \in Seq(S)
  BY SeqDef
<1>2. QED
  BY <1>1, LenProperties
-----------------------------------------------------------------------------
(* The strips: every LED has a colour, and the buffer is long enough.       *)
Strip == UNION {[1..n -> Nat] : n \in Lengths}

LEMMA StripLength ==
  ASSUME NEW d \in Strip
  PROVE  Len(d) \in Lengths /\ d \in [1..Len(d) -> Nat] /\ d \in Seq(Nat)
<1>1. PICK n \in Lengths : d \in [1..n -> Nat]
  BY DEF Strip
<1>2. n \in Nat
  BY StripAssumption
<1>3. QED
  BY <1>1, <1>2, FunctionIsSeq

(* A transformation leaves a strip one of the same length.                  *)
LEMMA TransformedIsStrip ==
  ASSUME NEW t \in Offers, t.op # "last", NEW cnt \in Int, NEW d \in Strip
  PROVE  L!Transformed(t, cnt, d) \in Strip /\ Len(L!Transformed(t, cnt, d)) = Len(d)
<1> DEFINE n == Len(d)
<1>1. n \in Lengths /\ n \in Nat /\ d \in [1..n -> Nat]
  BY StripLength, StripAssumption
<1>2. SUFFICES L!Transformed(t, cnt, d) \in [1..n -> Nat]
  BY <1>1, FunctionIsSeq DEF Strip
<1> HIDE DEF n
<1>3. CASE t.op = "off"
  BY <1>1, <1>3 DEF L!Transformed
<1>4. ASSUME NEW step \in {1, -1} PROVE L!Shifted(d, step) \in [1..n -> Nat]
  <2>1. CASE n > 1
    <3>1. \A i \in 1..n : ((i - 1 - step) % n) + 1 \in 1..n
      BY <1>1, <2>1, <1>4
    <3>2. L!Rotated(d, step) \in [1..n -> Nat]
      BY <1>1, <3>1 DEF L!Rotated, n
    <3>3. QED
      BY <3>2, <2>1 DEF L!Shifted, n
  <2>2. CASE ~(n > 1)
    BY <2>2, <1>1 DEF L!Shifted, n
  <2>3. QED
    BY <2>1, <2>2
<1>5. CASE t.op \in {"right", "left"}
  BY <1>1, <1>4, <1>5 DEF L!Transformed
<1>c. /\ t.colours \in Seq(Nat) /\ Len(t.colours) \in Nat \ {0} /\ t.first \in Nat
      /\ \A k \in 1..Len(t.colours) : t.colours[k] \in Nat
  BY StripAssumption, EmptySeq, ElementOfSeq
<1>6. CASE t.op = "group"
  <2> DEFINE m == Len(t.colours)
             end == t.first + L!GroupCount(t, n) - 1
  <2>1. ASSUME NEW i \in 1..n, i - 1 \in t.first..end
        PROVE  t.colours[((i - 1 - t.first) % m) + 1] \in Nat
    <3>1. i - 1 - t.first \in Int /\ m \in Nat \ {0}
      BY <1>c, <1>1
    <3>2. ((i - 1 - t.first) % m) + 1 \in 1..m
      <4> HIDE DEF m
      <4> QED
        BY <3>1
    <3>3. QED
      BY <3>2, <1>c
  <2>2. L!Grouped(t, d) \in [1..n -> Nat]
    <3> HIDE DEF m, end
    <3>1. L!Grouped(t, d) =
            [i \in 1..n |-> IF i - 1 \in t.first..end
                            THEN t.colours[((i - 1 - t.first) % m) + 1] ELSE d[i]]
      BY <1>1 DEF L!Grouped, n, m, end
    <3>2. QED
      BY <3>1, <2>1, <1>1
  <2>3. QED
    BY <2>2, <1>6 DEF L!Transformed
<1>7. CASE t.op = "colour"
  <2>1. L!Coloured(t, d) \in [1..n -> Nat]
    BY <1>1, <1>c DEF L!Coloured, n
  <2>2. QED
    BY <2>1, <1>7 DEF L!Transformed
<1>8. QED
  BY <1>3, <1>5, <1>6, <1>7, StripAssumption

(* A group that starts at the first LED stays on the strip, and so does a   *)
(* colour that does not start behind the last.                              *)
LEMMA FitsStrip ==
  ASSUME NEW t \in Offers, NEW n \in Lengths, L!PastEnd(t, n)
  PROVE  L!Misfit(t)
<1>1. /\ t.first \in Nat /\ t.repeat \in Int /\ n \in Nat \ {0}
      /\ Len(t.colours) \in Nat \ {0}
  BY StripAssumption, EmptySeq
<1>2. ASSUME t.op = "group", t.first = 0, t.first + L!GroupCount(t, n) > n PROVE FALSE
  <2> DEFINE all == Len(t.colours) * t.repeat
  <2>1. all \in Int /\ (t.repeat < 0 => all < 0) /\ (t.repeat > 0 => all > 0)
    BY <1>1
  <2> HIDE DEF all
  <2>2. ASSUME NEW k \in Nat PROVE L!Min({32, k}) \in Nat /\ L!Min({32, k}) <= k
    BY MinOfNaturals
  <2>3. L!GroupCount(t, n) =
          CASE t.repeat > 0 /\ t.first + all < n -> L!Min({32, all})
            [] t.repeat < 0 /\ t.first + all \in 0..(n - 1) -> 32
            [] OTHER -> L!Min({32, n})
    BY DEF L!GroupCount, all
  <2>4. L!GroupCount(t, n) \in Nat /\ L!GroupCount(t, n) <= n
    <3>1. t.first + all = all
      BY <1>2, <2>1
    <3>2. ~(t.repeat < 0 /\ all \in 0..(n - 1))
      BY <2>1
    <3>3. CASE t.repeat > 0 /\ all < n
      <4>1. L!GroupCount(t, n) = L!Min({32, all})
        BY ONLY <2>3, <3>1, <3>2, <3>3
      <4>2. all \in Nat
        BY <2>1, <3>3
      <4>3. QED
        BY <4>1, <4>2, <2>2, <1>1, <3>3
    <3>4. CASE ~(t.repeat > 0 /\ all < n)
      <4>1. L!GroupCount(t, n) = L!Min({32, n})
        BY ONLY <2>3, <3>1, <3>2, <3>4
      <4>2. QED
        BY <4>1, <2>2, <1>1
    <3>5. QED
      BY <3>3, <3>4
  <2>5. QED
    BY <1>1, <1>2, <2>4
<1>3. QED
  BY <1>1, <1>2 DEF L!PastEnd, L!Misfit

(* The buffer is allocated for the longest strip that is there when the     *)
(* thread is first started; what does not fit was added later.              *)
TooLong == \E s \in 1..Len(strips) : s > sealed /\ 3 * Len(strips[s]) > room

StripsInv ==
  /\ strips \in Seq(Strip) /\ Len(strips) <= MaxSleds /\ strip \in 1..(Len(strips) + 1)
  /\ upto \in 0..Len(strips) /\ sealed \in 0..Len(strips)
  /\ room \in {-1, 0} \cup {3 * n : n \in Lengths}
  /\ room = -1 => worker = "none"
  /\ room # -1 => \A s \in 1..sealed : 3 * Len(strips[s]) <= room
  /\ "buffer" \in outside => room # -1 /\ TooLong
  /\ outside \subseteq {"strip", "buffer"}

(* Only a transformation that may not fit is written past a strip.          *)
MisfitInv == "strip" \in outside => \E i \in 1..Len(made) : L!Misfit(made[i])

(* The list has transformations that were made, each with its counter.      *)
InList == worker \in {"apply", "refresh", "applied"}

ListType ==
  /\ made \in Seq(Offers) /\ left \in Seq(Int) /\ Len(left) = Len(made)
  /\ list \in Seq(Nat) /\ \A i \in 1..Len(list) : list[i] \in 1..Len(made)
  /\ next \in 0..Len(list) /\ index \in Nat /\ cur \in 0..Len(made) /\ (InList => cur # 0)
  /\ channel \in BOOLEAN /\ again \in BOOLEAN /\ lost \in BOOLEAN /\ untold \in BOOLEAN

(* What was taken from the list is done, or just being done by the worker.  *)
(* A list that is restarted or cleared meanwhile begins anew, unless the    *)
(* worker counted its index on just then.                                   *)
DoneTo(n) == \A i \in 1..n : left[list[i]] = 0

OrderInv ==
  /\ InList =>
       IF again THEN next = 0
       ELSE lost \/ (next > 0 /\ list[next] = cur /\ DoneTo(next - 1))
  /\ worker \in {"copy", "index"} => lost \/ DoneTo(next)
  /\ ~InList /\ worker # "crashed" => lost \/ told \/ DoneTo(next)
  /\ \A n \in told_last : n.early \/ \A i \in n.before : i \in 1..Len(left) /\ left[i] = 0

StripInv == StripsInv /\ MisfitInv /\ ListType /\ OrderInv

(* What the buffer needs for the strips that are there.                     *)
LEMMA LongestStrip ==
  ASSUME StripsInv
  PROVE  /\ L!BufferLength \in {0} \cup {3 * n : n \in Lengths}
         /\ \A s \in 1..Len(strips) : 3 * Len(strips[s]) <= L!BufferLength
         /\ L!BufferLength = 0 \/ \E s \in 1..Len(strips) : L!BufferLength = 3 * Len(strips[s])
<1> DEFINE lens == {Len(strips[s]) : s \in DOMAIN strips}
           most == L!Max({0} \cup lens)
<1>1. lens \subseteq Lengths /\ IsFiniteSet(lens)
  BY StripLength, FS_Subset, StripAssumption DEF StripsInv
<1>2. {0} \cup lens \subseteq Nat /\ IsFiniteSet({0} \cup lens)
  <2>1. IsFiniteSet({0})
    BY FS_Singleton
  <2> HIDE DEF lens
  <2>2. IsFiniteSet({0} \cup lens)
    BY <1>1, <2>1, FS_Union
  <2>3. QED
    BY <1>1, <2>2, StripAssumption
<1>3. most \in {0} \cup lens /\ \A k \in {0} \cup lens : k <= most
  <2> HIDE DEF lens
  <2> QED
    BY <1>2, MaxOfNaturals
<1>4. L!BufferLength = 3 * most
  BY DEF L!BufferLength
<1>5. most \in Nat /\ (most = 0 \/ most \in Lengths)
  BY <1>1, <1>2, <1>3
<1>6. L!BufferLength \in {0} \cup {3 * n : n \in Lengths}
  <2> HIDE DEF most
  <2> QED
    BY <1>4, <1>5
<1>7. \A s \in 1..Len(strips) : 3 * Len(strips[s]) <= L!BufferLength
  <2>1. \A s \in 1..Len(strips) : Len(strips[s]) \in lens
    BY DEF StripsInv
  <2> HIDE DEF most, lens
  <2>2. \A s \in 1..Len(strips) : Len(strips[s]) \in Nat /\ Len(strips[s]) <= most
    BY <2>1, <1>2, <1>3
  <2> QED
    BY <2>2, <1>4, <1>5
<1>8. most = 0 \/ \E s \in 1..Len(strips) : most = Len(strips[s])
  <2>1. \A k \in lens : \E s \in 1..Len(strips) : k = Len(strips[s])
    BY DEF StripsInv
  <2> HIDE DEF most, lens
  <2> QED
    BY <2>1, <1>3
<1>9. QED
  <2> HIDE DEF most, lens
  <2> QED
    BY <1>4, <1>6, <1>7, <1>8

(* A loop is at a strip until it has passed the last one.                   *)
LEMMA LoopStep ==
  ASSUME StripsInv
  PROVE  /\ L!LastStrip \in 0..Len(strips)
         /\ strip <= L!LastStrip => strip \in 1..Len(strips) /\ L!LastStrip # 0
         /\ DOMAIN strips = 1..Len(strips) /\ Len(strips) \in Nat
<1>1. strip \in 1..(Len(strips) + 1) /\ upto \in 0..Len(strips) /\ Len(strips) \in Nat
      /\ DOMAIN strips = 1..Len(strips)
  BY LenProperties DEF StripsInv
<1>2. QED
  BY <1>1 DEF L!LastStrip

LEMMA StripsStep ==
  ASSUME StripInv, L!LedNext
  PROVE  StripsInv'
<1> USE DEF StripInv, StripsInv
<1>1. ASSUME NEW n \in Lengths, L!AddSled(n) PROVE StripsInv'
  <2>1. [i \in 1..n |-> 0] \in Strip
    BY DEF Strip
  <2>2. /\ strips' \in Seq(Strip) /\ Len(strips') = Len(strips) + 1 /\ Len(strips) \in Nat
        /\ Len(strips') <= MaxSleds
        /\ \A s \in 1..Len(strips) : strips'[s] = strips[s] /\ s \in 1..Len(strips')
    <3>1. strips' = Append(strips, [i \in 1..n |-> 0]) /\ Len(strips) < MaxSleds
      BY <1>1 DEF L!AddSled
    <3>2. /\ strips' \in Seq(Strip) /\ Len(strips') = Len(strips) + 1
          /\ \A s \in 1..Len(strips) : strips'[s] = strips[s]
      BY <2>1, <3>1, AppendProperties
    <3>3. QED
      BY <3>1, <3>2, StripAssumption
  <2>3. UNCHANGED <<room, strip, upto, sealed, outside>> /\ (worker' = "none" <=> worker = "none")
    BY <1>1 DEF L!AddSled, L!Disturb
  <2>4. TooLong => TooLong'
    BY <2>2, <2>3 DEF TooLong
  <2>5. \A s \in 1..sealed : s \in 1..Len(strips) /\ strips'[s] = strips[s]
    BY <2>2, sealed \in 0..Len(strips)
  <2>7. room # -1 => \A s \in 1..sealed : 3 * Len(strips'[s]) <= room
    BY <2>5
  <2>6. QED
    BY <2>2, <2>3, <2>4, <2>7
<1>2. CASE \E t \in Offers : L!Add(t)
  BY <1>2 DEF L!Add, L!Disturb, TooLong
<1>3. CASE L!Initialize
  <2>1. UNCHANGED <<strips, strip, upto, outside>> /\ Len(strips) \in Nat
    BY <1>3 DEF L!Initialize
  <2>2. CASE room # -1
    <3>1. UNCHANGED <<room, sealed>>
      BY <1>3, <2>2 DEF L!Initialize
    <3>2. QED
      BY <2>1, <2>2, <3>1 DEF TooLong
  <2>3. CASE room = -1
    <3>1. room' = L!BufferLength /\ sealed' = Len(strips)
      BY <1>3, <2>3 DEF L!Initialize
    <3>2. room' \in {0} \cup {3 * n : n \in Lengths} /\ room' # -1
      BY <3>1, LongestStrip, StripAssumption
    <3>3. \A s \in 1..sealed' : 3 * Len(strips[s]) <= room'
      BY <3>1, LongestStrip
    <3>4. "buffer" \notin outside
      BY <2>3
    <3>5. QED
      BY <2>1, <3>1, <3>2, <3>3, <3>4
  <2>4. QED
    BY <2>2, <2>3
<1>4. CASE L!Clear \/ L!Restart
  BY <1>4 DEF L!Clear, L!Disturb, L!Restart, L!Notify, TooLong
<1>5. CASE L!StopCall \/ L!StopJoin \/ L!Wakeup
  BY <1>5 DEF L!StopCall, L!Tell, L!StopJoin, L!Join, L!Wakeup, L!SpuriousWakeup, L!ledVars, TooLong
<1>6. CASE L!WaitForWork
  BY <1>6 DEF L!WaitForWork, L!Wait, L!Loop, L!Check, L!Sleep, L!ledVars, TooLong
<1>7. CASE L!Fetch \/ L!TakeIndex \/ L!Copy \/ L!CopyFails \/ L!CopyNothing \/ L!ApplyLast
  <2>1. /\ UNCHANGED <<strips, upto, room, sealed, outside>> /\ strip' \in {1, strip}
        /\ worker # "none" /\ Len(strips) \in Nat
    BY <1>7 DEF L!Fetch, L!TakeIndex, L!Copy, L!CopyFails, L!CopyNothing, L!ApplyLast, L!Step
  <2>2. QED
    BY <2>1 DEF TooLong
<1>8. CASE L!ApplyToStrip
  <2> DEFINE d == L!Transformed(made[cur], left[cur], strips[strip])
  <2>1. /\ strip <= L!LastStrip /\ strip' = strip + 1 /\ upto' = L!LastStrip
        /\ UNCHANGED <<room, sealed>>
        /\ strips' = [strips EXCEPT ![strip] = d] /\ made[cur].op # "last" /\ worker = "apply"
        /\ outside' \subseteq outside \cup {"strip"}
    BY <1>8 DEF L!ApplyToStrip, L!WritesOutside, L!Step
  <2>2. made[cur] \in Offers /\ left[cur] \in Int /\ strips[strip] \in Strip
        /\ strip \in 1..Len(strips)
    BY <2>1, ElementOfSeq, LoopStep DEF ListType, InList
  <2>3. d \in Strip /\ Len(d) = Len(strips[strip])
    BY <2>1, <2>2, TransformedIsStrip
  <2>4. strips' \in Seq(Strip) /\ Len(strips') = Len(strips)
        /\ \A s \in 1..Len(strips) : strips'[s] = IF s = strip THEN d ELSE strips[s]
    <3> HIDE DEF d
    <3> QED
      BY <2>1, <2>2, <2>3, ExceptSeq
  <2>5. \A s \in 1..Len(strips) : Len(strips'[s]) = Len(strips[s])
    BY <2>3, <2>4
  <2>6. room # -1 => \A s \in 1..sealed : 3 * Len(strips'[s]) <= room
    BY <2>4, <2>5
  <2>7. TooLong' <=> TooLong
    BY <2>1, <2>4, <2>5 DEF TooLong
  <2>8. strip' \in 1..(Len(strips') + 1) /\ upto' \in 0..Len(strips')
    BY <2>1, <2>4, LoopStep
  <2>9. "buffer" \in outside' => room' # -1 /\ TooLong'
    BY <2>1, <2>7
  <2>10. QED
    <3> HIDE DEF d
    <3> QED
      BY <2>1, <2>4, <2>6, <2>8, <2>9
<1>9. CASE L!Refresh
  <2>1. /\ UNCHANGED <<strips, room, sealed>> /\ worker = "refresh"
        /\ strip <= L!LastStrip /\ strip' \in {strip + 1, L!LastStrip + 1} /\ upto' = L!LastStrip
        /\ outside' = IF L!BufferLength > room THEN outside \cup {"buffer"} ELSE outside
    BY <1>9 DEF L!Refresh, L!WritesOutside, L!Step
  <2>2. strip' \in 1..(Len(strips') + 1) /\ upto' \in 0..Len(strips')
    BY <2>1, LoopStep
  <2>3. ASSUME L!BufferLength > room PROVE TooLong
    <3>1. /\ room # -1 /\ room >= 0 /\ L!BufferLength \in Nat /\ room \in Nat
          /\ sealed \in Nat /\ Len(strips) \in Nat
      BY <2>1, LongestStrip, StripAssumption
    <3>2. PICK s \in 1..Len(strips) : L!BufferLength = 3 * Len(strips[s])
      BY <2>3, <3>1, LongestStrip
    <3>3. ~(s \in 1..sealed)
      BY <2>3, <3>1, <3>2
    <3>4. s > sealed
      BY <3>1, <3>3
    <3>5. QED
      BY <2>3, <3>2, <3>4 DEF TooLong
  <2>4. TooLong' <=> TooLong
    BY <2>1 DEF TooLong
  <2>5. QED
    BY <2>1, <2>2, <2>3, <2>4
<1>10. CASE L!StartRefresh \/ L!EndRefresh \/ L!Applied
  <2>1. /\ UNCHANGED <<strips, room, sealed, outside>> /\ worker # "none"
        /\ strip' = 1 /\ upto' \in {upto, 0}
    BY <1>10 DEF L!StartRefresh, L!EndRefresh, L!Applied, L!Step
  <2>2. strip' \in 1..(Len(strips) + 1) /\ upto' \in 0..Len(strips)
    BY <2>1, LoopStep
  <2>3. QED
    BY <2>1, <2>2 DEF TooLong
<1>11. QED
  BY <1>1, <1>2, <1>3, <1>4, <1>5, <1>6, <1>7, <1>8, <1>9, <1>10 DEF L!LedNext, L!WorkerNext

LEMMA ListStep ==
  ASSUME StripInv, L!LedNext
  PROVE  ListType'
<1> USE DEF StripInv, ListType, InList
<1>1. CASE \E n \in Lengths : L!AddSled(n)
  BY <1>1 DEF L!AddSled, L!Disturb
<1>2. ASSUME NEW t \in Offers, L!Add(t) PROVE ListType'
  <2>1. /\ made' \in Seq(Offers) /\ Len(made') = Len(made) + 1
        /\ left' \in Seq(Int) /\ Len(left') = Len(made')
    <3>1. made' = Append(made, t) /\ left' = Append(left, t.times) /\ t.times \in Int
      BY <1>2, StripAssumption DEF L!Add
    <3>2. QED
      BY <3>1, AppendProperties
  <2>2. /\ list' \in Seq(Nat) /\ Len(list') = Len(list) + 1
        /\ \A i \in 1..Len(list') : list'[i] \in 1..Len(made')
    <3>1. list' = Append(list, Len(made')) /\ Len(made) \in Nat /\ Len(list) \in Nat
      BY <1>2 DEF L!Add
    <3>2. /\ list' \in Seq(Nat) /\ Len(list') = Len(list) + 1
          /\ list'[Len(list) + 1] = Len(made') /\ \A i \in 1..Len(list) : list'[i] = list[i]
      BY <2>1, <3>1, AppendProperties
    <3>a. Len(made') \in 1..Len(made') /\ \A k \in 1..Len(made) : k \in 1..Len(made')
      BY <2>1, <3>1
    <3>3. \A i \in 1..Len(list) : list'[i] \in 1..Len(made')
      BY <3>2, <3>a, Zenon DEF StripInv, ListType
    <3>4. list'[Len(list) + 1] \in 1..Len(made')
      BY <3>2, <3>a, Zenon
    <3>5. \A i \in 1..Len(list') : i \in 1..Len(list) \/ i = Len(list) + 1
      BY <3>1, <3>2
    <3>6. QED
      BY <3>2, <3>3, <3>4, <3>5
  <2>3. UNCHANGED <<next, index, cur, channel, again, lost>> /\ untold' = TRUE /\ (InList' => InList)
    BY <1>2 DEF L!Add, L!Disturb
  <2>4. QED
    BY <2>1, <2>2, <2>3
<1>3. CASE L!Initialize
  BY <1>3 DEF L!Initialize, L!Start
<1>4. CASE L!Clear
  <2>1. list' \in Seq(Nat) /\ Len(list') = 0 /\ next' = 0
    BY <1>4, EmptySeq DEF L!Clear
  <2>2. UNCHANGED <<made, left, index, cur, channel, untold>> /\ again' = TRUE /\ lost' = FALSE
        /\ (InList' => InList)
    BY <1>4 DEF L!Clear, L!Disturb
  <2>3. next' \in 0..Len(list') /\ \A i \in 1..Len(list') : list'[i] \in 1..Len(made')
    BY <2>1
  <2>4. /\ made' \in Seq(Offers) /\ left' \in Seq(Int) /\ Len(left') = Len(made')
        /\ cur' \in 0..Len(made') /\ (InList' => cur' # 0) /\ index' \in Nat
    BY <2>2
  <2>5. channel' \in BOOLEAN /\ again' \in BOOLEAN /\ lost' \in BOOLEAN /\ untold' \in BOOLEAN
    BY <2>2
  <2>6. QED
    BY <2>1, <2>3, <2>4, <2>5
<1>5. CASE L!Restart
  <2>1. UNCHANGED <<made, list, index, cur, channel>> /\ next' = 0 /\ again' = TRUE /\ untold' = FALSE
        /\ lost' = FALSE
        /\ (InList' => InList)
    BY <1>5 DEF L!Restart, L!Notify
  <2>2. left' \in [1..Len(left) -> Int]
    BY <1>5, ElementOfSeq, StripAssumption DEF L!Restart
  <2>3. Len(left) \in Nat /\ Len(list) \in Nat
    OBVIOUS
  <2>4. left' \in Seq(Int) /\ Len(left') = Len(left)
    BY <2>2, <2>3, FunctionIsSeq
  <2>5. next' \in 0..Len(list') /\ (InList' => cur' # 0)
    BY <2>1, <2>3
  <2>6. QED
    BY <2>1, <2>4, <2>5
<1>6. CASE L!StopCall \/ L!StopJoin \/ L!Wakeup
  <2>1. UNCHANGED L!ledVars /\ (InList' => InList)
    BY <1>6 DEF L!StopCall, L!Tell, L!StopJoin, L!Join, L!Wakeup, L!SpuriousWakeup
  <2>2. QED
    BY <2>1 DEF L!ledVars
<1>7. CASE L!WaitForWork
  BY <1>7 DEF L!WaitForWork, L!Wait, L!Loop, L!Check, L!Sleep, L!ledVars
<1>8. CASE L!Fetch \/ L!TakeIndex \/ L!CopyFails \/ L!CopyNothing
  BY <1>8 DEF L!Fetch, L!TakeIndex, L!CopyFails, L!CopyNothing, L!Step
<1>9. CASE L!Copy
  <2>1. UNCHANGED <<made, left, list, channel, untold>> /\ again' = FALSE /\ index' = 0
        /\ next' = index + 1 /\ index < Len(list) /\ cur' = list[index + 1]
        /\ lost' = (lost \/ next # index)
    BY <1>9 DEF L!Copy, L!Step
  <2>2. next' \in 1..Len(list) /\ cur' = list[next'] /\ Len(made) \in Nat
    BY <2>1
  <2>3. cur' \in 1..Len(made)
    BY <2>1, <2>2
  <2>4. cur' \in 0..Len(made') /\ cur' # 0 /\ next' \in 0..Len(list')
    BY <2>1, <2>2, <2>3
  <2>5. QED
    BY <2>1, <2>4
<1>10. CASE L!ApplyLast \/ L!ApplyToStrip
  <2>1. UNCHANGED <<made, list, next, index, cur, channel, again, lost, untold>> /\ InList
        /\ left' = [left EXCEPT ![cur] = L!Attempt(made[cur], left[cur])]
    BY <1>10 DEF L!ApplyLast, L!ApplyToStrip, L!WritesOutside, L!Step
  <2>2. L!Attempt(made[cur], left[cur]) \in Int
    BY <2>1, ElementOfSeq DEF L!Attempt
  <2>3. left' \in Seq(Int) /\ Len(left') = Len(left)
    BY <2>1, <2>2, ExceptSeq
  <2>4. QED
    BY <2>1, <2>3
<1>11. CASE L!StartRefresh \/ L!Refresh \/ L!EndRefresh \/ L!Applied
  BY <1>11 DEF L!StartRefresh, L!Refresh, L!EndRefresh, L!Applied, L!WritesOutside, L!Step
<1>12. QED
  BY <1>1, <1>2, <1>3, <1>4, <1>5, <1>6, <1>7, <1>8, <1>9, <1>10, <1>11 DEF L!LedNext, L!WorkerNext

LEMMA MisfitStep ==
  ASSUME StripInv, L!LedNext
  PROVE  MisfitInv'
<1> USE DEF StripInv, MisfitInv
<1>1. CASE L!ApplyToStrip
  <2>1. /\ worker = "apply" /\ strip <= L!LastStrip /\ UNCHANGED made
        /\ outside' = IF L!PastEnd(made[cur], Len(strips[strip]))
                      THEN outside \cup {"strip"} ELSE outside
    BY <1>1 DEF L!ApplyToStrip, L!WritesOutside, L!Step
  <2>2. /\ cur \in 1..Len(made) /\ made[cur] \in Offers
        /\ Len(strips[strip]) \in Lengths
    BY <2>1, ElementOfSeq, LoopStep, StripLength DEF StripsInv, ListType, InList
  <2>3. L!PastEnd(made[cur], Len(strips[strip])) => L!Misfit(made[cur])
    BY <2>2, FitsStrip
  <2>4. QED
    BY <2>1, <2>2, <2>3
<1>2. ASSUME NEW t \in Offers, L!Add(t) PROVE MisfitInv'
  <2>1. made' = Append(made, t) /\ UNCHANGED outside /\ made \in Seq(Offers)
    BY <1>2 DEF L!Add, ListType
  <2>2. \A i \in 1..Len(made) : i \in 1..Len(made') /\ made'[i] = made[i]
    BY <2>1, AppendProperties
  <2>3. ASSUME "strip" \in outside, NEW i \in 1..Len(made), L!Misfit(made[i])
        PROVE  \E k \in 1..Len(made') : L!Misfit(made'[k])
    <3>1. i \in 1..Len(made') /\ made'[i] = made[i]
      BY <2>2
    <3>2. L!Misfit(made'[i])
      BY <2>3, <3>1
    <3>3. QED
      BY <3>1, <3>2
  <2>4. QED
    BY <2>1, <2>3
<1>3. CASE L!Refresh
  <2>1. UNCHANGED made /\ outside' \subseteq outside \cup {"buffer"}
    BY <1>3 DEF L!Refresh, L!WritesOutside, L!Step
  <2>2. QED
    BY <2>1
<1>4. CASE (\E n \in Lengths : L!AddSled(n)) \/ L!Initialize \/ L!Clear \/ L!Restart
  BY <1>4 DEF L!AddSled, L!Initialize, L!Clear, L!Restart
<1>5. CASE L!StopCall \/ L!StopJoin \/ L!Wakeup \/ L!WaitForWork
  BY <1>5 DEF L!StopCall, L!StopJoin, L!Wakeup, L!WaitForWork, L!ledVars
<1>6. CASE \/ L!Fetch \/ L!TakeIndex \/ L!Copy \/ L!CopyFails \/ L!CopyNothing \/ L!ApplyLast
           \/ L!StartRefresh \/ L!EndRefresh \/ L!Applied
  BY <1>6 DEF L!Fetch, L!TakeIndex, L!Copy, L!CopyFails, L!CopyNothing, L!ApplyLast,
              L!StartRefresh, L!EndRefresh, L!Applied, L!Step
<1>7. QED
  BY <1>1, <1>2, <1>3, <1>4, <1>5, <1>6 DEF L!LedNext, L!WorkerNext

(* What does not touch the counters of what was made, the part of the list  *)
(* up to next and the worker keeps the order.                               *)
LEMMA SameOrder ==
  ASSUME StripInv, UNCHANGED <<left, list, next, cur, again, lost, told_last>>, told => told',
         \/ worker' = worker
         \/ /\ worker \notin {"copy", "index", "apply", "refresh", "applied", "crashed"}
            /\ worker' \notin {"copy", "index"} /\ ~InList'
         \/ InList /\ InList'
  PROVE  OrderInv'
<1>1. \A n : DoneTo(n)' <=> DoneTo(n)
  BY DEF DoneTo
<1>2. QED
  BY <1>1 DEF StripInv, OrderInv, InList

(* A crash leaves what was done.                                            *)
LEMMA CrashedOrder ==
  ASSUME StripInv, UNCHANGED <<left, list, next, cur, again, lost, told_last, told>>,
         InList, worker' = "crashed"
  PROVE  OrderInv'
BY DEF StripInv, OrderInv, InList

LEMMA OrderStep ==
  ASSUME StripInv, L!LedNext
  PROVE  OrderInv'
<1> USE DEF InList
<1>1. CASE \E n \in Lengths : L!AddSled(n)
  <2>1. CASE UNCHANGED worker
    BY <1>1, <2>1, SameOrder DEF L!AddSled
  <2>2. CASE worker \in {"apply", "refresh"} /\ worker' = "crashed"
    BY <1>1, <2>2, CrashedOrder DEF L!AddSled
  <2>3. QED
    BY <1>1, <2>1, <2>2 DEF L!AddSled, L!Disturb
<1>2. ASSUME NEW t \in Offers, L!Add(t) PROVE OrderInv'
  <2>1. /\ next \in 0..Len(list) /\ Len(list) \in Nat /\ Len(left) \in Nat
        /\ \A i \in 1..Len(list) : list'[i] = list[i] /\ list[i] \in 1..Len(left)
        /\ \A i \in 1..Len(left) : left'[i] = left[i] /\ i \in 1..Len(left')
    <3>1. /\ left \in Seq(Int) /\ list \in Seq(Nat) /\ next \in 0..Len(list)
          /\ Len(left) \in Nat /\ Len(list) \in Nat
          /\ \A i \in 1..Len(list) : list[i] \in 1..Len(left)
      BY DEF StripInv, ListType
    <3>2. left' = Append(left, t.times) /\ t.times \in Int
      BY <1>2, StripAssumption DEF L!Add
    <3>3. list' = Append(list, Len(made')) /\ Len(made') \in Nat
      BY <1>2 DEF L!Add, StripInv, ListType
    <3>4. Len(left') = Len(left) + 1 /\ \A i \in 1..Len(left) : left'[i] = left[i]
      BY <3>1, <3>2, AppendProperties
    <3>5. \A i \in 1..Len(list) : list'[i] = list[i]
      BY <3>1, <3>3, AppendProperties
    <3>6. \A i \in 1..Len(left) : i \in 1..Len(left')
      BY <3>1, <3>4
    <3>7. QED
      BY <3>1, <3>4, <3>5, <3>6
  <2>2. ASSUME NEW n \in 0..Len(list), DoneTo(n) PROVE DoneTo(n)'
    <3>1. \A i \in 1..n : i \in 1..Len(list)
      BY <2>1
    <3>2. \A i \in 1..n : left'[list'[i]] = left[list[i]]
      BY <2>1, <3>1, Zenon
    <3>3. QED
      BY <2>2, <3>2 DEF DoneTo
  <2>3. UNCHANGED <<next, cur, again, lost, told, told_last>>
        /\ (worker' = worker \/ (worker = "index" /\ worker' = "crashed"))
    BY <1>2 DEF L!Add, L!Disturb
  <2>4. \A n \in told_last : n.early \/ \A i \in n.before : i \in 1..Len(left') /\ left'[i] = 0
    BY <2>1 DEF StripInv, OrderInv
  <2>5. InList' => IF again' THEN next' = 0
                   ELSE lost' \/ (next' > 0 /\ list'[next'] = cur' /\ DoneTo(next - 1)')
    BY <2>1, <2>2, <2>3 DEF StripInv, OrderInv
  <2>6. /\ worker' \in {"copy", "index"} => lost' \/ DoneTo(next)'
        /\ ~InList' /\ worker' # "crashed" => lost' \/ told' \/ DoneTo(next)'
    BY <2>1, <2>2, <2>3 DEF StripInv, OrderInv
  <2>7. next' = next
    BY <2>3
  <2>8. QED
    BY <2>3, <2>4, <2>5, <2>6, <2>7 DEF OrderInv
<1>3. CASE L!Initialize
  BY <1>3, SameOrder DEF L!Initialize, L!Calls, L!Start
<1>4. CASE L!Clear \/ L!Restart
  <2>1. next' = 0 /\ again' = TRUE
    BY <1>4 DEF L!Clear, L!Restart
  <2>2. DoneTo(next)'
    BY <2>1 DEF DoneTo
  <2>3. told_last' = {} \/ UNCHANGED <<told_last, left>>
    BY <1>4 DEF L!Clear, L!Restart
  <2>4. QED
    BY <2>1, <2>2, <2>3 DEF StripInv, OrderInv
<1>5. CASE L!StopCall \/ L!StopJoin \/ L!Wakeup
  <2>1. CASE L!StopCall
    BY <2>1, SameOrder DEF L!StopCall, L!Calls, L!Tell, L!ledVars
  <2>2. CASE L!StopJoin
    BY <2>2, SameOrder DEF L!StopJoin, L!Join, L!ledVars
  <2>3. CASE L!Wakeup
    BY <2>3, SameOrder DEF L!Wakeup, L!SpuriousWakeup, L!ledVars
  <2>4. QED
    BY <1>5, <2>1, <2>2, <2>3
<1>6. CASE L!WaitForWork
  BY <1>6, SameOrder DEF L!WaitForWork, L!Wait, L!Loop, L!Check, L!Sleep, L!ledVars
<1>7. CASE L!Fetch \/ L!TakeIndex \/ L!CopyNothing \/ L!CopyFails
  <2>1. UNCHANGED <<left, list, next, lost, told, told_last>>
        /\ (worker' \in {"copy", "index"} => ~told \/ worker = "copy") /\ ~InList' /\ ~InList
        /\ worker # "crashed"
    BY <1>7 DEF L!Fetch, L!TakeIndex, L!CopyNothing, L!CopyFails, L!Step
  <2>2. DoneTo(next)' <=> DoneTo(next)
    BY <2>1 DEF DoneTo
  <2>3. QED
    BY <2>1, <2>2 DEF StripInv, OrderInv
<1>8. CASE L!Copy
  <2>1. /\ UNCHANGED <<left, list, told, told_last>> /\ next' = index + 1
        /\ cur' = list[index + 1] /\ again' = FALSE /\ lost' = (lost \/ next # index)
        /\ worker = "index" /\ worker' = "apply"
    BY <1>8 DEF L!Copy, L!Step
  <2>2. next \in Nat
    BY DEF StripInv, ListType
  <2>3. ASSUME ~lost' PROVE next' > 0 /\ list'[next'] = cur' /\ DoneTo(next - 1)'
    <3>a. ~lost /\ next = index
      BY <2>1, <2>3
    <3>b. DoneTo(next)
      BY <2>1, <3>a DEF StripInv, OrderInv
    <3>1. next' - 1 = next /\ next' = next + 1 /\ DoneTo(next)
      BY <2>1, <2>2, <3>a, <3>b
    <3>2. DoneTo(next - 1)'
      BY <2>1, <3>1 DEF DoneTo
    <3>3. QED
      BY <2>1, <2>2, <3>1, <3>2
  <2>4. \A n \in told_last' : n.early \/ \A i \in n.before : i \in 1..Len(left') /\ left'[i] = 0
    BY <2>1 DEF StripInv, OrderInv
  <2>5. QED
    BY <2>1, <2>3, <2>4 DEF OrderInv
<1>9. CASE L!ApplyLast \/ L!ApplyToStrip
  <2>1. UNCHANGED <<list, next, cur, again, lost, told>> /\ InList
        /\ (InList' \/ worker' = "crashed")
        /\ left' = [left EXCEPT ![cur] = L!Attempt(made[cur], left[cur])]
    BY <1>9 DEF L!ApplyLast, L!ApplyToStrip, L!WritesOutside, L!Step
  <2>2. cur \in 1..Len(left) /\ left \in Seq(Int)
    BY <2>1 DEF StripInv, ListType
  <2>3. left[cur] = 0 => L!Attempt(made[cur], left[cur]) = 0
    BY DEF L!Attempt
  <2>4. Len(left') = Len(left) /\ \A i \in 1..Len(left) : left[i] = 0 => left'[i] = 0
    BY <2>1, <2>2, <2>3
  <2>5. next \in 0..Len(list) /\ \A i \in 1..Len(list) : list[i] \in 1..Len(left)
    BY DEF StripInv, ListType
  <2>6. \A n \in 0..Len(list) : DoneTo(n) => DoneTo(n)'
    BY <2>1, <2>4, <2>5 DEF DoneTo
  <2>7. IF again' THEN next' = 0
        ELSE lost' \/ (next' > 0 /\ list'[next'] = cur' /\ DoneTo(next - 1)')
    BY <2>1, <2>5, <2>6 DEF StripInv, OrderInv
  <2>8. ASSUME NEW n \in told_last', ~n.early
        PROVE  \A i \in n.before : i \in 1..Len(left) /\ left[i] = 0
    <3>1. CASE n \in told_last
      BY <2>8, <3>1 DEF StripInv, OrderInv
    <3>2. CASE n \notin told_last
      <4>1. n = [id |-> cur, early |-> again \/ lost,
                 before |-> {list[i] : i \in 1..L!Min({next - 1, Len(list)})}]
        BY <1>9, <2>8, <3>2 DEF L!ApplyLast, L!ApplyToStrip
      <4>2. ~again /\ ~lost /\ next > 0 /\ DoneTo(next - 1)
        BY <2>1, <2>8, <4>1 DEF StripInv, OrderInv
      <4> DEFINE few == L!Min({next - 1, Len(list)})
      <4>3. few \in Nat /\ few <= next - 1 /\ few <= Len(list)
        <5>1. {next - 1, Len(list)} \subseteq Nat
          BY <4>2, <2>5
        <5>2. few \in {next - 1, Len(list)} /\ \A k \in {next - 1, Len(list)} : few <= k
          BY <5>1, MinOfNaturals
        <5> HIDE DEF few
        <5>3. QED
          BY <5>1, <5>2
      <4> HIDE DEF few
      <4>4. \A i \in 1..few : list[i] \in 1..Len(left) /\ left[list[i]] = 0
        BY <4>2, <4>3, <2>5 DEF DoneTo
      <4>5. n.before = {list[i] : i \in 1..few}
        BY <4>1 DEF few
      <4>6. QED
        BY <4>4, <4>5
    <3>3. QED
      BY <3>1, <3>2
  <2>9. \A n \in told_last' : n.early \/ \A i \in n.before : i \in 1..Len(left') /\ left'[i] = 0
    BY <2>4, <2>8
  <2>10. next' = next
    BY <2>1
  <2>11. QED
    BY <2>1, <2>7, <2>9, <2>10 DEF OrderInv
<1>10. CASE L!StartRefresh \/ L!Refresh \/ L!EndRefresh
  <2>1. CASE InList'
    BY <1>10, <2>1, SameOrder DEF L!StartRefresh, L!Refresh, L!EndRefresh, L!WritesOutside, L!Step
  <2>2. CASE worker' = "crashed"
    BY <1>10, <2>2, CrashedOrder DEF L!StartRefresh, L!Refresh, L!EndRefresh, L!WritesOutside, L!Step
  <2>3. QED
    BY <1>10, <2>1, <2>2 DEF L!StartRefresh, L!Refresh, L!EndRefresh, L!WritesOutside, L!Step
<1>11. CASE L!Applied
  <2>1. UNCHANGED <<left, list, next, cur, again, lost, told, told_last>> /\ worker = "applied"
        /\ worker' = (IF left[cur] = 0 \/ told THEN "work" ELSE "apply")
    BY <1>11 DEF L!Applied, L!Step
  <2>2. \A n : DoneTo(n)' <=> DoneTo(n)
    BY <2>1 DEF DoneTo
  <2>3. next \in Nat
    BY DEF StripInv, ListType
  <2>4. ASSUME left[cur] = 0 PROVE lost \/ DoneTo(next)
    BY <2>1, <2>3, <2>4 DEF StripInv, OrderInv, DoneTo
  <2>5. QED
    BY <2>1, <2>2, <2>4 DEF StripInv, OrderInv
<1>12. QED
  BY <1>1, <1>2, <1>3, <1>4, <1>5, <1>6, <1>7, <1>8, <1>9, <1>10, <1>11 DEF L!LedNext, L!WorkerNext

LEMMA InitStrip == Init => StripInv /\ told_last = {}
<1> SUFFICES ASSUME Init PROVE StripInv /\ told_last = {}
  OBVIOUS
<1>1. /\ strips = <<>> /\ made = <<>> /\ left = <<>> /\ list = <<>> /\ next = 0 /\ cur = 0
      /\ strip = 1 /\ room = -1 /\ channel = FALSE /\ told_last = {} /\ again = FALSE
      /\ index = 0 /\ upto = 0 /\ lost = FALSE /\ sealed = 0 /\ outside = {}
      /\ untold = FALSE /\ worker = "none"
  BY DEF Init, ThreadInit, L!LedInit
<1>2. Len(<<>>) = 0 /\ \A S : <<>> \in Seq(S)
  BY EmptySeq
<1>3. StripsInv
  BY <1>1, <1>2, StripAssumption DEF StripsInv
<1>4. ListType
  <2>1. made \in Seq(Offers) /\ left \in Seq(Int) /\ Len(left) = 0 /\ Len(made) = 0
    BY <1>1, <1>2
  <2>2. list \in Seq(Nat) /\ Len(list) = 0
    BY <1>1, <1>2
  <2>3. next \in 0..Len(list) /\ cur \in 0..Len(made) /\ ~InList
    BY <1>1, <2>1, <2>2 DEF InList
  <2>4. \A i \in 1..Len(list) : list[i] \in 1..Len(made)
    BY <2>2
  <2>5. channel \in BOOLEAN /\ again \in BOOLEAN /\ lost \in BOOLEAN /\ untold \in BOOLEAN
        /\ index \in Nat
    BY <1>1
  <2>6. QED
    BY <2>1, <2>2, <2>3, <2>4, <2>5 DEF ListType
<1>5. OrderInv
  BY <1>1 DEF OrderInv, InList, DoneTo
<1>6. MisfitInv
  BY <1>1 DEF MisfitInv
<1>7. QED
  BY <1>1, <1>3, <1>4, <1>5, <1>6 DEF StripInv

LEMMA StripCorrect ==
  ASSUME StripInv
  PROVE  L!LedTypeOK /\ L!WritesFit /\ L!LastAfterAll
<1> USE DEF StripInv
<1>1. DOMAIN made = 1..Len(made) /\ DOMAIN left = 1..Len(made) /\ Len(list) \in Nat
      /\ list \in [1..Len(list) -> Nat]
  BY LenProperties DEF ListType
<1>2. list \in Seq(DOMAIN made)
  <2>1. list \in [1..Len(list) -> DOMAIN made]
    BY <1>1 DEF ListType
  <2>2. QED
    BY <1>1, <2>1, FunctionIsSeq
<1>3. \A i \in DOMAIN left : left[i] \in Int
  BY ElementOfSeq DEF ListType
<1>4. next \in Nat /\ index \in Nat /\ cur \in {0} \cup DOMAIN made
  BY <1>1 DEF ListType
<1>5. DOMAIN strips = 1..Len(strips) /\ \A s \in DOMAIN strips : Len(strips[s]) \in Lengths
  BY LenProperties, ElementOfSeq, StripLength DEF StripsInv
<1>6. L!LedTypeOK
  BY <1>1, <1>2, <1>3, <1>4, <1>5 DEF L!LedTypeOK, StripsInv, ListType
<1>7. L!WritesFit
  BY <1>1, <1>5 DEF L!WritesFit, StripsInv, MisfitInv, TooLong
<1>8. L!LastAfterAll
  BY DEF L!LastAfterAll, OrderInv
<1>9. QED
  BY <1>6, <1>7, <1>8
-----------------------------------------------------------------------------
(* The inputs: a descriptor with an edge to be read is open, and the        *)
(* provider looks at those of the pins it polled.                           *)
InputsInv ==
  /\ I!InputsTypeOK
  /\ level \in [Pins -> BOOLEAN] /\ state \in [Pins -> BOOLEAN] /\ heard \in [Pins -> BOOLEAN]
  /\ curr \in [Pins -> BOOLEAN] /\ event \in [Pins -> BOOLEAN] /\ open \in [Pins -> BOOLEAN]
  /\ edge \in [Pins -> Edges] /\ gpioEdge \in [Pins -> Edges]
  /\ poller \in [Pins -> {"none", "begin", "read", "set", "tell", "ended"}]
  /\ seen \in [I!Threads -> BOOLEAN]
  /\ worker \in {"set", "tell"} => found # {}

LEMMA InitInputs == Init => InputsInv
<1> SUFFICES ASSUME Init PROVE InputsInv
  OBVIOUS
<1>1. worker = "none"
  BY DEF Init, ThreadInit
<1>2. I!InputsInit
  BY DEF Init
<1>3. I!InputsTypeOK
  BY <1>2, InputsAssumption DEF I!InputsInit, I!InputsTypeOK
<1>4. QED
  BY <1>1, <1>2, <1>3, InputsAssumption DEF I!InputsInit, InputsInv

(* The pin the provider is at.                                              *)
LEMMA FirstIsPin ==
  ASSUME InputsInv, found # {}
  PROVE  I!First \in found /\ I!First \in Pins
<1>1. found \subseteq Nat /\ found \subseteq Pins
  BY InputsAssumption DEF InputsInv, I!InputsTypeOK
<1>2. QED
  BY <1>1, MinOfNaturals DEF I!First

LEMMA InputsStep ==
  ASSUME InputsInv, I!InputsNext
  PROVE  InputsInv'
<1> USE DEF InputsInv, I!InputsTypeOK
<1>1. ASSUME NEW p \in Pins, I!Press(p) PROVE InputsInv'
  <2> DEFINE b == event[p] \/ (open[p] /\ edge[p] \in {"both", IF level[p] THEN "falling" ELSE "rising"})
  <2>a. event[p] => open[p]
    OBVIOUS
  <2>1. b \in BOOLEAN /\ (b => open[p])
    BY <2>a, Zenon
  <2>2. /\ changes < MaxChanges /\ changes' = changes + 1
        /\ level' = [level EXCEPT ![p] = ~level[p]] /\ event' = [event EXCEPT ![p] = b]
        /\ UNCHANGED <<linked, edge, gpioEdge, open, request, found, state, heard, poller, btold,
                       stopping, curr, seen, worker>>
    BY <1>1 DEF I!Press, I!buttonVars, I!threadVars
  <2>3. changes' \in 0..MaxChanges
    BY <2>2, InputsAssumption
  <2>4. level' \in [Pins -> BOOLEAN]
    BY <2>2
  <2> HIDE DEF b
  <2>5. event' \in [Pins -> BOOLEAN] /\ \A q \in Pins : event'[q] => open[q]
    BY <2>1, <2>2
  <2>6. QED
    BY <2>2, <2>3, <2>4, <2>5
<1>2. ASSUME NEW p \in Pins, I!Initialize(p) PROVE InputsInv'
  BY <1>2 DEF I!Initialize, I!fdVars, I!threadVars
<1>3. ASSUME NEW p \in Pins, I!PollerBegins(p) \/ I!PollerReads(p) PROVE InputsInv'
  BY <1>3 DEF I!PollerBegins, I!PollerReads, I!Poller, I!fdVars, I!threadVars, I!Threads
<1>4. ASSUME NEW p \in Pins, I!PollerSets(p) \/ I!PollerTells(p) PROVE InputsInv'
  <2>1. p \in I!Threads /\ seen[p] \in BOOLEAN
    BY DEF I!Threads
  <2>2. UNCHANGED <<linked, level, changes, edge, open, event, gpioEdge, request, found, btold,
                    stopping, curr, worker>>
    BY <1>4 DEF I!PollerSets, I!PollerTells, I!Poller, I!fdVars, I!threadVars
  <2>3. CASE I!PollerSets(p)
    BY <2>1, <2>2, <2>3 DEF I!PollerSets, I!SetState, I!Poller
  <2>4. CASE I!PollerTells(p)
    BY <2>1, <2>2, <2>4 DEF I!PollerTells, I!TellMachine, I!Poller
  <2>5. QED
    BY <1>4, <2>3, <2>4
<1>5. ASSUME NEW p \in Pins, I!StopButton(p) \/ I!JoinButton(p) PROVE InputsInv'
  BY <1>5 DEF I!StopButton, I!JoinButton, I!fdVars, I!threadVars
<1>6. ASSUME NEW p \in Pins, NEW e \in Edges, I!SetEdge(p, e) PROVE InputsInv'
  BY <1>6 DEF I!SetEdge, I!Notify, I!buttonVars
<1>7. CASE I!OpenFolder
  <2>1. request \in Pins \X Edges /\ request' = <<>>
    BY <1>7 DEF I!OpenFolder
  <2>2. PICK p \in Pins, e \in Edges : request[1] = p /\ request[2] = e
    BY <2>1
  <2>3. /\ open' \in {open, [open EXCEPT ![p] = TRUE]} /\ event' \in {event, [event EXCEPT ![p] = FALSE]}
        /\ gpioEdge' \in {gpioEdge, [gpioEdge EXCEPT ![p] = e], [gpioEdge EXCEPT ![p] = "none"]}
        /\ (worker' \in {"set", "tell"} => worker \in {"set", "tell"})
    BY <1>7, <2>2 DEF I!OpenFolder, I!Notify
  <2>4. UNCHANGED <<linked, level, changes, edge, found, state, heard, poller, btold, stopping,
                    curr, seen>>
    BY <1>7 DEF I!OpenFolder, I!buttonVars
  <2>5. /\ open' \in [Pins -> BOOLEAN] /\ event' \in [Pins -> BOOLEAN]
        /\ \A q \in Pins : event'[q] => open'[q]
    BY <2>3
  <2>6. gpioEdge' \in [Pins -> Edges]
    BY <2>3, InputsAssumption
  <2>7. QED
    BY <2>1, <2>3, <2>4, <2>5, <2>6
<1>8. CASE I!Wakeup \/ I!StartProvider
  BY <1>8 DEF I!Wakeup, I!SpuriousWakeup, I!StartProvider, I!Start, I!inputVars
<1>9. CASE I!StopCall \/ I!StopJoin
  BY <1>9 DEF I!StopCall, I!Tell, I!StopJoin, I!Join, I!inputVars
<1>10. CASE I!WaitForDescriptor
  BY <1>10 DEF I!WaitForDescriptor, I!Wait, I!Loop, I!Check, I!Sleep, I!inputVars
<1>11. CASE I!Awake \/ I!Arm \/ I!PollTimeout
  BY <1>11 DEF I!Awake, I!Arm, I!PollTimeout, I!Prov
<1>12. CASE I!PollEvents \/ I!Scanned
  BY <1>12 DEF I!PollEvents, I!Scanned, I!Prov
<1>13. CASE I!ReadValue
  <2>1. I!First \in found /\ I!First \in Pins
    BY <1>13, FirstIsPin DEF I!ReadValue
  <2> DEFINE f == I!First
  <2>2. /\ UNCHANGED <<linked, level, changes, edge, gpioEdge, open, request, poller, btold,
                       stopping, curr, state, heard>>
        /\ event' \in {event, [event EXCEPT ![f] = FALSE]} /\ found' \in {found, found \ {f}}
        /\ seen' \in {seen, [seen EXCEPT ![0] = level[f]]}
        /\ (worker' \in {"set", "tell"} => found' = found)
    BY <1>13 DEF I!ReadValue, I!Prov, I!Provider
  <2> HIDE DEF f
  <2>3. f \in Pins /\ level[f] \in BOOLEAN
    BY <2>1 DEF f
  <2>4. event' \in [Pins -> BOOLEAN] /\ \A q \in Pins : event'[q] => open[q]
    BY <2>2, <2>3
  <2>5. found' \subseteq Pins /\ (worker' \in {"set", "tell"} => found' # {})
    BY <1>13, <2>2 DEF I!ReadValue
  <2>6. seen' \in [I!Threads -> BOOLEAN]
    BY <2>2, <2>3
  <2>7. QED
    BY <2>2, <2>4, <2>5, <2>6
<1>14. CASE I!ProviderSets \/ I!ProviderTells
  <2>1. I!First \in Pins
    BY <1>14, FirstIsPin DEF I!ProviderSets, I!ProviderTells, I!Prov
  <2> DEFINE f == I!First
  <2>2. UNCHANGED <<linked, level, changes, edge, gpioEdge, open, request, poller, btold,
                    stopping, curr, event>>
    BY <1>14 DEF I!ProviderSets, I!ProviderTells, I!Prov
  <2>3. 0 \in I!Threads /\ seen[0] \in BOOLEAN
    BY DEF I!Threads, I!Provider
  <2>4. CASE I!ProviderSets
    BY <2>1, <2>2, <2>3, <2>4 DEF I!ProviderSets, I!SetState, I!Prov, I!Provider
  <2>5. CASE I!ProviderTells
    BY <2>1, <2>2, <2>3, <2>5 DEF I!ProviderTells, I!TellMachine, I!Prov, I!Provider
  <2>6. QED
    BY <1>14, <2>4, <2>5
<1>15. QED
  BY <1>1, <1>2, <1>3, <1>4, <1>5, <1>6, <1>7, <1>8, <1>9, <1>10, <1>11, <1>12, <1>13, <1>14
  DEF I!InputsNext, I!ProviderNext, I!PollerNext
-----------------------------------------------------------------------------
(* The light meter's buffer: until the last slot has been written once, the *)
(* elements lie from the tail to the head, in slots that were written.      *)
BufferInv ==
  /\ buffer \in A!Buf!Buffers
  /\ \/ \A i \in A!Buf!Slots : buffer.slots[i] # A!Error
     \/ /\ buffer.head = buffer.tail + buffer.size
        /\ \A i \in A!Buf!Slots : i < buffer.head => buffer.slots[i] # A!Error

LEMMA BufferFacts ==
  ASSUME BufferInv
  PROVE  /\ A!Buf!Slots = 0..(MaxSize - 1) /\ MaxSize \in Nat \ {0}
         /\ buffer.slots \in [A!Buf!Slots -> Readings \cup {0, A!Error}]
         /\ buffer.head \in A!Buf!Slots /\ buffer.tail \in A!Buf!Slots /\ buffer.size \in 0..MaxSize
BY ChainAssumption DEF BufferInv, A!Buf!Buffers, A!Buf!Slots

LEMMA NextSlot ==
  ASSUME NEW i \in A!Buf!Slots
  PROVE  /\ A!Buf!Following(i) \in A!Buf!Slots
         /\ i + 1 < MaxSize => A!Buf!Following(i) = i + 1
         /\ ~(i + 1 < MaxSize) => i = MaxSize - 1
BY ChainAssumption DEF A!Buf!Following, A!Buf!Slots

LEMMA BufferTakes ==
  ASSUME BufferInv, NEW v \in Readings \cup {0}, buffer' = A!Buf!Put(buffer, v)
  PROVE  BufferInv'
<1> DEFINE b == buffer
<1>1. /\ A!Buf!Slots = 0..(MaxSize - 1) /\ MaxSize \in Nat \ {0}
      /\ b.slots \in [A!Buf!Slots -> Readings \cup {0, A!Error}]
      /\ b.head \in A!Buf!Slots /\ b.tail \in A!Buf!Slots /\ b.size \in 0..MaxSize
  BY BufferFacts
<1>2. CASE A!Buf!IsFull(b)
  BY <1>2 DEF A!Buf!Put, BufferInv
<1>3. CASE ~A!Buf!IsFull(b)
  <2>1. /\ b'.slots = [b.slots EXCEPT ![b.head] = v] /\ b'.head = A!Buf!Following(b.head)
        /\ b'.tail \in {A!Buf!Following(b.tail), b.tail}
        /\ (b'.tail # b.tail => A!Buf!Following(b.head) = b.tail)
        /\ b'.size = b.size + 1 /\ DOMAIN b' = {"slots", "head", "tail", "size"}
        /\ b' = [slots |-> b'.slots, head |-> b'.head, tail |-> b'.tail, size |-> b'.size]
    BY <1>3 DEF A!Buf!Put
  <2>2. v # A!Error /\ v \in Readings \cup {0, A!Error}
    BY ChainAssumption DEF A!Error
  <2>3. b'.slots \in [A!Buf!Slots -> Readings \cup {0, A!Error}]
    BY <1>1, <2>1, <2>2
  <2>4. b'.head \in A!Buf!Slots /\ b'.tail \in A!Buf!Slots
    BY <1>1, <2>1, NextSlot
  <2>5. b.size # MaxSize /\ b'.size \in 0..MaxSize
    BY <1>1, <1>3, <2>1 DEF A!Buf!IsFull
  <2>6. b' \in A!Buf!Buffers
    BY <2>1, <2>3, <2>4, <2>5 DEF A!Buf!Buffers
  <2>7. \A i \in A!Buf!Slots : b'.slots[i] = IF i = b.head THEN v ELSE b.slots[i]
    BY <1>1, <2>1
  <2>8. CASE \A i \in A!Buf!Slots : b.slots[i] # A!Error
    BY <2>2, <2>6, <2>7, <2>8 DEF BufferInv
  <2>9. CASE /\ b.head = b.tail + b.size
             /\ \A i \in A!Buf!Slots : i < b.head => b.slots[i] # A!Error
    <3>1. CASE b.head + 1 < MaxSize
      <4>1. b'.head = b.head + 1 /\ b'.tail = b.tail
        BY <1>1, <2>1, <2>9, <3>1, NextSlot
      <4>2. b'.head = b'.tail + b'.size
        BY <1>1, <2>1, <2>9, <4>1
      <4>3. \A i \in A!Buf!Slots : i < b'.head => b'.slots[i] # A!Error
        BY <1>1, <2>2, <2>7, <2>9, <4>1
      <4>4. QED
        BY <2>6, <4>2, <4>3 DEF BufferInv
    <3>2. CASE ~(b.head + 1 < MaxSize)
      <4>1. b.head = MaxSize - 1
        BY <1>1, <3>2, NextSlot
      <4>2. \A i \in A!Buf!Slots : i = b.head \/ i < b.head
        BY <1>1, <4>1
      <4>3. \A i \in A!Buf!Slots : b'.slots[i] # A!Error
        BY <2>2, <2>7, <2>9, <4>2
      <4>4. QED
        BY <2>6, <4>3 DEF BufferInv
    <3>3. QED
      BY <3>1, <3>2
  <2>10. QED
    BY <2>8, <2>9 DEF BufferInv
<1>4. QED
  BY <1>2, <1>3

LEMMA BufferGives ==
  ASSUME BufferInv, ~A!Buf!IsEmpty(buffer), buffer' = A!Buf!Get(buffer)
  PROVE  BufferInv' /\ A!Buf!Got(buffer) \in Readings \cup {0}
<1> DEFINE b == buffer
<1>1. /\ A!Buf!Slots = 0..(MaxSize - 1) /\ MaxSize \in Nat \ {0}
      /\ b.slots \in [A!Buf!Slots -> Readings \cup {0, A!Error}]
      /\ b.head \in A!Buf!Slots /\ b.tail \in A!Buf!Slots /\ b.size \in 0..MaxSize
  BY BufferFacts
<1>2. b.size # 0
  BY DEF A!Buf!IsEmpty
<1>3. /\ b'.slots = b.slots /\ b'.head = b.head /\ b'.tail = A!Buf!Following(b.tail)
      /\ b'.size = b.size - 1
      /\ b' = [slots |-> b'.slots, head |-> b'.head, tail |-> b'.tail, size |-> b'.size]
  BY DEF A!Buf!Get
<1>4. b'.tail \in A!Buf!Slots /\ b'.size \in 0..MaxSize
  BY <1>1, <1>2, <1>3, NextSlot
<1>5. b' \in A!Buf!Buffers
  BY <1>1, <1>3, <1>4 DEF A!Buf!Buffers
<1>6. CASE \A i \in A!Buf!Slots : b.slots[i] # A!Error
  <2>1. A!Buf!Got(b) \in Readings \cup {0}
    BY <1>1, <1>6 DEF A!Buf!Got
  <2>2. QED
    BY <1>3, <1>5, <1>6, <2>1 DEF BufferInv
<1>7. CASE /\ b.head = b.tail + b.size
           /\ \A i \in A!Buf!Slots : i < b.head => b.slots[i] # A!Error
  <2>1. b.tail < b.head /\ b.tail + 1 < MaxSize
    BY <1>1, <1>2, <1>7
  <2>2. b'.tail = b.tail + 1
    BY <1>1, <1>3, <2>1, NextSlot
  <2>3. b'.head = b'.tail + b'.size
    <3>1. b.tail \in Int /\ b.size \in Int
      BY <1>1
    <3>2. b'.tail + b'.size = b.tail + b.size
      BY <1>3, <2>2, <3>1
    <3>3. QED
      BY <1>3, <1>7, <3>2
  <2>4. A!Buf!Got(b) \in Readings \cup {0}
    BY <1>1, <1>7, <2>1 DEF A!Buf!Got
  <2>5. QED
    BY <1>3, <1>5, <1>7, <2>3, <2>4 DEF BufferInv
<1>8. QED
  BY <1>6, <1>7 DEF BufferInv
-----------------------------------------------------------------------------
(* The filter of the dust sensor: partial sums do not fall, so that those   *)
(* of the window that moves are the old ones less the value that leaves.    *)
LEMMA SumsGrow ==
  ASSUME NEW n \in Nat, NEW s \in [1..n -> Nat], NEW c \in Nat, NEW f \in [0..n -> 0..c],
         \A i \in 1..n : f[i] = f[i - 1] + s[i]
  PROVE  \A i \in 1..n : f[1] <= f[i]
<1>1. \A i \in 0..n : f[i] \in Nat
  OBVIOUS
<1>2. \A i \in 1..n : i \in 0..n /\ i - 1 \in 0..n /\ s[i] \in Nat
  OBVIOUS
<1> DEFINE S == {i \in 1..n : ~(f[1] <= f[i])}
<1>3. SUFFICES ASSUME S # {} PROVE FALSE
  OBVIOUS
<1>4. PICK k \in S : \A i \in S : k <= i
  <2>1. S \subseteq Nat
    OBVIOUS
  <2> HIDE DEF S
  <2>2. QED
    BY <1>3, <2>1, LeastNatural
<1>5. k \in 1..n /\ ~(f[1] <= f[k])
  OBVIOUS
<1>6. 1 \in 1..n /\ f[1] \in Nat /\ k # 1
  BY <1>1, <1>2, <1>5
<1>7. k - 1 \in 1..n /\ ~(k <= k - 1)
  BY <1>5, <1>6
<1>8. f[1] <= f[k - 1]
  BY <1>4, <1>7
<1>9. f[k] = f[k - 1] + s[k] /\ f[k] \in Nat /\ f[k - 1] \in Nat /\ s[k] \in Nat
  BY <1>1, <1>2, <1>5
<1>10. \A a, b, x \in Nat : a <= b => a <= b + x
  OBVIOUS
<1>11. f[1] <= f[k]
  <2> HIDE DEF S
  <2>1. f[1] <= f[k - 1] + s[k]
    BY <1>6, <1>8, <1>9, <1>10, Zenon
  <2>2. QED
    BY <1>9, <2>1, Zenon
<1>12. QED
  BY <1>5, <1>11

LEMMA FirstSum ==
  ASSUME NEW m \in Nat, NEW n \in Nat
  PROVE  A!AddsUpTo([i \in 1..n |-> m], n * m)
<1> DEFINE s == [i \in 1..n |-> m]
           g == [i \in 0..n |-> i * m]
<1>1. Len(s) = n
  BY FunctionIsSeq
<1>2. \A i \in 0..n : i * m \in 0..(n * m)
  OBVIOUS
<1>3. \A i \in 1..n : i * m = (i - 1) * m + m
  OBVIOUS
<1>4. g \in [0..n -> 0..(n * m)] /\ g[0] = 0 /\ g[n] = n * m
  BY <1>2
<1>5. \A i \in 1..n : g[i] = g[i - 1] + s[i]
  BY <1>3
<1>6. QED
  <2> HIDE DEF g, s
  <2>1. A!AddsUpTo(s, n * m)
    BY <1>1, <1>4, <1>5 DEF A!AddsUpTo
  <2>2. QED
    BY <2>1 DEF s

LEMMA MovedSum ==
  ASSUME NEW n \in Nat \ {0}, NEW s \in [1..n -> Nat], NEW c \in Nat, A!AddsUpTo(s, c),
         NEW m \in Nat
  PROVE  /\ c - Head(s) + m \in Nat
         /\ A!AddsUpTo(Append(Tail(s), m), c - Head(s) + m)
<1>1. s \in Seq(Nat) /\ Len(s) = n /\ s # <<>> /\ Head(s) = s[1] /\ s[1] \in Nat
  BY FunctionIsSeq, EmptySeq
<1>2. PICK f \in [0..n -> 0..c] :
         f[0] = 0 /\ f[n] = c /\ \A i \in 1..n : f[i] = f[i - 1] + s[i]
  BY <1>1 DEF A!AddsUpTo
<1> DEFINE t == Append(Tail(s), m)
           d == c - s[1] + m
           g == [i \in 0..n |-> IF i = n THEN d ELSE f[i + 1] - f[1]]
<1>t. (\A i \in 0..n : f[i] \in Nat /\ f[i] <= c) /\ \A i \in 1..n : s[i] \in Nat
  OBVIOUS
<1>3. f[1] = s[1] /\ f[1] \in 0..c /\ d \in Nat /\ c - f[1] <= d
  <2>1. 1 \in 1..n /\ 0 \in 0..n /\ 1 \in 0..n /\ 1 - 1 = 0
    OBVIOUS
  <2>2. f[1] = f[1 - 1] + s[1]
    BY <1>2, <2>1
  <2>3. f[1] = s[1] /\ f[1] \in Nat /\ f[1] <= c
    BY <1>1, <1>2, <1>t, <2>1, <2>2
  <2>4. QED
    BY <2>3
<1>4. \A i \in 1..n : f[1] <= f[i]
  BY <1>2, SumsGrow
<1>5. Len(t) = n /\ \A i \in 1..n : t[i] = IF i = n THEN m ELSE s[i + 1]
  <2>1. Tail(s) \in Seq(Nat) /\ Len(Tail(s)) = n - 1
        /\ \A i \in 1..(n - 1) : Tail(s)[i] = s[i + 1]
    BY <1>1, HeadTailProperties
  <2>2. QED
    BY <2>1, AppendProperties
<1>6. ASSUME NEW i \in 0..(n - 1) PROVE f[i + 1] - f[1] \in 0..d
  <2>1. i + 1 \in 1..n /\ i + 1 \in 0..n
    OBVIOUS
  <2>2. f[i + 1] \in Nat /\ f[i + 1] <= c /\ f[1] <= f[i + 1]
    BY <2>1, <1>t, <1>4
  <2> HIDE DEF d
  <2>3. QED
    BY <2>2, <1>3
<1>7. g \in [0..n -> 0..d] /\ g[n] = d
  BY <1>3, <1>6
<1>8. g[0] = 0
  BY <1>3
<1>9. ASSUME NEW i \in 1..n PROVE g[i] = g[i - 1] + t[i]
  <2>1. g[i - 1] = f[i] - f[1]
    OBVIOUS
  <2>2. CASE i = n
    BY <1>2, <1>3, <1>5, <2>1, <2>2
  <2>3. CASE i # n
    <3>1. g[i] = f[i + 1] - f[1] /\ t[i] = s[i + 1] /\ i + 1 \in 1..n
      BY <1>5, <2>3
    <3>2. f[i + 1] = f[i] + s[i + 1]
      BY <1>2, <3>1
    <3> HIDE DEF t, d, g
    <3>3. i \in 0..n /\ f[1] \in Nat
      BY <1>3
    <3>4. f[i] \in Nat /\ s[i + 1] \in Nat
      BY <1>t, <3>1, <3>3
    <3>5. \A x, y, z \in Nat : (x + z) - y = (x - y) + z
      OBVIOUS
    <3>6. g[i] = (f[i] - f[1]) + s[i + 1]
      BY <3>1, <3>2, <3>3, <3>4, <3>5
    <3>7. QED
      BY <2>1, <3>1, <3>6
  <2>4. QED
    BY <2>2, <2>3
<1>10. A!AddsUpTo(t, d)
  <2> HIDE DEF t, d, g
  <2>1. QED
    BY <1>5, <1>7, <1>8, <1>9 DEF A!AddsUpTo
<1>11. QED
  BY <1>1, <1>3, <1>10
-----------------------------------------------------------------------------
(* The converter and its receivers: what is read is delivered, the dust     *)
(* sensor is switched on in the conversion of its own input only, and what  *)
(* the machine was told is what the meter remembers.                        *)
Converting == worker \in {"convert", "deliver"}

RoundOfInputs ==
  /\ active \subseteq Channels /\ receiver \subseteq Channels /\ at \subseteq Channels
  /\ selected \in BOOLEAN /\ dozed \in BOOLEAN /\ unwoken \in BOOLEAN
  /\ value \in Readings \cup {0, A!Error}
  /\ worker = "deliver" => value # A!Error
  /\ worker = "read" \/ Converting => selected
  /\ Converting => at # {}
  /\ fan = IF worker = "convert" THEN {A!Input} \ {LightInput} ELSE {}

WhatIsKept ==
  /\ data \in [Channels -> Readings \cup {0}]
  /\ window = <<>> \/ window \in [1..Window -> Readings]
  /\ sum \in Nat /\ A!SumOfWindow

WhatIsTold == previous \in Readings \cup {0} /\ notified \in {0, previous}

ChainInv == RoundOfInputs /\ WhatIsKept /\ WhatIsTold /\ BufferInv

LEMMA InitChain == Init => ChainInv
<1> SUFFICES ASSUME Init PROVE ChainInv
  OBVIOUS
<1>1. worker = "none" /\ A!AnalogInit
  BY DEF Init, ThreadInit
<1>2. RoundOfInputs
  BY <1>1 DEF A!AnalogInit, RoundOfInputs, Converting
<1>3. A!AddsUpTo(<<>>, 0)
  <2> DEFINE f == [i \in 0..0 |-> 0]
  <2>1. Len(<<>>) = 0
    BY EmptySeq
  <2>2. f \in [0..0 -> 0..0] /\ f[0] = 0
    OBVIOUS
  <2> HIDE DEF f
  <2>3. QED
    BY <2>1, <2>2 DEF A!AddsUpTo
<1>4. WhatIsKept /\ WhatIsTold
  BY <1>1, <1>3 DEF A!AnalogInit, WhatIsKept, WhatIsTold, A!SumOfWindow
<1>5. BufferInv
  BY <1>1, ChainAssumption DEF A!AnalogInit, BufferInv, A!Buf!NewBuffer, A!Buf!Buffers, A!Buf!Slots
<1>6. QED
  BY <1>2, <1>4, <1>5 DEF ChainInv

(* The input that is converted.                                             *)
LEMMA InputOfRound ==
  ASSUME ChainInv, at # {}
  PROVE  A!Input \in at /\ A!Input \in Channels
<1>1. at \subseteq Nat /\ at \subseteq Channels
  BY ChainAssumption DEF ChainInv, RoundOfInputs
<1>2. QED
  BY <1>1, MinOfNaturals DEF A!Input

LEMMA RoundStep ==
  ASSUME ChainInv, A!AnalogNext
  PROVE  RoundOfInputs'
<1> USE DEF ChainInv, RoundOfInputs, Converting
<1>1. ASSUME NEW i \in Channels, A!AddReceiver(i) \/ A!GetData(i) PROVE RoundOfInputs'
  <2>1. /\ UNCHANGED <<at, selected, value, fan, worker, dozed>> /\ A!Input' = A!Input
        /\ active' \subseteq Channels /\ receiver' \subseteq Channels /\ unwoken' \in BOOLEAN
    BY <1>1 DEF A!AddReceiver, A!GetData, A!chipVars, A!threadVars, A!Input
  <2>2. QED
    BY <2>1
<1>2. CASE A!Initialize \/ A!StopCall
  BY <1>2 DEF A!Initialize, A!Start, A!StopCall, A!Tell, A!analogVars, A!Input
<1>3. CASE A!StopJoin \/ A!Wakeup
  BY <1>3 DEF A!StopJoin, A!Join, A!Wakeup, A!SpuriousWakeup, A!analogVars, A!Input
<1>4. CASE A!InitializeMeter \/ A!Deactivate
  BY <1>4, ChainAssumption DEF A!InitializeMeter, A!Deactivate, A!chipVars, A!threadVars, A!Input
<1>5. CASE A!Activate
  BY <1>5, ChainAssumption DEF A!Activate, A!Notify, A!chipVars, A!Input
<1>6. CASE A!StopMeter \/ A!JoinMeter \/ A!MeterWakeup \/ A!WaitForData
  BY <1>6 DEF A!StopMeter, A!JoinMeter, A!MeterWakeup, A!WaitForData, A!MeterOnly, A!chipVars,
     A!threadVars, A!Input
<1>7. CASE A!Take
  BY <1>7 DEF A!Take, A!MeterStep, A!chipVars, A!threadVars, A!Input
<1>8. CASE A!WaitForAgents
  BY <1>8 DEF A!WaitForAgents, A!Wait, A!Loop, A!Check, A!Sleep, A!analogVars, A!Input
<1>9. CASE A!SelectChannel \/ A!StartRound
  BY <1>9 DEF A!SelectChannel, A!StartRound, A!Chip, A!chipVars, A!Input
<1>10. CASE A!SkipInput \/ A!EndRound
  BY <1>10 DEF A!SkipInput, A!EndRound, A!Chip
<1>11. CASE A!Before
  <2>1. A!Input' = A!Input
    BY <1>11 DEF A!Before, A!Input
  <2>2. A!Input \in Channels
    BY <1>11, InputOfRound DEF A!Before
  <2>3. QED
    BY <1>11, <2>1, <2>2 DEF A!Before, A!Chip
<1>12. CASE A!Convert
  <2>1. \A v \in Readings \cup {0} : v # A!Error
    BY ChainAssumption DEF A!Error
  <2>2. QED
    BY <1>12, <2>1 DEF A!Convert, A!Chip
<1>13. CASE A!Deliver
  BY <1>13 DEF A!Deliver, A!Chip
<1>14. QED
  BY <1>1, <1>2, <1>3, <1>4, <1>5, <1>6, <1>7, <1>8, <1>9, <1>10, <1>11, <1>12, <1>13
  DEF A!AnalogNext, A!ChipNext, A!MeterNext

(* What an action leaves alone.                                             *)
LEMMA KeptStays ==
  ASSUME WhatIsKept, UNCHANGED <<data, window, sum>>
  PROVE  WhatIsKept'
BY DEF WhatIsKept, A!SumOfWindow, A!AddsUpTo

LEMMA ToldStays ==
  ASSUME WhatIsTold, BufferInv, UNCHANGED <<previous, notified, buffer>>
  PROVE  WhatIsTold' /\ BufferInv'
BY DEF WhatIsTold, BufferInv

LEMMA FilterStep ==
  ASSUME ChainInv, NEW i \in Channels, A!GetData(i)
  PROVE  WhatIsKept'
<1> DEFINE m == data[i]
<1>1. m \in Readings /\ m \in Nat /\ Window \in Nat \ {0} /\ data' = data
  BY ChainAssumption DEF A!GetData, ChainInv, WhatIsKept
<1>2. window' = A!Filter(m)[1] /\ sum' = A!Filter(m)[2]
  BY DEF A!GetData
<1> HIDE DEF m
<1>3. CASE window = <<>>
  <2>1. window' = [k \in 1..Window |-> m] /\ sum' = Window * m
    BY <1>2, <1>3 DEF A!Filter
  <2>2. A!AddsUpTo(window', sum')
    BY <1>1, <2>1, FirstSum
  <2>3. sum' \in Nat
    BY <1>1, <2>1
  <2>4. window' \in [1..Window -> Readings]
    BY <1>1, <2>1
  <2>5. QED
    BY <1>1, <2>2, <2>3, <2>4 DEF ChainInv, WhatIsKept, A!SumOfWindow, A!AddsUpTo
<1>4. CASE window # <<>>
  <2>1. window' = Append(Tail(window), m) /\ sum' = sum - Head(window) + m
    BY <1>2, <1>4 DEF A!Filter
  <2>2. window \in [1..Window -> Readings] /\ window \in [1..Window -> Nat] /\ sum \in Nat
        /\ A!AddsUpTo(window, sum)
    BY <1>4, ChainAssumption DEF ChainInv, WhatIsKept, A!SumOfWindow
  <2>3. sum' \in Nat /\ A!AddsUpTo(window', sum')
    BY <1>1, <2>1, <2>2, MovedSum
  <2>4. window' \in [1..Window -> Readings]
    <3>1. window \in Seq(Readings) /\ Len(window) = Window
      BY <1>1, <2>2, FunctionIsSeq
    <3>2. Tail(window) \in Seq(Readings) /\ Len(Tail(window)) = Window - 1
      BY <1>4, <3>1, HeadTailProperties
    <3>3. window' \in Seq(Readings) /\ Len(window') = Window
      BY <1>1, <2>1, <3>2, AppendProperties
    <3>4. QED
      BY <3>3, LenProperties
  <2>5. QED
    BY <1>1, <2>3, <2>4 DEF ChainInv, WhatIsKept, A!SumOfWindow, A!AddsUpTo
<1>5. QED
  BY <1>3, <1>4

LEMMA TakeStep ==
  ASSUME ChainInv, A!Take
  PROVE  WhatIsTold' /\ BufferInv' /\ A!EventsChain
<1>1. CASE UNCHANGED <<buffer, previous, notified>>
  BY <1>1, ToldStays DEF ChainInv, A!EventsChain
<1>2. CASE ~A!Buf!IsEmpty(buffer) /\ buffer' = A!Buf!Get(buffer)
  <2>1. BufferInv' /\ A!Buf!Got(buffer) \in Readings \cup {0}
    BY <1>2, BufferGives DEF ChainInv
  <2>2. \/ previous = 0 /\ previous' = A!Buf!Got(buffer) /\ notified' = notified
        \/ previous' = A!Buf!Got(buffer) /\ notified' = A!Buf!Got(buffer)
        \/ UNCHANGED <<previous, notified>>
    BY <1>2 DEF A!Take, A!Present
  <2>3. QED
    BY <2>1, <2>2 DEF ChainInv, WhatIsTold, A!EventsChain
<1>3. QED
  BY <1>1, <1>2 DEF A!Take, A!Present

LEMMA ChainStep ==
  ASSUME ChainInv, A!AnalogNext
  PROVE  ChainInv' /\ A!EventsChain
<1>1. RoundOfInputs'
  BY RoundStep
<1>2. CASE A!Take
  <2>1. UNCHANGED <<data, window, sum>>
    BY <1>2 DEF A!Take, A!MeterStep
  <2>2. QED
    BY <1>1, <1>2, <2>1, TakeStep, KeptStays DEF ChainInv
<1>3. CASE A!Deliver
  <2>1. UNCHANGED <<previous, notified, window, sum>> /\ worker = "deliver"
    BY <1>3 DEF A!Deliver, A!Chip
  <2>2. value \in Readings \cup {0}
    BY <2>1 DEF ChainInv, RoundOfInputs
  <2>3. BufferInv'
    <3>1. CASE buffer' = A!Buf!Put(buffer, value)
      BY <2>2, <3>1, BufferTakes DEF ChainInv
    <3>2. CASE buffer' = buffer
      BY <3>2 DEF ChainInv, BufferInv
    <3>3. QED
      BY <1>3, <3>1, <3>2 DEF A!Deliver
  <2>4. data' \in [Channels -> Readings \cup {0}]
    BY <1>3, <2>2 DEF A!Deliver, ChainInv, WhatIsKept
  <2>5. WhatIsKept' /\ WhatIsTold' /\ A!EventsChain
    BY <2>1, <2>4 DEF ChainInv, WhatIsKept, WhatIsTold, A!SumOfWindow, A!AddsUpTo, A!EventsChain
  <2>6. QED
    BY <1>1, <2>3, <2>5 DEF ChainInv
<1>4. ASSUME NEW i \in Channels, A!GetData(i) PROVE ChainInv' /\ A!EventsChain
  <2>1. UNCHANGED <<previous, notified, buffer>>
    BY <1>4 DEF A!GetData, A!lightVars
  <2>2. QED
    BY <1>1, <1>4, <2>1, FilterStep, ToldStays DEF ChainInv, A!EventsChain
<1>5. CASE UNCHANGED <<previous, notified, buffer, data, window, sum>>
  BY <1>1, <1>5, KeptStays, ToldStays DEF ChainInv, A!EventsChain
<1>6. CASE (\E i \in Channels : A!AddReceiver(i)) \/ A!InitializeMeter \/ A!Activate \/ A!Deactivate
  BY <1>5, <1>6 DEF A!AddReceiver, A!InitializeMeter, A!Activate, A!Deactivate, A!lightVars
<1>7. CASE A!Initialize \/ A!StopCall \/ A!StopJoin \/ A!Wakeup \/ A!WaitForAgents
  BY <1>5, <1>7 DEF A!Initialize, A!StopCall, A!StopJoin, A!Wakeup, A!WaitForAgents, A!analogVars
<1>8. CASE A!StopMeter \/ A!JoinMeter \/ A!MeterWakeup \/ A!WaitForData
  BY <1>5, <1>8 DEF A!StopMeter, A!JoinMeter, A!MeterWakeup, A!WaitForData, A!MeterOnly
<1>9. CASE A!SelectChannel \/ A!StartRound \/ A!SkipInput
  BY <1>5, <1>9 DEF A!SelectChannel, A!StartRound, A!SkipInput, A!lightVars
<1>10. CASE A!Before \/ A!Convert \/ A!EndRound
  BY <1>5, <1>10 DEF A!Before, A!Convert, A!EndRound, A!lightVars
<1>11. QED
  BY <1>2, <1>3, <1>4, <1>6, <1>7, <1>8, <1>9, <1>10 DEF A!AnalogNext, A!ChipNext, A!MeterNext

LEMMA ChainCorrect ==
  ASSUME ChainInv
  PROVE  A!AnalogTypeOK /\ A!SumOfWindow /\ A!LitForOwnInput
<1>1. Converting => A!Input \in Channels
  BY InputOfRound DEF ChainInv, RoundOfInputs
<1>2. fan \subseteq Channels \ {LightInput}
  BY <1>1 DEF ChainInv, RoundOfInputs, Converting
<1>3. A!AnalogTypeOK
  BY <1>2 DEF A!AnalogTypeOK, ChainInv, RoundOfInputs, WhatIsKept, WhatIsTold
<1>4. A!SumOfWindow /\ A!LitForOwnInput
  BY DEF ChainInv, WhatIsKept, RoundOfInputs, Converting, A!LitForOwnInput
<1>5. QED
  BY <1>3, <1>4
-----------------------------------------------------------------------------
(* Each kind of item has its invariant; the figures of the others stay as   *)
(* they were, with nothing reported.                                        *)
FiguresInv ==
  /\ kind \in Kinds
  /\ IF kind = "strip" THEN StripInv ELSE told_last = {}
  /\ IF kind = "blinker" THEN BlinkInv ELSE ended = <<>>
  /\ kind = "inputs" => InputsInv
  /\ kind \in {"light", "dust"} => ChainInv

LEMMA InitFigures == Init => FiguresInv
BY InitStrip, InitBlink, InitInputs, InitChain DEF FiguresInv, Init

(* A step that changes nothing keeps every one of them.                     *)
LEMMA FiguresStay ==
  ASSUME FiguresInv, UNCHANGED vars
  PROVE  FiguresInv'
<1>0. UNCHANGED <<kind, threadVars, stripVars, blinkerVars, inputsVars, chainVars>>
  BY DEF vars
<1>1. kind = "strip" => StripInv'
  <2>1. StripInv => StripInv'
    BY <1>0 DEF threadVars, stripVars, StripInv, StripsInv, TooLong, MisfitInv, ListType, OrderInv,
                InList, DoneTo
  <2>2. QED
    BY <2>1 DEF FiguresInv
<1>2. kind = "blinker" => BlinkInv'
  <2>1. BlinkInv => BlinkInv'
    BY <1>0 DEF threadVars, blinkerVars, BlinkInv, B!BlinkTypeOK, RoundInv, InRound, B!RoundComplete
  <2>2. QED
    BY <2>1 DEF FiguresInv
<1>3. kind = "inputs" => InputsInv'
  <2>1. InputsInv => InputsInv'
    BY <1>0 DEF threadVars, inputsVars, InputsInv, I!InputsTypeOK
  <2>2. QED
    BY <2>1 DEF FiguresInv
<1>4. kind \in {"light", "dust"} => ChainInv'
  <2>1. RoundOfInputs => RoundOfInputs'
    BY <1>0 DEF threadVars, chainVars, RoundOfInputs, Converting, A!Input
  <2>2. ChainInv => ChainInv'
    BY <1>0, <2>1, KeptStays, ToldStays DEF chainVars, ChainInv
  <2>3. QED
    BY <2>2 DEF FiguresInv
<1>5. QED
  BY <1>0, <1>1, <1>2, <1>3, <1>4 DEF FiguresInv, stripVars, blinkerVars

LEMMA FiguresStep == FiguresInv /\ [Next]_vars => FiguresInv' /\ [A!EventsChain]_vars
<1> SUFFICES ASSUME FiguresInv, [Next]_vars PROVE FiguresInv' /\ [A!EventsChain]_vars
  OBVIOUS
<1>1. CASE StripOnly /\ L!LedNext
  <2>1. StripInv'
    BY <1>1, StripsStep, ListStep, MisfitStep, OrderStep DEF FiguresInv, StripOnly, StripInv
  <2>2. UNCHANGED <<kind, ended, notified>>
    BY <1>1 DEF StripOnly, blinkerVars, chainVars
  <2>3. QED
    BY <1>1, <2>1, <2>2 DEF FiguresInv, StripOnly, A!EventsChain
<1>2. CASE BlinkerOnly /\ B!BlinkNext
  <2>1. BlinkInv'
    BY <1>2, BlinkType, BlinkRound DEF FiguresInv, BlinkerOnly, BlinkInv
  <2>2. UNCHANGED <<kind, told_last, notified>>
    BY <1>2 DEF BlinkerOnly, stripVars, chainVars
  <2>3. QED
    BY <1>2, <2>1, <2>2 DEF FiguresInv, BlinkerOnly, A!EventsChain
<1>3. CASE InputsOnly /\ I!InputsNext
  <2>1. InputsInv'
    BY <1>3, InputsStep DEF FiguresInv, InputsOnly
  <2>2. UNCHANGED <<kind, told_last, ended, notified>>
    BY <1>3 DEF InputsOnly, stripVars, blinkerVars, chainVars
  <2>3. QED
    BY <1>3, <2>1, <2>2 DEF FiguresInv, InputsOnly, A!EventsChain
<1>4. CASE (ChainOnly("light") \/ ChainOnly("dust")) /\ A!AnalogNext
  <2>1. ChainInv' /\ A!EventsChain
    BY <1>4, ChainStep DEF FiguresInv, ChainOnly
  <2>2. UNCHANGED <<kind, told_last, ended>>
    BY <1>4 DEF ChainOnly, stripVars, blinkerVars
  <2>3. QED
    BY <1>4, <2>1, <2>2 DEF FiguresInv, ChainOnly
<1>5. CASE UNCHANGED vars
  BY <1>5, FiguresStay
<1>6. QED
  BY <1>1, <1>2, <1>3, <1>4, <1>5 DEF Next

(* The figures of every item are of their types and agree: SLedCtrl::refresh *)
(* writes past its buffer only with a strip that is too long and was added   *)
(* after the buffer was allocated, and a transformation past its strip only  *)
(* where a group of colours does not start at the first LED or a colour      *)
(* starts behind the last; the sum of the dust sensor's filter is that of    *)
(* its window, and its LED is lit for its own conversion.                    *)
THEOREM FiguresCorrect == Spec => []FiguresAgree
<1>1. FiguresInv => FiguresAgree
  <2> SUFFICES ASSUME FiguresInv PROVE FiguresAgree
    OBVIOUS
  <2>1. kind \in {"strip", "blinker", "inputs", "light", "dust"}
    BY KindsAssumption DEF FiguresInv
  <2>2. kind = "strip" => L!LedTypeOK /\ L!WritesFit
    BY StripCorrect DEF FiguresInv
  <2>3. kind = "blinker" => B!BlinkTypeOK
    BY DEF FiguresInv, BlinkInv
  <2>4. kind = "inputs" => I!InputsTypeOK
    BY DEF FiguresInv, InputsInv
  <2>5. kind \in {"light", "dust"} => A!AnalogTypeOK /\ A!SumOfWindow /\ A!LitForOwnInput
    BY ChainCorrect DEF FiguresInv
  <2>6. TypeOK
    BY <2>1, <2>2, <2>3, <2>4, <2>5 DEF TypeOK
  <2>7. QED
    BY <2>2, <2>5, <2>6 DEF FiguresAgree
<1>2. QED
  BY <1>1, InitFigures, FiguresStep, PTL DEF Spec

(* What a thread tells the state machine is so: LAST_OP of SLedCtrl after   *)
(* all that is before it in the list, GN_DONE of Blinking after as many     *)
(* blinks as were set, and the value of AnalogLightMeter as a change from   *)
(* the value it told before.                                                *)
THEOREM ReportsCorrect == Spec => ReportsAreTrue
<1>1. FiguresInv => L!LastAfterAll /\ B!RoundComplete
  <2>1. FiguresInv => L!LastAfterAll
    BY StripCorrect DEF FiguresInv, L!LastAfterAll
  <2>2. FiguresInv => B!RoundComplete
    BY DEF FiguresInv, BlinkInv, RoundInv, B!RoundComplete
  <2>3. QED
    BY <2>1, <2>2
<1>2. QED
  BY <1>1, InitFigures, FiguresStep, PTL DEF Spec, ReportsAreTrue
=============================================================================

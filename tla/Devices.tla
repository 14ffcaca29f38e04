------------------------------ MODULE Devices ------------------------------
(***************************************************************************)
(* The items with a thread of their own, one of them in a behaviour: what  *)
(* kind it is is chosen at the start, and the variables of the others      *)
(* stay as they are.                                                       *)
(***************************************************************************)
EXTENDS Integers, Sequences, FiniteSets, Threaded

CONSTANTS
  Kinds,        (* of items                                                *)
  Offers, Lengths, MaxSleds, MaxMade,                    (* LedStrip       *)
  Ten, Settings, LoopDelay, Long, Wide, LedStart, MaxShown,  (* Blinker    *)
  Pins, Edges, MaxChanges,                               (* Inputs         *)
  Channels, LightInput, Readings, Diff, MaxSize, Window  (* AnalogChain    *)

ASSUME KindsAssumption == Kinds \subseteq {"strip", "blinker", "inputs", "light", "dust"}

(* A configuration is finite; every transformation is one that the code     *)
(* knows, with a count that may be negative for one without an end, and     *)
(* colours and sizes that are unsigned. A strip has LEDs.                   *)
ASSUME StripAssumption ==
  /\ Lengths \subseteq Nat \ {0} /\ IsFiniteSet(Lengths)
  /\ MaxSleds \in Nat /\ MaxMade \in Nat
  /\ \A t \in Offers :
       /\ t.op \in {"off", "right", "left", "group", "colour", "last"} /\ t.times \in Int
       /\ t.colours \in Seq(Nat) /\ t.colours # <<>>
       /\ t.repeat \in Int /\ t.first \in Nat /\ t.leds \in Nat

(* Intervals are unsigned; MaxShown is more than any blinker is set to.     *)
ASSUME BlinkerAssumption ==
  /\ Ten \in Nat \ {0} /\ Wide \in Nat \ {0} /\ LoopDelay \in Nat /\ Long \in Nat
  /\ LedStart \in BOOLEAN /\ MaxShown \in Nat /\ Ten < MaxShown
  /\ \A s \in Settings :
       /\ s.on \in 0..(Wide - 1) /\ s.off \in 0..(Wide - 1)
       /\ s.blinks \in Nat /\ s.blinks < MaxShown

ASSUME InputsAssumption ==
  /\ Pins \subseteq Nat \ {0} /\ "none" \in Edges /\ MaxChanges \in Nat

(* A reading of 0 is none.                                                  *)
ASSUME ChainAssumption ==
  /\ Channels \subseteq Nat /\ LightInput \in Channels
  /\ Readings \subseteq Nat \ {0} /\ Diff \in Nat
  /\ MaxSize \in Nat \ {0} /\ Window \in Nat \ {0}

VARIABLES
  kind,
  strips, made, left, list, next, index, cur, strip, upto, room, channel, told_last, again, lost,
  untold, sealed, outside,
  setting, on, lit, blinks, rest, shown, ended, reset,
  linked, level, changes, edge, gpioEdge, open, event, request, found, state, heard, poller, btold,
  stopping, curr, seen,
  active, receiver, selected, at, value, fan, data, window, sum, buffer, meter, mtold, mmissed,
  mcaller, previous, notified, dozed, unwoken

L == INSTANCE LedStrip WITH at <- strip
B == INSTANCE Blinker
I == INSTANCE Inputs
A == INSTANCE AnalogChain WITH Inputs <- Channels

stripVars == <<strips, made, left, list, next, index, cur, strip, upto, room, channel, told_last,
               again, lost, untold, sealed, outside>>
blinkerVars == <<setting, on, lit, blinks, rest, shown, ended, reset>>
inputsVars == <<linked, level, changes, edge, gpioEdge, open, event, request, found, state, heard, poller,
                btold, stopping, curr, seen>>
chainVars == <<active, receiver, selected, at, value, fan, data, window, sum, buffer, meter, mtold,
               mmissed, mcaller, previous, notified, dozed, unwoken>>
vars == <<kind, threadVars, stripVars, blinkerVars, inputsVars, chainVars>>

Init ==
  /\ kind \in Kinds
  /\ ThreadInit /\ L!LedInit /\ B!BlinkInit /\ I!InputsInit /\ A!AnalogInit
  /\ kind = "blinker" \/ setting = CHOOSE s \in Settings : TRUE
  /\ kind = "inputs" \/ linked = {}

StripOnly == kind = "strip" /\ UNCHANGED <<kind, blinkerVars, inputsVars, chainVars>>
BlinkerOnly == kind = "blinker" /\ UNCHANGED <<kind, stripVars, inputsVars, chainVars>>
InputsOnly == kind = "inputs" /\ UNCHANGED <<kind, stripVars, blinkerVars, chainVars>>
ChainOnly(k) == kind = k /\ UNCHANGED <<kind, stripVars, blinkerVars, inputsVars>>

\* The converter is stopped with the dust sensor, the light meter by itself;
\* it is the only receiver then.
Next ==
  \/ StripOnly /\ L!LedNext
  \/ BlinkerOnly /\ B!BlinkNext
  \/ InputsOnly /\ I!InputsNext
  \/ ChainOnly("light") /\ A!AnalogNext /\ caller' = "free" /\ receiver' \subseteq {LightInput}
  \/ ChainOnly("dust") /\ A!AnalogNext /\ UNCHANGED <<meter, mcaller>>

(* Threads are scheduled, and a join returns once its thread has ended;     *)
(* nothing is assumed of callers, edges and devices.                        *)
Worker ==
  \/ StripOnly /\ L!WorkerNext
  \/ BlinkerOnly /\ B!WorkerNext
  \/ InputsOnly /\ I!ProviderNext
  \/ (ChainOnly("light") \/ ChainOnly("dust")) /\ A!ChipNext
SecondWorker(p) ==
  \/ InputsOnly /\ I!PollerNext(p)
  \/ ChainOnly("light") /\ A!MeterNext
StopJoin ==
  \/ StripOnly /\ L!StopJoin
  \/ BlinkerOnly /\ B!StopJoin
  \/ InputsOnly /\ I!StopJoin
  \/ ChainOnly("dust") /\ A!StopJoin
SecondJoin == ChainOnly("light") /\ A!JoinMeter

Fairness ==
  /\ WF_vars(Worker) /\ (\A p \in Pins : WF_vars(SecondWorker(p)))
  /\ WF_vars(StopJoin) /\ WF_vars(SecondJoin)

Spec == Init /\ [][Next]_vars /\ Fairness
-----------------------------------------------------------------------------
TypeOK ==
  CASE kind = "strip" -> L!LedTypeOK
    [] kind = "blinker" -> B!BlinkTypeOK
    [] kind = "inputs" -> I!InputsTypeOK
    [] kind \in {"light", "dust"} -> A!AnalogTypeOK

(* A thread sleeps while there is work for it only when a notification fell *)
(* between its check and its sleep (none of them is made with cv_m), or     *)
(* when the call that made the work tells nobody: a transformation added,   *)
(* a receiver registered, a value queued behind others.                     *)
NoWorkLeftAsleep ==
  /\ worker = "asleep" =>
       CASE kind = "strip" -> L!Pending => missed \/ untold
         [] kind = "blinker" -> on => missed
         [] kind = "inputs" -> I!FdCount > 0 => missed
         [] kind \in {"light", "dust"} -> A!ActiveAgents # {} => missed \/ unwoken
  /\ (kind = "light" /\ meter = "asleep" /\ A!Present) => mmissed \/ dozed

(* What a thread tells the state machine is so: LAST_OP, GN_DONE, and the   *)
(* light that changed.                                                      *)
ReportsAreTrue ==
  [](L!LastAfterAll /\ B!RoundComplete) /\ [][A!EventsChain]_vars

(* The driver's own figures are in their ranges and agree: the length of    *)
(* the buffer and of what is written to it, but for a strip that was added  *)
(* too late and colours that do not start at the first LED, the sum of the  *)
(* filter and its window, the chip and the input that is converted.         *)
FiguresAgree ==
  /\ TypeOK
  /\ kind = "strip" => L!WritesFit
  /\ kind \in {"light", "dust"} => A!SumOfWindow /\ A!LitForOwnInput

(* Work that was begun ends: a transformation with a count, unless the list *)
(* is restarted or cleared, the thread is told to stop, or there is no LED  *)
(* for it; the round of a blinker that is switched off; the press that a    *)
(* button's thread sees, unless it is released again.                       *)
WorkEnds ==
  /\ \A i \in 1..MaxMade : (kind = "strip" /\ L!Applying(i)) ~> L!Done(i)
  /\ (kind = "blinker" /\ ~on) ~> (on \/ worker \in Waiting)
  /\ \A p \in Pins, b \in BOOLEAN :
       (kind = "inputs" /\ I!Sees(p, b)) ~> (state[p] = b \/ level[p] # b \/ p \in btold)

(* stop returns: the thread that it tells ends, whatever it was doing.      *)
StopEnds ==
  /\ caller = "stopping" ~> (caller = "free" \/ worker = "crashed")
  /\ mcaller = "stopping" ~> mcaller = "free"

=============================================================================

------------------------------ MODULE LedStrip ------------------------------
(***************************************************************************)
(* SLedCtrl: strips of LEDs, a list of transformations that the callers    *)
(* extend, clear and restart without a lock, and the worker that applies   *)
(* the next one to every strip and writes the strips over SPI.             *)
(***************************************************************************)
EXTENDS Integers, Sequences, SequencesExt, Threaded

CONSTANTS
  Offers,       (* the transformations callers add: records of op, times,  *)
                (* colours, repeat, first and leds                         *)
  Lengths,      (* numbers of LEDs of the strips callers may add           *)
  MaxSleds,     (* _max_sleds                                              *)
  MaxMade       (* bound: transformations made                             *)

VARIABLES
  strips,       (* _leds_data of each strip                                *)
  made, left,   (* the transformations made so far, their counters         *)
  list, next,   (* _transf as indices of made, _transf_idx (from 0)        *)
  index,        (* _transf_idx as the worker read it                       *)
  cur, at, upto,   (* the one the worker applies, the strip it is at, and  *)
                (* the last one of the loop, fixed when it begins          *)
  room,         (* length of the data buffer; -1 before it is allocated    *)
  channel,      (* the SPI channel is selected                             *)
  told_last,    (* history: the LAST_OP notified, with the list it ends    *)
  again,        (* history: restarted or cleared since cur was taken       *)
  lost,         (* history: the index of a restart was written over        *)
  untold,       (* history: added since the last restart                   *)
  sealed,       (* history: strips there when the buffer was allocated     *)
  outside       (* history: what was written past its end                  *)

ledVars == <<strips, made, left, list, next, index, cur, at, upto, room, channel, told_last,
             again, lost, untold, sealed, outside>>

LedInit ==
  /\ strips = <<>> /\ made = <<>> /\ left = <<>> /\ list = <<>> /\ next = 0
  /\ index = 0 /\ cur = 0 /\ at = 1 /\ upto = 0 /\ room = -1 /\ channel = FALSE
  /\ told_last = {} /\ again = FALSE /\ lost = FALSE /\ untold = FALSE
  /\ sealed = 0 /\ outside = {}

-----------------------------------------------------------------------------
(* the transformations of one strip, d, and their counters *)

(* Every LED moves n places towards the end; the last ones come first.      *)
Rotated(d, n) == [i \in DOMAIN d |-> d[((i - 1 - n) % Len(d)) + 1]]

(* A switch position of 1; a strip of one LED is not shifted.               *)
Shifted(d, step) == IF Len(d) > 1 THEN Rotated(d, step) ELSE d

(* How many colours are written, from first on, one after the other: as     *)
(* often as they are to be repeated if that fits, otherwise as many as the  *)
(* strip is long; at most 32. Sizes are unsigned: the end of fewer than no  *)
(* repetitions (-1 is the default) may wrap to one that fits.               *)
GroupCount(t, len) ==
  LET all == Len(t.colours) * t.repeat IN
  CASE t.repeat > 0 /\ t.first + all < len -> Min({32, all})
    [] t.repeat < 0 /\ t.first + all \in 0..(len - 1) -> 32
    [] OTHER -> Min({32, len})

(* What of it lies on the strip; neither of the two looks whether all does. *)
Grouped(t, d) ==
  [i \in DOMAIN d |->
     IF i - 1 \in t.first..(t.first + GroupCount(t, Len(d)) - 1)
     THEN t.colours[((i - 1 - t.first) % Len(t.colours)) + 1] ELSE d[i]]

Coloured(t, d) ==
  [i \in DOMAIN d |-> IF i - 1 \in t.first..(t.first + t.leds - 1) THEN t.colours[1] ELSE d[i]]

(* A group is written past the strip, or a colour that starts behind it,    *)
(* whose count, len - first, wraps.                                         *)
PastEnd(t, len) ==
  \/ t.op = "group" /\ t.first + GroupCount(t, len) > len
  \/ t.op = "colour" /\ t.leds # 0 /\ t.first > len

Transformed(t, cnt, d) ==
  CASE t.op = "off"    -> [i \in DOMAIN d |-> 0]
    [] t.op = "right"  -> IF cnt = 0 THEN d ELSE Shifted(d, 1)
    [] t.op = "left"   -> IF cnt = 0 THEN d ELSE Shifted(d, -1)
    [] t.op = "group"  -> Grouped(t, d)
    [] t.op = "colour" -> Coloured(t, d)

(* attempt; a colour for no LED is refused before it.                       *)
Attempt(t, cnt) ==
  IF cnt > 0 /\ ~(t.op = "colour" /\ t.leds = 0) THEN cnt - 1 ELSE cnt
-----------------------------------------------------------------------------
(* callers *)

(* A crash ends the program.                                               *)
Calls == caller = "free" /\ worker # "crashed"

(* Nothing of the controller is locked: a list of transformations or of     *)
(* strips that grows under the worker may end the program.                  *)
Disturb(places) ==
  \/ UNCHANGED worker
  \/ worker \in places /\ worker' = "crashed"

AddSled(len) ==
  /\ Calls /\ Len(strips) < MaxSleds
  /\ strips' = Append(strips, [i \in 1..len |-> 0])
  /\ Disturb({"apply", "refresh"})
  /\ UNCHANGED <<made, left, list, next, index, cur, at, upto, room, channel, told_last, again,
                 lost, untold, sealed, outside, told, missed, caller>>

(* _data_buff_len: what the longest strip needs.                            *)
BufferLength == 3 * Max({0} \cup {Len(strips[s]) : s \in DOMAIN strips})

(* Faulty variant: a byte for each LED.                                     *)
InitializeForLeds ==
  /\ Calls /\ Start
  /\ IF room = -1
       THEN room' = BufferLength \div 3 /\ sealed' = Len(strips)
       ELSE UNCHANGED <<room, sealed>>
  /\ UNCHANGED <<strips, made, left, list, next, index, cur, at, upto, channel, told_last, again,
                 lost, untold, outside>>

(* The buffer is allocated once, whatever strips are added later.           *)
Initialize ==
  /\ Calls /\ Start
  /\ IF room = -1
       THEN room' = BufferLength /\ sealed' = Len(strips)
       ELSE UNCHANGED <<room, sealed>>
  /\ UNCHANGED <<strips, made, left, list, next, index, cur, at, upto, channel, told_last, again,
                 lost, untold, outside>>

Add(t) ==
  /\ Calls /\ Len(made) < MaxMade
  /\ made' = Append(made, t) /\ left' = Append(left, t.times)
  /\ list' = Append(list, Len(made'))
  /\ untold' = TRUE
  /\ Disturb({"index"})
  /\ UNCHANGED <<strips, next, index, cur, at, upto, room, channel, told_last, again, lost, sealed,
                 outside, told, missed, caller>>

Clear ==
  /\ Calls /\ list # <<>>
  /\ list' = <<>> /\ next' = 0 /\ again' = TRUE /\ lost' = FALSE
  /\ Disturb({"index"})
  /\ UNCHANGED <<strips, made, left, index, cur, at, upto, room, channel, told_last, untold, sealed,
                 outside, told, missed, caller>>

(* Faulty variant: nobody is told.                                          *)
RestartSilently ==
  /\ Calls /\ list # <<>>
  /\ left' = [i \in DOMAIN left |->
                IF i \in ToSet(list) THEN made[i].times ELSE left[i]]
  /\ next' = 0 /\ again' = TRUE /\ told_last' = {} /\ lost' = FALSE
  /\ untold' = FALSE
  /\ UNCHANGED <<worker, missed>>
  /\ UNCHANGED <<strips, made, list, index, cur, at, upto, room, channel, sealed, outside, told,
                 caller>>

(* Every counter is restored, that of the running transformation too.       *)
Restart ==
  /\ Calls /\ list # <<>>
  /\ left' = [i \in DOMAIN left |->
                IF i \in ToSet(list) THEN made[i].times ELSE left[i]]
  /\ next' = 0 /\ again' = TRUE /\ told_last' = {} /\ lost' = FALSE
  /\ untold' = FALSE
  /\ Notify
  /\ UNCHANGED <<strips, made, list, index, cur, at, upto, room, channel, sealed, outside, told,
                 caller>>

StopCall == Calls /\ Tell /\ UNCHANGED ledVars
StopJoin == Join /\ UNCHANGED ledVars
-----------------------------------------------------------------------------
(* worker *)

Step(from, to) ==
  /\ worker = from /\ worker' = to
  /\ UNCHANGED <<told, missed, caller, made, list, room, untold, sealed>>

Pending == next < Len(list)

WaitForWork == Wait(Pending) /\ UNCHANGED ledVars
Wakeup == SpuriousWakeup /\ UNCHANGED ledVars

Fetch ==
  /\ Step("work", IF ~told /\ Pending THEN "copy" ELSE "top")
  /\ UNCHANGED <<strips, left, next, index, cur, at, upto, channel, told_last, again, lost, outside>>

(* get_transformation checks the index once more.                           *)
CopyNothing ==
  /\ ~Pending /\ Step("copy", "work")
  /\ UNCHANGED <<strips, left, next, index, cur, at, upto, channel, told_last, again, lost, outside>>

(* _transf.at(_transf_idx++): the index is read ...                         *)
TakeIndex ==
  /\ Pending /\ Step("copy", "index")
  /\ index' = next
  /\ UNCHANGED <<strips, left, next, cur, at, upto, channel, told_last, again, lost, outside>>

(* ... and written, over that of a restart in between; what it stands for   *)
(* is copied ...                                                            *)
Copy ==
  /\ index < Len(list) /\ Step("index", "apply")
  /\ cur' = list[index + 1] /\ next' = index + 1 /\ index' = 0 /\ at' = 1
  /\ again' = FALSE /\ lost' = (lost \/ next # index)
  /\ UNCHANGED <<strips, left, upto, channel, told_last, outside>>

(* ... or, of a list that was cleared, is not there: the exception ends the *)
(* program.                                                                 *)
CopyFails ==
  /\ index >= Len(list) /\ Step("index", "crashed")
  /\ UNCHANGED <<strips, left, next, index, cur, at, upto, channel, told_last, again, lost, outside>>

(* The last one only notifies; its event goes to the state machine.         *)
ApplyLast ==
  /\ Step("apply", "applied") /\ made[cur].op = "last"
  /\ told_last' = told_last \cup {[id |-> cur, early |-> again \/ lost, before |->
                     {list[i] : i \in 1..Min({next - 1, Len(list)})}]}
  /\ left' = [left EXCEPT ![cur] = Attempt(made[cur], @)]
  /\ UNCHANGED <<strips, next, index, cur, at, upto, channel, again, lost, outside>>

(* The last strip of a loop: those that are added later are not looked at.  *)
LastStrip == IF at = 1 THEN Len(strips) ELSE upto

(* A write past the end, whose effect is not defined: the program ends, or  *)
(* goes on.                                                                 *)
WritesOutside(place, past) ==
  /\ outside' = IF past THEN outside \cup {place} ELSE outside
  /\ Step(worker, worker) \/ (past /\ Step(worker, "crashed"))

(* Strip after strip; the counter is one for all of them.                   *)
ApplyToStrip ==
  /\ worker = "apply" /\ made[cur].op # "last" /\ at <= LastStrip
  /\ WritesOutside("strip", PastEnd(made[cur], Len(strips[at])))
  /\ strips' = [strips EXCEPT ![at] = Transformed(made[cur], left[cur], @)]
  /\ left' = [left EXCEPT ![cur] = Attempt(made[cur], @)]
  /\ at' = at + 1 /\ upto' = LastStrip
  /\ UNCHANGED <<next, index, cur, channel, told_last, again, lost>>

StartRefresh ==
  /\ Step("apply", IF at = 1 THEN "applied" ELSE "refresh")
  /\ made[cur].op # "last" /\ at = LastStrip + 1
  /\ channel' = (at # 1) /\ at' = 1 /\ upto' = 0
  /\ UNCHANGED <<strips, left, next, index, cur, told_last, again, lost, outside>>

(* The buffer is cleared and filled for the strip, and written to it; after *)
(* an error the other strips are not written.                               *)
Refresh ==
  /\ worker = "refresh" /\ at <= LastStrip
  /\ WritesOutside("buffer", BufferLength > room)
  /\ at' \in {at + 1, LastStrip + 1} /\ upto' = LastStrip
  /\ UNCHANGED <<strips, left, next, index, cur, channel, told_last, again, lost>>

EndRefresh ==
  /\ Step("refresh", "applied") /\ at = LastStrip + 1
  /\ channel' = FALSE /\ at' = 1 /\ upto' = 0
  /\ UNCHANGED <<strips, left, next, index, cur, told_last, again, lost, outside>>

(* Applied again until its counter is 0 or the thread is told to stop.      *)
Applied ==
  /\ Step("applied", IF left[cur] = 0 \/ told THEN "work" ELSE "apply")
  /\ at' = 1
  /\ UNCHANGED <<strips, left, next, index, cur, upto, channel, told_last, again, lost, outside>>

WorkerNext ==
  \/ WaitForWork \/ Fetch \/ CopyNothing \/ TakeIndex \/ Copy \/ CopyFails
  \/ ApplyLast \/ ApplyToStrip \/ StartRefresh \/ Refresh \/ EndRefresh \/ Applied

LedNext ==
  \/ \E n \in Lengths : AddSled(n)
  \/ \E t \in Offers : Add(t)
  \/ Initialize \/ Wakeup \/ Clear \/ Restart \/ StopCall \/ StopJoin \/ WorkerNext
-----------------------------------------------------------------------------
LedTypeOK ==
  /\ made \in Seq(Offers) /\ DOMAIN left = DOMAIN made /\ list \in Seq(DOMAIN made)
  /\ \A i \in DOMAIN left : left[i] \in Int
  /\ next \in Nat /\ index \in Nat /\ cur \in {0} \cup DOMAIN made
  /\ at \in 1..(Len(strips) + 1) /\ upto \in 0..Len(strips) /\ sealed \in 0..Len(strips)
  /\ \A s \in DOMAIN strips : Len(strips[s]) \in Lengths
  /\ Len(strips) <= MaxSleds
  /\ room \in {-1, 0} \cup {3 * n : n \in Lengths}
  /\ {channel, again, lost, untold} \subseteq BOOLEAN
  /\ outside \subseteq {"strip", "buffer"}

(* LAST_OP of a list that was neither restarted nor cleared meanwhile, nor  *)
(* in the moment the worker counts its index on, comes when every           *)
(* transformation before it has been applied as often as it should be.      *)
LastAfterAll == \A n \in told_last : n.early \/ \A i \in n.before : left[i] = 0

(* A transformation that may be written past the end of a strip.            *)
Misfit(t) ==
  \/ t.op = "group" /\ t.first > 0
  \/ t.op = "colour" /\ t.leds # 0 /\ \E n \in Lengths : t.first > n

(* Every write stays in the buffer, unless a strip that is too long for it  *)
(* was added after it was allocated, and on the strip, unless a group of    *)
(* colours does not start at its first LED or a colour starts behind the    *)
(* last.                                                                    *)
WritesFit ==
  /\ "buffer" \in outside =>
       \E s \in DOMAIN strips : s > sealed /\ 3 * Len(strips[s]) > room
  /\ "strip" \in outside => \E i \in DOMAIN made : Misfit(made[i])

(* A transformation with a count is being applied; it comes to its end.     *)
Applying(i) ==
  worker = "apply" /\ cur = i /\ made[i].times >= 0 /\ strips # <<>>
    /\ ~(made[i].op = "colour" /\ made[i].leds = 0)
Done(i) == (i \in DOMAIN left /\ left[i] = 0) \/ again \/ told \/ worker = "crashed"

=============================================================================

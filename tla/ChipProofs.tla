----------------------------- MODULE ChipProofs -----------------------------
(***************************************************************************)
(* The registers of the GPIOs, the buses and the chips behind them: the    *)
(* inductive invariant of each kind of Boards, a lemma for the start, one  *)
(* for a step, and one for what the invariant implies.                     *)
(***************************************************************************)
EXTENDS Boards, TLAPS

-----------------------------------------------------------------------------
(* the expanders (Expander)                                                 *)

PinSets == SUBSET ExpanderPins
Registers3 == [iodir : PinSets, gppu : PinSets, latch : PinSets]
ExpanderChip == [type : Expanders, iodir : PinSets, gppu : PinSets, latch : PinSets]
CallSteps == {"none", "read", "write", "save"}
Calls == [at : CallSteps, op : E!Registers, value : {0, 1}, read : PinSets]
ExpanderHistory ==
  [want : Registers3, overlap : BOOLEAN, faults : Nat, clean : BOOLEAN, calls : Int, inputs : PinSets]

ExpanderTypes ==
  /\ chip \in ExpanderChip /\ driver \in PinSets
  /\ task \in [ExpanderPins -> Calls] /\ report \in ExpanderHistory
  /\ report.faults <= MaxFaults

(* All registers but one are what was asked for ...                         *)
Kept(op) ==
  /\ op # "iodir" => chip.iodir = report.want.iodir
  /\ op # "gppu" => chip.gppu = report.want.gppu
  /\ op # "latch" => chip.latch \ report.inputs = report.want.latch \ report.inputs

(* ... and a value is what was asked for one register.                      *)
Meets(op, set) ==
  /\ op = "iodir" => set = report.want.iodir
  /\ op = "gppu" => set = report.want.gppu
  /\ op = "latch" => set \ report.inputs = report.want.latch \ report.inputs

(* What is known of a call between its steps.                               *)
CallControl(c) ==
  /\ task[c].at = "none" => task[c] = E!Idle
  /\ task[c].at = "save" => task[c].op = "latch"
  /\ ~report.overlap /\ report.faults = 0 =>
       /\ task[c].at \in {"read", "write"} => Kept(task[c].op)
       /\ task[c].at = "read" => Meets(task[c].op, E!Put(chip[task[c].op], c, task[c].value))
       /\ task[c].at = "write" => Meets(task[c].op, E!NewRegister(c))
       /\ task[c].at = "save" => Kept("none")
  /\ ~report.overlap /\ report.clean /\ task[c].at = "save" => E!NewRegister(c) = chip.latch

Writing(c) == task[c].at = "save" \/ (task[c].at = "write" /\ task[c].op = "latch")

ExpanderControl ==
  /\ ~report.overlap => \A c, d \in ExpanderPins : c # d => task[c].at = "none" \/ task[d].at = "none"
  /\ \A c \in ExpanderPins : CallControl(c)
  /\ report.want.iodir \subseteq report.inputs
  /\ ~report.overlap /\ report.faults = 0 => report.clean
  /\ ~report.overlap /\ report.faults = 0 /\ (\A c \in ExpanderPins : task[c].at = "none") => Kept("none")
  /\ ~report.overlap /\ report.clean /\ (\A c \in ExpanderPins : ~Writing(c)) => driver = chip.latch

ExpanderInv == ExpanderTypes /\ ExpanderControl

LEMMA ExpanderInit ==
  ASSUME E!ExpanderInit
  PROVE  ExpanderInv
<1>1. PICK type \in Expanders, latch \in PinSets :
        /\ chip = [type |-> type, iodir |-> {}, gppu |-> {}, latch |-> latch]
        /\ driver = latch
        /\ report = [want |-> [iodir |-> {}, gppu |-> {}, latch |-> latch], overlap |-> FALSE,
                     faults |-> 0, clean |-> TRUE, calls |-> 0, inputs |-> {}]
  BY DEF E!ExpanderInit, PinSets
<1>2. {} \in PinSets
  BY DEF PinSets
<1>3. task \in [ExpanderPins -> Calls] /\ \A c \in ExpanderPins : task[c] = E!Idle /\ task[c].at = "none"
  <2>1. E!Idle \in Calls /\ E!Idle.at = "none"
    BY <1>2 DEF E!Idle, Calls, CallSteps, E!Registers
  <2>2. task = [c \in ExpanderPins |-> E!Idle]
    BY DEF E!ExpanderInit
  <2> QED BY <2>1, <2>2
<1>4. PICK want \in Registers3 : /\ want = [iodir |-> {}, gppu |-> {}, latch |-> latch]
                                 /\ want.iodir = {} /\ want.gppu = {} /\ want.latch = latch
  <2>1. [iodir |-> {}, gppu |-> {}, latch |-> latch] \in Registers3
    BY <1>2 DEF Registers3
  <2> QED BY <2>1
<1>5. report \in ExpanderHistory /\ report.want = want /\ ~report.overlap /\ report.clean /\ report.inputs = {} /\ report.faults = 0
  BY <1>1, <1>2, <1>4 DEF ExpanderHistory
<1>6. chip \in ExpanderChip /\ chip.iodir = {} /\ chip.gppu = {} /\ chip.latch = latch
  BY <1>1, <1>2 DEF ExpanderChip
<1>7. ExpanderTypes
  BY <1>1, <1>3, <1>5, <1>6, FaultsAssumption DEF ExpanderTypes
<1>8. ExpanderControl
  BY <1>1, <1>3, <1>4, <1>5, <1>6 DEF ExpanderControl, CallControl, Kept, Writing
<1> QED BY <1>7, <1>8 DEF ExpanderInv

LEMMA PutIn ==
  ASSUME NEW set \in PinSets, NEW c \in ExpanderPins, NEW value
  PROVE  E!Put(set, c, value) \in PinSets
BY DEF E!Put, PinSets

LEMMA PutOutside ==
  ASSUME NEW set, NEW other, NEW inputs, set \ inputs = other \ inputs, NEW c, NEW value
  PROVE  E!Put(set, c, value) \ inputs = E!Put(other, c, value) \ inputs
BY DEF E!Put

LEMMA RegisterFields ==
  ASSUME chip \in ExpanderChip
  PROVE  chip["iodir"] = chip.iodir /\ chip["gppu"] = chip.gppu /\ chip["latch"] = chip.latch
BY DEF ExpanderChip

LEMMA WantFields ==
  ASSUME NEW want \in Registers3, NEW op \in E!Registers, NEW set \in PinSets
  PROVE  /\ [want EXCEPT ![op] = set] \in Registers3
         /\ [want EXCEPT ![op] = set].iodir = IF op = "iodir" THEN set ELSE want.iodir
         /\ [want EXCEPT ![op] = set].gppu = IF op = "gppu" THEN set ELSE want.gppu
         /\ [want EXCEPT ![op] = set].latch = IF op = "latch" THEN set ELSE want.latch
<1>1. CASE op = "iodir"
  BY <1>1 DEF Registers3
<1>2. CASE op = "gppu"
  BY <1>2 DEF Registers3
<1>3. CASE op = "latch"
  BY <1>3 DEF Registers3
<1> QED BY <1>1, <1>2, <1>3 DEF E!Registers

LEMMA ChipFields ==
  ASSUME chip \in ExpanderChip, NEW op \in E!Registers, NEW set \in PinSets, chip' = [chip EXCEPT ![op] = set]
  PROVE  /\ chip' \in ExpanderChip
         /\ chip'.iodir = IF op = "iodir" THEN set ELSE chip.iodir
         /\ chip'.gppu = IF op = "gppu" THEN set ELSE chip.gppu
         /\ chip'.latch = IF op = "latch" THEN set ELSE chip.latch
<1>1. CASE op = "iodir"
  BY <1>1 DEF ExpanderChip
<1>2. CASE op = "gppu"
  BY <1>2 DEF ExpanderChip
<1>3. CASE op = "latch"
  BY <1>3 DEF ExpanderChip
<1> QED BY <1>1, <1>2, <1>3 DEF E!Registers

LEMMA OtherCalls ==
  ASSUME NEW c \in ExpanderPins, ExpanderInv,
         \A d \in ExpanderPins \ {c} : task'[d] = task[d] /\ (~report'.overlap => task[d].at = "none"),
         CallControl(c)'
  PROVE  /\ \A d \in ExpanderPins : CallControl(d)'
         /\ ~report'.overlap => \A d, e \in ExpanderPins : d # e => task'[d].at = "none" \/ task'[e].at = "none"
<1>1. ASSUME NEW d \in ExpanderPins \ {c}
      PROVE  CallControl(d)'
  <2>1. task'[d] = task[d] /\ (~report'.overlap => task[d].at = "none")
    OBVIOUS
  <2>2. (task[d].at = "none" => task[d] = E!Idle) /\ (task[d].at = "save" => task[d].op = "latch")
    BY DEF ExpanderInv, ExpanderControl, CallControl
  <2> QED BY <2>1, <2>2 DEF CallControl
<1> QED BY <1>1

LEMMA Busy ==
  ASSUME NEW c \in ExpanderPins, ExpanderInv, task[c].at # "none", report'.overlap = report.overlap
  PROVE  \A d \in ExpanderPins \ {c} : ~report'.overlap => task[d].at = "none"
BY DEF ExpanderInv, ExpanderControl

LEMMA Called ==
  ASSUME NEW c \in ExpanderPins, NEW op \in E!Registers, NEW value \in {0, 1}, ExpanderInv, E!Call(c, op, value)
  PROVE  ExpanderInv'
<1> DEFINE set == E!Put(report.want[op], c, value)
<1> DEFINE want == [report.want EXCEPT ![op] = set]
<1> DEFINE inputs == IF op = "iodir" /\ value = 1 THEN report.inputs \cup {c} ELSE report.inputs
<1> DEFINE overlap == report.overlap \/ \E d \in ExpanderPins \ {c} : task[d] # E!Idle
<1> DEFINE call == [at |-> "read", op |-> op, value |-> value, read |-> {}]
<1>1. /\ chip \in ExpanderChip /\ driver \in PinSets /\ task \in [ExpanderPins -> Calls] /\ report \in ExpanderHistory
      /\ report.faults <= MaxFaults
  BY DEF ExpanderInv, ExpanderTypes
<1>2. chip' = chip /\ driver' = driver /\ task[c] = E!Idle
  BY DEF E!Call
<1>3. report.want \in Registers3 /\ report.inputs \in PinSets
  BY <1>1 DEF ExpanderHistory
<1>4. report.want[op] \in PinSets
  BY <1>3 DEF Registers3, E!Registers
<1>5. set \in PinSets
  BY <1>4, PutIn
<1>6. /\ want \in Registers3
      /\ want.iodir = IF op = "iodir" THEN set ELSE report.want.iodir
      /\ want.gppu = IF op = "gppu" THEN set ELSE report.want.gppu
      /\ want.latch = IF op = "latch" THEN set ELSE report.want.latch
  <2> HIDE DEF set
  <2> QED BY <1>3, <1>5, WantFields
<1>7. inputs \in PinSets /\ overlap \in BOOLEAN
  BY <1>1, <1>3 DEF PinSets, ExpanderHistory
<1>8. /\ report' \in ExpanderHistory /\ report'.want = want /\ report'.overlap = overlap /\ report'.inputs = inputs
      /\ report'.faults = report.faults /\ report'.clean = report.clean
  <2>1. PICK calls \in Int : calls = report.calls + 1
    BY <1>1 DEF ExpanderHistory
  <2>2. report' = [report EXCEPT !.calls = calls, !.want = want, !.inputs = inputs, !.overlap = overlap]
    BY <2>1 DEF E!Call
  <2> HIDE DEF want, overlap, inputs
  <2> QED BY <1>1, <1>6, <1>7, <2>2 DEF ExpanderHistory
<1>9. /\ task' \in [ExpanderPins -> Calls] /\ task'[c] = call /\ call.at = "read" /\ call.op = op /\ call.value = value
      /\ \A d \in ExpanderPins \ {c} : task'[d] = task[d]
  <2>1. {} \in PinSets /\ "read" \in CallSteps
    BY DEF PinSets, CallSteps
  <2>2. call \in Calls /\ call.at = "read" /\ call.op = op /\ call.value = value
    BY <2>1 DEF Calls
  <2>3. task' = [task EXCEPT ![c] = call]
    BY DEF E!Call
  <2> HIDE DEF call
  <2> QED BY <1>1, <2>2, <2>3
<1>10. \A d \in ExpanderPins \ {c} : ~overlap => task[d] = E!Idle
  OBVIOUS
<1>11. E!Idle.at = "none"
  BY DEF E!Idle
<1>12. ~overlap => ~report.overlap /\ \A d \in ExpanderPins : task[d] = E!Idle /\ task[d].at = "none"
  <2> HIDE DEF set, want, inputs, call
  <2> QED BY <1>2, <1>10, <1>11
<1>13. ~overlap /\ report.faults = 0 => Kept("none")
  <2> HIDE DEF overlap
  <2> QED BY <1>12 DEF ExpanderInv, ExpanderControl
<1>14. CallControl(c)'
  <2> SUFFICES ASSUME ~overlap, report.faults = 0
               PROVE  Kept(op)' /\ Meets(op, E!Put(chip[op], c, value))'
    <3> HIDE DEF set, want, inputs, overlap, call
    <3> QED BY <1>2, <1>8, <1>9 DEF CallControl
  <2>1. /\ chip.iodir = report.want.iodir /\ chip.gppu = report.want.gppu
        /\ chip.latch \ report.inputs = report.want.latch \ report.inputs
    <3> HIDE DEF set, want, inputs, overlap, call
    <3> QED BY <1>13 DEF Kept
  <2>2. report.inputs \subseteq inputs
    OBVIOUS
  <2>3. chip.latch \ inputs = report.want.latch \ inputs
    <3> HIDE DEF set, want, inputs, overlap, call
    <3> QED BY <2>1, <2>2
  <2>4. Kept(op)'
    <3> HIDE DEF set, want, inputs, overlap, call
    <3> QED BY <1>2, <1>6, <1>8, <2>1, <2>3 DEF Kept
  <2>5. Meets(op, E!Put(chip[op], c, value))'
    <3>1. op = "iodir" => E!Put(chip[op], c, value) = set
      BY <1>1, <2>1 DEF ExpanderChip
    <3>2. op = "gppu" => E!Put(chip[op], c, value) = set
      BY <1>1, <2>1 DEF ExpanderChip
    <3>3. op = "latch" => E!Put(chip[op], c, value) \ inputs = set \ inputs
      <4>1. op = "latch" => chip[op] \ inputs = report.want[op] \ inputs
        <5> HIDE DEF inputs
        <5> QED BY <1>1, <1>3, <2>3 DEF ExpanderChip, Registers3
      <4> HIDE DEF inputs
      <4> QED BY <4>1, PutOutside
    <3>4. E!Put(chip[op], c, value)' = E!Put(chip[op], c, value)
      BY <1>2 DEF E!Put
    <3> HIDE DEF set, want, inputs, overlap, call
    <3> QED BY <1>6, <1>8, <3>1, <3>2, <3>3, <3>4 DEF Meets
  <2> QED BY <2>4, <2>5
<1>15. ExpanderTypes'
  <2> HIDE DEF call, want, inputs, overlap
  <2> QED BY <1>1, <1>2, <1>8, <1>9 DEF ExpanderTypes
<1>16. report'.want.iodir \subseteq report'.inputs
  <2>1. report.want.iodir \subseteq report.inputs
    BY DEF ExpanderInv, ExpanderControl
  <2>2. op = "iodir" => report.want[op] = report.want.iodir
    BY <1>3 DEF Registers3
  <2>3. op = "iodir" => set \subseteq inputs
    BY <2>1, <2>2 DEF E!Put
  <2>4. report.want.iodir \subseteq inputs
    BY <2>1
  <2> HIDE DEF set, want, inputs, overlap, call
  <2> QED BY <1>6, <1>8, <2>3, <2>4
<1>17. task'[c].at = "read" /\ ~Writing(c)' /\ \A d \in ExpanderPins \ {c} : Writing(d)' <=> Writing(d)
  <2> HIDE DEF call
  <2> QED BY <1>9 DEF Writing
<1>18. \A d \in ExpanderPins : CallControl(d)'
  <2> HIDE DEF overlap, set, want, inputs, call
  <2> QED BY <1>8, <1>9, <1>12, <1>14, OtherCalls
<1>19. ~report'.overlap => \A d, e \in ExpanderPins : d # e => task'[d].at = "none" \/ task'[e].at = "none"
  <2> HIDE DEF overlap, set, want, inputs, call
  <2> QED BY <1>8, <1>9, <1>12, <1>14, OtherCalls
<1>20. ~report'.overlap /\ report'.clean => driver' = chip'.latch
  <2>1. ~overlap => \A d \in ExpanderPins : ~Writing(d)
    <3> HIDE DEF overlap
    <3> QED BY <1>12 DEF Writing
  <2> HIDE DEF overlap, set, want, inputs, call
  <2> QED BY <1>2, <1>8, <1>12, <2>1 DEF ExpanderInv, ExpanderControl
<1>21. ~report'.overlap /\ report'.faults = 0 => report'.clean
  <2> HIDE DEF overlap, set, want, inputs, call
  <2> QED BY <1>8, <1>12 DEF ExpanderInv, ExpanderControl
<1> HIDE DEF overlap, set, want, inputs, call
<1> QED BY <1>15, <1>16, <1>17, <1>18, <1>19, <1>20, <1>21 DEF ExpanderInv, ExpanderControl

(* One more fault, or none.                                                 *)
LEMMA Faulted ==
  ASSUME NEW ok \in BOOLEAN, NEW clean \in BOOLEAN, report \in ExpanderHistory, report.faults <= MaxFaults,
         ok \/ report.faults < MaxFaults,
         report' = [report EXCEPT !.faults = IF ok THEN report.faults ELSE report.faults + 1, !.clean = clean]
  PROVE  /\ report' \in ExpanderHistory /\ report'.faults <= MaxFaults
         /\ report'.want = report.want /\ report'.inputs = report.inputs /\ report'.overlap = report.overlap
         /\ report'.clean = clean /\ (report'.faults = 0 => ok /\ report.faults = 0)
<1>1. report.faults \in Nat
  BY DEF ExpanderHistory
<1>2. PICK faults \in Nat : /\ faults = IF ok THEN report.faults ELSE report.faults + 1
                            /\ faults <= MaxFaults /\ (faults = 0 => ok /\ report.faults = 0)
  <2>1. CASE ok
    BY <1>1, <2>1
  <2>2. CASE ~ok
    <3>1. report.faults + 1 \in Nat /\ report.faults + 1 <= MaxFaults /\ report.faults + 1 # 0
      BY <1>1, <2>2, FaultsAssumption
    <3> QED BY <2>2, <3>1
  <2> QED BY <2>1, <2>2
<1>3. report' = [report EXCEPT !.faults = faults, !.clean = clean]
  BY <1>2
<1> QED BY <1>2, <1>3 DEF ExpanderHistory

LEMMA Fetched ==
  ASSUME NEW c \in ExpanderPins, NEW ok \in BOOLEAN, NEW levels \in SUBSET chip.iodir, ExpanderInv, E!Fetch(c, ok, levels)
  PROVE  ExpanderInv'
<1>0. PICK op \in E!Registers : op = task[c].op
  BY DEF ExpanderInv, ExpanderTypes, Calls
<1> DEFINE old == IF E!Reads(op) THEN E!Read(op, ok, levels) ELSE driver
<1>1. /\ chip \in ExpanderChip /\ driver \in PinSets /\ task \in [ExpanderPins -> Calls] /\ report \in ExpanderHistory
      /\ report.faults <= MaxFaults /\ report.faults \in Nat
  BY DEF ExpanderInv, ExpanderTypes, ExpanderHistory
<1>2. task[c].at = "read" /\ chip' = chip /\ CallControl(c)
  BY <1>1 DEF E!Fetch, Calls, ExpanderInv, ExpanderControl
<1>3. old \in PinSets
  <2>1. chip.iodir \in PinSets /\ chip.latch \in PinSets /\ chip[op] \in PinSets
    BY <1>1, <1>2 DEF ExpanderChip, E!Registers
  <2>2. levels \in PinSets /\ ExpanderPins \in PinSets /\ (chip.latch \ chip.iodir) \cup levels \in PinSets
    BY <2>1 DEF PinSets
  <2> QED BY <1>1, <2>1, <2>2 DEF E!Read
<1>4. /\ report' \in ExpanderHistory /\ report'.faults <= MaxFaults
      /\ report'.want = report.want /\ report'.inputs = report.inputs /\ report'.overlap = report.overlap
      /\ report'.clean = report.clean /\ (report'.faults = 0 => ok /\ report.faults = 0)
  <2>1. CASE ok
    <3>1. report' = report
      BY <1>0, <2>1 DEF E!Fetch
    <3> QED BY <1>1, <2>1, <3>1
  <2>2. CASE ~ok
    <3>1. report.faults < MaxFaults
      BY <2>2 DEF E!Fetch
    <3>2. PICK faults \in Nat : faults = report.faults + 1 /\ faults <= MaxFaults /\ faults # 0
      <4>1. report.faults + 1 \in Nat /\ report.faults + 1 <= MaxFaults /\ report.faults + 1 # 0
        BY <1>1, <3>1, FaultsAssumption
      <4> QED BY <4>1
    <3>3. report' = [report EXCEPT !.faults = faults]
      BY <2>2, <3>2 DEF E!Fetch
    <3> QED BY <1>1, <3>2, <3>3 DEF ExpanderHistory
  <2> QED BY <2>1, <2>2
<1>5. /\ task' \in [ExpanderPins -> Calls] /\ task'[c].at = "write" /\ task'[c].op = op
      /\ task'[c].value = task[c].value /\ task'[c].read = old
      /\ \A d \in ExpanderPins \ {c} : task'[d] = task[d]
  <2>1. task' = [task EXCEPT ![c].at = "write", ![c].read = old] /\ "write" \in CallSteps
    BY <1>0 DEF E!Fetch, CallSteps
  <2> HIDE DEF old
  <2> QED BY <1>0, <1>1, <1>3, <2>1 DEF Calls
<1>6. driver' = (IF op = "latch" THEN old ELSE driver) /\ driver' \in PinSets
  <2>1. driver' = IF op = "latch" THEN old ELSE driver
    BY <1>0 DEF E!Fetch
  <2> HIDE DEF old
  <2> QED BY <1>1, <1>3, <2>1
<1>7. ExpanderTypes'
  BY <1>1, <1>2, <1>4, <1>5, <1>6 DEF ExpanderTypes
<1>8. CallControl(c)'
  <2> SUFFICES ASSUME ~report.overlap, report.faults = 0, ok
               PROVE  Kept(op)' /\ Meets(op, E!NewRegister(c))'
    <3> HIDE DEF old
    <3> QED BY <1>2, <1>4, <1>5 DEF CallControl
  <2>1. Kept(op) /\ Meets(op, E!Put(chip[op], c, task[c].value))
    BY <1>0, <1>2 DEF CallControl
  <2>2. Kept(op)'
    <3> QED BY <1>2, <1>4, <2>1 DEF Kept
  <2>3. E!NewRegister(c)' = E!Put(old, c, task[c].value)
    <3> HIDE DEF old
    <3> QED BY <1>5 DEF E!NewRegister, E!Put
  <2>4. Meets(op, E!Put(old, c, task[c].value))
    <3>1. CASE op # "latch"
      <4>1. old = chip[op]
        BY <3>1 DEF E!Reads, E!Read
      <4> HIDE DEF old
      <4> QED BY <2>1, <4>1
    <3>2. CASE op = "latch"
      <4>1. chip[op] = chip.latch
        BY <1>1, <3>2 DEF ExpanderChip
      <4>2. E!Put(chip.latch, c, task[c].value) \ report.inputs = report.want.latch \ report.inputs
        BY <2>1, <3>2, <4>1 DEF Meets
      <4>3. chip.iodir \subseteq report.inputs
        <5>1. chip.iodir = report.want.iodir
          BY <2>1, <3>2 DEF Kept
        <5> QED BY <5>1 DEF ExpanderInv, ExpanderControl
      <4>4. old \ report.inputs = chip.latch \ report.inputs
        <5>1. CASE E!Reads(op)
          <6>1. old = (chip.latch \ chip.iodir) \cup levels
            BY <3>2, <5>1 DEF E!Read
          <6> HIDE DEF old
          <6> QED BY <4>3, <6>1
        <5>2. CASE ~E!Reads(op)
          <6>1. \A d \in ExpanderPins : ~Writing(d)
            <7>1. \A d \in ExpanderPins \ {c} : task[d].at = "none"
              BY <1>2 DEF ExpanderInv, ExpanderControl
            <7> QED BY <1>2, <7>1 DEF Writing
          <6>2. driver = chip.latch
            BY <6>1 DEF ExpanderInv, ExpanderControl
          <6> QED BY <5>2, <6>2
        <5> QED BY <5>1, <5>2
      <4>5. E!Put(old, c, task[c].value) \ report.inputs = E!Put(chip.latch, c, task[c].value) \ report.inputs
        <5> HIDE DEF old
        <5> QED BY <4>4, PutOutside
      <4> HIDE DEF old
      <4> QED BY <3>2, <4>2, <4>5 DEF Meets
    <3> QED BY <3>1, <3>2
  <2> HIDE DEF old
  <2> QED BY <1>4, <2>2, <2>3, <2>4 DEF Meets
<1>9. /\ \A d \in ExpanderPins : CallControl(d)'
      /\ ~report'.overlap => \A d, e \in ExpanderPins : d # e => task'[d].at = "none" \/ task'[e].at = "none"
  <2>1. \A d \in ExpanderPins \ {c} : ~report'.overlap => task[d].at = "none"
    BY <1>2, <1>4, Busy
  <2> HIDE DEF old
  <2> QED BY <1>5, <1>8, <2>1, OtherCalls
<1>10. ~report'.overlap /\ report'.clean /\ (\A d \in ExpanderPins : ~Writing(d)') => driver' = chip'.latch
  <2> SUFFICES ASSUME ~report'.overlap, report'.clean, \A d \in ExpanderPins : ~Writing(d)'
               PROVE  driver' = chip'.latch
    OBVIOUS
  <2>1. op # "latch"
    <3> HIDE DEF old
    <3> QED BY <1>5 DEF Writing
  <2>2. \A d \in ExpanderPins : ~Writing(d)
    <3> HIDE DEF old
    <3> QED BY <1>0, <1>2, <1>5, <2>1 DEF Writing
  <2>3. driver = chip.latch
    BY <1>4, <2>2 DEF ExpanderInv, ExpanderControl
  <2> HIDE DEF old
  <2> QED BY <1>2, <1>6, <2>1, <2>3
<1>11. ~report'.overlap /\ report'.faults = 0 => report'.clean
  BY <1>4 DEF ExpanderInv, ExpanderControl
<1>12. report'.want.iodir \subseteq report'.inputs
  BY <1>4 DEF ExpanderInv, ExpanderControl
<1> HIDE DEF old
<1> QED BY <1>5, <1>7, <1>9, <1>10, <1>11, <1>12 DEF ExpanderInv, ExpanderControl

LEMMA NewRegisterIn ==
  ASSUME NEW c \in ExpanderPins, task \in [ExpanderPins -> Calls]
  PROVE  E!NewRegister(c) \in PinSets
<1>1. task[c].read \in PinSets
  BY DEF Calls
<1> QED BY <1>1, PutIn DEF E!NewRegister

LEMMA Written ==
  ASSUME NEW c \in ExpanderPins, NEW ok \in BOOLEAN, ExpanderInv, E!Write(c, ok)
  PROVE  ExpanderInv'
<1>1. /\ chip \in ExpanderChip /\ driver \in PinSets /\ task \in [ExpanderPins -> Calls] /\ report \in ExpanderHistory
      /\ report.faults <= MaxFaults /\ report.faults \in Nat
  BY DEF ExpanderInv, ExpanderTypes, ExpanderHistory
<1>2. PICK op \in E!Registers, set \in PinSets : op = task[c].op /\ set = E!NewRegister(c)
  <2>1. task[c].op \in E!Registers /\ E!NewRegister(c) \in PinSets
    BY <1>1, NewRegisterIn DEF Calls
  <2> QED BY <2>1
<1>3. task[c].at = "write" /\ driver' = driver /\ CallControl(c)
  BY DEF E!Write, ExpanderInv, ExpanderControl
<1>4. /\ chip' \in ExpanderChip
      /\ chip'.iodir = IF ok /\ op = "iodir" THEN set ELSE chip.iodir
      /\ chip'.gppu = IF ok /\ op = "gppu" THEN set ELSE chip.gppu
      /\ chip'.latch = IF ok /\ op = "latch" THEN set ELSE chip.latch
  <2>1. CASE ok
    <3>1. chip' = [chip EXCEPT ![op] = set]
      BY <1>2, <2>1 DEF E!Write
    <3> QED BY <1>1, <2>1, <3>1, ChipFields
  <2>2. CASE ~ok
    <3>1. chip' = chip
      BY <2>2 DEF E!Write
    <3> QED BY <1>1, <2>2, <3>1
  <2> QED BY <2>1, <2>2
<1>5. PICK clean \in BOOLEAN : clean = IF op = "latch" THEN ok /\ ~report.overlap ELSE report.clean
  BY <1>1 DEF ExpanderHistory
<1>6. /\ report' \in ExpanderHistory /\ report'.faults <= MaxFaults
      /\ report'.want = report.want /\ report'.inputs = report.inputs /\ report'.overlap = report.overlap
      /\ report'.clean = clean /\ (report'.faults = 0 => ok /\ report.faults = 0)
  <2>1. report' = [report EXCEPT !.faults = IF ok THEN report.faults ELSE report.faults + 1, !.clean = clean]
    BY <1>2, <1>5 DEF E!Write
  <2>2. ok \/ report.faults < MaxFaults
    BY DEF E!Write
  <2> QED BY <1>1, <2>1, <2>2, Faulted
<1>7. /\ task' \in [ExpanderPins -> Calls] /\ \A d \in ExpanderPins \ {c} : task'[d] = task[d]
      /\ op # "latch" => task'[c] = E!Idle /\ task'[c].at = "none"
      /\ op = "latch" => task'[c].at = "save" /\ task'[c].op = op /\ task'[c].read = task[c].read /\ task'[c].value = task[c].value
  <2>1. E!Idle \in Calls /\ E!Idle.at = "none"
    BY DEF E!Idle, Calls, CallSteps, E!Registers, PinSets
  <2>2. CASE op # "latch"
    <3>1. task' = [task EXCEPT ![c] = E!Idle]
      BY <1>2, <2>2 DEF E!Write
    <3> QED BY <1>1, <2>1, <2>2, <3>1
  <2>3. CASE op = "latch"
    <3>1. task' = [task EXCEPT ![c] = [task[c] EXCEPT !.at = "save"]] /\ "save" \in CallSteps
      BY <1>2, <2>3 DEF E!Write, CallSteps
    <3>2. PICK call \in Calls : /\ call = [task[c] EXCEPT !.at = "save"] /\ call.at = "save"
                                /\ call.op = op /\ call.read = task[c].read /\ call.value = task[c].value
      BY <1>1, <1>2, <3>1 DEF Calls
    <3>3. task' = [task EXCEPT ![c] = call]
      BY <3>1, <3>2
    <3> QED BY <1>1, <2>3, <3>2, <3>3
  <2> QED BY <2>2, <2>3
<1>8. ExpanderTypes'
  BY <1>1, <1>3, <1>4, <1>6, <1>7 DEF ExpanderTypes
<1>9. ~report.overlap /\ report'.faults = 0 => Kept("none")'
  <2> SUFFICES ASSUME ~report.overlap, report'.faults = 0
               PROVE  Kept("none")'
    OBVIOUS
  <2>1. Kept(op) /\ Meets(op, set)
    BY <1>2, <1>3, <1>6 DEF CallControl
  <2> QED BY <1>4, <1>6, <2>1 DEF Kept, Meets, E!Registers
<1>10. op = "latch" => E!NewRegister(c)' = set
  BY <1>2, <1>7 DEF E!NewRegister, E!Put
<1>11. CallControl(c)'
  <2>1. CASE op # "latch"
    BY <1>7, <2>1 DEF CallControl, E!Idle
  <2>2. CASE op = "latch"
    <3>1. report'.clean => ok
      BY <1>5, <1>6, <2>2
    <3> QED BY <1>4, <1>6, <1>7, <1>9, <1>10, <2>2, <3>1 DEF CallControl
  <2> QED BY <2>1, <2>2
<1>12. /\ \A d \in ExpanderPins : CallControl(d)'
       /\ ~report'.overlap => \A d, e \in ExpanderPins : d # e => task'[d].at = "none" \/ task'[e].at = "none"
  <2>1. \A d \in ExpanderPins \ {c} : ~report'.overlap => task[d].at = "none"
    BY <1>3, <1>6, Busy
  <2> QED BY <1>7, <1>11, <2>1, OtherCalls
<1>13. ~report'.overlap /\ report'.clean /\ (\A d \in ExpanderPins : ~Writing(d)') => driver' = chip'.latch
  <2> SUFFICES ASSUME ~report'.overlap, report'.clean, \A d \in ExpanderPins : ~Writing(d)'
               PROVE  driver' = chip'.latch
    OBVIOUS
  <2>1. op # "latch"
    BY <1>7 DEF Writing
  <2>2. \A d \in ExpanderPins : ~Writing(d)
    BY <1>2, <1>3, <1>7, <2>1 DEF Writing
  <2>3. driver = chip.latch
    BY <1>5, <1>6, <2>1, <2>2 DEF ExpanderInv, ExpanderControl
  <2> QED BY <1>3, <1>4, <2>1, <2>3
<1>14. ~report'.overlap /\ report'.faults = 0 => report'.clean
  BY <1>5, <1>6 DEF ExpanderInv, ExpanderControl
<1>15. report'.want.iodir \subseteq report'.inputs
  BY <1>6 DEF ExpanderInv, ExpanderControl
<1>16. ~report'.overlap /\ report'.faults = 0 => Kept("none")'
  BY <1>6, <1>9
<1> QED BY <1>8, <1>12, <1>13, <1>14, <1>15, <1>16 DEF ExpanderInv, ExpanderControl

LEMMA Saved ==
  ASSUME NEW c \in ExpanderPins, ExpanderInv, E!Save(c)
  PROVE  ExpanderInv'
<1>1. /\ chip \in ExpanderChip /\ driver \in PinSets /\ task \in [ExpanderPins -> Calls] /\ report \in ExpanderHistory
      /\ CallControl(c)
  BY DEF ExpanderInv, ExpanderTypes, ExpanderControl
<1>2. task[c].at = "save" /\ driver' = E!NewRegister(c) /\ chip' = chip /\ report' = report /\ driver' \in PinSets
  BY <1>1, NewRegisterIn DEF E!Save
<1>3. /\ task' \in [ExpanderPins -> Calls] /\ task'[c] = E!Idle /\ task'[c].at = "none"
      /\ \A d \in ExpanderPins \ {c} : task'[d] = task[d]
  <2>1. E!Idle \in Calls /\ E!Idle.at = "none"
    BY DEF E!Idle, Calls, CallSteps, E!Registers, PinSets
  <2>2. task' = [task EXCEPT ![c] = E!Idle]
    BY DEF E!Save
  <2> QED BY <1>1, <2>1, <2>2
<1>4. ExpanderTypes'
  BY <1>1, <1>2, <1>3 DEF ExpanderInv, ExpanderTypes
<1>5. CallControl(c)'
  BY <1>3 DEF CallControl, E!Idle
<1>6. /\ \A d \in ExpanderPins : CallControl(d)'
      /\ ~report'.overlap => \A d, e \in ExpanderPins : d # e => task'[d].at = "none" \/ task'[e].at = "none"
  <2>1. \A d \in ExpanderPins \ {c} : ~report'.overlap => task[d].at = "none"
    BY <1>2, Busy
  <2> QED BY <1>3, <1>5, <2>1, OtherCalls
<1>7. ~report'.overlap /\ report'.clean => driver' = chip'.latch
  BY <1>1, <1>2 DEF CallControl
<1>8. ~report'.overlap /\ report'.faults = 0 => Kept("none")'
  BY <1>1, <1>2 DEF CallControl, Kept
<1> QED BY <1>2, <1>4, <1>6, <1>7, <1>8 DEF ExpanderInv, ExpanderControl

LEMMA ExpanderStep ==
  ASSUME ExpanderInv, E!ExpanderNext
  PROVE  ExpanderInv'
<1>1. ASSUME NEW c \in ExpanderPins, E!CallNext(c)
      PROVE  ExpanderInv'
  BY <1>1, Saved, Written, Fetched DEF E!CallNext
<1>2. ASSUME NEW c \in ExpanderPins, NEW op \in E!Registers, NEW value \in 0..1, E!Call(c, op, value)
      PROVE  ExpanderInv'
  <2>1. value \in {0, 1}
    OBVIOUS
  <2> QED BY <1>2, <2>1, Called
<1> QED BY <1>1, <1>2 DEF E!ExpanderNext

LEMMA ExpanderHolds ==
  ASSUME ExpanderInv
  PROVE  E!ExpanderTypeOK /\ E!ExpanderAgrees
<1>1. E!ExpanderTypeOK
  <2>1. chip.iodir \in PinSets /\ chip.gppu \in PinSets /\ chip.latch \in PinSets /\ driver \in PinSets
    BY DEF ExpanderInv, ExpanderTypes, ExpanderChip
  <2>2. \A r \in E!Registers : chip[r] \in PinSets
    BY <2>1, RegisterFields DEF E!Registers, ExpanderInv, ExpanderTypes
  <2>3. report.faults \in Nat /\ report.faults <= MaxFaults
    BY DEF ExpanderInv, ExpanderTypes, ExpanderHistory
  <2> QED BY <2>1, <2>2, <2>3, FaultsAssumption DEF E!ExpanderTypeOK, PinSets
<1>2. ASSUME E!Quiet
      PROVE  /\ ~report.overlap /\ report.faults = 0 => Kept("none")
             /\ ~report.overlap /\ report.clean => driver = chip.latch
  <2>1. \A c \in ExpanderPins : task[c].at = "none"
    BY <1>2 DEF E!Quiet, E!Idle
  <2>2. \A c \in ExpanderPins : ~Writing(c)
    BY <2>1 DEF Writing
  <2> QED BY <2>1, <2>2 DEF ExpanderInv, ExpanderControl
<1>3. E!ExpanderAgrees
  BY <1>2 DEF E!ExpanderAgrees, Kept
<1> QED BY <1>1, <1>3

-----------------------------------------------------------------------------
(* the registers of the GPIOs (GpioRegisters)                               *)

RealModes == {"IN", "OUT", "ALT0", "ALT5"}
Pulls == [G!Pads -> 0..2]
GpioValues == {0} \cup UNION {GpioLevels[type] : type \in Processors}
GpioChip(type) ==
  [type : {type}, mode : [G!Pads -> RealModes], pull : Pulls, level : [G!Pads -> GpioValues], signal : 0..2,
   clock : SUBSET G!Pads, exported : SUBSET G!Pads, edge : [G!Pads -> GpioEdges[type]]]
GpioObject(type) == [pin : GpioPins, mode : G!Modes, pull : 0..2, edge : GpioEdges[type], alive : BOOLEAN]
GpioDriver(type) == [gpios : Seq(GpioObject(type)), open : SUBSET GpioPins, up : BOOLEAN]
GpioHistory == [before : [mode : [G!Pads -> RealModes], pull : Pulls], failed : SUBSET GpioPins, starts : Int, faults : Int]

GpioTypes ==
  /\ chip.type \in Processors /\ chip \in GpioChip(chip.type) /\ driver \in GpioDriver(chip.type)
  /\ task \in [g : Nat, pull : {0, 2}, step : 0..4, edge : GpioEdges[chip.type]] /\ report \in GpioHistory

Lone(d, g) == \A h \in DOMAIN d.gpios : d.gpios[h].pin = d.gpios[g].pin => h = g
Bare(d, pin) == \A h \in DOMAIN d.gpios : d.gpios[h].pin # pin

ModeClause(c, o) ==
  /\ o.mode \in {"IN", "OUT"} => c.mode[G!Phys[o.pin]] = o.mode
  /\ o.mode = "PWM_OUT" /\ G!PwmMode(G!Phys[o.pin]) # "PWM_OUT" => c.mode[G!Phys[o.pin]] = G!PwmMode(G!Phys[o.pin])
PullClause(c, o) == o.pull # 0 => c.pull[G!Phys[o.pin]] = o.pull
EdgeClause(c, d, o) ==
  /\ (o.pin \in d.open) <=> (o.edge # "none")
  /\ o.edge # "none" => c.edge[G!Phys[o.pin]] = o.edge

(* What holds of the only object of a pin; t may be changing its pull.      *)
ModesHold(c, d) == \A g \in DOMAIN d.gpios : d.gpios[g].alive /\ Lone(d, g) => ModeClause(c, d.gpios[g])
PullsHold(c, d, t) ==
  \A g \in DOMAIN d.gpios : d.gpios[g].alive /\ Lone(d, g) /\ (t.step = 0 \/ t.g # g) => PullClause(c, d.gpios[g])
EdgesHold(c, d, failed) ==
  /\ \A pin \in d.open : G!Phys[pin] \in c.exported /\ ~Bare(d, pin)
  /\ \A g \in DOMAIN d.gpios :
       d.gpios[g].alive /\ Lone(d, g) /\ d.gpios[g].pin \notin failed => EdgeClause(c, d, d.gpios[g])
(* What holds of a pin without any.                                         *)
BareHold(c, d, before) ==
  d.up => \A pin \in GpioPins : Bare(d, pin) => /\ c.mode[G!Phys[pin]] = before.mode[G!Phys[pin]]
                                                /\ c.pull[G!Phys[pin]] = before.pull[G!Phys[pin]]
(* Where pullUpDownControl is.                                              *)
PullRuns(c, d, t) ==
  t.step # 0 =>
    /\ d.up /\ t.g \in DOMAIN d.gpios /\ d.gpios[t.g].alive
    /\ t.step = 2 => c.signal = t.pull
    /\ t.step \in {3, 4} => c.pull[G!Phys[d.gpios[t.g].pin]] = t.pull
DeadWhenDown(d) == ~d.up => \A g \in DOMAIN d.gpios : ~d.gpios[g].alive

GpioControl ==
  /\ ModesHold(chip, driver) /\ PullsHold(chip, driver, task) /\ EdgesHold(chip, driver, report.failed)
  /\ BareHold(chip, driver, report.before) /\ PullRuns(chip, driver, task) /\ DeadWhenDown(driver)

GpioInv == GpioTypes /\ GpioControl
-----------------------------------------------------------------------------
LEMMA PhysInjective ==
  \A p, q \in GpioPins : G!Phys[p] \in G!Pads /\ (G!Phys[p] = G!Phys[q] => p = q)
<1>1. \A p \in 0..25 : G!Phys[p] = G!Map[p + 1]
  BY DEF G!Phys
<1>2. /\ G!Map[1] = 17 /\ G!Map[2] = 18 /\ G!Map[3] = 27 /\ G!Map[4] = 22 /\ G!Map[5] = 23 /\ G!Map[6] = 24
      /\ G!Map[7] = 25 /\ G!Map[8] = 5 /\ G!Map[9] = 6 /\ G!Map[10] = 19 /\ G!Map[11] = 16 /\ G!Map[12] = 26
      /\ G!Map[13] = 20 /\ G!Map[14] = 21 /\ G!Map[15] = 12 /\ G!Map[16] = 13 /\ G!Map[17] = 2 /\ G!Map[18] = 3
      /\ G!Map[19] = 7 /\ G!Map[20] = 8 /\ G!Map[21] = 9 /\ G!Map[22] = 10 /\ G!Map[23] = 11 /\ G!Map[24] = 4
      /\ G!Map[25] = 14 /\ G!Map[26] = 15
  BY DEF G!Map
<1>3. \A i, j \in 1..26 : G!Map[i] = G!Map[j] => i = j
  BY <1>2
<1>4. ASSUME NEW p \in GpioPins, NEW q \in GpioPins, G!Phys[p] = G!Phys[q] PROVE p = q
  <2>1. p \in 0..25 /\ q \in 0..25
    BY GpioAssumption
  <2>2. p + 1 \in 1..26 /\ q + 1 \in 1..26 /\ G!Map[p + 1] = G!Map[q + 1]
    BY <1>1, <1>4, <2>1
  <2>3. p + 1 = q + 1
    BY <1>3, <2>2
  <2> QED BY <2>1, <2>3
<1>5. \A p \in GpioPins : G!Phys[p] \in G!Pads
  BY DEF G!Pads
<1> QED BY <1>4, <1>5

(* One object is changed, and stays on its pin.                             *)
Changed(d, g, o, e) ==
  /\ DOMAIN e.gpios = DOMAIN d.gpios /\ e.gpios[g] = o /\ e.open = d.open /\ e.up = d.up
  /\ \A h \in DOMAIN d.gpios \ {g} : e.gpios[h] = d.gpios[h]
  /\ \A h \in DOMAIN d.gpios : Lone(e, h) <=> Lone(d, h)
  /\ \A pin : Bare(e, pin) <=> Bare(d, pin)

LEMMA ObjectSet ==
  ASSUME NEW type, NEW d \in GpioDriver(type), NEW g \in DOMAIN d.gpios, NEW o \in GpioObject(type), o.pin = d.gpios[g].pin,
         NEW e, e = [d EXCEPT !.gpios = [d.gpios EXCEPT ![g] = o]]
  PROVE  e \in GpioDriver(type) /\ Changed(d, g, o, e)
<1>1. d.gpios \in Seq(GpioObject(type))
  BY DEF GpioDriver
<1>2. PICK new : new = [d.gpios EXCEPT ![g] = o]
  OBVIOUS
<1>3. new \in Seq(GpioObject(type)) /\ DOMAIN new = DOMAIN d.gpios /\ new[g] = o
      /\ \A h \in DOMAIN d.gpios \ {g} : new[h] = d.gpios[h]
  BY <1>1, <1>2
<1>4. e \in GpioDriver(type) /\ e.gpios = new /\ e.open = d.open /\ e.up = d.up
  BY <1>2, <1>3 DEF GpioDriver
<1>5. \A h \in DOMAIN d.gpios : e.gpios[h].pin = d.gpios[h].pin
  BY <1>3, <1>4
<1>6. \A h \in DOMAIN d.gpios : Lone(e, h) <=> Lone(d, h)
  BY <1>3, <1>4, <1>5 DEF Lone
<1>7. \A pin : Bare(e, pin) <=> Bare(d, pin)
  BY <1>3, <1>4, <1>5 DEF Bare
<1> QED BY <1>3, <1>4, <1>6, <1>7 DEF Changed

LEMMA PinsDiffer ==
  ASSUME NEW type, NEW d \in GpioDriver(type), NEW g \in DOMAIN d.gpios, NEW h \in DOMAIN d.gpios, Lone(d, h), g # h
  PROVE  d.gpios[g].pin # d.gpios[h].pin /\ G!Phys[d.gpios[g].pin] # G!Phys[d.gpios[h].pin]
<1>1. d.gpios[g] \in GpioObject(type) /\ d.gpios[h] \in GpioObject(type)
  BY DEF GpioDriver
<1>2. d.gpios[g].pin \in GpioPins /\ d.gpios[h].pin \in GpioPins /\ d.gpios[g].pin # d.gpios[h].pin
  BY <1>1 DEF GpioObject, Lone
<1> QED BY <1>2, PhysInjective

LEMMA ObjectOf ==
  ASSUME NEW type, NEW d \in GpioDriver(type), NEW g \in DOMAIN d.gpios
  PROVE  /\ d.gpios[g] \in GpioObject(type) /\ d.gpios[g].pin \in GpioPins /\ G!Phys[d.gpios[g].pin] \in G!Pads
         /\ d.gpios[g].mode \in G!Modes /\ d.gpios[g].edge \in GpioEdges[type] /\ d.gpios[g].pull \in 0..2
         /\ d.gpios[g].alive \in BOOLEAN
<1>1. d.gpios[g] \in GpioObject(type)
  BY DEF GpioDriver
<1> QED BY <1>1, PhysInjective DEF GpioObject

LEMMA GpioInit ==
  ASSUME G!GpioInit
  PROVE  GpioInv
<1>1. PICK type \in Processors, pull \in 0..1 :
        chip = [type |-> type, mode |-> [p \in G!Pads |-> "IN"], pull |-> [p \in G!Pads |-> pull],
                level |-> [p \in G!Pads |-> 0], signal |-> 0, clock |-> {}, exported |-> {},
                edge |-> [p \in G!Pads |-> "none"]]
  BY DEF G!GpioInit
<1>2. /\ driver = [gpios |-> <<>>, open |-> {}, up |-> FALSE] /\ task = [g |-> 0, pull |-> 0, step |-> 0, edge |-> "none"]
      /\ report = [before |-> [mode |-> chip.mode, pull |-> chip.pull], failed |-> {}, starts |-> 0, faults |-> 0]
  BY DEF G!GpioInit, G!NoTask
<1>3. chip \in GpioChip(type) /\ chip.type = type
  <2>1. [p \in G!Pads |-> "IN"] \in [G!Pads -> RealModes] /\ [p \in G!Pads |-> pull] \in Pulls
        /\ [p \in G!Pads |-> 0] \in [G!Pads -> GpioValues] /\ [p \in G!Pads |-> "none"] \in [G!Pads -> GpioEdges[type]]
    BY GpioAssumption DEF RealModes, Pulls, GpioValues
  <2> QED BY <1>1, <2>1 DEF GpioChip
<1>4. driver \in GpioDriver(type)
  <2>1. <<>> \in Seq(GpioObject(type))
    OBVIOUS
  <2> QED BY <1>2, <2>1 DEF GpioDriver
<1>5. report \in GpioHistory /\ task \in [g : Nat, pull : {0, 2}, step : 0..4, edge : GpioEdges[type]]
  <2>1. chip.mode \in [G!Pads -> RealModes] /\ chip.pull \in Pulls
    BY <1>3 DEF GpioChip
  <2> QED BY <1>2, <2>1, GpioAssumption DEF GpioHistory
<1>6. GpioTypes
  BY <1>3, <1>4, <1>5 DEF GpioTypes
<1>7. DOMAIN driver.gpios = {} /\ driver.open = {} /\ ~driver.up /\ task.step = 0
  BY <1>2
<1> QED BY <1>6, <1>7
        DEF GpioInv, GpioControl, ModesHold, PullsHold, EdgesHold, BareHold, PullRuns, DeadWhenDown
-----------------------------------------------------------------------------
(* what the provider does to the chip and the driver *)

LEMMA ModeSet ==
  ASSUME NEW type, NEW c \in GpioChip(type), NEW pad \in G!Pads, NEW mode \in G!Modes, NEW e, e = G!SetMode(c, pad, mode)
  PROVE  /\ e \in GpioChip(type) /\ e.type = c.type /\ e.pull = c.pull /\ e.signal = c.signal /\ e.exported = c.exported
         /\ e.edge = c.edge /\ \A p \in G!Pads \ {pad} : e.mode[p] = c.mode[p]
         /\ mode \in {"IN", "OUT"} => e.mode[pad] = mode
         /\ mode = "PWM_OUT" /\ G!PwmMode(pad) # "PWM_OUT" => e.mode[pad] = G!PwmMode(pad)
<1>1. G!PwmMode(pad) \in {"ALT0", "ALT5", "PWM_OUT"}
  BY DEF G!PwmMode
<1>2. PICK real \in RealModes \cup {"PWM_OUT"} : real = IF mode = "PWM_OUT" THEN G!PwmMode(pad) ELSE mode
  BY <1>1 DEF RealModes, G!Modes
<1>3. e = IF real = "PWM_OUT" THEN c ELSE [c EXCEPT !.mode[pad] = real]
  BY <1>2 DEF G!SetMode
<1>4. CASE real = "PWM_OUT"
  BY <1>2, <1>3, <1>4
<1>5. CASE real # "PWM_OUT"
  <2>1. PICK modes : modes = [c.mode EXCEPT ![pad] = real]
    OBVIOUS
  <2>2. c.mode \in [G!Pads -> RealModes] /\ real \in RealModes
    BY <1>2, <1>5 DEF GpioChip
  <2>3. modes \in [G!Pads -> RealModes] /\ modes[pad] = real /\ \A p \in G!Pads \ {pad} : modes[p] = c.mode[p]
    BY <2>1, <2>2
  <2>4. e = [c EXCEPT !.mode = modes]
    BY <1>3, <1>5, <2>1
  <2>5. e \in GpioChip(type) /\ e.type = c.type /\ e.pull = c.pull /\ e.signal = c.signal /\ e.exported = c.exported
        /\ e.edge = c.edge /\ e.mode = modes
    BY <2>3, <2>4 DEF GpioChip
  <2> QED BY <1>2, <1>5, <2>3, <2>5
<1> QED BY <1>4, <1>5

LEMMA EdgeFileSet ==
  ASSUME NEW type, NEW c \in GpioChip(type), NEW pad \in G!Pads, NEW edge \in GpioEdges[type], NEW fault, NEW e,
         e = G!EdgeFile(c, pad, edge, fault)
  PROVE  /\ e \in GpioChip(type) /\ e.type = c.type /\ e.mode = c.mode /\ e.pull = c.pull /\ e.signal = c.signal
         /\ e.exported = c.exported /\ \A p \in G!Pads \ {pad} : e.edge[p] = c.edge[p]
         /\ fault # "edge" => e.edge[pad] = edge
<1>1. CASE fault = "edge"
  BY <1>1 DEF G!EdgeFile
<1>2. CASE fault # "edge"
  <2>1. PICK edges : edges = [c.edge EXCEPT ![pad] = edge]
    OBVIOUS
  <2>2. c.edge \in [G!Pads -> GpioEdges[type]]
    BY DEF GpioChip
  <2>3. edges \in [G!Pads -> GpioEdges[type]] /\ edges[pad] = edge /\ \A p \in G!Pads \ {pad} : edges[p] = c.edge[p]
    BY <2>1, <2>2
  <2>4. e = [c EXCEPT !.edge = edges]
    BY <1>2, <2>1 DEF G!EdgeFile
  <2>5. e \in GpioChip(type) /\ e.type = c.type /\ e.mode = c.mode /\ e.pull = c.pull /\ e.signal = c.signal
        /\ e.exported = c.exported /\ e.edge = edges
    BY <2>3, <2>4 DEF GpioChip
  <2> QED BY <2>3, <2>5
<1> QED BY <1>1, <1>2

LEMMA Exported ==
  ASSUME NEW type, NEW c \in GpioChip(type), NEW pad \in G!Pads, NEW e, e = G!Export(c, pad)
  PROVE  /\ e \in GpioChip(type) /\ e.type = c.type /\ e.mode = c.mode /\ e.pull = c.pull /\ e.signal = c.signal
         /\ e.exported = c.exported \cup {pad} /\ e.edge = c.edge
<1>1. PICK all \in SUBSET G!Pads : all = c.exported \cup {pad}
  BY DEF GpioChip
<1>2. e = [c EXCEPT !.exported = all]
  BY <1>1 DEF G!Export
<1> QED BY <1>1, <1>2 DEF GpioChip

(* A change of an edge concerns one object and the file of its pin, and     *)
(* succeeds unless a file does not open.                                    *)
Edged(c, d, g, edge, fault, e, f) ==
  LET pin == d.gpios[g].pin IN
  /\ e.type = c.type /\ e.mode = c.mode /\ e.pull = c.pull /\ e.signal = c.signal /\ c.exported \subseteq e.exported
  /\ \A p \in G!Pads \ {G!Phys[pin]} : e.edge[p] = c.edge[p]
  /\ DOMAIN f.gpios = DOMAIN d.gpios /\ f.up = d.up
  /\ \A h \in DOMAIN d.gpios \ {g} : f.gpios[h] = d.gpios[h]
  /\ f.gpios[g].pin = pin /\ f.gpios[g].mode = d.gpios[g].mode /\ f.gpios[g].pull = d.gpios[g].pull
  /\ f.gpios[g].alive = d.gpios[g].alive
  /\ f.open \ {pin} = d.open \ {pin} /\ (pin \in f.open => G!Phys[pin] \in e.exported)
  /\ fault = "none" => EdgeClause(e, f, f.gpios[g])

LEMMA EdgeSet ==
  ASSUME NEW type, NEW c \in GpioChip(type), NEW d \in GpioDriver(type), NEW g \in DOMAIN d.gpios, NEW edge \in GpioEdges[type],
         NEW fault \in {"none", "export", "edge", "open"}, fault # "none" => edge # "none",
         \A pin \in d.open : G!Phys[pin] \in c.exported,
         NEW s, s = G!SetEdge(c, d, g, edge, fault)
  PROVE  s.c \in GpioChip(type) /\ s.d \in GpioDriver(type) /\ Edged(c, d, g, edge, fault, s.c, s.d)
<1>1. PICK pin \in GpioPins : pin = d.gpios[g].pin
  BY ObjectOf
<1>2. PICK pad \in G!Pads : pad = G!Phys[pin]
  BY PhysInjective
<1>3. PICK o \in GpioObject(type) : o = [d.gpios[g] EXCEPT !.edge = edge]
  BY ObjectOf DEF GpioObject
<1>4. o.pin = pin /\ o.mode = d.gpios[g].mode /\ o.pull = d.gpios[g].pull /\ o.alive = d.gpios[g].alive /\ o.edge = edge
  BY <1>1, <1>3, ObjectOf DEF GpioObject
<1>5. PICK gpios : gpios = [d.gpios EXCEPT ![g] = o]
  OBVIOUS
<1>6. gpios \in Seq(GpioObject(type)) /\ DOMAIN gpios = DOMAIN d.gpios /\ gpios[g] = o
      /\ \A h \in DOMAIN d.gpios \ {g} : gpios[h] = d.gpios[h]
  BY <1>5 DEF GpioDriver
<1>7. PICK shut \in SUBSET GpioPins : shut = IF pad \in c.exported THEN d.open \ {pin} ELSE d.open
  BY DEF GpioDriver
<1>8. pin \notin shut /\ shut \ {pin} = d.open \ {pin}
  BY <1>2, <1>7
<1> DEFINE closed == G!Close(c, d, pin)
<1>9. closed = [d EXCEPT !.open = shut]
  BY <1>2, <1>7 DEF G!Close
<1>10. closed \in GpioDriver(type) /\ closed.gpios = d.gpios /\ closed.open = shut /\ closed.up = d.up
  BY <1>9 DEF GpioDriver
<1>11. PICK out : out = G!Export(c, pad)
  OBVIOUS
<1>12. /\ out \in GpioChip(type) /\ out.type = c.type /\ out.mode = c.mode /\ out.pull = c.pull /\ out.signal = c.signal
       /\ out.exported = c.exported \cup {pad} /\ out.edge = c.edge
  BY <1>11, Exported
<1>13. PICK filed : filed = G!EdgeFile(out, pad, edge, fault)
  OBVIOUS
<1>14. /\ filed \in GpioChip(type) /\ filed.type = c.type /\ filed.mode = c.mode /\ filed.pull = c.pull
       /\ filed.signal = c.signal /\ filed.exported = c.exported \cup {pad}
       /\ \A p \in G!Pads \ {pad} : filed.edge[p] = c.edge[p]
       /\ fault # "edge" => filed.edge[pad] = edge
  BY <1>12, <1>13, EdgeFileSet
<1>15. CASE edge = "none"
  <2>1. PICK e : e = IF pad \in c.exported THEN G!EdgeFile(c, pad, edge, fault) ELSE c
    OBVIOUS
  <2>2. /\ e \in GpioChip(type) /\ e.type = c.type /\ e.mode = c.mode /\ e.pull = c.pull /\ e.signal = c.signal
        /\ e.exported = c.exported /\ \A p \in G!Pads \ {pad} : e.edge[p] = c.edge[p]
    BY <2>1, EdgeFileSet
  <2>3. PICK f : f = [closed EXCEPT !.gpios[g].edge = edge]
    OBVIOUS
  <2>4. f = [closed EXCEPT !.gpios = gpios]
    BY <1>3, <1>5, <1>10, <2>3
  <2>5. f \in GpioDriver(type) /\ f.gpios = gpios /\ f.open = shut /\ f.up = d.up
    BY <1>6, <1>10, <2>4 DEF GpioDriver
  <2>6. s.c = e /\ s.d = f
    BY <1>1, <1>2, <1>15, <2>1, <2>3 DEF G!SetEdge
  <2>7. Edged(c, d, g, edge, fault, e, f)
    BY <1>1, <1>2, <1>4, <1>6, <1>8, <1>15, <2>2, <2>5 DEF Edged, EdgeClause
  <2> QED BY <2>2, <2>5, <2>6, <2>7
<1>16. CASE edge # "none" /\ fault = "export"
  <2>1. s.c = c /\ s.d = closed
    BY <1>1, <1>16 DEF G!SetEdge
  <2>2. Edged(c, d, g, edge, fault, c, closed)
    BY <1>1, <1>2, <1>8, <1>10, <1>16 DEF Edged
  <2> QED BY <1>10, <2>1, <2>2
<1>17. CASE edge # "none" /\ fault = "open"
  <2>1. s.c = filed /\ s.d = closed
    BY <1>1, <1>2, <1>11, <1>13, <1>17 DEF G!SetEdge
  <2>2. Edged(c, d, g, edge, fault, filed, closed)
    BY <1>1, <1>2, <1>8, <1>10, <1>14, <1>17 DEF Edged
  <2> QED BY <1>10, <1>14, <2>1, <2>2
<1>18. CASE edge # "none" /\ fault \in {"none", "edge"}
  <2>1. PICK open \in SUBSET GpioPins : open = shut \cup {pin}
    OBVIOUS
  <2>2. PICK f : f = [closed EXCEPT !.open = @ \cup {pin}, !.gpios[g].edge = edge]
    OBVIOUS
  <2>3. f = [closed EXCEPT !.open = open, !.gpios = gpios]
    BY <1>3, <1>5, <1>10, <2>1, <2>2
  <2>4. f \in GpioDriver(type) /\ f.gpios = gpios /\ f.open = open /\ f.up = d.up
    BY <1>6, <1>10, <2>3 DEF GpioDriver
  <2>5. s.c = filed /\ s.d = f
    BY <1>1, <1>2, <1>11, <1>13, <1>18, <2>2 DEF G!SetEdge
  <2>6. Edged(c, d, g, edge, fault, filed, f)
    <3>1. open \ {pin} = d.open \ {pin} /\ pin \in open
      BY <1>8, <2>1
    <3> QED BY <1>1, <1>2, <1>4, <1>6, <1>14, <1>18, <2>4, <3>1 DEF Edged, EdgeClause
  <2> QED BY <1>14, <2>4, <2>5, <2>6
<1> QED BY <1>15, <1>16, <1>17, <1>18

(* What a change of an edge leaves as it is: t is the object whose pull is  *)
(* being changed.                                                           *)
LEMMA EdgedHolds ==
  ASSUME NEW type, NEW c \in GpioChip(type), NEW d \in GpioDriver(type), NEW g \in DOMAIN d.gpios, NEW edge, NEW fault,
         NEW e \in GpioChip(type), NEW f \in GpioDriver(type), Edged(c, d, g, edge, fault, e, f),
         NEW t, NEW failed, NEW before,
         ModesHold(c, d), PullsHold(c, d, t), EdgesHold(c, d, failed), BareHold(c, d, before), DeadWhenDown(d)
  PROVE  /\ ModesHold(e, f) /\ PullsHold(e, f, t) /\ BareHold(e, f, before) /\ DeadWhenDown(f)
         /\ EdgesHold(e, f, IF fault = "none" THEN failed ELSE failed \cup {d.gpios[g].pin})
<1>1. PICK pin \in GpioPins : pin = d.gpios[g].pin
  BY ObjectOf
<1>2. \A h \in DOMAIN d.gpios : /\ f.gpios[h].pin = d.gpios[h].pin /\ f.gpios[h].mode = d.gpios[h].mode
                                /\ f.gpios[h].pull = d.gpios[h].pull /\ f.gpios[h].alive = d.gpios[h].alive
  BY DEF Edged
<1>3. DOMAIN f.gpios = DOMAIN d.gpios /\ e.mode = c.mode /\ e.pull = c.pull /\ f.up = d.up
  BY DEF Edged
<1>4. \A h \in DOMAIN d.gpios : Lone(f, h) <=> Lone(d, h)
  BY <1>2, <1>3 DEF Lone
<1>5. \A p : Bare(f, p) <=> Bare(d, p)
  BY <1>2, <1>3 DEF Bare
<1>6. ModesHold(e, f)
  BY <1>2, <1>3, <1>4 DEF ModesHold, ModeClause
<1>7. PullsHold(e, f, t)
  BY <1>2, <1>3, <1>4 DEF PullsHold, PullClause
<1>8. BareHold(e, f, before) /\ DeadWhenDown(f)
  BY <1>2, <1>3, <1>5 DEF BareHold, DeadWhenDown
<1>9. ASSUME NEW p \in f.open PROVE G!Phys[p] \in e.exported /\ ~Bare(f, p)
  <2>1. CASE p = pin
    BY <1>1, <1>2, <1>3, <1>9, <2>1 DEF Edged, Bare
  <2>2. CASE p # pin
    <3>1. p \in d.open
      BY <1>1, <1>9, <2>2 DEF Edged
    <3>2. G!Phys[p] \in c.exported /\ ~Bare(d, p)
      BY <3>1 DEF EdgesHold
    <3> QED BY <1>5, <3>2 DEF Edged
  <2> QED BY <2>1, <2>2
<1>10. ASSUME NEW h \in DOMAIN f.gpios, f.gpios[h].alive, Lone(f, h),
              f.gpios[h].pin \notin (IF fault = "none" THEN failed ELSE failed \cup {pin})
       PROVE  EdgeClause(e, f, f.gpios[h])
  <2>1. CASE h = g
    BY <1>1, <1>2, <1>3, <1>10, <2>1 DEF Edged
  <2>2. CASE h # g
    <3>1. h \in DOMAIN d.gpios /\ d.gpios[h].alive /\ Lone(d, h) /\ d.gpios[h].pin \notin failed
      BY <1>2, <1>3, <1>4, <1>10
    <3>2. EdgeClause(c, d, d.gpios[h])
      BY <3>1 DEF EdgesHold
    <3>3. d.gpios[h].pin # pin /\ G!Phys[d.gpios[h].pin] # G!Phys[pin] /\ G!Phys[d.gpios[h].pin] \in G!Pads
      BY <1>1, <2>2, <3>1, PinsDiffer, ObjectOf
    <3>4. f.gpios[h] = d.gpios[h]
      BY <2>2, <3>1 DEF Edged
    <3>5. d.gpios[h].pin \in f.open <=> d.gpios[h].pin \in d.open
      BY <1>1, <3>3 DEF Edged
    <3>6. e.edge[G!Phys[d.gpios[h].pin]] = c.edge[G!Phys[d.gpios[h].pin]]
      BY <1>1, <3>3 DEF Edged
    <3> QED BY <3>2, <3>4, <3>5, <3>6 DEF EdgeClause
  <2> QED BY <2>1, <2>2
<1>11. EdgesHold(e, f, IF fault = "none" THEN failed ELSE failed \cup {pin})
  BY <1>9, <1>10 DEF EdgesHold
<1> QED BY <1>1, <1>6, <1>7, <1>8, <1>11
-----------------------------------------------------------------------------
(* the actions *)

LEMMA GpioFacts ==
  ASSUME GpioInv
  PROVE  /\ chip.type \in Processors /\ chip \in GpioChip(chip.type) /\ driver \in GpioDriver(chip.type)
         /\ task \in [g : Nat, pull : {0, 2}, step : 0..4, edge : GpioEdges[chip.type]] /\ report \in GpioHistory
         /\ ModesHold(chip, driver) /\ PullsHold(chip, driver, task) /\ EdgesHold(chip, driver, report.failed)
         /\ BareHold(chip, driver, report.before) /\ PullRuns(chip, driver, task) /\ DeadWhenDown(driver)
BY DEF GpioInv, GpioTypes, GpioControl

LEMMA GpioProved ==
  ASSUME chip' \in GpioChip(chip.type), chip.type \in Processors, driver' \in GpioDriver(chip.type),
         task' \in [g : Nat, pull : {0, 2}, step : 0..4, edge : GpioEdges[chip.type]], report' \in GpioHistory,
         ModesHold(chip', driver'), PullsHold(chip', driver', task'), EdgesHold(chip', driver', report'.failed),
         BareHold(chip', driver', report'.before), PullRuns(chip', driver', task'), DeadWhenDown(driver')
  PROVE  GpioInv'
<1>1. chip'.type = chip.type
  BY DEF GpioChip
<1>2. GpioTypes'
  BY <1>1 DEF GpioTypes
<1>3. GpioControl'
  BY DEF GpioControl, ModesHold, PullsHold, EdgesHold, BareHold, PullRuns, DeadWhenDown,
         Lone, Bare, ModeClause, PullClause, EdgeClause
<1> QED BY <1>2, <1>3 DEF GpioInv

LEMMA Levelled ==
  ASSUME GpioInv, NEW g \in DOMAIN driver.gpios, NEW v \in GpioLevels[chip.type], G!Write(g, v)
  PROVE  GpioInv'
<1> USE GpioFacts
<1>1. PICK pad \in G!Pads : pad = G!Phys[driver.gpios[g].pin]
  BY ObjectOf
<1>2. PICK level : level = [chip.level EXCEPT ![pad] = v]
  OBVIOUS
<1>3. level \in [G!Pads -> GpioValues]
  BY <1>2 DEF GpioChip, GpioValues
<1>4. chip' = [chip EXCEPT !.level = level] /\ UNCHANGED <<driver, task, report>>
  BY <1>1, <1>2 DEF G!Write
<1>5. chip' \in GpioChip(chip.type) /\ chip'.mode = chip.mode /\ chip'.pull = chip.pull /\ chip'.signal = chip.signal
      /\ chip'.exported = chip.exported /\ chip'.edge = chip.edge
  BY <1>3, <1>4 DEF GpioChip
<1>6. ModesHold(chip', driver) /\ PullsHold(chip', driver, task) /\ EdgesHold(chip', driver, report.failed)
      /\ BareHold(chip', driver, report.before) /\ PullRuns(chip', driver, task)
  BY <1>5 DEF ModesHold, PullsHold, EdgesHold, BareHold, PullRuns, ModeClause, PullClause, EdgeClause
<1> QED BY <1>4, <1>5, <1>6, GpioProved

LEMMA FaultCounted ==
  ASSUME GpioInv, NEW g \in DOMAIN driver.gpios, NEW fault, G!Faulty(g, fault)
  PROVE  /\ report' \in GpioHistory /\ report'.before = report.before
         /\ report'.failed = IF fault = "none" THEN report.failed ELSE report.failed \cup {driver.gpios[g].pin}
<1>1. CASE fault = "none"
  BY <1>1, GpioFacts DEF G!Faulty
<1>2. CASE fault # "none"
  <2>0. driver.gpios[g].pin \in GpioPins /\ report.failed \in SUBSET GpioPins
    <3>1. report \in GpioHistory /\ driver \in GpioDriver(chip.type)
      BY GpioFacts
    <3> QED BY <3>1, ObjectOf DEF GpioHistory
  <2>1. PICK failed \in SUBSET GpioPins : failed = report.failed \cup {driver.gpios[g].pin}
    BY <2>0
  <2>2. PICK n \in Int : n = report.faults + 1
    BY GpioFacts DEF GpioHistory
  <2>3. report' = [report EXCEPT !.faults = n, !.failed = failed]
    BY <1>2, <2>1, <2>2 DEF G!Faulty
  <2> QED BY <1>2, <2>1, <2>3, GpioFacts DEF GpioHistory
<1> QED BY <1>1, <1>2

LEMMA EdgeChanged ==
  ASSUME GpioInv, NEW g \in DOMAIN driver.gpios, NEW edge \in GpioEdges[chip.type],
         NEW fault \in {"none", "export", "edge", "open"}, fault # "none" => edge # "none", G!Edge(g, edge, fault)
  PROVE  GpioInv'
<1> USE GpioFacts
<1>1. PICK s : s = G!SetEdge(chip, driver, g, edge, fault)
  OBVIOUS
<1>2. chip' = s.c /\ driver' = s.d /\ G!Faulty(g, fault) /\ UNCHANGED task /\ task.step = 0
  BY <1>1 DEF G!Edge, G!Free
<1>3. \A pin \in driver.open : G!Phys[pin] \in chip.exported
  BY DEF EdgesHold
<1>4. s.c \in GpioChip(chip.type) /\ s.d \in GpioDriver(chip.type) /\ Edged(chip, driver, g, edge, fault, s.c, s.d)
  BY <1>1, <1>3, EdgeSet
<1>5. /\ ModesHold(s.c, s.d) /\ PullsHold(s.c, s.d, task) /\ BareHold(s.c, s.d, report.before) /\ DeadWhenDown(s.d)
      /\ EdgesHold(s.c, s.d, IF fault = "none" THEN report.failed ELSE report.failed \cup {driver.gpios[g].pin})
  BY <1>4, EdgedHolds
<1>6. /\ report' \in GpioHistory /\ report'.before = report.before
      /\ report'.failed = IF fault = "none" THEN report.failed ELSE report.failed \cup {driver.gpios[g].pin}
  BY <1>2, FaultCounted
<1>7. PullRuns(s.c, s.d, task)
  BY <1>2 DEF PullRuns
<1> QED BY <1>2, <1>4, <1>5, <1>6, <1>7, GpioProved

(* One pull is set.                                                         *)
PulledTo(c, pad, pull, e) ==
  /\ e.type = c.type /\ e.mode = c.mode /\ e.exported = c.exported /\ e.edge = c.edge /\ e.signal = c.signal
  /\ e.pull[pad] = pull /\ \A p \in G!Pads \ {pad} : e.pull[p] = c.pull[p]

LEMMA PullSet ==
  ASSUME NEW type, NEW c \in GpioChip(type), NEW pad \in G!Pads, NEW pull \in 0..2, NEW clock \in SUBSET G!Pads,
         NEW e, e = [c EXCEPT !.clock = clock, !.pull[pad] = pull] \/ e = [c EXCEPT !.pull[pad] = pull]
  PROVE  e \in GpioChip(type) /\ PulledTo(c, pad, pull, e)
<1>1. PICK pulls : pulls = [c.pull EXCEPT ![pad] = pull]
  OBVIOUS
<1>2. c.pull \in Pulls
  BY DEF GpioChip
<1>3. pulls \in Pulls /\ pulls[pad] = pull /\ \A p \in G!Pads \ {pad} : pulls[p] = c.pull[p]
  BY <1>1, <1>2 DEF Pulls
<1>4. e = [c EXCEPT !.clock = clock, !.pull = pulls] \/ e = [c EXCEPT !.pull = pulls]
  BY <1>1
<1>5. e \in GpioChip(type) /\ e.type = c.type /\ e.mode = c.mode /\ e.exported = c.exported /\ e.edge = c.edge
      /\ e.signal = c.signal /\ e.pull = pulls
  BY <1>3, <1>4 DEF GpioChip
<1> QED BY <1>3, <1>5 DEF PulledTo

(* The pull of the pad of g changes: the others are as they were.           *)
LEMMA PulledHolds ==
  ASSUME GpioInv, NEW g \in DOMAIN driver.gpios, task.step # 0 => task.g = g,
         NEW pull, NEW e \in GpioChip(chip.type), PulledTo(chip, G!Phys[driver.gpios[g].pin], pull, e)
  PROVE  /\ ModesHold(e, driver) /\ EdgesHold(e, driver, report.failed) /\ BareHold(e, driver, report.before)
         /\ \A h \in DOMAIN driver.gpios \ {g} :
              driver.gpios[h].alive /\ Lone(driver, h) => PullClause(e, driver.gpios[h])
<1> USE GpioFacts
<1>0. PICK pad \in G!Pads : pad = G!Phys[driver.gpios[g].pin]
  BY ObjectOf
<1>1. ModesHold(e, driver) /\ EdgesHold(e, driver, report.failed)
  BY DEF PulledTo, ModesHold, EdgesHold, ModeClause, EdgeClause
<1>2. ASSUME NEW h \in DOMAIN driver.gpios \ {g}, driver.gpios[h].alive, Lone(driver, h) PROVE PullClause(e, driver.gpios[h])
  <2>1. PullClause(chip, driver.gpios[h])
    BY <1>2 DEF PullsHold
  <2>2. G!Phys[driver.gpios[h].pin] \in G!Pads \ {pad}
    BY <1>0, <1>2, PinsDiffer, ObjectOf
  <2> QED BY <1>0, <2>1, <2>2 DEF PulledTo, PullClause
<1>3. BareHold(e, driver, report.before)
  <2> SUFFICES ASSUME driver.up, NEW pin \in GpioPins, Bare(driver, pin)
               PROVE  /\ e.mode[G!Phys[pin]] = report.before.mode[G!Phys[pin]]
                      /\ e.pull[G!Phys[pin]] = report.before.pull[G!Phys[pin]]
    BY DEF BareHold
  <2>1. G!Phys[pin] \in G!Pads \ {pad}
    <3>1. pin # driver.gpios[g].pin /\ driver.gpios[g].pin \in GpioPins
      BY ObjectOf DEF Bare
    <3> QED BY <1>0, <3>1, PhysInjective
  <2> QED BY <1>0, <2>1 DEF BareHold, PulledTo
<1> QED BY <1>1, <1>2, <1>3

(* An object remembers another pull, which its pad has.                     *)
LEMMA PullRemembered ==
  ASSUME NEW type, NEW d \in GpioDriver(type), NEW g \in DOMAIN d.gpios, NEW pull \in 0..2,
         NEW f, f = [d EXCEPT !.gpios[g].pull = pull]
  PROVE  \E o \in GpioObject(type) :
           /\ f \in GpioDriver(type) /\ Changed(d, g, o, f) /\ o.pull = pull
           /\ o.pin = d.gpios[g].pin /\ o.mode = d.gpios[g].mode /\ o.edge = d.gpios[g].edge /\ o.alive = d.gpios[g].alive
<1>1. PICK o \in GpioObject(type) : o = [d.gpios[g] EXCEPT !.pull = pull]
  BY ObjectOf DEF GpioObject
<1>2. o.pin = d.gpios[g].pin /\ o.mode = d.gpios[g].mode /\ o.edge = d.gpios[g].edge /\ o.alive = d.gpios[g].alive
      /\ o.pull = pull
  BY <1>1, ObjectOf DEF GpioObject
<1>3. f = [d EXCEPT !.gpios = [d.gpios EXCEPT ![g] = o]]
  BY <1>1 DEF GpioDriver
<1>4. f \in GpioDriver(type) /\ Changed(d, g, o, f)
  BY <1>2, <1>3, ObjectSet, Zenon
<1> QED BY <1>2, <1>4

LEMMA PullKept ==
  ASSUME NEW c, NEW d, NEW g \in DOMAIN d.gpios, NEW o, NEW f, Changed(d, g, o, f),
         o.pin = d.gpios[g].pin, o.mode = d.gpios[g].mode, o.edge = d.gpios[g].edge, o.alive = d.gpios[g].alive,
         NEW failed, NEW before,
         ModesHold(c, d), EdgesHold(c, d, failed), BareHold(c, d, before), DeadWhenDown(d)
  PROVE  /\ ModesHold(c, f) /\ EdgesHold(c, f, failed) /\ BareHold(c, f, before) /\ DeadWhenDown(f)
<1>1. /\ DOMAIN f.gpios = DOMAIN d.gpios /\ f.open = d.open /\ f.up = d.up
      /\ \A h \in DOMAIN d.gpios : Lone(f, h) <=> Lone(d, h)
      /\ \A pin : Bare(f, pin) <=> Bare(d, pin)
  BY DEF Changed
<1>2. \A h \in DOMAIN d.gpios : /\ f.gpios[h].pin = d.gpios[h].pin /\ f.gpios[h].mode = d.gpios[h].mode
                                /\ f.gpios[h].edge = d.gpios[h].edge /\ f.gpios[h].alive = d.gpios[h].alive
  BY DEF Changed
<1>3. ModesHold(c, f)
  BY <1>1, <1>2 DEF ModesHold, ModeClause
<1>4. EdgesHold(c, f, failed)
  BY <1>1, <1>2 DEF EdgesHold, EdgeClause
<1>5. BareHold(c, f, before) /\ DeadWhenDown(f)
  BY <1>1, <1>2 DEF BareHold, DeadWhenDown
<1> QED BY <1>3, <1>4, <1>5

LEMMA PullMatches ==
  ASSUME NEW c, NEW d, NEW g \in DOMAIN d.gpios, NEW o, NEW f, Changed(d, g, o, f), NEW t,
         o.pin = d.gpios[g].pin, o.alive = d.gpios[g].alive, c.pull[G!Phys[d.gpios[g].pin]] = o.pull,
         \A h \in DOMAIN d.gpios \ {g} : d.gpios[h].alive /\ Lone(d, h) => PullClause(c, d.gpios[h])
  PROVE  PullsHold(c, f, t)
<1>1. PullClause(c, o)
  BY DEF PullClause
<1> QED BY <1>1 DEF PullsHold, Changed

LEMMA PullAsked ==
  ASSUME GpioInv, NEW g \in DOMAIN driver.gpios, NEW pull \in {0, 2}, G!SetPull(g, pull)
  PROVE  GpioInv'
<1> USE GpioFacts
<1>1. driver.up /\ task.step = 0 /\ driver.gpios[g].alive /\ UNCHANGED report
  BY DEF G!SetPull, G!Free, G!Alive
<1>2. CASE G!Pi4
  <2>1. PICK pad \in G!Pads : pad = G!Phys[driver.gpios[g].pin]
    BY ObjectOf
  <2>2. chip' = [chip EXCEPT !.pull[pad] = pull] /\ driver' = [driver EXCEPT !.gpios[g].pull = pull] /\ UNCHANGED task
    BY <1>2, <2>1 DEF G!SetPull, G!Pull
  <2>3. chip' \in GpioChip(chip.type) /\ PulledTo(chip, pad, pull, chip')
    <3>1. {} \in SUBSET G!Pads /\ pull \in 0..2
      OBVIOUS
    <3> QED BY <2>2, <3>1, PullSet
  <2>4. /\ ModesHold(chip', driver) /\ EdgesHold(chip', driver, report.failed) /\ BareHold(chip', driver, report.before)
        /\ \A h \in DOMAIN driver.gpios \ {g} :
             driver.gpios[h].alive /\ Lone(driver, h) => PullClause(chip', driver.gpios[h])
    BY <1>1, <2>1, <2>3, PulledHolds
  <2>5. chip'.pull[G!Phys[driver.gpios[g].pin]] = pull
    BY <2>1, <2>3 DEF PulledTo
  <2>6. /\ driver' \in GpioDriver(chip.type)
        /\ ModesHold(chip', driver') /\ PullsHold(chip', driver', task) /\ EdgesHold(chip', driver', report.failed)
        /\ BareHold(chip', driver', report.before) /\ DeadWhenDown(driver')
    <3>0. pull \in 0..2
      OBVIOUS
    <3>1. PICK o \in GpioObject(chip.type) :
            /\ driver' \in GpioDriver(chip.type) /\ Changed(driver, g, o, driver') /\ o.pull = pull
            /\ o.pin = driver.gpios[g].pin /\ o.mode = driver.gpios[g].mode /\ o.edge = driver.gpios[g].edge
            /\ o.alive = driver.gpios[g].alive
      BY <2>2, <3>0, PullRemembered
    <3>2. /\ ModesHold(chip', driver') /\ EdgesHold(chip', driver', report.failed)
          /\ BareHold(chip', driver', report.before) /\ DeadWhenDown(driver')
      BY <2>4, <3>1, PullKept
    <3>3. PullsHold(chip', driver', task)
      BY <2>4, <2>5, <3>1, PullMatches
    <3> QED BY <3>1, <3>2, <3>3
  <2>7. PullRuns(chip', driver', task)
    BY <1>1 DEF PullRuns
  <2> QED BY <1>1, <2>2, <2>3, <2>6, <2>7, GpioProved
<1>3. CASE ~G!Pi4
  <2>1. task' = [g |-> g, pull |-> pull, step |-> 1, edge |-> "none"] /\ UNCHANGED <<chip, driver>>
    BY <1>3 DEF G!SetPull
  <2>2. task' \in [g : Nat, pull : {0, 2}, step : 0..4, edge : GpioEdges[chip.type]]
    <3>1. g \in Nat
      BY DEF GpioDriver
    <3> QED BY <2>1, <3>1, GpioAssumption
  <2>3. PullsHold(chip, driver, task') /\ PullRuns(chip, driver, task')
    BY <1>1, <2>1 DEF PullsHold, PullRuns
  <2> QED BY <1>1, <2>1, <2>2, <2>3, GpioProved
<1> QED BY <1>2, <1>3

LEMMA PullRunsOn ==
  ASSUME GpioInv, NEW fault \in {"none", "export", "edge", "open"}, G!PullStep(fault)
  PROVE  GpioInv'
<1> USE GpioFacts
<1>1. PICK g \in DOMAIN driver.gpios : g = task.g /\ driver.gpios[g].alive /\ driver.up /\ task.step # 0
  BY DEF G!PullStep, PullRuns
<1>2. PICK pin \in GpioPins : pin = driver.gpios[g].pin
  BY ObjectOf
<1>3. PICK pad \in G!Pads : pad = G!Phys[pin]
  BY PhysInjective
<1>4. task.step \in 1..4 /\ task.pull \in {0, 2} /\ task.edge \in GpioEdges[chip.type]
  BY <1>1
<1>5. PICK c : c = G!ClockStep(pad)
  OBVIOUS
<1>6. G!Faulty(g, fault) /\ (fault # "none" => task.step = 4 /\ task.edge # "none")
  BY <1>1 DEF G!PullStep
<1>7. /\ report' \in GpioHistory /\ report'.before = report.before
      /\ report'.failed = IF fault = "none" THEN report.failed ELSE report.failed \cup {pin}
  BY <1>2, <1>6, FaultCounted
<1>8. chip.signal \in 0..2 /\ chip.clock \in SUBSET G!Pads
  BY DEF GpioChip
<1>9. CASE task.step < 4
  <2>1. chip' = c /\ task' = [task EXCEPT !.step = @ + 1] /\ UNCHANGED driver /\ fault = "none"
    BY <1>1, <1>2, <1>3, <1>5, <1>6, <1>9 DEF G!PullStep
  <2>2. PICK n \in 2..4 : n = task.step + 1
    BY <1>4, <1>9
  <2>3. task' = [task EXCEPT !.step = n]
    BY <2>1, <2>2
  <2>4. task' \in [g : Nat, pull : {0, 2}, step : 0..4, edge : GpioEdges[chip.type]] /\ task'.step = n /\ task'.g = g
        /\ task'.pull = task.pull
    BY <1>1, <2>3
  <2>5. report'.failed = report.failed
    BY <1>7, <2>1
  <2>6. CASE task.step \in {1, 3}
    <3>1. PICK signal \in 0..2 : signal = IF task.step = 1 THEN task.pull ELSE 0
      BY <1>4
    <3>2. c = [chip EXCEPT !.signal = signal]
      BY <1>5, <2>6, <3>1 DEF G!ClockStep
    <3>3. c \in GpioChip(chip.type) /\ c.mode = chip.mode /\ c.pull = chip.pull /\ c.exported = chip.exported
          /\ c.edge = chip.edge /\ c.signal = signal
      BY <3>2 DEF GpioChip
    <3>4. ModesHold(c, driver) /\ EdgesHold(c, driver, report.failed) /\ BareHold(c, driver, report.before)
      BY <3>3 DEF ModesHold, EdgesHold, BareHold, ModeClause, EdgeClause
    <3>5. PullsHold(c, driver, task')
      BY <1>1, <2>2, <2>4, <3>3 DEF PullsHold, PullClause
    <3>6. PullRuns(c, driver, task')
      BY <1>1, <2>2, <2>4, <2>6, <3>1, <3>3 DEF PullRuns
    <3> QED BY <1>7, <2>1, <2>4, <2>5, <3>3, <3>4, <3>5, <3>6, GpioProved
  <2>7. CASE task.step = 2
    <3>1. c = [chip EXCEPT !.clock = {pad}, !.pull[pad] = task.pull]
      <4>1. chip.signal = task.pull
        BY <2>7 DEF PullRuns
      <4> QED BY <1>5, <2>7, <4>1 DEF G!ClockStep
    <3>2. c \in GpioChip(chip.type) /\ PulledTo(chip, pad, task.pull, c)
      <4>1. task.pull \in 0..2 /\ {pad} \in SUBSET G!Pads
        BY <1>4
      <4> QED BY <3>1, <4>1, PullSet
    <3>3. /\ ModesHold(c, driver) /\ EdgesHold(c, driver, report.failed) /\ BareHold(c, driver, report.before)
          /\ \A h \in DOMAIN driver.gpios \ {g} :
               driver.gpios[h].alive /\ Lone(driver, h) => PullClause(c, driver.gpios[h])
      BY <1>1, <1>2, <1>3, <3>2, PulledHolds
    <3>4. PullsHold(c, driver, task')
      BY <1>1, <2>2, <2>4, <3>3 DEF PullsHold
    <3>5. PullRuns(c, driver, task')
      BY <1>1, <1>2, <1>3, <2>2, <2>4, <2>7, <3>2 DEF PullRuns, PulledTo
    <3> QED BY <1>7, <2>1, <2>4, <2>5, <3>2, <3>3, <3>4, <3>5, GpioProved
  <2> QED BY <1>4, <1>9, <2>6, <2>7
<1>10. CASE task.step = 4
  <2>1. PICK d : d = [driver EXCEPT !.gpios[g].pull = task.pull]
    OBVIOUS
  <2>2. c = [chip EXCEPT !.clock = {}]
    BY <1>5, <1>10 DEF G!ClockStep
  <2>3. c \in GpioChip(chip.type) /\ c.mode = chip.mode /\ c.pull = chip.pull /\ c.exported = chip.exported
        /\ c.edge = chip.edge /\ c.signal = chip.signal
    BY <2>2 DEF GpioChip
  <2>4. ModesHold(c, driver) /\ EdgesHold(c, driver, report.failed) /\ BareHold(c, driver, report.before)
    BY <2>3 DEF ModesHold, EdgesHold, BareHold, ModeClause, EdgeClause
  <2>5. c.pull[G!Phys[driver.gpios[g].pin]] = task.pull
    BY <1>1, <1>10, <2>3 DEF PullRuns
  <2>6. \A h \in DOMAIN driver.gpios \ {g} : driver.gpios[h].alive /\ Lone(driver, h) => PullClause(c, driver.gpios[h])
    BY <1>1, <2>3 DEF PullsHold, PullClause
  <2>7. PICK t : t = [g |-> 0, pull |-> 0, step |-> 0, edge |-> "none"]
    OBVIOUS
  <2>8. t.step = 0 /\ t \in [g : Nat, pull : {0, 2}, step : 0..4, edge : GpioEdges[chip.type]]
    BY <2>7, GpioAssumption
  <2>9. /\ d \in GpioDriver(chip.type) /\ DOMAIN d.gpios = DOMAIN driver.gpios /\ d.gpios[g].pin = pin
        /\ ModesHold(c, d) /\ PullsHold(c, d, t) /\ EdgesHold(c, d, report.failed) /\ BareHold(c, d, report.before)
        /\ DeadWhenDown(d) /\ d.open = driver.open
    <3>0. task.pull \in 0..2
      BY <1>4
    <3>1. PICK o \in GpioObject(chip.type) :
            /\ d \in GpioDriver(chip.type) /\ Changed(driver, g, o, d) /\ o.pull = task.pull
            /\ o.pin = driver.gpios[g].pin /\ o.mode = driver.gpios[g].mode /\ o.edge = driver.gpios[g].edge
            /\ o.alive = driver.gpios[g].alive
      BY <2>1, <3>0, PullRemembered
    <3>2. ModesHold(c, d) /\ EdgesHold(c, d, report.failed) /\ BareHold(c, d, report.before) /\ DeadWhenDown(d)
      BY <2>4, <3>1, PullKept
    <3>3. PullsHold(c, d, t)
      BY <2>5, <2>6, <3>1, PullMatches
    <3> QED BY <1>2, <3>1, <3>2, <3>3 DEF Changed
  <2>10. task' = t
    BY <1>10, <2>7 DEF G!PullStep, G!NoTask
  <2>11. CASE task.edge = "none"
    <3>1. chip' = c /\ driver' = d /\ fault = "none"
      BY <1>1, <1>2, <1>3, <1>5, <1>6, <1>10, <2>1, <2>11 DEF G!PullStep
    <3>2. PullRuns(c, d, t) /\ report'.failed = report.failed
      BY <1>7, <2>8, <3>1 DEF PullRuns
    <3> QED BY <1>7, <2>3, <2>8, <2>9, <2>10, <3>1, <3>2, GpioProved
  <2>12. CASE task.edge # "none"
    <3>1. PICK s : s = G!SetEdge(c, d, g, task.edge, fault)
      OBVIOUS
    <3>2. chip' = s.c /\ driver' = s.d
      BY <1>1, <1>2, <1>3, <1>5, <1>10, <2>1, <2>12, <3>1 DEF G!PullStep
    <3>3. \A p \in d.open : G!Phys[p] \in c.exported
      BY <2>9 DEF EdgesHold
    <3>4. s.c \in GpioChip(chip.type) /\ s.d \in GpioDriver(chip.type) /\ Edged(c, d, g, task.edge, fault, s.c, s.d)
      BY <1>4, <2>3, <2>9, <2>12, <3>1, <3>3, EdgeSet
    <3>5. /\ ModesHold(s.c, s.d) /\ PullsHold(s.c, s.d, t) /\ BareHold(s.c, s.d, report.before) /\ DeadWhenDown(s.d)
          /\ EdgesHold(s.c, s.d, IF fault = "none" THEN report.failed ELSE report.failed \cup {pin})
      <4>1. g \in DOMAIN d.gpios
        BY <2>9
      <4>2. EdgesHold(s.c, s.d, IF fault = "none" THEN report.failed ELSE report.failed \cup {d.gpios[g].pin})
            /\ ModesHold(s.c, s.d) /\ PullsHold(s.c, s.d, t) /\ BareHold(s.c, s.d, report.before) /\ DeadWhenDown(s.d)
        <5>1. c \in GpioChip(chip.type) /\ d \in GpioDriver(chip.type) /\ ModesHold(c, d) /\ PullsHold(c, d, t)
              /\ EdgesHold(c, d, report.failed) /\ BareHold(c, d, report.before) /\ DeadWhenDown(d)
          BY <2>3, <2>9
        <5>2. fault \in {"none", "export", "edge", "open"}
          OBVIOUS
        <5> QED BY ONLY <3>4, <4>1, <5>1, <5>2, EdgedHolds
      <4> QED BY <2>9, <4>2
    <3>6. PullRuns(s.c, s.d, t)
      BY <2>8 DEF PullRuns
    <3> QED BY <1>7, <2>8, <2>10, <3>2, <3>4, <3>5, <3>6, GpioProved
  <2> QED BY <2>11, <2>12
<1> QED BY <1>4, <1>9, <1>10

LEMMA ModeChanged ==
  ASSUME GpioInv, NEW g \in DOMAIN driver.gpios, NEW mode \in G!Modes, G!ChangeMode(g, mode)
  PROVE  GpioInv'
<1> USE GpioFacts
<1>1. PICK pad \in G!Pads : pad = G!Phys[driver.gpios[g].pin]
  BY ObjectOf
<1>2. /\ chip' = G!SetMode(chip, pad, mode) /\ driver' = [driver EXCEPT !.gpios[g].mode = mode]
      /\ UNCHANGED <<task, report>> /\ task.step = 0
  BY <1>1 DEF G!ChangeMode, G!Free
<1>3. /\ chip' \in GpioChip(chip.type) /\ chip'.type = chip.type /\ chip'.pull = chip.pull
      /\ chip'.signal = chip.signal /\ chip'.exported = chip.exported
      /\ chip'.edge = chip.edge /\ \A p \in G!Pads \ {pad} : chip'.mode[p] = chip.mode[p]
      /\ mode \in {"IN", "OUT"} => chip'.mode[pad] = mode
      /\ mode = "PWM_OUT" /\ G!PwmMode(pad) # "PWM_OUT" => chip'.mode[pad] = G!PwmMode(pad)
  BY <1>2, ModeSet
<1>4. PICK o \in GpioObject(chip.type) : o = [driver.gpios[g] EXCEPT !.mode = mode]
  <2>1. driver.gpios[g] \in GpioObject(chip.type)
    BY ObjectOf
  <2> QED BY <2>1 DEF GpioObject
<1>5. o.pin = driver.gpios[g].pin /\ o.mode = mode /\ o.edge = driver.gpios[g].edge /\ o.alive = driver.gpios[g].alive
      /\ o.pull = driver.gpios[g].pull
  BY <1>4, ObjectOf DEF GpioObject
<1>6. driver' = [driver EXCEPT !.gpios = [driver.gpios EXCEPT ![g] = o]]
  BY <1>2, <1>4 DEF GpioDriver
<1>7. driver' \in GpioDriver(chip.type) /\ Changed(driver, g, o, driver')
  BY <1>5, <1>6, ObjectSet, Zenon
<1>8. /\ DOMAIN driver'.gpios = DOMAIN driver.gpios /\ driver'.open = driver.open /\ driver'.up = driver.up
      /\ \A h \in DOMAIN driver.gpios : Lone(driver', h) <=> Lone(driver, h)
      /\ \A pin : Bare(driver', pin) <=> Bare(driver, pin)
      /\ driver'.gpios[g] = o /\ \A h \in DOMAIN driver.gpios \ {g} : driver'.gpios[h] = driver.gpios[h]
  BY <1>7 DEF Changed
<1>9. \A h \in DOMAIN driver.gpios :
        /\ driver'.gpios[h].pin = driver.gpios[h].pin /\ driver'.gpios[h].pull = driver.gpios[h].pull
        /\ driver'.gpios[h].edge = driver.gpios[h].edge /\ driver'.gpios[h].alive = driver.gpios[h].alive
  BY <1>5, <1>8
<1>10. ASSUME NEW h \in DOMAIN driver.gpios, driver.gpios[h].alive, Lone(driver, h)
       PROVE  ModeClause(chip', driver'.gpios[h])
  <2>1. CASE h = g
    BY <1>1, <1>3, <1>5, <1>8, <2>1 DEF ModeClause
  <2>2. CASE h # g
    <3>1. ModeClause(chip, driver.gpios[h]) /\ driver'.gpios[h] = driver.gpios[h]
      BY <1>8, <1>10, <2>2 DEF ModesHold
    <3>2. G!Phys[driver.gpios[h].pin] \in G!Pads \ {pad}
      BY <1>1, <1>10, <2>2, PinsDiffer, ObjectOf
    <3>3. chip'.mode[G!Phys[driver.gpios[h].pin]] = chip.mode[G!Phys[driver.gpios[h].pin]]
      BY <1>3, <3>2
    <3> QED BY <3>1, <3>3 DEF ModeClause
  <2> QED BY <2>1, <2>2
<1>11. ModesHold(chip', driver')
  BY <1>8, <1>9, <1>10 DEF ModesHold
<1>12. PullsHold(chip', driver', task)
  BY <1>3, <1>8, <1>9 DEF PullsHold, PullClause
<1>13. EdgesHold(chip', driver', report.failed)
  BY <1>3, <1>8, <1>9 DEF EdgesHold, EdgeClause
<1>14. BareHold(chip', driver', report.before)
  <2> SUFFICES ASSUME driver.up, NEW pin \in GpioPins, Bare(driver, pin)
               PROVE  /\ chip'.mode[G!Phys[pin]] = report.before.mode[G!Phys[pin]]
                      /\ chip'.pull[G!Phys[pin]] = report.before.pull[G!Phys[pin]]
    BY <1>8 DEF BareHold
  <2>1. G!Phys[pin] \in G!Pads \ {pad}
    <3>1. pin # driver.gpios[g].pin /\ driver.gpios[g].pin \in GpioPins
      BY ObjectOf DEF Bare
    <3> QED BY <1>1, <3>1, PhysInjective
  <2> QED BY <1>3, <2>1 DEF BareHold
<1>15. PullRuns(chip', driver', task) /\ DeadWhenDown(driver')
  BY <1>2, <1>8, <1>9 DEF PullRuns, DeadWhenDown
<1> QED BY <1>2, <1>3, <1>7, <1>11, <1>12, <1>13, <1>14, <1>15, GpioProved

LEMMA Destroyed ==
  ASSUME GpioInv, NEW g \in DOMAIN driver.gpios, G!Destroy(g)
  PROVE  GpioInv'
<1> USE GpioFacts
<1>1. PICK s : s = IF driver.gpios[g].edge # "none" /\ driver.gpios[g].mode \in {"IN", "OUT"}
                   THEN G!SetEdge(chip, driver, g, "none", "none") ELSE [c |-> chip, d |-> driver]
  OBVIOUS
<1>2. /\ chip' = s.c /\ driver' = [s.d EXCEPT !.gpios[g].alive = FALSE] /\ UNCHANGED <<task, report>> /\ task.step = 0
      /\ driver.up
  BY <1>1 DEF G!Destroy, G!Free
<1>3. /\ s.c \in GpioChip(chip.type) /\ s.d \in GpioDriver(chip.type) /\ DOMAIN s.d.gpios = DOMAIN driver.gpios
      /\ ModesHold(s.c, s.d) /\ PullsHold(s.c, s.d, task) /\ BareHold(s.c, s.d, report.before) /\ DeadWhenDown(s.d)
      /\ EdgesHold(s.c, s.d, report.failed)
  <2>1. CASE driver.gpios[g].edge # "none" /\ driver.gpios[g].mode \in {"IN", "OUT"}
    <3>1. s = G!SetEdge(chip, driver, g, "none", "none") /\ "none" \in GpioEdges[chip.type]
      BY <1>1, <2>1, GpioAssumption
    <3>2. \A pin \in driver.open : G!Phys[pin] \in chip.exported
      BY DEF EdgesHold
    <3>3. s.c \in GpioChip(chip.type) /\ s.d \in GpioDriver(chip.type) /\ Edged(chip, driver, g, "none", "none", s.c, s.d)
      BY <3>1, <3>2, EdgeSet
    <3>4. /\ ModesHold(s.c, s.d) /\ PullsHold(s.c, s.d, task) /\ BareHold(s.c, s.d, report.before) /\ DeadWhenDown(s.d)
          /\ EdgesHold(s.c, s.d, IF "none" = "none" THEN report.failed ELSE report.failed \cup {driver.gpios[g].pin})
      <4>1. ModesHold(chip, driver) /\ PullsHold(chip, driver, task) /\ EdgesHold(chip, driver, report.failed)
            /\ BareHold(chip, driver, report.before) /\ DeadWhenDown(driver)
            /\ chip \in GpioChip(chip.type) /\ driver \in GpioDriver(chip.type) /\ g \in DOMAIN driver.gpios
        OBVIOUS
      <4> QED BY ONLY <3>3, <4>1, EdgedHolds, Zenon
    <3> QED BY <3>3, <3>4 DEF Edged
  <2>2. CASE ~(driver.gpios[g].edge # "none" /\ driver.gpios[g].mode \in {"IN", "OUT"})
    BY <1>1, <2>2
  <2> QED BY <2>1, <2>2
<1>4. PICK d \in GpioDriver(chip.type) : d = s.d
  BY <1>3
<1>5. g \in DOMAIN d.gpios
  BY <1>3, <1>4
<1>6. PICK o \in GpioObject(chip.type) : o = [d.gpios[g] EXCEPT !.alive = FALSE]
  <2>1. d.gpios[g] \in GpioObject(chip.type)
    BY <1>5, ObjectOf
  <2> QED BY <2>1 DEF GpioObject
<1>7. o.pin = d.gpios[g].pin /\ o.mode = d.gpios[g].mode /\ o.edge = d.gpios[g].edge /\ ~o.alive /\ o.pull = d.gpios[g].pull
  BY <1>5, <1>6, ObjectOf DEF GpioObject
<1>8. driver' = [d EXCEPT !.gpios = [d.gpios EXCEPT ![g] = o]]
  BY <1>2, <1>4, <1>6 DEF GpioDriver
<1>9. driver' \in GpioDriver(chip.type) /\ Changed(d, g, o, driver')
  BY <1>5, <1>7, <1>8, ObjectSet, Zenon
<1>10. /\ DOMAIN driver'.gpios = DOMAIN d.gpios /\ driver'.open = d.open /\ driver'.up = d.up
       /\ \A h \in DOMAIN d.gpios : Lone(driver', h) <=> Lone(d, h)
       /\ \A pin : Bare(driver', pin) <=> Bare(d, pin)
       /\ \A h \in DOMAIN d.gpios : driver'.gpios[h].alive => h # g /\ driver'.gpios[h] = d.gpios[h]
  BY <1>7, <1>9 DEF Changed
<1>11. ModesHold(chip', driver')
  BY <1>2, <1>3, <1>4, <1>10 DEF ModesHold
<1>12. PullsHold(chip', driver', task)
  BY <1>2, <1>3, <1>4, <1>10 DEF PullsHold
<1>13. EdgesHold(chip', driver', report.failed)
  <2>1. EdgesHold(chip', d, report.failed)
    BY <1>2, <1>3, <1>4
  <2> QED BY <1>10, <2>1 DEF EdgesHold, EdgeClause
<1>14. BareHold(chip', driver', report.before) /\ DeadWhenDown(driver')
  <2>1. BareHold(chip', d, report.before) /\ DeadWhenDown(d)
    BY <1>2, <1>3, <1>4
  <2>2. d.up <=> driver'.up
    BY <1>10
  <2>3. BareHold(chip', driver', report.before)
    BY <1>10, <2>1, <2>2 DEF BareHold
  <2>4. DeadWhenDown(driver')
    BY <1>10, <2>1, <2>2 DEF DeadWhenDown
  <2> QED BY <2>3, <2>4
<1>15. PullRuns(chip', driver', task)
  BY <1>2 DEF PullRuns
<1> QED BY <1>2, <1>3, <1>9, <1>11, <1>12, <1>13, <1>14, <1>15, GpioProved

LEMMA Started ==
  ASSUME GpioInv, G!Boot
  PROVE  GpioInv'
<1> USE GpioFacts
<1>1. /\ ~driver.up /\ driver' = [driver EXCEPT !.up = TRUE] /\ UNCHANGED <<chip, task>>
      /\ report' = [report EXCEPT !.starts = @ + 1, !.before = [mode |-> chip.mode, pull |-> chip.pull], !.failed = {}]
  BY DEF G!Boot
<1>2. driver' \in GpioDriver(chip.type) /\ driver'.gpios = driver.gpios /\ driver'.open = driver.open /\ driver'.up
  BY <1>1 DEF GpioDriver
<1>3. report' \in GpioHistory /\ report'.before = [mode |-> chip.mode, pull |-> chip.pull] /\ report'.failed = {}
  <2>1. [mode |-> chip.mode, pull |-> chip.pull] \in [mode : [G!Pads -> RealModes], pull : Pulls]
    BY DEF GpioChip
  <2>2. PICK n \in Int : n = report.starts + 1
    BY DEF GpioHistory
  <2>3. report' = [report EXCEPT !.starts = n, !.before = [mode |-> chip.mode, pull |-> chip.pull], !.failed = {}]
    BY <1>1, <2>2
  <2> QED BY <2>1, <2>3 DEF GpioHistory
<1>4. \A g \in DOMAIN driver.gpios : ~driver.gpios[g].alive
  BY <1>1 DEF DeadWhenDown
<1>5. ModesHold(chip, driver') /\ PullsHold(chip, driver', task) /\ DeadWhenDown(driver')
  BY <1>2, <1>4 DEF ModesHold, PullsHold, DeadWhenDown
<1>6. EdgesHold(chip, driver', report'.failed)
  BY <1>2, <1>4 DEF EdgesHold, Bare
<1>7. BareHold(chip, driver', report'.before)
  BY <1>3 DEF BareHold
<1>8. PullRuns(chip, driver', task)
  BY <1>1 DEF PullRuns
<1> QED BY <1>1, <1>2, <1>3, <1>5, <1>6, <1>7, <1>8, GpioProved

LEMMA Left ==
  ASSUME GpioInv, G!Leave
  PROVE  GpioInv'
<1> USE GpioFacts
<1>1. /\ task.step = 0 /\ driver' = [driver EXCEPT !.up = FALSE, !.open = {}] /\ UNCHANGED <<chip, task, report>>
      /\ \A g \in DOMAIN driver.gpios : ~driver.gpios[g].alive
  BY DEF G!Leave, G!Free, G!Alive
<1>2. driver' \in GpioDriver(chip.type) /\ driver'.gpios = driver.gpios /\ driver'.open = {} /\ ~driver'.up
  BY <1>1 DEF GpioDriver
<1>3. ModesHold(chip, driver') /\ PullsHold(chip, driver', task) /\ DeadWhenDown(driver') /\ BareHold(chip, driver', report.before)
      /\ PullRuns(chip, driver', task) /\ EdgesHold(chip, driver', report.failed)
  BY <1>1, <1>2 DEF ModesHold, PullsHold, DeadWhenDown, BareHold, PullRuns, EdgesHold
<1> QED BY <1>1, <1>2, <1>3, GpioProved

LEMMA Killed ==
  ASSUME GpioInv, G!Kill
  PROVE  GpioInv'
<1> USE GpioFacts
<1>1. PICK gpios : gpios = [g \in DOMAIN driver.gpios |-> [driver.gpios[g] EXCEPT !.alive = FALSE]]
  OBVIOUS
<1>2. /\ driver' = [up |-> FALSE, open |-> {}, gpios |-> gpios] /\ UNCHANGED <<chip, report>>
      /\ task' = [g |-> 0, pull |-> 0, step |-> 0, edge |-> "none"]
  BY <1>1 DEF G!Kill, G!NoTask
<1>3. \A g \in DOMAIN driver.gpios : gpios[g] \in GpioObject(chip.type) /\ ~gpios[g].alive
  <2> SUFFICES ASSUME NEW g \in DOMAIN driver.gpios PROVE gpios[g] \in GpioObject(chip.type) /\ ~gpios[g].alive
    OBVIOUS
  <2>1. driver.gpios[g] \in GpioObject(chip.type)
    BY ObjectOf
  <2>2. gpios[g] = [driver.gpios[g] EXCEPT !.alive = FALSE]
    BY <1>1
  <2> QED BY <2>1, <2>2 DEF GpioObject
<1>4. gpios \in Seq(GpioObject(chip.type)) /\ DOMAIN gpios = DOMAIN driver.gpios
  <2>1. driver.gpios \in Seq(GpioObject(chip.type))
    BY DEF GpioDriver
  <2>2. PICK n \in Nat : DOMAIN driver.gpios = 1..n
    BY <2>1
  <2>3. DOMAIN gpios = 1..n
    BY <1>1, <2>2
  <2>4. gpios \in [1..n -> GpioObject(chip.type)]
    BY <1>1, <1>3, <2>2
  <2> QED BY <2>2, <2>3, <2>4
<1>5. driver' \in GpioDriver(chip.type) /\ driver'.gpios = gpios /\ driver'.open = {} /\ ~driver'.up
  BY <1>2, <1>4 DEF GpioDriver
<1>6. task'.step = 0 /\ task' \in [g : Nat, pull : {0, 2}, step : 0..4, edge : GpioEdges[chip.type]]
  BY <1>2, GpioAssumption
<1>7. ModesHold(chip, driver') /\ PullsHold(chip, driver', task') /\ DeadWhenDown(driver')
      /\ BareHold(chip, driver', report.before) /\ PullRuns(chip, driver', task') /\ EdgesHold(chip, driver', report.failed)
  BY <1>3, <1>4, <1>5, <1>6 DEF ModesHold, PullsHold, DeadWhenDown, BareHold, PullRuns, EdgesHold
<1> QED BY <1>2, <1>5, <1>6, <1>7, GpioProved

(* A new object, of which nothing but its mode is set.                      *)
Adds(o, g, d, c) ==
  /\ g = Len(driver.gpios) + 1 /\ d = [driver EXCEPT !.gpios = Append(@, o)]
  /\ c = G!SetMode(chip, G!Phys[o.pin], o.mode)

LEMMA Added ==
  ASSUME GpioInv, task.step = 0, driver.up, NEW o \in GpioObject(chip.type), o.edge = "none",
         NEW g, NEW d, NEW c, Adds(o, g, d, c)
  PROVE  /\ g \in Nat /\ c \in GpioChip(chip.type) /\ d \in GpioDriver(chip.type) /\ g \in DOMAIN d.gpios /\ d.gpios[g] = o /\ d.up
         /\ ModesHold(c, d) /\ EdgesHold(c, d, report.failed) /\ BareHold(c, d, report.before) /\ DeadWhenDown(d)
         /\ c.signal = chip.signal
         /\ \A h \in DOMAIN d.gpios \ {g} : d.gpios[h].alive /\ Lone(d, h) => PullClause(c, d.gpios[h])
<1> USE GpioFacts
<1>1. driver.gpios \in Seq(GpioObject(chip.type))
  BY DEF GpioDriver
<1>2. PICK n \in Nat : n = Len(driver.gpios) /\ DOMAIN driver.gpios = 1..n
  BY <1>1
<1>0. PICK pin \in GpioPins : pin = o.pin
  BY DEF GpioObject
<1>a. g = Len(driver.gpios) + 1 /\ d = [driver EXCEPT !.gpios = Append(driver.gpios, o)]
      /\ c = G!SetMode(chip, G!Phys[pin], o.mode)
  BY <1>0 DEF Adds
<1>3. PICK gpios : gpios = Append(driver.gpios, o)
  OBVIOUS
<1>4. gpios \in Seq(GpioObject(chip.type)) /\ DOMAIN gpios = 1..(n + 1) /\ gpios[n + 1] = o
      /\ \A h \in 1..n : gpios[h] = driver.gpios[h]
  BY <1>1, <1>2, <1>3
<1>5. d \in GpioDriver(chip.type) /\ d.gpios = gpios /\ d.open = driver.open /\ d.up = driver.up
  BY <1>a, <1>3, <1>4 DEF GpioDriver
<1>6. g = n + 1 /\ DOMAIN d.gpios = DOMAIN driver.gpios \cup {g} /\ g \notin DOMAIN driver.gpios /\ d.gpios[g] = o
      /\ \A h \in DOMAIN driver.gpios : d.gpios[h] = driver.gpios[h]
  BY <1>a, <1>2, <1>4, <1>5
<1>7. PICK pad \in G!Pads : pad = G!Phys[pin]
  BY PhysInjective
<1>8. o.mode \in G!Modes
  BY DEF GpioObject
<1>9. /\ c \in GpioChip(chip.type) /\ c.type = chip.type /\ c.pull = chip.pull /\ c.signal = chip.signal
      /\ c.exported = chip.exported /\ c.edge = chip.edge /\ \A p \in G!Pads \ {pad} : c.mode[p] = chip.mode[p]
      /\ o.mode \in {"IN", "OUT"} => c.mode[pad] = o.mode
      /\ o.mode = "PWM_OUT" /\ G!PwmMode(pad) # "PWM_OUT" => c.mode[pad] = G!PwmMode(pad)
  BY <1>a, <1>7, <1>8, ModeSet
<1>10. ASSUME NEW h \in DOMAIN driver.gpios, Lone(d, h)
       PROVE  Lone(driver, h) /\ G!Phys[driver.gpios[h].pin] \in G!Pads \ {pad} /\ d.gpios[h] = driver.gpios[h]
  <2>1. Lone(driver, h) /\ d.gpios[h] = driver.gpios[h]
    BY <1>6, <1>10 DEF Lone
  <2>2. h \in DOMAIN d.gpios /\ g \in DOMAIN d.gpios /\ g # h
    BY <1>6
  <2>3. G!Phys[d.gpios[g].pin] # G!Phys[d.gpios[h].pin]
    <3>1. d \in GpioDriver(chip.type) /\ Lone(d, h)
      BY <1>5, <1>10
    <3> QED BY ONLY <2>2, <3>1, PinsDiffer
  <2> QED BY <1>0, <1>6, <1>7, <2>1, <2>3, ObjectOf
<1>11. \A p : Bare(d, p) <=> Bare(driver, p) /\ p # pin
  BY <1>0, <1>6 DEF Bare
<1>12. Lone(d, g) => Bare(driver, pin)
  BY <1>0, <1>6 DEF Lone, Bare
<1>13. ModesHold(c, d)
  <2>1. ModeClause(c, o)
    BY <1>0, <1>7, <1>9 DEF ModeClause
  <2>2. ASSUME NEW h \in DOMAIN driver.gpios, d.gpios[h].alive, Lone(d, h) PROVE ModeClause(c, d.gpios[h])
    <3>1. /\ Lone(driver, h) /\ G!Phys[driver.gpios[h].pin] \in G!Pads \ {pad} /\ d.gpios[h] = driver.gpios[h]
      BY <1>10, <2>2
    <3>2. ModeClause(chip, driver.gpios[h])
      BY <2>2, <3>1 DEF ModesHold
    <3>3. c.mode[G!Phys[driver.gpios[h].pin]] = chip.mode[G!Phys[driver.gpios[h].pin]]
      BY <1>9, <3>1
    <3> QED BY <3>1, <3>2, <3>3 DEF ModeClause
  <2> QED BY <1>6, <2>1, <2>2 DEF ModesHold
<1>14. \A h \in DOMAIN d.gpios \ {g} : d.gpios[h].alive /\ Lone(d, h) => PullClause(c, d.gpios[h])
  BY <1>6, <1>9, <1>10 DEF PullsHold, PullClause
<1>15. EdgesHold(c, d, report.failed)
  <2>1. \A p \in d.open : G!Phys[p] \in c.exported /\ ~Bare(d, p)
    BY <1>5, <1>9, <1>11 DEF EdgesHold
  <2>2. ASSUME Lone(d, g) PROVE EdgeClause(c, d, o)
    <3>1. pin \notin driver.open
      BY <1>12, <2>2 DEF EdgesHold
    <3> QED BY <1>0, <1>5, <3>1 DEF EdgeClause
  <2>3. ASSUME NEW h \in DOMAIN driver.gpios, d.gpios[h].alive, Lone(d, h), d.gpios[h].pin \notin report.failed
        PROVE  EdgeClause(c, d, d.gpios[h])
    <3>1. Lone(driver, h) /\ d.gpios[h] = driver.gpios[h]
      BY <1>10, <2>3
    <3>2. EdgeClause(chip, driver, driver.gpios[h])
      BY <2>3, <3>1 DEF EdgesHold
    <3> QED BY <1>5, <1>9, <3>1, <3>2 DEF EdgeClause
  <2> QED BY <1>6, <2>1, <2>2, <2>3 DEF EdgesHold
<1>16. BareHold(c, d, report.before)
  <2> SUFFICES ASSUME NEW p \in GpioPins, Bare(d, p)
               PROVE  /\ c.mode[G!Phys[p]] = report.before.mode[G!Phys[p]]
                      /\ c.pull[G!Phys[p]] = report.before.pull[G!Phys[p]]
    BY <1>5 DEF BareHold
  <2>1. G!Phys[p] \in G!Pads \ {pad} /\ Bare(driver, p)
    BY <1>7, <1>11, PhysInjective
  <2> QED BY <1>9, <2>1 DEF BareHold
<1>17. DeadWhenDown(d)
  BY <1>5 DEF DeadWhenDown
<1>18. g \in Nat /\ g \in DOMAIN d.gpios /\ d.gpios[g] = o /\ d.up
  BY <1>5, <1>6
<1> QED BY <1>5, <1>9, <1>13, <1>14, <1>15, <1>16, <1>17, <1>18

LEMMA Created ==
  ASSUME GpioInv, NEW pin \in GpioPins, NEW mode \in G!Modes, NEW pull \in {0, 2}, NEW edge \in GpioEdges[chip.type],
         NEW fault \in {"none", "export", "edge", "open"}, G!New(pin, mode, pull, edge, fault)
  PROVE  GpioInv'
<1> USE GpioFacts
<1>1. PICK o \in GpioObject(chip.type) :
        o = [pin |-> pin, mode |-> mode, pull |-> IF G!Pi4 THEN pull ELSE 0, edge |-> "none", alive |-> TRUE]
  <2>1. "none" \in GpioEdges[chip.type] /\ (IF G!Pi4 THEN pull ELSE 0) \in 0..2
    BY GpioAssumption
  <2> QED BY <2>1 DEF GpioObject
<1>2. o.pin = pin /\ o.mode = mode /\ o.edge = "none" /\ (~G!Pi4 => o.pull = 0) /\ (G!Pi4 => o.pull = pull)
  BY <1>1
<1>3. PICK g : g = Len(driver.gpios) + 1
  OBVIOUS
<1>4. PICK d : d = [driver EXCEPT !.gpios = Append(@, o)]
  OBVIOUS
<1>5. PICK pad \in G!Pads : pad = G!Phys[pin]
  BY PhysInjective
<1>6. PICK c : c = G!SetMode(chip, pad, mode)
  OBVIOUS
<1>7. PICK p : p = IF G!Pi4 /\ pull # 0 THEN [c EXCEPT !.pull[pad] = pull] ELSE c
  OBVIOUS
<1>8. PICK wants \in GpioEdges[chip.type] : wants = IF mode \in {"IN", "OUT"} THEN edge ELSE "none"
  BY GpioAssumption
<1>9. PICK s : s = IF wants = "none" THEN [c |-> p, d |-> d] ELSE G!SetEdge(p, d, g, wants, fault)
  OBVIOUS
<1>10. /\ driver.up /\ task.step = 0
       /\ fault # "none" => wants # "none" /\ (G!Pi4 \/ pull = 0)
       /\ report' = IF fault = "none" THEN report ELSE [report EXCEPT !.faults = @ + 1, !.failed = @ \cup {pin}]
       /\ IF G!Pi4 \/ pull = 0
          THEN chip' = s.c /\ driver' = s.d /\ UNCHANGED task
          ELSE chip' = c /\ driver' = d /\ task' = [g |-> g, pull |-> pull, step |-> 1, edge |-> wants]
  BY <1>1, <1>3, <1>4, <1>5, <1>6, <1>7, <1>8, <1>9 DEF G!New, G!Free
<1>11. /\ g \in Nat /\ c \in GpioChip(chip.type) /\ d \in GpioDriver(chip.type) /\ g \in DOMAIN d.gpios /\ d.gpios[g] = o /\ d.up
       /\ ModesHold(c, d) /\ EdgesHold(c, d, report.failed) /\ BareHold(c, d, report.before) /\ DeadWhenDown(d)
       /\ c.signal = chip.signal
       /\ \A h \in DOMAIN d.gpios \ {g} : d.gpios[h].alive /\ Lone(d, h) => PullClause(c, d.gpios[h])
  <2>1. c = G!SetMode(chip, G!Phys[o.pin], o.mode)
    BY <1>2, <1>5, <1>6
  <2>2. Adds(o, g, d, c)
    BY <1>3, <1>4, <2>1 DEF Adds
  <2> QED BY <1>2, <1>10, <2>2, Added
<1>12. /\ report' \in GpioHistory /\ report'.before = report.before
       /\ report'.failed = IF fault = "none" THEN report.failed ELSE report.failed \cup {pin}
  <2>1. CASE fault = "none"
    BY <1>10, <2>1
  <2>2. CASE fault # "none"
    <3>1. PICK failed \in SUBSET GpioPins : failed = report.failed \cup {pin}
      BY DEF GpioHistory
    <3>2. PICK n \in Int : n = report.faults + 1
      BY DEF GpioHistory
    <3>3. report' = [report EXCEPT !.faults = n, !.failed = failed]
      BY <1>10, <2>2, <3>1, <3>2
    <3> QED BY <2>2, <3>1, <3>3 DEF GpioHistory
  <2> QED BY <2>1, <2>2
<1>13. CASE ~(G!Pi4 \/ pull = 0)
  <2>1. chip' = c /\ driver' = d /\ task' = [g |-> g, pull |-> pull, step |-> 1, edge |-> wants] /\ fault = "none"
    BY <1>10, <1>13
  <2>2. task' \in [g : Nat, pull : {0, 2}, step : 0..4, edge : GpioEdges[chip.type]]
    BY <1>11, <2>1
  <2>3. PullsHold(c, d, task')
    <3>1. PullClause(c, o)
      BY <1>2, <1>13 DEF PullClause
    <3> QED BY <1>11, <3>1 DEF PullsHold
  <2>4. PullRuns(c, d, task')
    BY <1>1, <1>11, <2>1 DEF PullRuns
  <2> QED BY <1>11, <1>12, <2>1, <2>2, <2>3, <2>4, GpioProved
<1>14. CASE G!Pi4 \/ pull = 0
  <2>1. chip' = s.c /\ driver' = s.d /\ UNCHANGED task
    BY <1>10, <1>14
  <2>2. /\ p \in GpioChip(chip.type) /\ p.mode = c.mode /\ p.exported = c.exported /\ p.edge = c.edge
        /\ \A q \in G!Pads \ {pad} : p.pull[q] = c.pull[q]
        /\ pull # 0 => p.pull[pad] = pull
    <3>1. CASE G!Pi4 /\ pull # 0
      <4>1. {} \in SUBSET G!Pads /\ pull \in 0..2 /\ p = [c EXCEPT !.pull[pad] = pull]
        BY <1>7, <3>1
      <4>2. p \in GpioChip(chip.type) /\ PulledTo(c, pad, pull, p)
        BY <1>11, <4>1, PullSet
      <4> QED BY <4>2 DEF PulledTo
    <3>2. CASE ~(G!Pi4 /\ pull # 0)
      BY <1>7, <1>11, <1>14, <3>2
    <3> QED BY <3>1, <3>2
  <2>3. ModesHold(p, d) /\ EdgesHold(p, d, report.failed)
    BY <1>11, <2>2 DEF ModesHold, EdgesHold, ModeClause, EdgeClause
  <2>4. BareHold(p, d, report.before)
    <3> SUFFICES ASSUME NEW q \in GpioPins, Bare(d, q)
                 PROVE  /\ p.mode[G!Phys[q]] = report.before.mode[G!Phys[q]]
                        /\ p.pull[G!Phys[q]] = report.before.pull[G!Phys[q]]
      BY DEF BareHold
    <3>1. q # pin
      BY <1>2, <1>11 DEF Bare
    <3>2. G!Phys[q] \in G!Pads \ {pad}
      BY <1>5, <3>1, PhysInjective
    <3> QED BY <1>11, <2>2, <3>2 DEF BareHold
  <2>5. PullsHold(p, d, task)
    <3>1. PullClause(p, o)
      BY <1>2, <1>5, <1>14, <2>2 DEF PullClause
    <3>2. ASSUME NEW h \in DOMAIN d.gpios \ {g}, d.gpios[h].alive, Lone(d, h) PROVE PullClause(p, d.gpios[h])
      <4>1. PullClause(c, d.gpios[h])
        BY <1>11, <3>2
      <4>2. d.gpios[g].pin # d.gpios[h].pin /\ G!Phys[d.gpios[g].pin] # G!Phys[d.gpios[h].pin]
        BY ONLY <1>11, <3>2, PinsDiffer
      <4>3. G!Phys[d.gpios[h].pin] \in G!Pads \ {pad}
        BY <1>2, <1>5, <1>11, <4>2, ObjectOf
      <4> QED BY <2>2, <4>1, <4>3 DEF PullClause
    <3> QED BY <1>11, <3>1, <3>2 DEF PullsHold
  <2>6. PullRuns(s.c, s.d, task)
    BY <1>10 DEF PullRuns
  <2>7. CASE wants = "none"
    <3>1. s.c = p /\ s.d = d /\ fault = "none"
      BY <1>9, <1>10, <2>7
    <3> QED BY <1>11, <1>12, <2>1, <2>2, <2>3, <2>4, <2>5, <2>6, <3>1, GpioProved
  <2>8. CASE wants # "none"
    <3>1. s = G!SetEdge(p, d, g, wants, fault)
      BY <1>9, <2>8
    <3>2. \A q \in d.open : G!Phys[q] \in p.exported
      BY <2>3 DEF EdgesHold
    <3>3. s.c \in GpioChip(chip.type) /\ s.d \in GpioDriver(chip.type) /\ Edged(p, d, g, wants, fault, s.c, s.d)
      BY <1>8, <1>11, <2>2, <2>8, <3>1, <3>2, EdgeSet
    <3>4. /\ ModesHold(s.c, s.d) /\ PullsHold(s.c, s.d, task) /\ BareHold(s.c, s.d, report.before) /\ DeadWhenDown(s.d)
          /\ EdgesHold(s.c, s.d, IF fault = "none" THEN report.failed ELSE report.failed \cup {d.gpios[g].pin})
      BY ONLY <1>11, <2>2, <2>3, <2>4, <2>5, <3>3, EdgedHolds
    <3>5. d.gpios[g].pin = pin
      BY <1>2, <1>11
    <3> QED BY <1>12, <2>1, <2>6, <3>3, <3>4, <3>5, GpioProved
  <2> QED BY <2>7, <2>8
<1> QED BY <1>13, <1>14

LEMMA GpioStep ==
  ASSUME GpioInv, G!GpioNext
  PROVE  GpioInv'
<1>1. CASE G!Boot \/ G!Leave \/ G!Kill
  BY <1>1, Started, Left, Killed
<1>2. ASSUME NEW fault \in {"none", "export", "edge", "open"},
             \/ G!PullStep(fault)
             \/ \E pin \in GpioPins, mode \in G!Modes, pull \in {0, 2}, edge \in GpioEdges[chip.type] :
                  G!New(pin, mode, pull, edge, fault)
             \/ \E g \in DOMAIN driver.gpios, edge \in GpioEdges[chip.type] :
                  (fault # "none" => edge # "none") /\ G!Edge(g, edge, fault)
      PROVE  GpioInv'
  BY <1>2, PullRunsOn, Created, EdgeChanged
<1>3. ASSUME NEW g \in DOMAIN driver.gpios,
             \/ G!Destroy(g) \/ \E v \in GpioLevels[chip.type] : G!Write(g, v)
             \/ \E mode \in G!Modes : G!ChangeMode(g, mode)
             \/ \E pull \in {0, 2} : G!SetPull(g, pull)
      PROVE  GpioInv'
  BY <1>3, Destroyed, Levelled, ModeChanged, PullAsked
<1> QED BY <1>1, <1>2, <1>3 DEF G!GpioNext

LEMMA GpioHolds ==
  ASSUME GpioInv
  PROVE  G!GpioTypeOK /\ G!GpioAgrees /\ G!EdgesAgree
<1> USE GpioFacts
<1>1. G!GpioTypeOK
  BY DEF G!GpioTypeOK, GpioChip, GpioDriver, Pulls, RealModes
<1>2. ASSUME NEW pin, NEW g \in DOMAIN driver.gpios, G!Since(pin) = {g} PROVE Lone(driver, g) /\ driver.gpios[g].pin = pin
  BY <1>2 DEF G!Since, Lone
<1>3. ASSUME NEW g \in DOMAIN driver.gpios, driver.gpios[g].alive, G!Since(driver.gpios[g].pin) = {g}
      PROVE  LET gpio == driver.gpios[g]
                 pad == G!Phys[gpio.pin]
             IN  /\ gpio.mode \in {"IN", "OUT"} => chip.mode[pad] = gpio.mode
                 /\ gpio.mode = "PWM_OUT" /\ G!PwmMode(pad) # "PWM_OUT" => chip.mode[pad] = G!PwmMode(pad)
                 /\ task.step = 0 /\ gpio.pull # 0 => chip.pull[pad] = gpio.pull
  <2>1. ModeClause(chip, driver.gpios[g]) /\ (task.step = 0 => PullClause(chip, driver.gpios[g]))
    BY <1>2, <1>3 DEF ModesHold, PullsHold
  <2> QED BY <2>1 DEF ModeClause, PullClause
<1>4. ASSUME driver.up, NEW pin \in GpioPins, G!Since(pin) = {}
      PROVE  chip.mode[G!Phys[pin]] = report.before.mode[G!Phys[pin]] /\ chip.pull[G!Phys[pin]] = report.before.pull[G!Phys[pin]]
  <2>1. Bare(driver, pin)
    BY <1>4 DEF G!Since, Bare
  <2> QED BY <1>4, <2>1 DEF BareHold
<1>5. G!GpioAgrees
  BY <1>3, <1>4 DEF G!GpioAgrees, G!Alive
<1>6. ASSUME driver.up, NEW pin \in GpioPins \ report.failed, NEW g \in DOMAIN driver.gpios, G!On(pin) = {g}, G!Since(pin) = {g}
      PROVE  /\ (pin \in driver.open) = (driver.gpios[g].edge # "none")
             /\ driver.gpios[g].edge # "none" => chip.edge[G!Phys[pin]] = driver.gpios[g].edge
  <2>1. Lone(driver, g) /\ driver.gpios[g].pin = pin /\ driver.gpios[g].alive
    BY <1>2, <1>6 DEF G!On, G!Alive
  <2>2. EdgeClause(chip, driver, driver.gpios[g])
    BY <1>6, <2>1 DEF EdgesHold
  <2> QED BY <2>1, <2>2 DEF EdgeClause
<1>7. G!EdgesAgree
  BY <1>6 DEF G!EdgesAgree
<1> QED BY <1>1, <1>5, <1>7

-----------------------------------------------------------------------------
(* the SGP30 (Sgp30)                                                        *)

Words == [Y!Both -> Framed]
SgpFaults == 0..MaxFaults
SgpChip == [baseline : Words, humidity : Word16]
SgpDriver == [values : Words, baseline : Words, humidity : Word16]
SgpTasks == [hmdt : Word16, now : Word16, base : Words]
SgpHistory == [result : Words, lost : BOOLEAN, replaced : BOOLEAN, unsent : BOOLEAN, faults : SgpFaults]

SgpTypes == chip \in SgpChip /\ driver \in SgpDriver /\ task \in SgpTasks /\ report \in SgpHistory

Measured(values) == \A k \in Y!Both : values[k] \in {0} \cup {Y!Pair(r)[k] : r \in Readings}

(* What the worker knows of the humidity, unless one was lost.              *)
HumidityControl ==
  ~report.lost =>
    /\ worker = "send" => task.now = driver.humidity
    /\ worker = "remember" /\ ~report.unsent /\ driver.humidity # 0 => chip.humidity = driver.humidity
    /\ worker \in {"loop", "measure", "look"} /\ ~report.unsent /\ task.hmdt # 0 => chip.humidity = task.hmdt
    /\ worker = "refetch" => task.hmdt = driver.humidity
    /\ worker = "resend" => task.now = task.hmdt

BaselineControl == worker = "ended" /\ ~report.replaced => driver.baseline = chip.baseline

ReadingControl == Measured(driver.values) /\ Measured(report.result)

SgpControl == HumidityControl /\ BaselineControl /\ ReadingControl
SgpInv == SgpTypes /\ SgpControl

LEMMA BytesSum ==
  ASSUME NEW w \in Int, NEW a \in Int, NEW b, b = w - 256 * a
  PROVE  256 * a + b = w
OBVIOUS

LEMMA FrameOf ==
  ASSUME NEW w \in Framed
  PROVE  /\ Y!Frame(w) \in Valid /\ Y!ConvertResult(Y!Frame(w)) = w
         /\ Y!Garbled(Y!Frame(w)) \notin Valid
<1> DEFINE frame == Y!Frame(w)
<1>1. PICK f \in Valid : f[1] = w \div 256 /\ f[2] = w % 256
  BY DEF Framed
<1>2. frame \in Valid /\ frame[1] = w \div 256 /\ frame[2] = w % 256
  BY <1>1, Zenon DEF Y!Frame
<1>3. w \in Int
  BY DEF Framed, Word16
<1>4. w % 256 = w - 256 * (w \div 256) /\ w \div 256 \in Int
  BY <1>3
<1>5. Y!ConvertResult(frame) = 256 * frame[1] + frame[2]
  BY Zenon DEF Y!ConvertResult
<1> HIDE DEF frame
<1>6. frame[2] = w - 256 * frame[1] /\ frame[1] \in Int
  BY <1>2, <1>4
<1>7. Y!ConvertResult(frame) = w
  BY <1>3, <1>5, <1>6, BytesSum
<1>8. Y!Garbled(frame) \notin Valid
  BY <1>2, SgpAssumption, FaultsAssumption
<1> QED BY <1>2, <1>7, <1>8 DEF frame

LEMMA SgpConstants ==
  /\ MaxFaults \in Nat /\ Humidities \subseteq Nat
  /\ 0 \in Framed /\ Y!Nothing \in Words /\ Framed \subseteq Word16
  /\ \A r \in Readings : Y!Pair(r) \in Words
  /\ \A b \in Baselines : Y!Pair(b) \in Words
<1>1. MaxFaults \in Nat /\ Humidities \subseteq Nat /\ 0 \in Framed
  BY SgpAssumption, FaultsAssumption
<1>2. ASSUME NEW Some \in SUBSET (Framed \X Framed), NEW r \in Some PROVE Y!Pair(r) \in Words
  <2>1. r[1] \in Framed /\ r[2] \in Framed
    BY <1>2
  <2> QED BY <2>1 DEF Y!Pair, Words
<1>3. Y!Nothing \in Words
  BY <1>1 DEF Y!Nothing, Y!Pair, Words
<1>4. Readings \in SUBSET (Framed \X Framed) /\ Baselines \in SUBSET (Framed \X Framed)
  BY SgpAssumption, FaultsAssumption
<1>5. Framed \subseteq Word16
  BY DEF Framed
<1> QED BY <1>1, <1>2, <1>3, <1>4, <1>5

LEMMA SgpInit ==
  ASSUME Y!SgpInit, ThreadInit
  PROVE  SgpInv
<1>1. 0 \in Word16 /\ 0 \in SgpFaults
  BY SgpConstants DEF Word16, SgpFaults
<1>2. SgpTypes
  BY <1>1, SgpConstants DEF SgpTypes, Y!SgpInit, SgpChip, SgpDriver, SgpTasks, SgpHistory
<1>3. worker = "none"
  BY DEF ThreadInit
<1>4. HumidityControl /\ BaselineControl
  BY <1>3 DEF HumidityControl, BaselineControl
<1>5. Measured(Y!Nothing)
  BY DEF Measured, Y!Nothing, Y!Pair
<1>6. ReadingControl
  BY <1>5 DEF ReadingControl, Y!SgpInit
<1> QED BY <1>2, <1>4, <1>6 DEF SgpInv, SgpControl

(* What is taken of the answer that gave two words.                         *)
LEMMA TakenFields ==
  ASSUME NEW words \in Words, NEW answer \in Y!Answers(words), NEW old \in Words
  PROVE  /\ answer.faults \in 0..1
         /\ Y!Taken(old, answer.data) \in Words
         /\ answer.faults = 0 => Y!Taken(old, answer.data) = words
         /\ \A k \in Y!Both : Y!Taken(old, answer.data)[k] \in {old[k], 0, words[k]}
<1> DEFINE sent == [k \in Y!Both |-> Y!Frame(words[k])]
<1> DEFINE unread == [k \in Y!Both |-> Y!Unread]
<1> DEFINE spoilt(k) == [sent EXCEPT ![k] = Y!Garbled(@)]
<1>1. \/ answer.data = sent /\ answer.faults = 0
      \/ answer.data = unread /\ answer.faults = 1
      \/ \E k \in Y!Both : answer.data = spoilt(k) /\ answer.faults = 1
  <2>1. answer \in {[data |-> sent, faults |-> 0], [data |-> unread, faults |-> 1]}
                     \cup {[data |-> spoilt(k), faults |-> 1] : k \in Y!Both}
    BY Zenon DEF Y!Answers
  <2> HIDE DEF sent, unread, spoilt
  <2> QED BY <2>1
<1>2. \A k \in Y!Both : words[k] \in Framed /\ old[k] \in Framed
  BY DEF Words
<1>3. \A k \in Y!Both : Y!Success(sent[k]) /\ Y!ConvertResult(sent[k]) = words[k]
  BY <1>2, FrameOf DEF Y!Success
<1>4. \A k \in Y!Both : Y!ConvertResult(unread[k]) = 0
  BY DEF Y!ConvertResult, Y!Unread
<1>5. \A j \in Y!Both : \A k \in Y!Both :
        (~Y!Success(spoilt(j)[k])) \/ (Y!Success(spoilt(j)[k]) /\ Y!ConvertResult(spoilt(j)[k]) = words[k])
  <2> TAKE j \in Y!Both
  <2> TAKE k \in Y!Both
  <2>1. CASE j = k
    <3>1. spoilt(j)[k] = Y!Garbled(Y!Frame(words[k]))
      BY <2>1
    <3> QED BY <3>1, <1>2, FrameOf DEF Y!Success
  <2>2. CASE j # k
    <3>1. spoilt(j)[k] = sent[k]
      BY <2>2
    <3> QED BY <3>1, <1>3
  <2> QED BY <2>1, <2>2
<1> HIDE DEF sent, unread, spoilt
<1>6. \A k \in Y!Both : Y!Taken(old, answer.data)[k] = IF Y!Success(answer.data[k]) THEN Y!ConvertResult(answer.data[k]) ELSE old[k]
  BY DEF Y!Taken
<1>7. \A k \in Y!Both : Y!Taken(old, answer.data)[k] \in {old[k], 0, words[k]}
  BY <1>1, <1>3, <1>4, <1>5, <1>6
<1>8. Y!Taken(old, answer.data) \in Words
  <2>1. \A k \in Y!Both : Y!Taken(old, answer.data)[k] \in Framed
    BY <1>2, <1>7, SgpConstants
  <2>2. Y!Taken(old, answer.data) = [k \in Y!Both |-> Y!Taken(old, answer.data)[k]]
    BY <1>6 DEF Y!Taken
  <2> QED BY <2>1, <2>2 DEF Words
<1>9. ASSUME answer.faults = 0 PROVE Y!Taken(old, answer.data) = words
  <2>1. answer.data = sent
    BY <1>1, <1>9
  <2>2. \A k \in Y!Both : Y!Taken(old, answer.data)[k] = words[k]
    BY <1>3, <1>6, <2>1
  <2> QED BY <2>2, <1>8 DEF Words
<1>10. answer.faults \in 0..1
  BY <1>1
<1> QED BY <1>7, <1>8, <1>9, <1>10

LEMMA SgpHumidityIn ==
  ASSUME NEW n \in Humidities, n \div 256 <= 255
  PROVE  n \in Word16
<1>1. n \in Nat
  BY SgpConstants
<1>2. n < 256 * (n \div 256) + 256 /\ n \div 256 \in Int
  BY <1>1
<1>3. n <= 65535
  BY <1>1, <1>2
<1> QED BY <1>1, <1>3 DEF Word16

LEMMA FaultsIn ==
  ASSUME report.faults \in SgpFaults, NEW n \in 0..1, report.faults + n <= MaxFaults
  PROVE  report.faults + n \in SgpFaults
BY SgpConstants DEF SgpFaults

LEMMA HumiditySet ==
  ASSUME SgpInv, NEW n \in Humidities, Y!SetHumidity(n)
  PROVE  SgpInv'
<1>1. UNCHANGED <<chip, task, worker>>
  BY DEF Y!SetHumidity, Y!threadVars
<1>2. \/ UNCHANGED <<driver, report>>
      \/ /\ n \div 256 <= 255 /\ driver' = [driver EXCEPT !.humidity = n]
         /\ report' = [report EXCEPT !.lost = @ \/ worker \in {"send", "remember", "refetch"}]
  <2>1. n \in Nat
    BY SgpConstants
  <2>2. n \div 256 \in Int
    BY <2>1
  <2>3. ~(n \div 256 > 255) => n \div 256 <= 255
    BY <2>2
  <2> QED BY <2>3 DEF Y!SetHumidity
<1>3. CASE UNCHANGED <<driver, report>>
  BY <1>1, <1>3 DEF SgpInv, SgpTypes, SgpControl, HumidityControl, BaselineControl, ReadingControl
<1>4. CASE /\ n \div 256 <= 255 /\ driver' = [driver EXCEPT !.humidity = n]
           /\ report' = [report EXCEPT !.lost = @ \/ worker \in {"send", "remember", "refetch"}]
  <2>1. n \in Word16
    BY <1>4, SgpHumidityIn
  <2>2. PICK b \in BOOLEAN : b = (report.lost \/ worker \in {"send", "remember", "refetch"})
    OBVIOUS
  <2>3. report' = [report EXCEPT !.lost = b]
    BY <1>4, <2>2
  <2>4. report' \in SgpHistory /\ report'.lost = b /\ report'.unsent = report.unsent /\ report'.replaced = report.replaced
        /\ report'.result = report.result
    BY <2>3 DEF SgpInv, SgpTypes, SgpHistory
  <2>5. driver' \in SgpDriver /\ driver'.humidity = n /\ driver'.values = driver.values /\ driver'.baseline = driver.baseline
    BY <1>4, <2>1 DEF SgpInv, SgpTypes, SgpDriver
  <2>6. SgpTypes'
    BY <1>1, <2>4, <2>5 DEF SgpInv, SgpTypes
  <2>7. BaselineControl' /\ ReadingControl'
    BY <1>1, <2>4, <2>5 DEF SgpInv, SgpControl, BaselineControl, ReadingControl
  <2>8. HumidityControl'
    BY <1>1, <2>2, <2>4, <2>5 DEF SgpInv, SgpControl, HumidityControl
  <2> QED BY <2>6, <2>7, <2>8 DEF SgpInv, SgpControl
<1> QED BY <1>2, <1>3, <1>4

(* Another thread than the worker does not touch what it knows.             *)
LEMMA SgpCalls ==
  ASSUME SgpInv,
         \/ Y!GetResults \/ Y!StartCall \/ Y!StopCall \/ Y!StopJoin \/ Y!LoopHead
         \/ \E b \in Baselines : Y!SetBaseline(b)
  PROVE  SgpInv'
<1> USE DEF SgpInv, SgpControl, HumidityControl, BaselineControl, ReadingControl
<1>1. CASE Y!GetResults
  <2>1. report' = [report EXCEPT !.result = driver.values] /\ UNCHANGED <<chip, driver, task, worker>>
    BY <1>1 DEF Y!GetResults, Y!threadVars
  <2>2. driver.values \in Words
    BY DEF SgpTypes, SgpDriver
  <2>3. report' \in SgpHistory /\ report'.result = driver.values /\ report'.lost = report.lost
        /\ report'.unsent = report.unsent /\ report'.replaced = report.replaced
    BY <2>1, <2>2 DEF SgpTypes, SgpHistory
  <2>4. SgpTypes'
    BY <2>1, <2>3 DEF SgpTypes
  <2> QED BY <2>1, <2>3, <2>4
<1>2. CASE Y!StartCall
  BY <1>2 DEF Y!StartCall, Y!Start, Y!sgpVars, SgpTypes
<1>3. CASE Y!StopCall
  BY <1>3 DEF Y!StopCall, Y!Tell, Y!sgpVars, SgpTypes
<1>4. CASE Y!StopJoin
  BY <1>4 DEF Y!StopJoin, Y!Join, Y!sgpVars, SgpTypes
<1>5. CASE Y!LoopHead
  BY <1>5 DEF Y!LoopHead, Y!Goto, Y!sgpVars, SgpTypes
<1>6. ASSUME NEW b \in Baselines, Y!SetBaseline(b) PROVE SgpInv'
  <2>1. driver' = [driver EXCEPT !.baseline = Y!Pair(b)] /\ UNCHANGED <<chip, task, worker>>
    BY <1>6 DEF Y!SetBaseline, Y!threadVars
  <2>a. PICK x \in BOOLEAN : x <=> worker \in {"save", "ended"}
    OBVIOUS
  <2>2. x = (worker \in {"save", "ended"})
    BY <2>a
  <2>3. report' = [report EXCEPT !.replaced = x]
    BY <1>6, <2>2 DEF Y!SetBaseline
  <2>4. driver' \in SgpDriver /\ driver'.values = driver.values /\ driver'.humidity = driver.humidity
    BY <2>1, SgpConstants DEF SgpTypes, SgpDriver
  <2>5. report' \in SgpHistory /\ report'.result = report.result /\ report'.lost = report.lost
        /\ report'.unsent = report.unsent /\ report'.replaced = x
    BY <2>3 DEF SgpTypes, SgpHistory
  <2>6. SgpTypes'
    BY <2>1, <2>4, <2>5 DEF SgpTypes
  <2> QED BY <2>1, <2>2, <2>4, <2>5, <2>6
<1> QED BY <1>1, <1>2, <1>3, <1>4, <1>5, <1>6

(* The copies that the worker makes of the members.                         *)
LEMMA SgpFetches ==
  ASSUME SgpInv, Y!FetchBaseline \/ Y!FetchHumidity \/ Y!Remember \/ Y!Look \/ Y!LastBaseline
  PROVE  SgpInv'
<1> USE DEF SgpInv, SgpControl, HumidityControl, BaselineControl, ReadingControl
<1>0. 0 \in Word16 /\ driver.humidity \in Word16 /\ driver.baseline \in Words
  BY DEF SgpTypes, SgpDriver, Word16
<1>1. CASE Y!FetchBaseline
  <2>1. task' = [task EXCEPT !.base = driver.baseline, !.hmdt = 0] /\ UNCHANGED <<chip, driver>>
        /\ report' = [report EXCEPT !.lost = FALSE, !.replaced = FALSE] /\ worker' = "baseline"
    BY <1>1 DEF Y!FetchBaseline, Y!Goto
  <2>2. task' \in SgpTasks
    BY <1>0, <2>1 DEF SgpTypes, SgpTasks
  <2>3. report' \in SgpHistory /\ report'.result = report.result
    BY <2>1 DEF SgpTypes, SgpHistory
  <2>4. SgpTypes'
    BY <2>1, <2>2, <2>3 DEF SgpTypes
  <2> QED BY <2>1, <2>3, <2>4
<1>2. CASE Y!FetchHumidity
  <2>0. Y!Goto("fetch", "send") \/ Y!Goto("refetch", "resend")
    BY <1>2 DEF Y!FetchHumidity
  <2>1. task' = [task EXCEPT !.now = driver.humidity] /\ UNCHANGED <<chip, driver, report>>
        /\ ((worker = "fetch" /\ worker' = "send") \/ (worker = "refetch" /\ worker' = "resend"))
    BY <1>2, <2>0 DEF Y!FetchHumidity, Y!Goto
  <2>2. task' \in SgpTasks /\ task'.now = driver.humidity /\ task'.hmdt = task.hmdt
    BY <1>0, <2>1 DEF SgpTypes, SgpTasks
  <2>3. SgpTypes'
    BY <2>1, <2>2 DEF SgpTypes
  <2> QED BY <2>1, <2>2, <2>3
<1>3. CASE Y!Remember
  <2>1. task' = [task EXCEPT !.hmdt = driver.humidity] /\ UNCHANGED <<chip, driver, report>>
        /\ worker = "remember" /\ worker' = "loop"
    BY <1>3 DEF Y!Remember, Y!Goto
  <2>2. task' \in SgpTasks /\ task'.hmdt = driver.humidity
    BY <1>0, <2>1 DEF SgpTypes, SgpTasks
  <2>3. SgpTypes'
    BY <2>1, <2>2 DEF SgpTypes
  <2> QED BY <2>1, <2>2, <2>3
<1>4. CASE Y!Look
  <2>1. task' = [task EXCEPT !.hmdt = driver.humidity] /\ UNCHANGED <<chip, driver>> /\ worker = "look"
        /\ worker' = (IF driver.humidity # task.hmdt THEN "refetch" ELSE "loop")
    BY <1>4 DEF Y!Look, Y!Goto
  <2>2. PICK x \in BOOLEAN : x = (report.lost /\ driver.humidity = task.hmdt)
    BY DEF SgpTypes, SgpHistory
  <2>3. report' = [report EXCEPT !.lost = x]
    BY <1>4, <2>2 DEF Y!Look
  <2>4. task' \in SgpTasks /\ task'.hmdt = driver.humidity
    BY <1>0, <2>1 DEF SgpTypes, SgpTasks
  <2>5. report' \in SgpHistory /\ report'.lost = x /\ report'.unsent = report.unsent /\ report'.replaced = report.replaced
        /\ report'.result = report.result
    BY <2>3 DEF SgpTypes, SgpHistory
  <2>6. SgpTypes'
    BY <2>1, <2>4, <2>5 DEF SgpTypes
  <2>7. HumidityControl'
    BY <2>1, <2>2, <2>4, <2>5
  <2> QED BY <2>1, <2>5, <2>6, <2>7
<1>5. CASE Y!LastBaseline
  <2>1. task' = [task EXCEPT !.base = driver.baseline] /\ UNCHANGED <<chip, driver>> /\ worker' = "save"
        /\ report' = [report EXCEPT !.replaced = FALSE]
    BY <1>5 DEF Y!LastBaseline, Y!Goto
  <2>2. task' \in SgpTasks
    BY <1>0, <2>1 DEF SgpTypes, SgpTasks
  <2>3. report' \in SgpHistory /\ report'.result = report.result
    BY <2>1 DEF SgpTypes, SgpHistory
  <2>4. SgpTypes'
    BY <2>1, <2>2, <2>3 DEF SgpTypes
  <2> QED BY <2>1, <2>3, <2>4
<1> QED BY <1>1, <1>2, <1>3, <1>4, <1>5

LEMMA FailsIn ==
  ASSUME SgpTypes, NEW n \in 0..1, Y!WriteFails(n)
  PROVE  report.faults + n \in SgpFaults
<1>1. report.faults \in SgpFaults
  BY DEF SgpTypes, SgpHistory
<1> QED BY <1>1, SgpConstants DEF Y!WriteFails, SgpFaults

LEMMA SgpWrites ==
  ASSUME SgpInv, NEW n \in 0..1, Y!SendBaseline(n) \/ Y!SendFirst(n) \/ Y!Resend(n)
  PROVE  SgpInv'
<1>0. task.now \in Word16 /\ task.base \in Words /\ 0 \in Word16 /\ Y!Nothing \in Words
  BY SgpConstants DEF SgpInv, SgpTypes, SgpTasks, Word16
<1>1. CASE Y!SendBaseline(n)
  <2> USE DEF SgpInv, SgpControl, HumidityControl, BaselineControl, ReadingControl
  <2>1. Y!WriteFails(n) /\ UNCHANGED driver /\ worker' = "fetch" /\ task' = [task EXCEPT !.base = Y!Nothing]
        /\ chip' = (IF n = 0 THEN [chip EXCEPT !.baseline = task.base] ELSE chip)
        /\ report' = [report EXCEPT !.faults = @ + n]
    BY <1>1 DEF Y!SendBaseline, Y!Goto
  <2>2. PICK m \in SgpFaults : m = report.faults + n
    BY <2>1, FailsIn
  <2>3. report' = [report EXCEPT !.faults = m]
    BY <2>1, <2>2
  <2>4. report' \in SgpHistory /\ report'.result = report.result
    BY <2>3 DEF SgpTypes, SgpHistory
  <2>5. task' \in SgpTasks
    BY <1>0, <2>1 DEF SgpTypes, SgpTasks
  <2>6. chip' \in SgpChip
    BY <1>0, <2>1 DEF SgpTypes, SgpChip
  <2>7. SgpTypes'
    BY <2>1, <2>4, <2>5, <2>6 DEF SgpTypes
  <2> QED BY <2>1, <2>4, <2>7
<1>2. ASSUME Y!Send(n), UNCHANGED driver,
             (worker = "send" /\ worker' = "remember") \/ (worker = "resend" /\ worker' = "loop")
      PROVE  SgpInv'
  <2> USE DEF SgpInv, SgpControl, HumidityControl, BaselineControl, ReadingControl
  <2>1. Y!WriteFails(n) /\ (task.now = 0 => n = 0) /\ task' = [task EXCEPT !.now = 0]
        /\ chip' = (IF n = 0 /\ task.now # 0 THEN [chip EXCEPT !.humidity = task.now] ELSE chip)
    BY <1>2 DEF Y!Send
  <2>2. PICK m \in SgpFaults : m = report.faults + n
    BY <2>1, FailsIn
  <2>b. PICK x \in BOOLEAN : x <=> n = 1
    OBVIOUS
  <2>3. x = (n = 1)
    BY <2>b
  <2>4. report' = [report EXCEPT !.faults = m, !.unsent = x]
    BY <1>2, <2>2, <2>3 DEF Y!Send
  <2>5. report' \in SgpHistory /\ report'.result = report.result /\ report'.lost = report.lost /\ report'.unsent = x
        /\ report'.replaced = report.replaced
    BY <2>4 DEF SgpTypes, SgpHistory
  <2>6. task' \in SgpTasks /\ task'.hmdt = task.hmdt
    BY <1>0, <2>1 DEF SgpTypes, SgpTasks
  <2>7. chip' \in SgpChip /\ chip'.baseline = chip.baseline
        /\ (n = 0 /\ task.now # 0 => chip'.humidity = task.now)
    BY <1>0, <2>1 DEF SgpTypes, SgpChip
  <2>8. SgpTypes'
    BY <1>2, <2>5, <2>6, <2>7 DEF SgpTypes
  <2>9. HumidityControl'
    <3>1. driver'.humidity = driver.humidity
      BY <1>2
    <3>2. ~x => n = 0
      BY <2>b
    <3>3. ~x /\ task.now # 0 => chip'.humidity = task.now
      BY <2>7, <3>2
    <3>4. CASE worker = "send" /\ worker' = "remember"
      <4>1. ~report.lost => task.now = driver.humidity
        BY <3>4
      <4> QED BY <2>5, <3>1, <3>3, <3>4, <4>1
    <3>5. CASE worker = "resend" /\ worker' = "loop"
      <4>1. ~report.lost => task.now = task.hmdt
        BY <3>5
      <4> QED BY <2>5, <2>6, <3>3, <3>5, <4>1
    <3> QED BY <1>2, <3>4, <3>5
  <2> QED BY <1>2, <2>5, <2>8, <2>9
<1>3. CASE Y!SendFirst(n)
  <2>1. Y!Send(n) /\ UNCHANGED driver /\ worker = "send" /\ worker' = "remember"
    BY <1>3 DEF Y!SendFirst, Y!Goto
  <2> QED BY <1>2, <2>1
<1>4. CASE Y!Resend(n)
  <2>1. Y!Send(n) /\ UNCHANGED driver /\ worker = "resend" /\ worker' = "loop"
    BY <1>4 DEF Y!Resend, Y!Goto
  <2> QED BY <1>2, <2>1
<1> QED BY <1>1, <1>3, <1>4

LEMMA MeasureStep ==
  ASSUME SgpInv, Y!Measure
  PROVE  SgpInv'
<1> USE DEF SgpInv, SgpControl, HumidityControl, BaselineControl, ReadingControl
<1>0. PICK r \in Readings : \E answer \in Y!Answers(Y!Pair(r)) :
        /\ Y!Goto("measure", "look") /\ report.faults + answer.faults <= MaxFaults
        /\ driver' \in {driver, [driver EXCEPT !.values = Y!Taken(@, answer.data)]}
        /\ report' = [report EXCEPT !.faults = @ + answer.faults]
        /\ UNCHANGED <<chip, task>>
  BY DEF Y!Measure
<1>1. PICK answer \in Y!Answers(Y!Pair(r)) :
        /\ Y!Goto("measure", "look") /\ report.faults + answer.faults <= MaxFaults
        /\ driver' \in {driver, [driver EXCEPT !.values = Y!Taken(@, answer.data)]}
        /\ report' = [report EXCEPT !.faults = @ + answer.faults]
        /\ UNCHANGED <<chip, task>>
  BY <1>0
<1>2. Y!Pair(r) \in Words /\ driver.values \in Words /\ report.faults \in SgpFaults
  BY SgpConstants DEF SgpTypes, SgpDriver, SgpHistory
<1>3. PICK values : values = Y!Taken(driver.values, answer.data)
  OBVIOUS
<1>4. /\ answer.faults \in 0..1 /\ values \in Words
      /\ \A k \in Y!Both : values[k] \in {driver.values[k], 0, Y!Pair(r)[k]}
  BY <1>2, <1>3, TakenFields
<1>5. Measured(values)
  BY <1>4 DEF Measured
<1>6. PICK m \in SgpFaults : m = report.faults + answer.faults
  BY <1>1, <1>2, <1>4, FaultsIn
<1>7. report' = [report EXCEPT !.faults = m]
  BY <1>1, <1>6
<1>8. report' \in SgpHistory /\ report'.result = report.result /\ report'.lost = report.lost
      /\ report'.unsent = report.unsent /\ report'.replaced = report.replaced
  BY <1>7 DEF SgpTypes, SgpHistory
<1>9. driver' = driver \/ driver' = [driver EXCEPT !.values = values]
  BY <1>1, <1>3
<1>10. driver' \in SgpDriver /\ driver'.humidity = driver.humidity /\ driver'.baseline = driver.baseline
       /\ driver'.values \in {driver.values, values}
  BY <1>4, <1>9 DEF SgpTypes, SgpDriver
<1>11. SgpTypes'
  BY <1>1, <1>8, <1>10 DEF SgpTypes
<1>12. Measured(driver'.values) /\ Measured(report'.result)
  BY <1>5, <1>8, <1>10
<1>13. worker = "measure" /\ worker' = "look" /\ UNCHANGED <<chip, task>>
  BY <1>1 DEF Y!Goto
<1>14. HumidityControl' /\ BaselineControl'
  BY <1>8, <1>10, <1>13
<1>15. ReadingControl'
  BY <1>12 DEF Measured
<1> QED BY <1>11, <1>14, <1>15

LEMMA SavedBaseline ==
  ASSUME SgpInv, Y!SaveBaseline
  PROVE  SgpInv'
<1> USE DEF SgpInv, SgpControl, HumidityControl, BaselineControl, ReadingControl
<1>1. PICK answer \in Y!Answers(chip.baseline) :
        /\ Y!Goto("save", "ended") /\ report.faults + answer.faults <= MaxFaults
        /\ driver' = [driver EXCEPT !.baseline = Y!Taken(task.base, answer.data)]
        /\ report' = [report EXCEPT !.faults = @ + answer.faults,
                                    !.replaced = @ \/ answer.faults > 0]
        /\ task' = [task EXCEPT !.base = Y!Nothing]
        /\ UNCHANGED chip
  BY DEF Y!SaveBaseline
<1>2. chip.baseline \in Words /\ task.base \in Words /\ report.faults \in SgpFaults /\ report.replaced \in BOOLEAN
      /\ Y!Nothing \in Words
  BY SgpConstants DEF SgpTypes, SgpChip, SgpTasks, SgpHistory
<1>3. PICK base : base = Y!Taken(task.base, answer.data)
  OBVIOUS
<1>4. answer.faults \in 0..1 /\ base \in Words /\ (answer.faults = 0 => base = chip.baseline)
  BY <1>2, <1>3, TakenFields
<1>5. PICK m \in SgpFaults : m = report.faults + answer.faults
  BY <1>1, <1>2, <1>4, FaultsIn
<1>a. PICK x \in BOOLEAN : x <=> report.replaced \/ answer.faults > 0
  BY <1>2
<1>6. x = (report.replaced \/ answer.faults > 0)
  BY <1>2, <1>a
<1>7. report' = [report EXCEPT !.faults = m, !.replaced = x] /\ driver' = [driver EXCEPT !.baseline = base]
  BY <1>1, <1>3, <1>5, <1>6
<1>8. report' \in SgpHistory /\ report'.result = report.result /\ report'.replaced = x
  BY <1>7 DEF SgpTypes, SgpHistory
<1>9. driver' \in SgpDriver /\ driver'.baseline = base /\ driver'.values = driver.values
  BY <1>4, <1>7 DEF SgpTypes, SgpDriver
<1>10. task' \in SgpTasks
  BY <1>1, <1>2 DEF SgpTypes, SgpTasks
<1>11. worker' = "ended" /\ UNCHANGED chip
  BY <1>1 DEF Y!Goto
<1>12. SgpTypes'
  BY <1>8, <1>9, <1>10, <1>11 DEF SgpTypes
<1>13. BaselineControl'
  <2>1. ~x => answer.faults = 0
    BY <1>4, <1>a
  <2>2. ~x => driver'.baseline = chip'.baseline
    BY <1>4, <1>9, <1>11, <2>1
  <2> QED BY <1>8, <2>2
<1> QED BY <1>8, <1>9, <1>11, <1>12, <1>13

LEMMA LearnStep ==
  ASSUME SgpInv, Y!Learn
  PROVE  SgpInv'
<1> USE DEF SgpInv, SgpControl, HumidityControl, BaselineControl, ReadingControl
<1>1. PICK b \in Baselines : chip' = [chip EXCEPT !.baseline = Y!Pair(b)]
  BY DEF Y!Learn
<1>2. worker = "measure" /\ UNCHANGED <<driver, task, report, worker>>
  BY DEF Y!Learn, Y!threadVars
<1>3. chip' \in SgpChip /\ chip'.humidity = chip.humidity
  BY <1>1, SgpConstants DEF SgpTypes, SgpChip
<1>4. SgpTypes'
  BY <1>2, <1>3 DEF SgpTypes
<1> QED BY <1>2, <1>3, <1>4

LEMMA SgpStep ==
  ASSUME SgpInv, Y!SgpNext
  PROVE  SgpInv'
<1>1. CASE Y!WorkerNext
  BY <1>1, SgpCalls, SgpFetches, SgpWrites, MeasureStep, SavedBaseline DEF Y!WorkerNext
<1> QED BY <1>1, HumiditySet, SgpCalls, LearnStep DEF Y!SgpNext

LEMMA SgpHolds ==
  ASSUME SgpInv
  PROVE  Y!SgpTypeOK /\ Y!SgpAgrees /\ Y!SgpReports
<1>1. \A w \in Word16 : Y!IsWord(w)
  BY DEF Word16, Y!IsWord
<1>2. /\ driver.humidity \in Word16 /\ chip.humidity \in Word16 /\ report.faults \in SgpFaults
      /\ driver.values \in Words /\ driver.baseline \in Words
  BY DEF SgpInv, SgpTypes, SgpDriver, SgpChip, SgpHistory
<1>3. \A k \in Y!Both : driver.values[k] \in Word16 /\ driver.baseline[k] \in Word16
  BY <1>2, SgpConstants DEF Words
<1>4. Y!SgpTypeOK
  BY <1>1, <1>2, <1>3 DEF Y!SgpTypeOK, SgpFaults
<1>5. Y!SgpAgrees
  BY DEF SgpInv, SgpControl, HumidityControl, BaselineControl, Y!SgpAgrees
<1>6. Y!SgpReports
  BY DEF SgpInv, SgpControl, ReadingControl, Measured, Y!SgpReports
<1> QED BY <1>4, <1>5, <1>6

-----------------------------------------------------------------------------
(* the TSL2561 (Tsl2561)                                                    *)

TslByte == 0..255
TslWord == {x \in Nat : x <= 65535}
TslGarbage == {0, 65535}
TslMarks == SUBSET {"timing", "power"}
TslChip == [timing : TslTimings, on : BOOLEAN]
TslDriver == [timing : TslByte, time : 0..3, gain : {0, 16}, on : BOOLEAN, vis : TslWord, ir : TslWord]
TslCalls == [chip : TslChip, driver : TslDriver, light : {<<0, 0>>} \cup Lights, left : Int, bad : TslMarks]
TslReport(r) ==
  \E lux : \E ok \in BOOLEAN, light \in {<<0, 0>>} \cup Lights, faults \in Nat, bad \in TslMarks :
    r = [ok |-> ok, lux |-> lux, light |-> light, faults |-> faults, bad |-> bad]

(* The driver knows the gain and the time of its timing.                    *)
TimingKnown(d) == d.time = TimeOf(d.timing) /\ d.gain = GainOf(d.timing)
CallAgrees(s) ==
  /\ TimingKnown(s.driver)
  /\ "timing" \notin s.bad => s.driver.timing = s.chip.timing
  /\ "power" \notin s.bad => s.driver.on = s.chip.on
CallOK(s) == s \in TslCalls /\ CallAgrees(s)

TslInv ==
  /\ chip \in TslChip /\ driver \in TslDriver /\ TslReport(report) /\ report.faults <= MaxFaults
  /\ TimingKnown(driver) /\ T!TslAgrees /\ T!TslReports

LEMMA TimeIn ==
  ASSUME NEW timing \in TslByte
  PROVE  TimeOf(timing) \in 0..3 /\ GainOf(timing) \in {0, 16}
BY DEF TslByte, TimeOf, GainOf, T!Gain1x, T!Gain16x

LEMMA TimingsIn == TslTimings \subseteq TslByte
BY TslAssumption, FaultsAssumption DEF TslTimings, TslByte

(* 16x is lost in the eight bits of the register.                           *)
LEMMA TimingWritten ==
  ASSUME NEW time \in 0..3, NEW gain \in {0, 16}
  PROVE  (16 * gain + time) % 256 = time
<1>1. CASE gain = 0
  BY <1>1
<1>2. CASE gain = 16
  BY <1>2
<1> QED BY <1>1, <1>2

LEMMA TimedIs ==
  ASSUME NEW d \in TslDriver, NEW timing \in TslByte
  PROVE  /\ T!Timed(d, timing) = [timing |-> timing, time |-> TimeOf(timing), gain |-> GainOf(timing), on |-> d.on,
                                  vis |-> d.vis, ir |-> d.ir]
         /\ T!Timed(d, timing) \in TslDriver /\ TimingKnown(T!Timed(d, timing))
<1>1. PICK t, i, g, o, v, r : d = [timing |-> t, time |-> i, gain |-> g, on |-> o, vis |-> v, ir |-> r]
  BY DEF TslDriver
<1>2. PICK time \in 0..3, gain \in {0, 16} : time = TimeOf(timing) /\ gain = GainOf(timing)
  BY TimeIn
<1>3. PICK d1 : d1 = [d EXCEPT !.timing = timing]
  OBVIOUS
<1>4. d1 = [timing |-> timing, time |-> i, gain |-> g, on |-> o, vis |-> v, ir |-> r]
  BY <1>1, <1>3
<1>5. PICK d2 : d2 = [d1 EXCEPT !.time = time]
  OBVIOUS
<1>6. d2 = [timing |-> timing, time |-> time, gain |-> g, on |-> o, vis |-> v, ir |-> r]
  BY <1>4, <1>5
<1>7. [d2 EXCEPT !.gain = gain] = [timing |-> timing, time |-> time, gain |-> gain, on |-> o, vis |-> v, ir |-> r]
  BY <1>6
<1>8. T!Timed(d, timing) = [d2 EXCEPT !.gain = gain]
  BY <1>2, <1>3, <1>5 DEF T!Timed, TimeOf, GainOf
<1>9. d.on = o /\ d.vis = v /\ d.ir = r
  BY <1>1
<1>10. T!Timed(d, timing) \in TslDriver
  BY <1>7, <1>8, <1>9 DEF TslDriver
<1> QED BY <1>2, <1>7, <1>8, <1>9, <1>10 DEF TimingKnown

LEMMA CountIn ==
  ASSUME NEW n \in Nat, NEW timing \in TslByte
  PROVE  T!Count(n, timing) \in TslWord
<1>1. PICK g \in Nat : g = (IF (timing \div 16) % 2 = 0 THEN n ELSE 16 * n)
  OBVIOUS
<1>2. (g * 11) \div 322 \in Nat /\ (g * 81) \div 322 \in Nat
  OBVIOUS
<1>3. \A x \in Nat : T!AtMost(x, 5047) \in TslWord /\ T!AtMost(x, 37177) \in TslWord /\ T!AtMost(x, 65535) \in TslWord
  BY DEF T!AtMost, TslWord
<1>4. T!Count(n, timing) = CASE timing % 4 = 0 -> T!AtMost((g * 11) \div 322, 5047)
                             [] timing % 4 = 1 -> T!AtMost((g * 81) \div 322, 37177)
                             [] OTHER -> T!AtMost(g, 65535)
  BY <1>1 DEF T!Count
<1>5. CASE timing % 4 = 0
  BY <1>2, <1>3, <1>4, <1>5
<1>6. CASE timing % 4 = 1
  BY <1>2, <1>3, <1>4, <1>6
<1>7. CASE timing % 4 # 0 /\ timing % 4 # 1
  BY <1>3, <1>4, <1>7
<1> QED BY <1>5, <1>6, <1>7
-----------------------------------------------------------------------------
(* the parts of a call *)

LEMMA CallShape ==
  ASSUME NEW s \in TslCalls
  PROVE  \E c \in TslChip, d \in TslDriver, light \in {<<0, 0>>} \cup Lights, left \in Int, bad \in TslMarks :
           s = [chip |-> c, driver |-> d, light |-> light, left |-> left, bad |-> bad]
BY DEF TslCalls

LEMMA Spoiled ==
  ASSUME NEW bad \in TslMarks, NEW what \in {"timing", "power"}, NEW fails
  PROVE  (IF fails THEN bad \cup {what} ELSE bad \ {what}) \in TslMarks
BY DEF TslMarks

LEMMA ChipWith ==
  ASSUME NEW c \in TslChip
  PROVE  /\ \A on \in BOOLEAN :
              [c EXCEPT !.on = on] = [timing |-> c.timing, on |-> on] /\ [c EXCEPT !.on = on] \in TslChip
         /\ \A timing \in TslTimings :
              [c EXCEPT !.timing = timing] = [timing |-> timing, on |-> c.on] /\ [c EXCEPT !.timing = timing] \in TslChip
<1>1. PICK t \in TslTimings, o \in BOOLEAN : c = [timing |-> t, on |-> o]
  BY DEF TslChip
<1>2. c.timing = t /\ c.on = o
  BY <1>1
<1>3. ASSUME NEW on \in BOOLEAN
      PROVE  [c EXCEPT !.on = on] = [timing |-> c.timing, on |-> on] /\ [c EXCEPT !.on = on] \in TslChip
  <2>1. [c EXCEPT !.on = on] = [timing |-> t, on |-> on]
    BY <1>1
  <2> QED BY <1>2, <2>1 DEF TslChip
<1>4. ASSUME NEW timing \in TslTimings
      PROVE  [c EXCEPT !.timing = timing] = [timing |-> timing, on |-> c.on] /\ [c EXCEPT !.timing = timing] \in TslChip
  <2>1. [c EXCEPT !.timing = timing] = [timing |-> timing, on |-> o]
    BY <1>1
  <2> QED BY <1>2, <2>1 DEF TslChip
<1> QED BY <1>3, <1>4

LEMMA DriverWith ==
  ASSUME NEW d \in TslDriver
  PROVE  /\ \A on \in BOOLEAN :
              /\ [d EXCEPT !.on = on] =
                   [timing |-> d.timing, time |-> d.time, gain |-> d.gain, on |-> on, vis |-> d.vis, ir |-> d.ir]
              /\ [d EXCEPT !.on = on] \in TslDriver
         /\ \A n \in TslWord :
              /\ [d EXCEPT !.vis = n] =
                   [timing |-> d.timing, time |-> d.time, gain |-> d.gain, on |-> d.on, vis |-> n, ir |-> d.ir]
              /\ [d EXCEPT !.ir = n] =
                   [timing |-> d.timing, time |-> d.time, gain |-> d.gain, on |-> d.on, vis |-> d.vis, ir |-> n]
              /\ [d EXCEPT !.vis = n] \in TslDriver /\ [d EXCEPT !.ir = n] \in TslDriver
<1>1. PICK t \in TslByte, i \in 0..3, g \in {0, 16}, o \in BOOLEAN, v \in TslWord, r \in TslWord :
        d = [timing |-> t, time |-> i, gain |-> g, on |-> o, vis |-> v, ir |-> r]
  BY DEF TslDriver
<1>2. d.timing = t /\ d.time = i /\ d.gain = g /\ d.on = o /\ d.vis = v /\ d.ir = r
  BY <1>1
<1>3. ASSUME NEW on \in BOOLEAN
      PROVE  /\ [d EXCEPT !.on = on] =
                  [timing |-> d.timing, time |-> d.time, gain |-> d.gain, on |-> on, vis |-> d.vis, ir |-> d.ir]
             /\ [d EXCEPT !.on = on] \in TslDriver
  <2>1. [d EXCEPT !.on = on] = [timing |-> t, time |-> i, gain |-> g, on |-> on, vis |-> v, ir |-> r]
    BY <1>1
  <2>2. [timing |-> t, time |-> i, gain |-> g, on |-> on, vis |-> v, ir |-> r] \in TslDriver
    BY DEF TslDriver
  <2> QED BY <1>2, <2>1, <2>2
<1>4. ASSUME NEW n \in TslWord
      PROVE  /\ [d EXCEPT !.vis = n] =
                  [timing |-> d.timing, time |-> d.time, gain |-> d.gain, on |-> d.on, vis |-> n, ir |-> d.ir]
             /\ [d EXCEPT !.ir = n] =
                  [timing |-> d.timing, time |-> d.time, gain |-> d.gain, on |-> d.on, vis |-> d.vis, ir |-> n]
             /\ [d EXCEPT !.vis = n] \in TslDriver /\ [d EXCEPT !.ir = n] \in TslDriver
  <2>1. [d EXCEPT !.vis = n] = [timing |-> t, time |-> i, gain |-> g, on |-> o, vis |-> n, ir |-> r]
    BY <1>1
  <2>2. [d EXCEPT !.ir = n] = [timing |-> t, time |-> i, gain |-> g, on |-> o, vis |-> v, ir |-> n]
    BY <1>1
  <2>3. /\ [timing |-> t, time |-> i, gain |-> g, on |-> o, vis |-> n, ir |-> r] \in TslDriver
        /\ [timing |-> t, time |-> i, gain |-> g, on |-> o, vis |-> v, ir |-> n] \in TslDriver
    BY DEF TslDriver
  <2> QED BY <1>2, <2>1, <2>2, <2>3
<1> QED BY <1>3, <1>4

LEMMA PowerSet ==
  ASSUME NEW s, CallOK(s), NEW on \in BOOLEAN
  PROVE  /\ CallOK(T!SetPower(s, on)) /\ T!SetPower(s, on).light = s.light
         /\ T!SetPower(s, on).driver.on = on
         /\ T!SetPower(s, on).chip.timing = s.chip.timing /\ T!SetPower(s, on).driver.timing = s.driver.timing
         /\ T!SetPower(s, on).driver.vis = s.driver.vis /\ T!SetPower(s, on).driver.ir = s.driver.ir
         /\ s.left <= 0 => /\ T!SetPower(s, on).left <= 0 /\ T!SetPower(s, on).bad \subseteq s.bad
                           /\ (s.driver.on => s.chip.on) => (T!SetPower(s, on).driver.on => T!SetPower(s, on).chip.on)
<1>1. PICK c \in TslChip, d \in TslDriver, light \in {<<0, 0>>} \cup Lights, left \in Int, bad \in TslMarks :
        s = [chip |-> c, driver |-> d, light |-> light, left |-> left, bad |-> bad]
  BY CallShape DEF CallOK
<1>2. CASE d.on = on
  <2>1. T!SetPower(s, on) = s
    BY <1>1, <1>2 DEF T!SetPower
  <2> QED BY <1>1, <1>2, <2>1
<1>3. CASE d.on # on
  <2>1. PICK fails \in BOOLEAN : fails = (left = 1) /\ (left <= 0 => ~fails)
    <3>1. PICK fails \in BOOLEAN : fails <=> left = 1
      OBVIOUS
    <3>2. fails = (left = 1)
      BY <3>1
    <3>3. left <= 0 => left # 1
      OBVIOUS
    <3>4. left <= 0 => ~fails
      BY <3>1, <3>3
    <3> QED BY <3>2, <3>4
  <2>2. PICK now \in BOOLEAN : now = (IF fails THEN c.on ELSE on)
    BY DEF TslChip
  <2>3. PICK marks \in TslMarks : marks = (IF fails THEN bad \cup {"power"} ELSE bad \ {"power"})
    BY Spoiled
  <2>4. PICK c2 \in TslChip : c2 = [c EXCEPT !.on = now] /\ c2.on = now /\ c2.timing = c.timing
    <3>1. PICK c2 \in TslChip : c2 = [c EXCEPT !.on = now] /\ c2 = [timing |-> c.timing, on |-> now]
      BY ChipWith
    <3> QED BY <3>1
  <2>5. PICK d2 \in TslDriver : /\ d2 = [d EXCEPT !.on = on] /\ d2.on = on /\ d2.timing = d.timing /\ d2.time = d.time
                                /\ d2.gain = d.gain /\ d2.vis = d.vis /\ d2.ir = d.ir
    <3>1. PICK d2 \in TslDriver :
            /\ d2 = [d EXCEPT !.on = on]
            /\ d2 = [timing |-> d.timing, time |-> d.time, gain |-> d.gain, on |-> on, vis |-> d.vis, ir |-> d.ir]
      BY DriverWith
    <3> QED BY <3>1
  <2>6. PICK t : t = [s EXCEPT !.driver.on = on, !.chip.on = IF T!Fails(s) THEN @ ELSE on]
    OBVIOUS
  <2>7. t = [chip |-> c2, driver |-> d2, light |-> light, left |-> left, bad |-> bad]
    <3>1. PICK t1 : t1 = [s EXCEPT !.driver.on = on]
      OBVIOUS
    <3>2. t1 = [chip |-> c, driver |-> d2, light |-> light, left |-> left, bad |-> bad]
      BY <1>1, <2>5, <3>1
    <3>3. t = [t1 EXCEPT !.chip.on = now]
      BY <1>1, <2>1, <2>2, <2>6, <3>1 DEF T!Fails
    <3>4. [t1 EXCEPT !.chip.on = now] = [chip |-> c2, driver |-> d2, light |-> light, left |-> left, bad |-> bad]
      BY <3>2, <2>4
    <3> QED BY <3>3, <3>4
  <2>8. T!Spoil(t, "power") = [chip |-> c2, driver |-> d2, light |-> light, left |-> left, bad |-> marks]
    <3>1. T!Spoil(t, "power") = [t EXCEPT !.bad = marks]
      BY <2>1, <2>3, <2>7 DEF T!Spoil, T!Fails
    <3>2. [t EXCEPT !.bad = marks] = [chip |-> c2, driver |-> d2, light |-> light, left |-> left, bad |-> marks]
      BY <2>7
    <3> QED BY <3>1, <3>2
  <2>9. T!SetPower(s, on) = [chip |-> c2, driver |-> d2, light |-> light, left |-> left - 1, bad |-> marks]
    <3>1. PICK u : u = T!Spoil(t, "power")
      OBVIOUS
    <3>2. T!SetPower(s, on) = T!Next1(u)
      BY <1>1, <1>3, <2>6, <3>1 DEF T!SetPower
    <3>3. T!Next1(u) = [u EXCEPT !.left = left - 1]
      BY <2>8, <3>1 DEF T!Next1
    <3>4. [u EXCEPT !.left = left - 1] = [chip |-> c2, driver |-> d2, light |-> light, left |-> left - 1, bad |-> marks]
      BY <2>8, <3>1
    <3> QED BY <3>2, <3>3, <3>4
  <2>10. PICK r : r = T!SetPower(s, on)
    OBVIOUS
  <2>11. r.chip = c2 /\ r.driver = d2 /\ r.light = light /\ r.left = left - 1 /\ r.bad = marks
    BY <2>9, <2>10
  <2>12. r \in TslCalls
    BY <2>9, <2>10 DEF TslCalls
  <2>13. s.chip = c /\ s.driver = d /\ s.light = light /\ s.left = left /\ s.bad = bad
    BY <1>1
  <2>14. TimingKnown(d) /\ ("timing" \notin bad => d.timing = c.timing)
    BY <2>13 DEF CallOK, CallAgrees
  <2>15. CallAgrees(r)
    <3>1. TimingKnown(d2)
      BY <2>5, <2>14 DEF TimingKnown
    <3>2. "timing" \notin marks => d2.timing = c2.timing
      BY <2>3, <2>4, <2>5, <2>14
    <3>3. "power" \notin marks => d2.on = c2.on
      BY <2>2, <2>3, <2>4, <2>5
    <3> QED BY <2>11, <3>1, <3>2, <3>3 DEF CallAgrees
  <2>16. left <= 0 => left - 1 <= 0 /\ marks \subseteq bad /\ now = on
    <3>1. left <= 0 => left - 1 <= 0 /\ ~fails
      BY <2>1
    <3> QED BY <3>1, <2>2, <2>3
  <2> QED BY <2>4, <2>5, <2>10, <2>11, <2>12, <2>13, <2>15, <2>16 DEF CallOK
<1> QED BY <1>2, <1>3

(* A channel is read into vis or ir.                                        *)
LEMMA ReadIn ==
  ASSUME NEW s, CallOK(s), NEW garbage \in TslGarbage, NEW n \in Nat
  PROVE  /\ T!Read16(s, n, garbage) \in TslWord
         /\ s.left <= 0 /\ s.chip.on => T!Read16(s, n, garbage) = T!Count(n, s.chip.timing)
<1>1. PICK c \in TslChip, d \in TslDriver, light \in {<<0, 0>>} \cup Lights, left \in Int, bad \in TslMarks :
        s = [chip |-> c, driver |-> d, light |-> light, left |-> left, bad |-> bad]
  BY CallShape DEF CallOK
<1>2. c.timing \in TslByte /\ s.chip = c /\ s.left = left
  BY <1>1, TimingsIn DEF TslChip
<1>3. T!Count(n, c.timing) \in TslWord
  BY <1>2, CountIn
<1>4. garbage \in TslWord
  BY DEF TslWord, TslGarbage
<1>5. left <= 0 => left # 1
  OBVIOUS
<1> QED BY <1>2, <1>3, <1>4, <1>5 DEF T!Read16, T!Fails

LightOf(s) == s.light[1] \in Nat /\ s.light[2] \in Nat

LEMMA LightIn ==
  ASSUME NEW s, CallOK(s)
  PROVE  LightOf(s)
<1>1. s.light \in {<<0, 0>>} \cup Lights
  BY DEF CallOK, TslCalls
<1> QED BY <1>1, TslAssumption, FaultsAssumption DEF LightOf

SameTiming(d, e) == e.timing = d.timing /\ e.time = d.time /\ e.gain = d.gain /\ e.on = d.on

LEMMA DriverStored ==
  ASSUME NEW s, CallOK(s), NEW d \in TslDriver, SameTiming(s.driver, d), NEW t, t = [s EXCEPT !.driver = d]
  PROVE  /\ CallOK(T!Next1(t)) /\ T!Next1(t).light = s.light /\ T!Next1(t).chip = s.chip
         /\ T!Next1(t).driver = d /\ T!Next1(t).bad = s.bad /\ T!Next1(t).left = s.left - 1
<1>1. PICK c \in TslChip, e \in TslDriver, light \in {<<0, 0>>} \cup Lights, left \in Int, bad \in TslMarks :
        s = [chip |-> c, driver |-> e, light |-> light, left |-> left, bad |-> bad]
  BY CallShape DEF CallOK
<1>2. s.chip = c /\ s.driver = e /\ s.light = light /\ s.left = left /\ s.bad = bad
  BY <1>1
<1>3. t = [chip |-> c, driver |-> d, light |-> light, left |-> left, bad |-> bad]
  BY <1>1
<1>4. T!Next1(t) = [t EXCEPT !.left = left - 1]
  BY ONLY <1>3 DEF T!Next1
<1>5. [t EXCEPT !.left = left - 1] = [chip |-> c, driver |-> d, light |-> light, left |-> left - 1, bad |-> bad]
  BY ONLY <1>3
<1>6. PICK r : r = T!Next1(t)
  OBVIOUS
<1>7. r.chip = c /\ r.driver = d /\ r.light = light /\ r.left = left - 1 /\ r.bad = bad /\ r \in TslCalls
  <2>1. r = [chip |-> c, driver |-> d, light |-> light, left |-> left - 1, bad |-> bad]
    BY ONLY <1>4, <1>5, <1>6
  <2>2. left - 1 \in Int
    OBVIOUS
  <2>3. r \in TslCalls
    BY ONLY <2>1, <2>2, c \in TslChip, d \in TslDriver, light \in {<<0, 0>>} \cup Lights, bad \in TslMarks DEF TslCalls
  <2> QED BY ONLY <2>1, <2>3
<1>8. CallAgrees(r)
  BY <1>2, <1>7 DEF CallOK, CallAgrees, TimingKnown, SameTiming
<1> QED BY <1>2, <1>6, <1>7, <1>8 DEF CallOK

LEMMA VisPut ==
  ASSUME NEW d \in TslDriver, NEW n \in TslWord, NEW e, e = [d EXCEPT !.vis = n]
  PROVE  e \in TslDriver /\ SameTiming(d, e) /\ e.vis = n /\ e.ir = d.ir
<1>1. /\ e = [timing |-> d.timing, time |-> d.time, gain |-> d.gain, on |-> d.on, vis |-> n, ir |-> d.ir]
      /\ e \in TslDriver
  BY DriverWith
<1>2. SameTiming(d, e) /\ e.vis = n /\ e.ir = d.ir
  BY ONLY <1>1 DEF SameTiming
<1> QED BY <1>1, <1>2

LEMMA VisPlace ==
  ASSUME NEW s \in TslCalls, NEW n \in TslWord, NEW e, e = [s.driver EXCEPT !.vis = n]
  PROVE  [s EXCEPT !.driver.vis = n] = [s EXCEPT !.driver = e]
<1>1. PICK c \in TslChip, d \in TslDriver, light \in {<<0, 0>>} \cup Lights, left \in Int, bad \in TslMarks :
        s = [chip |-> c, driver |-> d, light |-> light, left |-> left, bad |-> bad]
  BY CallShape
<1>2. e = [d EXCEPT !.vis = n]
  BY <1>1
<1>3. [s EXCEPT !.driver.vis = n] = [chip |-> c, driver |-> e, light |-> light, left |-> left, bad |-> bad]
  BY ONLY <1>1, <1>2
<1>4. [s EXCEPT !.driver = e] = [chip |-> c, driver |-> e, light |-> light, left |-> left, bad |-> bad]
  BY ONLY <1>1
<1> QED BY ONLY <1>3, <1>4

LEMMA VisWith ==
  ASSUME NEW s, CallOK(s), NEW n \in TslWord, NEW r, r = T!Next1([s EXCEPT !.driver.vis = n])
  PROVE  /\ CallOK(r) /\ r.light = s.light /\ r.chip = s.chip /\ r.bad = s.bad /\ r.left = s.left - 1
         /\ SameTiming(s.driver, r.driver) /\ r.driver.ir = s.driver.ir /\ r.driver.vis = n
<1>1. s \in TslCalls /\ s.driver \in TslDriver
  BY DEF CallOK, TslCalls
<1>2. PICK d : d = [s.driver EXCEPT !.vis = n]
  BY Zenon
<1>3. d \in TslDriver /\ SameTiming(s.driver, d) /\ d.vis = n /\ d.ir = s.driver.ir
  BY <1>1, <1>2, VisPut
<1>4. PICK t : t = [s EXCEPT !.driver = d]
  BY Zenon
<1>5. r = T!Next1(t)
  <2>1. t = [s EXCEPT !.driver.vis = n]
    BY <1>1, <1>2, <1>4, VisPlace, Zenon
  <2> QED BY <2>1, Zenon
<1>6. /\ CallOK(T!Next1(t)) /\ T!Next1(t).light = s.light /\ T!Next1(t).chip = s.chip
      /\ T!Next1(t).driver = d /\ T!Next1(t).bad = s.bad /\ T!Next1(t).left = s.left - 1
  BY ONLY CallOK(s), <1>3, <1>4, DriverStored
<1> QED BY <1>3, <1>5, <1>6, Zenon

LEMMA VisRead ==
  ASSUME NEW s, CallOK(s), NEW garbage \in TslGarbage
  PROVE  /\ CallOK(T!ReadVis(s, garbage)) /\ T!ReadVis(s, garbage).light = s.light /\ T!ReadVis(s, garbage).chip = s.chip
         /\ T!ReadVis(s, garbage).bad = s.bad /\ T!ReadVis(s, garbage).left = s.left - 1
         /\ SameTiming(s.driver, T!ReadVis(s, garbage).driver) /\ T!ReadVis(s, garbage).driver.ir = s.driver.ir
         /\ s.left <= 0 /\ s.chip.on => T!ReadVis(s, garbage).driver.vis = T!Count(s.light[1], s.chip.timing)
<1>1. PICK n \in TslWord : /\ n = T!Read16(s, s.light[1], garbage)
                           /\ s.left <= 0 /\ s.chip.on => n = T!Count(s.light[1], s.chip.timing)
  BY ReadIn, LightIn DEF LightOf
<1>2. PICK r : r = T!Next1([s EXCEPT !.driver.vis = n])
  BY Zenon
<1>3. r = T!ReadVis(s, garbage)
  BY <1>1, <1>2, Zenon DEF T!ReadVis
<1>4. /\ CallOK(r) /\ r.light = s.light /\ r.chip = s.chip /\ r.bad = s.bad /\ r.left = s.left - 1
      /\ SameTiming(s.driver, r.driver) /\ r.driver.ir = s.driver.ir /\ r.driver.vis = n
  BY ONLY CallOK(s), <1>1, <1>2, VisWith
<1> QED BY <1>1, <1>3, <1>4, Zenon

LEMMA IrPut ==
  ASSUME NEW d \in TslDriver, NEW n \in TslWord, NEW e, e = [d EXCEPT !.ir = n]
  PROVE  e \in TslDriver /\ SameTiming(d, e) /\ e.ir = n /\ e.vis = d.vis
<1>1. /\ e = [timing |-> d.timing, time |-> d.time, gain |-> d.gain, on |-> d.on, vis |-> d.vis, ir |-> n]
      /\ e \in TslDriver
  BY DriverWith
<1>2. SameTiming(d, e) /\ e.ir = n /\ e.vis = d.vis
  BY ONLY <1>1 DEF SameTiming
<1> QED BY <1>1, <1>2

LEMMA IrPlace ==
  ASSUME NEW s \in TslCalls, NEW n \in TslWord, NEW e, e = [s.driver EXCEPT !.ir = n]
  PROVE  [s EXCEPT !.driver.ir = n] = [s EXCEPT !.driver = e]
<1>1. PICK c \in TslChip, d \in TslDriver, light \in {<<0, 0>>} \cup Lights, left \in Int, bad \in TslMarks :
        s = [chip |-> c, driver |-> d, light |-> light, left |-> left, bad |-> bad]
  BY CallShape
<1>2. e = [d EXCEPT !.ir = n]
  BY <1>1
<1>3. [s EXCEPT !.driver.ir = n] = [chip |-> c, driver |-> e, light |-> light, left |-> left, bad |-> bad]
  BY ONLY <1>1, <1>2
<1>4. [s EXCEPT !.driver = e] = [chip |-> c, driver |-> e, light |-> light, left |-> left, bad |-> bad]
  BY ONLY <1>1
<1> QED BY ONLY <1>3, <1>4

LEMMA IrWith ==
  ASSUME NEW s, CallOK(s), NEW n \in TslWord, NEW r, r = T!Next1([s EXCEPT !.driver.ir = n])
  PROVE  /\ CallOK(r) /\ r.light = s.light /\ r.chip = s.chip /\ r.bad = s.bad /\ r.left = s.left - 1
         /\ SameTiming(s.driver, r.driver) /\ r.driver.vis = s.driver.vis /\ r.driver.ir = n
<1>1. s \in TslCalls /\ s.driver \in TslDriver
  BY DEF CallOK, TslCalls
<1>2. PICK d : d = [s.driver EXCEPT !.ir = n]
  BY Zenon
<1>3. d \in TslDriver /\ SameTiming(s.driver, d) /\ d.ir = n /\ d.vis = s.driver.vis
  BY <1>1, <1>2, IrPut
<1>4. PICK t : t = [s EXCEPT !.driver = d]
  BY Zenon
<1>5. r = T!Next1(t)
  <2>1. t = [s EXCEPT !.driver.ir = n]
    BY <1>1, <1>2, <1>4, IrPlace, Zenon
  <2> QED BY <2>1, Zenon
<1>6. /\ CallOK(T!Next1(t)) /\ T!Next1(t).light = s.light /\ T!Next1(t).chip = s.chip
      /\ T!Next1(t).driver = d /\ T!Next1(t).bad = s.bad /\ T!Next1(t).left = s.left - 1
  BY ONLY CallOK(s), <1>3, <1>4, DriverStored
<1> QED BY <1>3, <1>5, <1>6, Zenon

LEMMA IrRead ==
  ASSUME NEW s, CallOK(s), NEW garbage \in TslGarbage
  PROVE  /\ CallOK(T!ReadIr(s, garbage)) /\ T!ReadIr(s, garbage).light = s.light /\ T!ReadIr(s, garbage).chip = s.chip
         /\ T!ReadIr(s, garbage).bad = s.bad /\ T!ReadIr(s, garbage).left = s.left - 1
         /\ SameTiming(s.driver, T!ReadIr(s, garbage).driver) /\ T!ReadIr(s, garbage).driver.vis = s.driver.vis
         /\ s.left <= 0 /\ s.chip.on => T!ReadIr(s, garbage).driver.ir = T!Count(s.light[2], s.chip.timing)
<1>1. PICK n \in TslWord : /\ n = T!Read16(s, s.light[2], garbage)
                           /\ s.left <= 0 /\ s.chip.on => n = T!Count(s.light[2], s.chip.timing)
  BY ReadIn, LightIn DEF LightOf
<1>2. PICK r : r = T!Next1([s EXCEPT !.driver.ir = n])
  BY Zenon
<1>3. r = T!ReadIr(s, garbage)
  BY <1>1, <1>2, Zenon DEF T!ReadIr
<1>4. /\ CallOK(r) /\ r.light = s.light /\ r.chip = s.chip /\ r.bad = s.bad /\ r.left = s.left - 1
      /\ SameTiming(s.driver, r.driver) /\ r.driver.vis = s.driver.vis /\ r.driver.ir = n
  BY ONLY CallOK(s), <1>1, <1>2, IrWith
<1> QED BY <1>1, <1>3, <1>4, Zenon

(* Nothing failed so far, and the chip is on when the driver says so.       *)
Quiet(s) == s.left <= 0 /\ (s.driver.on => s.chip.on)
(* The counts are those of the light.                                       *)
Counted(s) ==
  /\ s.driver.vis = T!Count(s.light[1], s.chip.timing)
  /\ s.driver.ir = T!Count(s.light[2], s.chip.timing)

LEMMA RawRead ==
  ASSUME NEW s, CallOK(s), NEW garbage \in TslGarbage
  PROVE  /\ CallOK(T!ReadRawData(s, garbage)) /\ T!ReadRawData(s, garbage).light = s.light
         /\ Quiet(s) => /\ Quiet(T!ReadRawData(s, garbage)) /\ Counted(T!ReadRawData(s, garbage))
                        /\ T!ReadRawData(s, garbage).bad \subseteq s.bad
<1>1. PICK a : a = T!SetPower(s, TRUE)
  OBVIOUS
<1>2. /\ CallOK(a) /\ a.light = s.light /\ a.driver.on = TRUE
      /\ s.left <= 0 => a.left <= 0 /\ a.bad \subseteq s.bad /\ ((s.driver.on => s.chip.on) => (a.driver.on => a.chip.on))
  BY <1>1, PowerSet
<1>3. PICK b : b = T!ReadVis(a, garbage)
  OBVIOUS
<1>4. /\ CallOK(b) /\ b.light = a.light /\ b.chip = a.chip /\ b.bad = a.bad /\ b.left = a.left - 1
      /\ SameTiming(a.driver, b.driver)
      /\ a.left <= 0 /\ a.chip.on => b.driver.vis = T!Count(a.light[1], a.chip.timing)
  BY <1>2, <1>3, VisRead
<1>5. PICK c : c = T!ReadIr(b, garbage)
  OBVIOUS
<1>6. /\ CallOK(c) /\ c.light = b.light /\ c.chip = b.chip /\ c.bad = b.bad /\ c.left = b.left - 1
      /\ SameTiming(b.driver, c.driver) /\ c.driver.vis = b.driver.vis
      /\ b.left <= 0 /\ b.chip.on => c.driver.ir = T!Count(b.light[2], b.chip.timing)
  BY <1>4, <1>5, IrRead
<1>7. PICK d : d = T!SetPower(c, FALSE)
  OBVIOUS
<1>8. /\ CallOK(d) /\ d.light = c.light /\ d.driver.on = FALSE /\ d.chip.timing = c.chip.timing
      /\ d.driver.vis = c.driver.vis /\ d.driver.ir = c.driver.ir
      /\ c.left <= 0 => d.left <= 0 /\ d.bad \subseteq c.bad
  BY <1>6, <1>7, PowerSet
<1>9. d = T!ReadRawData(s, garbage)
  BY <1>1, <1>3, <1>5, <1>7 DEF T!ReadRawData
<1>10. s.left \in Int /\ a.left \in Int /\ b.left \in Int /\ c.left \in Int
  BY <1>2, <1>4, <1>6 DEF CallOK, TslCalls
<1>11. ASSUME Quiet(s) PROVE Quiet(d) /\ Counted(d) /\ d.bad \subseteq s.bad
  <2>1. a.left <= 0 /\ a.chip.on /\ a.bad \subseteq s.bad
    BY <1>2, <1>11 DEF Quiet
  <2>2. b.left <= 0 /\ b.chip.on /\ c.left <= 0
    BY <1>4, <1>6, <1>10, <2>1
  <2> QED BY <1>4, <1>6, <1>8, <2>1, <2>2 DEF Quiet, Counted
<1> QED BY <1>2, <1>4, <1>6, <1>8, <1>9, <1>11

LEMMA TimingSet ==
  ASSUME NEW s, CallOK(s), NEW time \in 0..3, NEW gain \in {0, 16}
  PROVE  /\ CallOK(T!SetTiming(s, time, gain)) /\ T!SetTiming(s, time, gain).light = s.light
         /\ Quiet(s) => Quiet(T!SetTiming(s, time, gain)) /\ T!SetTiming(s, time, gain).bad \subseteq s.bad
<1>1. PICK c \in TslChip, d \in TslDriver, light \in {<<0, 0>>} \cup Lights, left \in Int, bad \in TslMarks :
        s = [chip |-> c, driver |-> d, light |-> light, left |-> left, bad |-> bad]
  BY CallShape DEF CallOK
<1>2. s.chip = c /\ s.driver = d /\ s.light = light /\ s.left = left /\ s.bad = bad
  BY ONLY <1>1
<1>3. PICK timing \in TslTimings : timing = (16 * gain + time) % 256 /\ timing \in TslByte
  BY TimingWritten, TimingsIn DEF TslTimings
<1>4. PICK fails \in BOOLEAN : fails = (left = 1) /\ (left <= 0 => ~fails)
  <2>1. PICK fails \in BOOLEAN : fails <=> left = 1
    OBVIOUS
  <2>2. fails = (left = 1)
    BY <2>1
  <2>3. left <= 0 => left # 1
    OBVIOUS
  <2>4. left <= 0 => ~fails
    BY <2>1, <2>3
  <2> QED BY <2>2, <2>4
<1>5. PICK now \in TslTimings : now = (IF fails THEN c.timing ELSE timing)
  BY DEF TslChip
<1>6. PICK marks \in TslMarks : marks = (IF fails THEN bad \cup {"timing"} ELSE bad \ {"timing"})
  BY Spoiled
<1>7. PICK c2 \in TslChip : c2 = [c EXCEPT !.timing = now] /\ c2.on = c.on /\ c2.timing = now
  <2>1. [c EXCEPT !.timing = now] = [timing |-> now, on |-> c.on] /\ [c EXCEPT !.timing = now] \in TslChip
    BY ChipWith, Zenon
  <2>2. PICK c2 : c2 = [c EXCEPT !.timing = now]
    BY Zenon
  <2>3. c2 = [timing |-> now, on |-> c.on] /\ c2 \in TslChip
    BY <2>1, <2>2, Zenon
  <2>4. c2.timing = now /\ c2.on = c.on
    BY ONLY <2>3
  <2> QED BY <2>2, <2>3, <2>4, Zenon
<1>8. PICK d2 \in TslDriver : d2 = T!Timed(d, timing) /\ d2.on = d.on /\ d2.timing = timing /\ TimingKnown(d2)
  <2>1. PICK d2 \in TslDriver :
          /\ d2 = T!Timed(d, timing) /\ TimingKnown(d2)
          /\ d2 = [timing |-> timing, time |-> TimeOf(timing), gain |-> GainOf(timing), on |-> d.on,
                   vis |-> d.vis, ir |-> d.ir]
    BY <1>3, TimedIs
  <2> QED BY <2>1
<1>9. PICK t : t = [s EXCEPT !.driver = T!Timed(@, timing), !.chip.timing = IF T!Fails(s) THEN @ ELSE timing]
  OBVIOUS
<1>10. t = [chip |-> c2, driver |-> d2, light |-> light, left |-> left, bad |-> bad]
  <2>1. PICK t1 : t1 = [s EXCEPT !.driver = d2]
    OBVIOUS
  <2>2. t1 = [chip |-> c, driver |-> d2, light |-> light, left |-> left, bad |-> bad]
    BY ONLY <1>1, <2>1
  <2>3. t = [t1 EXCEPT !.chip.timing = now]
    BY <1>1, <1>2, <1>4, <1>5, <1>8, <1>9, <2>1 DEF T!Fails
  <2>4. [t1 EXCEPT !.chip.timing = now] = [chip |-> c2, driver |-> d2, light |-> light, left |-> left, bad |-> bad]
    BY ONLY <2>2, <1>7
  <2> QED BY ONLY <2>3, <2>4
<1>11. T!Spoil(t, "timing") = [chip |-> c2, driver |-> d2, light |-> light, left |-> left, bad |-> marks]
  <2>1. T!Spoil(t, "timing") = [t EXCEPT !.bad = marks]
    BY ONLY <1>4, <1>6, <1>10 DEF T!Spoil, T!Fails
  <2>2. [t EXCEPT !.bad = marks] = [chip |-> c2, driver |-> d2, light |-> light, left |-> left, bad |-> marks]
    BY ONLY <1>10
  <2> QED BY ONLY <2>1, <2>2
<1>12. PICK r : r = T!SetTiming(s, time, gain)
  OBVIOUS
<1>13. r = [chip |-> c2, driver |-> d2, light |-> light, left |-> left - 1, bad |-> marks]
  <2>1. PICK u : u = T!Spoil(t, "timing")
    OBVIOUS
  <2>2. r = T!Next1(u)
    BY ONLY <1>3, <1>9, <1>12, <2>1 DEF T!SetTiming
  <2>3. T!Next1(u) = [u EXCEPT !.left = left - 1]
    BY ONLY <1>11, <2>1 DEF T!Next1
  <2>4. [u EXCEPT !.left = left - 1] = [chip |-> c2, driver |-> d2, light |-> light, left |-> left - 1, bad |-> marks]
    BY ONLY <1>11, <2>1
  <2> QED BY ONLY <2>2, <2>3, <2>4
<1>14. r.chip = c2 /\ r.driver = d2 /\ r.light = light /\ r.left = left - 1 /\ r.bad = marks
  BY ONLY <1>13
<1>15. r \in TslCalls
  <2>1. left - 1 \in Int
    OBVIOUS
  <2> QED BY ONLY <1>13, <2>1, c2 \in TslChip, d2 \in TslDriver, light \in {<<0, 0>>} \cup Lights, marks \in TslMarks DEF TslCalls
<1>16. "power" \notin bad => d.on = c.on
  BY <1>2 DEF CallOK, CallAgrees
<1>17. CallAgrees(r)
  <2>1. "timing" \notin marks => d2.timing = c2.timing
    BY ONLY <1>5, <1>6, <1>7, <1>8
  <2>2. "power" \notin marks => d2.on = c2.on
    BY ONLY <1>6, <1>7, <1>8, <1>16
  <2> QED BY ONLY <1>8, <1>14, <2>1, <2>2 DEF CallAgrees
<1>18. ASSUME Quiet(s) PROVE Quiet(r) /\ r.bad \subseteq s.bad
  <2>1. left <= 0 /\ (d.on => c.on)
    BY ONLY <1>2, <1>18 DEF Quiet
  <2>2. left - 1 <= 0 /\ ~fails
    BY <1>4, <2>1
  <2>3. marks \subseteq bad
    BY ONLY <1>6, <2>2
  <2>4. d2.on => c2.on
    BY ONLY <1>7, <1>8, <2>1
  <2> QED BY ONLY <1>2, <1>14, <2>2, <2>3, <2>4 DEF Quiet
<1> QED BY ONLY <1>2, <1>12, <1>14, <1>15, <1>17, <1>18 DEF CallOK

LEMMA LuminosityRead ==
  ASSUME NEW s, CallOK(s), NEW garbage \in TslGarbage
  PROVE  /\ CallOK(T!GetLuminosity(s, garbage)) /\ T!GetLuminosity(s, garbage).light = s.light
         /\ Quiet(s) => Counted(T!GetLuminosity(s, garbage)) /\ T!GetLuminosity(s, garbage).bad \subseteq s.bad
<1>1. PICK a : a = T!ReadRawData(s, garbage)
  OBVIOUS
<1>2. /\ CallOK(a) /\ a.light = s.light
      /\ Quiet(s) => Quiet(a) /\ Counted(a) /\ a.bad \subseteq s.bad
  BY <1>1, RawRead
<1>3. a.driver.time \in 0..3
  BY <1>2 DEF CallOK, TslCalls, TslDriver
<1>4. ASSUME NEW gain \in {0, 16}, NEW r, r = T!ReadRawData(T!ReadRawData(T!SetGain(a, gain), garbage), garbage)
      PROVE  /\ CallOK(r) /\ r.light = s.light
             /\ Quiet(s) => Counted(r) /\ r.bad \subseteq s.bad
  <2>1. PICK b : b = T!SetGain(a, gain)
    OBVIOUS
  <2>2. CallOK(b) /\ b.light = a.light /\ (Quiet(a) => Quiet(b) /\ b.bad \subseteq a.bad)
    BY <1>2, <1>3, <2>1, TimingSet DEF T!SetGain
  <2>3. PICK c : c = T!ReadRawData(b, garbage)
    OBVIOUS
  <2>4. CallOK(c) /\ c.light = b.light /\ (Quiet(b) => Quiet(c) /\ Counted(c) /\ c.bad \subseteq b.bad)
    BY <2>2, <2>3, RawRead
  <2>5. CallOK(r) /\ r.light = c.light /\ (Quiet(c) => Quiet(r) /\ Counted(r) /\ r.bad \subseteq c.bad)
    <3>1. r = T!ReadRawData(c, garbage)
      BY <1>4, <2>1, <2>3
    <3> QED BY <2>4, <3>1, RawRead
  <2> QED BY <1>2, <2>2, <2>4, <2>5
<1>5. PICK r : r = T!GetLuminosity(s, garbage)
  OBVIOUS
<1>6. \/ r = a
      \/ \E gain \in {0, 16} : r = T!ReadRawData(T!ReadRawData(T!SetGain(a, gain), garbage), garbage)
  BY <1>1, <1>5 DEF T!GetLuminosity, T!Gain1x, T!Gain16x
<1>7. CASE r = a
  BY <1>2, <1>5, <1>7
<1>8. CASE \E gain \in {0, 16} : r = T!ReadRawData(T!ReadRawData(T!SetGain(a, gain), garbage), garbage)
  BY <1>4, <1>5, <1>8
<1> QED BY <1>6, <1>7, <1>8
-----------------------------------------------------------------------------
(* the steps *)

LEMMA CallMade ==
  ASSUME TslInv, NEW light \in {<<0, 0>>} \cup Lights, NEW bad \in Nat
  PROVE  /\ CallOK(T!Call(light, bad)) /\ T!Call(light, bad).light = light /\ T!Call(light, bad).left = bad
         /\ T!Call(light, bad).chip = chip /\ T!Call(light, bad).driver = driver /\ T!Call(light, bad).bad = report.bad
<1>1. PICK r : r = T!Call(light, bad)
  OBVIOUS
<1>2. r = [chip |-> chip, driver |-> driver, light |-> light, left |-> bad, bad |-> report.bad]
  BY <1>1 DEF T!Call
<1>3. r.chip = chip /\ r.driver = driver /\ r.light = light /\ r.left = bad /\ r.bad = report.bad
  BY ONLY <1>2
<1>4. report.bad \in TslMarks
  BY DEF TslInv, TslReport
<1>5. r \in TslCalls
  BY <1>2, <1>4 DEF TslCalls, TslInv
<1>6. CallAgrees(r)
  BY <1>3 DEF TslInv, CallAgrees, T!TslAgrees
<1> QED BY <1>1, <1>3, <1>5, <1>6 DEF CallOK

(* What a call returns keeps what is known of the chip and the driver.      *)
LEMMA CallReturns ==
  ASSUME TslInv, NEW s, CallOK(s), NEW bad \in Nat, T!Return(s, bad),
         NEW ok \in BOOLEAN, NEW lux, NEW light \in {<<0, 0>>} \cup Lights,
         report' = [ok |-> ok, lux |-> lux, light |-> light,
                    faults |-> IF bad = 0 THEN report.faults ELSE report.faults + 1, bad |-> s.bad],
         ok /\ s.bad = {} => LuxNear(lux, light)
  PROVE  TslInv'
<1>1. PICK faults \in Nat : /\ faults = (IF bad = 0 THEN report.faults ELSE report.faults + 1)
                            /\ faults <= MaxFaults
  <2>1. report.faults \in Nat /\ report.faults <= MaxFaults
    BY DEF TslInv, TslReport
  <2>2. bad # 0 => report.faults < MaxFaults
    BY DEF T!Return
  <2> QED BY <2>1, <2>2, TslAssumption, FaultsAssumption
<1>2. PICK marks \in TslMarks : marks = s.bad
  BY DEF CallOK, TslCalls
<1>3. PICK r : r = report'
  OBVIOUS
<1>4. r = [ok |-> ok, lux |-> lux, light |-> light, faults |-> faults, bad |-> marks]
  BY <1>1, <1>2, <1>3
<1>5. r.ok = ok /\ r.lux = lux /\ r.light = light /\ r.faults = faults /\ r.bad = marks
  BY ONLY <1>4
<1>6. TslReport(r)
  BY <1>4, Zenon DEF TslReport
<1>7. chip' \in TslChip /\ driver' \in TslDriver /\ chip' = s.chip /\ driver' = s.driver
  BY DEF T!Return, CallOK, TslCalls
<1>8. TimingKnown(driver')
  BY <1>7 DEF CallOK, CallAgrees
<1>9. T!TslAgrees'
  <2>1. /\ "timing" \notin marks => s.driver.timing = s.chip.timing
        /\ "power" \notin marks => s.driver.on = s.chip.on
    BY <1>2 DEF CallOK, CallAgrees
  <2> QED BY <1>3, <1>5, <1>7, <2>1 DEF T!TslAgrees
<1>10. T!TslReports'
  <2>1. r.ok /\ r.bad = {} => LuxNear(r.lux, r.light)
    BY <1>2, <1>5
  <2> QED BY <1>3, <2>1 DEF T!TslReports, LuxNear
<1>11. TslReport(report)' /\ report.faults' <= MaxFaults
  BY <1>1, <1>3, <1>5, <1>6 DEF TslReport
<1>12. TimingKnown(driver)'
  BY <1>8 DEF TimingKnown
<1> QED BY <1>7, <1>9, <1>10, <1>11, <1>12 DEF TslInv

LEMMA LightNear ==
  ASSUME NEW light \in Lights, NEW timing \in TslTimings, LuxIn(light, timing) < Overflowed
  PROVE  LuxNear(LuxIn(light, timing), light)
BY TslAssumption, FaultsAssumption

LEMMA Judged ==
  ASSUME NEW lux, NEW top, NEW bad, NEW on, NEW up
  PROVE  \E ok \in BOOLEAN : /\ ok = (lux < top /\ bad = 0 /\ (on => up))
                             /\ ok => lux < top /\ bad = 0 /\ (on => up)
<1>1. PICK low \in BOOLEAN : low <=> lux < top
  OBVIOUS
<1>2. low = (lux < top)
  BY <1>1
<1>3. PICK ok \in BOOLEAN : ok = (low /\ bad = 0 /\ (on => up))
  OBVIOUS
<1>4. ok = (lux < top /\ bad = 0 /\ (on => up))
  BY ONLY <1>2, <1>3, Zenon
<1>5. ok => low /\ bad = 0 /\ (on => up)
  BY ONLY <1>3
<1> QED BY ONLY <1>1, <1>4, <1>5, ok \in BOOLEAN

LEMMA TslMeasures ==
  ASSUME TslInv, NEW light \in Lights, NEW bad \in Nat, NEW garbage \in TslGarbage, T!GetResults(light, bad, garbage)
  PROVE  TslInv'
<1>1. PICK c : c = T!Call(light, bad)
  OBVIOUS
<1>2. CallOK(c) /\ c.light = light /\ c.left = bad /\ c.chip = chip /\ c.driver = driver /\ c.bad = report.bad
  BY <1>1, CallMade
<1>3. PICK s : s = T!GetLuminosity(c, garbage)
  OBVIOUS
<1>4. CallOK(s) /\ s.light = light /\ (Quiet(c) => Counted(s) /\ s.bad \subseteq c.bad)
  BY <1>2, <1>3, LuminosityRead
<1>5. PICK lux : lux = T!Lux(s.driver.vis, s.driver.ir, s.driver.time, s.driver.gain)
  OBVIOUS
<1>6. PICK on, up : on = driver.on /\ up = chip.on
  OBVIOUS
<1>7. PICK ok \in BOOLEAN : /\ ok = (lux < Overflowed /\ bad = 0 /\ (on => up))
                            /\ ok => lux < Overflowed /\ bad = 0 /\ (on => up)
  BY Judged
<1>8. /\ T!Return(s, bad)
      /\ report' = [ok |-> ok, lux |-> lux, light |-> light,
                    faults |-> IF bad = 0 THEN report.faults ELSE report.faults + 1, bad |-> s.bad]
  BY ONLY T!GetResults(light, bad, garbage), <1>1, <1>3, <1>5, <1>6, <1>7 DEF Overflowed, T!GetResults
<1>9. ASSUME ok, s.bad = {} PROVE LuxNear(lux, light)
  <2>1. lux < Overflowed /\ bad = 0 /\ (driver.on => chip.on)
    BY ONLY <1>6, <1>7, <1>9
  <2>2. Quiet(c)
    BY <1>2, <2>1 DEF Quiet
  <2>3. s.driver.vis = T!Count(light[1], s.chip.timing) /\ s.driver.ir = T!Count(light[2], s.chip.timing)
    BY <1>4, <2>2 DEF Counted
  <2>4. /\ s.driver.timing = s.chip.timing
        /\ s.driver.time = TimeOf(s.driver.timing) /\ s.driver.gain = GainOf(s.driver.timing)
    BY <1>4, <1>9 DEF CallOK, CallAgrees, TimingKnown
  <2>5. PICK timing \in TslTimings : timing = s.chip.timing
    BY <1>4 DEF CallOK, TslCalls, TslChip
  <2>6. lux = LuxIn(light, timing)
    BY <1>5, <2>3, <2>4, <2>5 DEF LuxIn
  <2> QED BY <2>1, <2>5, <2>6, LightNear
<1>10. light \in {<<0, 0>>} \cup Lights
  OBVIOUS
<1> QED BY ONLY TslInv, bad \in Nat, ok \in BOOLEAN, <1>4, <1>8, <1>9, <1>10, CallReturns

LEMMA TslSets ==
  ASSUME TslInv, NEW s, CallOK(s), NEW bad \in 0..1, T!Setting(s, bad)
  PROVE  TslInv'
<1>0. PICK lux : \E ok \in BOOLEAN, light \in {<<0, 0>>} \cup Lights, faults \in Nat, marks \in TslMarks :
        report = [ok |-> ok, lux |-> lux, light |-> light, faults |-> faults, bad |-> marks]
  BY Zenon DEF TslInv, TslReport
<1>1. PICK ok \in BOOLEAN, light \in {<<0, 0>>} \cup Lights, faults \in Nat, marks \in TslMarks :
        report = [ok |-> ok, lux |-> lux, light |-> light, faults |-> faults, bad |-> marks]
  BY <1>0
<1>2. PICK more \in Nat : more = (IF bad = 0 THEN faults ELSE faults + 1)
  OBVIOUS
<1>3. PICK r1 : r1 = [report EXCEPT !.ok = FALSE]
  OBVIOUS
<1>4. r1 = [ok |-> FALSE, lux |-> lux, light |-> light, faults |-> faults, bad |-> marks]
  BY ONLY <1>1, <1>3
<1>5. PICK now, r2 : now = s.bad /\ r2 = [r1 EXCEPT !.bad = now]
  OBVIOUS
<1>6. r2 = [ok |-> FALSE, lux |-> lux, light |-> light, faults |-> faults, bad |-> now]
  BY ONLY <1>4, <1>5
<1>7. [r2 EXCEPT !.faults = more] = [ok |-> FALSE, lux |-> lux, light |-> light, faults |-> more, bad |-> now]
  <2>1. PICK v, r3 : v = more /\ r3 = [r2 EXCEPT !.faults = v]
    OBVIOUS
  <2>2. r3 = [ok |-> FALSE, lux |-> lux, light |-> light, faults |-> v, bad |-> now]
    BY ONLY <1>6, <2>1
  <2> QED BY ONLY <2>1, <2>2
<1>8. report.faults = faults
  BY ONLY <1>1
<1>9. report' = [r2 EXCEPT !.faults = more]
  BY <1>2, <1>3, <1>5, <1>8 DEF T!Setting
<1>10. report' = [ok |-> FALSE, lux |-> lux, light |-> light,
                  faults |-> IF bad = 0 THEN report.faults ELSE report.faults + 1, bad |-> s.bad]
  BY ONLY <1>2, <1>5, <1>7, <1>8, <1>9
<1>11. T!Return(s, bad)
  BY DEF T!Setting
<1>12. bad \in Nat
  OBVIOUS
<1>13. PICK no \in BOOLEAN : no = FALSE
  OBVIOUS
<1>14. report' = [ok |-> no, lux |-> lux, light |-> light,
                  faults |-> IF bad = 0 THEN report.faults ELSE report.faults + 1, bad |-> s.bad]
  BY ONLY <1>10, <1>13
<1>15. no /\ s.bad = {} => LuxNear(lux, light)
  BY <1>13
<1> QED BY ONLY TslInv, CallOK(s), light \in {<<0, 0>>} \cup Lights, <1>11, <1>12, <1>14, <1>15, CallReturns

LEMMA TslStep ==
  ASSUME TslInv, T!TslNext
  PROVE  TslInv'
<1>1. CASE \E light \in Lights, bad \in 0..13, garbage \in {0, 65535} : T!GetResults(light, bad, garbage)
  BY <1>1, TslMeasures DEF TslGarbage
<1>2. CASE \E time \in 0..2, gain \in {T!Gain1x, T!Gain16x}, bad \in 0..1 : T!ChangeTiming(time, gain, bad)
  <2>1. PICK time \in 0..2, gain \in {T!Gain1x, T!Gain16x}, bad \in 0..1 : T!ChangeTiming(time, gain, bad)
    BY <1>2
  <2>2. CallOK(T!Call(<<0, 0>>, bad))
    BY CallMade
  <2>3. CallOK(T!SetTiming(T!Call(<<0, 0>>, bad), time, gain))
    BY <2>2, TimingSet DEF T!Gain1x, T!Gain16x
  <2> QED BY <2>1, <2>3, TslSets DEF T!ChangeTiming
<1>3. CASE \E on \in BOOLEAN, bad \in 0..1 : T!SwitchPower(on, bad)
  <2>1. PICK on \in BOOLEAN, bad \in 0..1 : T!SwitchPower(on, bad)
    BY <1>3
  <2>2. CallOK(T!Call(<<0, 0>>, bad))
    BY CallMade
  <2>3. CallOK(T!SetPower(T!Call(<<0, 0>>, bad), on))
    BY <2>2, PowerSet
  <2> QED BY <2>1, <2>3, TslSets DEF T!SwitchPower
<1> QED BY <1>1, <1>2, <1>3 DEF T!TslNext

LEMMA TslInit ==
  ASSUME T!TslInit
  PROVE  TslInv
<1>1. PICK timing \in Timings, on \in BOOLEAN : chip = [timing |-> timing, on |-> on]
  BY DEF T!TslInit
<1>2. chip.timing = timing /\ chip.on = on
  BY ONLY <1>1
<1>3. timing \in TslTimings /\ timing \in TslByte
  BY TimingsIn DEF TslTimings
<1>4. PICK n \in 0..1 :
        /\ n <= MaxFaults
        /\ driver = T!Timed([timing |-> 0, time |-> 0, gain |-> 0, on |-> FALSE, vis |-> 0, ir |-> 0],
                            IF n = 1 THEN 255 ELSE chip.timing)
        /\ report = [ok |-> FALSE, lux |-> 0, light |-> <<0, 0>>, faults |-> n,
                     bad |-> (IF n = 1 THEN {"timing"} ELSE {}) \cup (IF chip.on THEN {"power"} ELSE {})]
  BY DEF T!TslInit
<1>5. PICK d \in TslDriver : d = [timing |-> 0, time |-> 0, gain |-> 0, on |-> FALSE, vis |-> 0, ir |-> 0]
  <2>1. PICK z : z = 0 /\ z \in TslByte /\ z \in 0..3 /\ z \in {0, 16}
    BY DEF TslByte
  <2>2. z \in TslWord
    BY ONLY <2>1 DEF TslWord
  <2>3. [timing |-> z, time |-> z, gain |-> z, on |-> FALSE, vis |-> z, ir |-> z] \in TslDriver
    BY ONLY <2>1, <2>2 DEF TslDriver
  <2> QED BY ONLY <2>1, <2>3
<1>6. PICK first \in TslByte : first = (IF n = 1 THEN 255 ELSE timing)
  BY <1>3 DEF TslByte
<1>7. driver = T!Timed(d, first)
  BY ONLY <1>2, <1>4, <1>5, <1>6
<1>8. driver \in TslDriver /\ TimingKnown(driver) /\ driver.timing = first /\ driver.on = FALSE
  <2>1. /\ T!Timed(d, first) \in TslDriver /\ TimingKnown(T!Timed(d, first))
        /\ T!Timed(d, first) = [timing |-> first, time |-> TimeOf(first), gain |-> GainOf(first), on |-> d.on,
                                vis |-> d.vis, ir |-> d.ir]
    BY TimedIs
  <2>2. d.on = FALSE
    BY ONLY <1>5
  <2>3. driver = [timing |-> first, time |-> TimeOf(first), gain |-> GainOf(first), on |-> d.on,
                  vis |-> d.vis, ir |-> d.ir]
    BY ONLY <1>7, <2>1
  <2>4. driver.timing = first /\ driver.on = FALSE
    BY ONLY <2>2, <2>3
  <2> QED BY ONLY <1>7, <2>1, <2>4
<1>9. chip \in TslChip
  BY <1>1, <1>3 DEF TslChip
<1>10. PICK bad : bad = (IF n = 1 THEN {"timing"} ELSE {}) \cup (IF on THEN {"power"} ELSE {})
  OBVIOUS
<1>11. bad \in TslMarks /\ (n = 1 => "timing" \in bad) /\ (on => "power" \in bad)
  BY ONLY <1>10 DEF TslMarks
<1>12. report = [ok |-> FALSE, lux |-> 0, light |-> <<0, 0>>, faults |-> n, bad |-> bad]
  BY ONLY <1>2, <1>4, <1>10
<1>13. report.ok = FALSE /\ report.faults = n /\ report.bad = bad
  BY ONLY <1>12
<1>14. TslReport(report)
  <2>1. PICK r : r = report
    OBVIOUS
  <2>2. PICK no \in BOOLEAN : no = FALSE
    OBVIOUS
  <2>6. PICK m \in Nat : m = n
    OBVIOUS
  <2>5. PICK dark \in {<<0, 0>>} \cup Lights : dark = <<0, 0>>
    OBVIOUS
  <2>3. r = [ok |-> no, lux |-> 0, light |-> dark, faults |-> m, bad |-> bad]
    BY ONLY <1>12, <2>1, <2>2, <2>5, <2>6
  <2>4. TslReport(r)
    BY <1>11, <2>3, Zenon DEF TslReport
  <2> QED BY <2>1, <2>4
<1>15. T!TslAgrees
  <2>1. "timing" \notin bad => first = timing
    BY ONLY n \in 0..1, <1>6, <1>11
  <2>2. "power" \notin bad => on = FALSE
    BY ONLY on \in BOOLEAN, <1>11
  <2> QED BY ONLY <1>2, <1>8, <1>13, <2>1, <2>2 DEF T!TslAgrees
<1>16. T!TslReports
  BY ONLY <1>13, Zenon DEF T!TslReports
<1>17. report.faults <= MaxFaults
  BY ONLY <1>4, <1>13
<1> QED BY ONLY <1>8, <1>9, <1>14, <1>15, <1>16, <1>17 DEF TslInv

LEMMA TslHolds ==
  ASSUME TslInv
  PROVE  T!TslTypeOK /\ T!TslAgrees /\ T!TslReports
<1>1. PICK d \in TslDriver : d = driver
  BY DEF TslInv
<1>2. d = [timing |-> d.timing, time |-> d.time, gain |-> d.gain, on |-> d.on, vis |-> d.vis, ir |-> d.ir]
  BY DEF TslDriver
<1>3. d.timing \in TslByte /\ d.vis \in TslWord /\ d.ir \in TslWord
  BY DEF TslDriver
<1>4. T!Timed(d, d.timing) = [timing |-> d.timing, time |-> TimeOf(d.timing), gain |-> GainOf(d.timing), on |-> d.on,
                              vis |-> d.vis, ir |-> d.ir]
  BY <1>3, TimedIs
<1>5. d.time = TimeOf(d.timing) /\ d.gain = GainOf(d.timing)
  BY <1>1 DEF TslInv, TimingKnown
<1>6. driver = T!Timed(driver, driver.timing)
  BY ONLY <1>1, <1>2, <1>4, <1>5
<1>7. chip.timing \in 0..255
  BY TimingsIn DEF TslInv, TslChip, TslByte
<1>8. T!IsWord(driver.vis) /\ T!IsWord(driver.ir)
  BY <1>1, <1>3 DEF TslWord, T!IsWord
<1>9. report.faults \in 0..MaxFaults
  BY DEF TslInv, TslReport
<1> QED BY ONLY TslInv, <1>6, <1>7, <1>8, <1>9 DEF TslInv, T!TslTypeOK

-----------------------------------------------------------------------------
(* the BMP280 (Bmp280)                                                      *)

Register == SUBSET (0..7)
Oversamplings == [p : 0..8, t : 0..8 \cup {B!Unset}]
BmpChip == [ctrl : Register, config : Register, data : 0..2, making : 0..3]
BmpHistory ==
  [ok : BOOLEAN, of : Int, last : Int, ended : 0..2, measured : 0..2, mode : 0..3, over : Oversamplings,
   own : BOOLEAN, bad : BOOLEAN, set : [filter : Nat, standby : 0..7], config : BOOLEAN, faults : 0..MaxFaults]
Overs(s) == [p |-> s.p, t |-> s.t]
SetOf(s) == [filter |-> s.filter, standby |-> s.standby]

BmpTypes ==
  /\ chip \in BmpChip /\ report \in BmpHistory
  /\ driver.over \in Oversamplings /\ driver.mode \in {B!Sleeps, B!Forced, B!Normal}

(* What the registers are of settings that fit.                             *)
Oversampled(ctrl, over) == ctrl \cap (2..7) = B!Shifted(B!TempOver(over), 5) \cup B!Shifted(over.p, 2)
InMode(ctrl, mode) == B!Mode(ctrl) \in {B!Bits(mode), IF mode = B!Normal THEN B!Bits(B!Normal) ELSE {}}
CtrlIs(ctrl, mode, over) == Oversampled(ctrl, over) /\ InMode(ctrl, mode)

BmpControl ==
  /\ chip.data = report.ended /\ (report.ok => report.of = report.last)
  /\ B!Fits(report.over) /\ ~report.bad => CtrlIs(chip.ctrl, report.mode, report.over)
  /\ report.own => report.over = driver.over /\ (driver.mode = B!Normal <=> report.mode = B!Normal)
  /\ report.config => chip.config = B!Config(report.set)

BmpInv == BmpTypes /\ BmpControl
-----------------------------------------------------------------------------
(* bits *)

LEMMA WeightsOf ==
  /\ B!Weights[1] = 1 /\ B!Weights[2] = 2 /\ B!Weights[3] = 4 /\ B!Weights[4] = 8
  /\ B!Weights[5] = 16 /\ B!Weights[6] = 32 /\ B!Weights[7] = 64 /\ B!Weights[8] = 128
BY DEF B!Weights

LEMMA SmallBits ==
  ASSUME NEW n \in 0..7
  PROVE  B!Bits(n) \subseteq 0..2
<1>1. ASSUME NEW i \in 3..7 PROVE i \notin B!Bits(n)
  <2>1. n \div 8 = 0 /\ n \div 16 = 0 /\ n \div 32 = 0 /\ n \div 64 = 0 /\ n \div 128 = 0
    OBVIOUS
  <2>2. n \div B!Weights[i + 1] = 0
    BY <2>1, WeightsOf
  <2>3. 0 % 2 # 1
    OBVIOUS
  <2> QED BY <2>2, <2>3 DEF B!Bits
<1>2. B!Bits(n) \subseteq 0..7
  BY DEF B!Bits
<1> QED BY <1>1, <1>2

LEMMA ModeBits == B!Bits(0) = {} /\ B!Bits(1) = {0} /\ B!Bits(2) = {1} /\ B!Bits(3) = {0, 1}
<1>1. /\ \A w \in {1, 2, 4, 8, 16, 32, 64, 128} : 0 \div w = 0
      /\ 1 \div 1 = 1 /\ 1 \div 2 = 0 /\ 2 \div 1 = 2 /\ 2 \div 2 = 1 /\ 3 \div 1 = 3 /\ 3 \div 2 = 1
      /\ \A w \in {4, 8, 16, 32, 64, 128} : 1 \div w = 0 /\ 2 \div w = 0 /\ 3 \div w = 0
      /\ 0 % 2 = 0 /\ 1 % 2 = 1 /\ 2 % 2 = 0 /\ 3 % 2 = 1
  OBVIOUS
<1>2. \A i \in 0..7 : B!Weights[i + 1] \in {1, 2, 4, 8, 16, 32, 64, 128} /\ (i > 1 => B!Weights[i + 1] \in {4, 8, 16, 32, 64, 128})
  BY WeightsOf
<1>3. B!Bits(0) = {}
  BY <1>1, <1>2 DEF B!Bits
<1>4. ASSUME NEW i \in 0..7
      PROVE  /\ (1 \div B!Weights[i + 1]) % 2 = 1 <=> i = 0
             /\ (2 \div B!Weights[i + 1]) % 2 = 1 <=> i = 1
             /\ (3 \div B!Weights[i + 1]) % 2 = 1 <=> i \in {0, 1}
  BY <1>1, <1>2, WeightsOf
<1> QED BY <1>3, <1>4 DEF B!Bits

LEMMA Fields ==
  ASSUME NEW p \in 0..7, NEW t \in 0..7, NEW register \in Register,
         register \cap (2..7) = B!Shifted(t, 5) \cup B!Shifted(p, 2)
  PROVE  B!Field(register, 2, 3) = B!Bits(p) /\ B!Field(register, 5, 3) = B!Bits(t)
<1>1. B!Bits(p) \subseteq 0..2 /\ B!Bits(t) \subseteq 0..2
  BY SmallBits
<1>2. ASSUME NEW i \in 0..2 PROVE (2 + i \in register <=> i \in B!Bits(p)) /\ (5 + i \in register <=> i \in B!Bits(t))
  <2>1. 2 + i \in B!Shifted(p, 2) <=> i \in B!Bits(p)
    BY DEF B!Shifted
  <2>2. 5 + i \in B!Shifted(t, 5) <=> i \in B!Bits(t)
    BY DEF B!Shifted
  <2>3. 2 + i \notin B!Shifted(t, 5)
    BY DEF B!Shifted
  <2>4. 5 + i \notin B!Shifted(p, 2)
    BY <1>1 DEF B!Shifted
  <2>5. 2 + i \in 2..7 /\ 5 + i \in 2..7
    OBVIOUS
  <2> QED BY <2>1, <2>2, <2>3, <2>4, <2>5
<1>3. B!Field(register, 2, 3) = {i \in 0..2 : 2 + i \in register} /\ B!Field(register, 5, 3) = {i \in 0..2 : 5 + i \in register}
  BY DEF B!Field
<1> QED BY <1>1, <1>2, <1>3

LEMMA ShiftedIn ==
  ASSUME NEW n, NEW first \in 0..7
  PROVE  B!Shifted(n, first) \in Register /\ B!Shifted(n, first) \subseteq first..7
BY DEF B!Shifted, Register

LEMMA Packed ==
  ASSUME NEW mode \in 0..3, NEW over
  PROVE  /\ B!MeasCtrl(mode, over) \in Register /\ Oversampled(B!MeasCtrl(mode, over), over)
         /\ B!Mode(B!MeasCtrl(mode, over)) = B!Bits(mode)
<1>1. B!Bits(mode) \subseteq {0, 1}
  BY ModeBits
<1>2. B!Shifted(B!TempOver(over), 5) \subseteq 5..7 /\ B!Shifted(over.p, 2) \subseteq 2..7
  BY ShiftedIn
<1>3. B!MeasCtrl(mode, over) = B!Shifted(B!TempOver(over), 5) \cup B!Shifted(over.p, 2) \cup B!Bits(mode)
  BY DEF B!MeasCtrl
<1>4. B!MeasCtrl(mode, over) \in Register
  BY <1>1, <1>2, <1>3 DEF Register
<1>5. Oversampled(B!MeasCtrl(mode, over), over)
  BY <1>1, <1>2, <1>3 DEF Oversampled
<1>6. B!Mode(B!MeasCtrl(mode, over)) = {i \in 0..1 : 0 + i \in B!MeasCtrl(mode, over)}
  BY DEF B!Mode, B!Field
<1> QED BY <1>1, <1>2, <1>3, <1>4, <1>5, <1>6

LEMMA ConfigIn ==
  ASSUME NEW s
  PROVE  B!Config(s) \in Register
BY ShiftedIn DEF B!Config, Register

(* A chip that was reset has the settings of a reset.                       *)
LEMMA ResetIs ==
  /\ CtrlIs({}, B!Sleeps, B!AtReset) /\ B!Config([filter |-> 0, standby |-> 0]) = {} /\ {} \in Register
  /\ B!AtReset \in Oversamplings
<1>1. B!Shifted(0, 5) = {} /\ B!Shifted(0, 2) = {}
  BY ModeBits DEF B!Shifted
<1>2. B!TempOver(B!AtReset) = 0 /\ B!AtReset.p = 0 /\ B!AtReset \in Oversamplings
  BY DEF B!TempOver, B!AtReset, B!Skipped, B!Unset, Oversamplings
<1>3. B!Config([filter |-> 0, standby |-> 0]) = {}
  BY <1>1 DEF B!Config
<1>4. Oversampled({}, B!AtReset)
  BY <1>1, <1>2 DEF Oversampled
<1>5. InMode({}, B!Sleeps)
  BY ModeBits DEF InMode, B!Mode, B!Field, B!Sleeps
<1> QED BY <1>2, <1>3, <1>4, <1>5 DEF CtrlIs, Register

(* The settings of the configuration and of a caller.                       *)
LEMMA SettingsIn ==
  ASSUME NEW s \in Settings
  PROVE  SetOf(s) \in [filter : Nat, standby : 0..7] /\ B!Config(s) = B!Config(SetOf(s))
BY BmpAssumption DEF SetOf, B!Config

LEMMA HistoryIs ==
  ASSUME report \in BmpHistory
  PROVE  /\ report = [ok |-> report.ok, of |-> report.of, last |-> report.last, ended |-> report.ended,
                      measured |-> report.measured, mode |-> report.mode, over |-> report.over, own |-> report.own,
                      bad |-> report.bad, set |-> report.set, config |-> report.config, faults |-> report.faults]
         /\ report.ok \in BOOLEAN /\ report.of \in Int /\ report.last \in Int /\ report.ended \in 0..2
         /\ report.measured \in 0..2 /\ report.mode \in 0..3 /\ report.over \in Oversamplings
         /\ report.own \in BOOLEAN /\ report.bad \in BOOLEAN /\ report.set \in [filter : Nat, standby : 0..7]
         /\ report.config \in BOOLEAN /\ report.faults \in 0..MaxFaults
BY DEF BmpHistory

LEMMA ModesIn == {B!Sleeps, B!Forced, B!Normal} \subseteq 0..3
BY DEF B!Sleeps, B!Forced, B!Normal

(* A written register: the bits, and what the chip keeps.                   *)
LEMMA Controlled ==
  ASSUME BmpTypes, NEW mode \in 0..3, NEW over
  PROVE  /\ B!Control(chip, B!MeasCtrl(mode, over)) \in BmpChip
         /\ B!Control(chip, B!MeasCtrl(mode, over)).data = chip.data
         /\ B!Control(chip, B!MeasCtrl(mode, over)).config = chip.config
         /\ CtrlIs(B!Control(chip, B!MeasCtrl(mode, over)).ctrl, mode, over)
<1>1. PICK ctrl : ctrl = B!MeasCtrl(mode, over)
  OBVIOUS
<1>2. ctrl \in Register /\ CtrlIs(ctrl, mode, over)
  BY <1>1, Packed DEF CtrlIs, InMode
<1>3. chip \in BmpChip /\ report.measured \in 0..2
  BY HistoryIs DEF BmpTypes
<1>4. PICK m \in 0..3 : m = IF B!Mode(ctrl) \in {{0}, {1}} THEN report.measured + 1 ELSE chip.making
  BY <1>3 DEF BmpChip
<1>5. B!Control(chip, ctrl) = [chip EXCEPT !.ctrl = ctrl, !.making = m]
  BY <1>4 DEF B!Control
<1>6. B!Control(chip, ctrl) = [ctrl |-> ctrl, config |-> chip.config, data |-> chip.data, making |-> m]
  BY <1>3, <1>5 DEF BmpChip
<1>7. B!Control(chip, ctrl) \in BmpChip
  BY <1>2, <1>3, <1>4, <1>6 DEF BmpChip
<1> QED BY <1>1, <1>2, <1>6, <1>7
-----------------------------------------------------------------------------
LEMMA BmpInit ==
  ASSUME B!BmpInit
  PROVE  BmpInv
<1>1. PICK s \in Settings, bad \in 0..4 :
        LET over == Overs(s)
            control == ~B!Refused(over)
            mode == B!GetModeByName(s.mode)
            asleep == IF control /\ bad # 1 THEN B!MeasCtrl(B!Sleeps, over) ELSE {}
            on == control /\ mode = B!Normal
        IN  /\ bad # 0 => MaxFaults > 0
            /\ B!Asserted(over)
            /\ driver = [mode |-> mode, over |-> over, s |-> s, wrong |-> bad = 3]
            /\ chip = [ctrl |-> IF on /\ bad # 4 THEN B!MeasCtrl(B!Normal, over) ELSE asleep,
                       config |-> IF bad = 2 THEN {} ELSE B!Config(s), data |-> 0, making |-> 0]
            /\ report = [ok |-> FALSE, of |-> 0, last |-> 0, ended |-> 0, measured |-> 0,
                         mode |-> IF on THEN B!Normal ELSE B!Sleeps,
                         over |-> IF control THEN over ELSE B!AtReset, own |-> control,
                         bad |-> control /\ bad = (IF on THEN 4 ELSE 1),
                         set |-> SetOf(s), config |-> bad # 2,
                         faults |-> IF bad = 0 THEN 0 ELSE 1]
  BY DEF B!BmpInit, Overs, SetOf
<1>2. PICK over, dmode : over = Overs(s) /\ dmode = B!GetModeByName(s.mode)
  OBVIOUS
<1>3. PICK control \in BOOLEAN : control <=> ~B!Refused(over)
  OBVIOUS
<1>4. PICK on \in BOOLEAN : on <=> control /\ dmode = B!Normal
  OBVIOUS
<1>5. PICK wrong \in BOOLEAN : wrong <=> control /\ bad = (IF on THEN 4 ELSE 1)
  OBVIOUS
<1>6. PICK kept \in BOOLEAN : kept <=> bad # 2
  OBVIOUS
<1>7. PICK ctrl, config : /\ ctrl = IF on /\ bad # 4 THEN B!MeasCtrl(B!Normal, over)
                                   ELSE IF control /\ bad # 1 THEN B!MeasCtrl(B!Sleeps, over) ELSE {}
                          /\ config = IF bad = 2 THEN {} ELSE B!Config(s)
  OBVIOUS
<1>8. PICK mode, asked : mode = (IF on THEN B!Normal ELSE B!Sleeps) /\ asked = IF control THEN over ELSE B!AtReset
  OBVIOUS
<1>9. PICK n \in 0..MaxFaults : n = IF bad = 0 THEN 0 ELSE 1
  BY <1>1, FaultsAssumption
<1>10. control = (~B!Refused(over)) /\ on = (control /\ dmode = B!Normal)
       /\ wrong = (control /\ bad = (IF on THEN 4 ELSE 1)) /\ kept = (bad # 2)
  BY <1>3, <1>4, <1>5, <1>6
<1>11. /\ driver = [mode |-> dmode, over |-> over, s |-> s, wrong |-> bad = 3] /\ B!Asserted(over)
       /\ chip = [ctrl |-> ctrl, config |-> config, data |-> 0, making |-> 0]
       /\ report = [ok |-> FALSE, of |-> 0, last |-> 0, ended |-> 0, measured |-> 0, mode |-> mode,
                    over |-> asked, own |-> control, bad |-> wrong, set |-> SetOf(s), config |-> kept, faults |-> n]
  BY <1>1, <1>2, <1>7, <1>8, <1>9, <1>10
<1>12. over \in Oversamplings /\ asked \in Oversamplings /\ dmode \in {B!Sleeps, B!Forced, B!Normal} /\ mode \in 0..3
  BY <1>2, <1>8, <1>11, ResetIs, ModesIn DEF Overs, B!Asserted, Oversamplings, B!GetModeByName
<1>13. ctrl \in Register /\ config \in Register
  BY <1>7, Packed, ConfigIn, ResetIs, ModesIn
<1>14. chip \in BmpChip /\ chip.ctrl = ctrl /\ chip.config = config /\ chip.data = 0
  BY <1>11, <1>13 DEF BmpChip
<1>15. /\ report \in BmpHistory /\ report.mode = mode /\ report.over = asked /\ report.own = control /\ report.bad = wrong
       /\ report.set = SetOf(s) /\ report.config = kept /\ report.ended = 0 /\ report.ok = FALSE
  BY <1>11, <1>12, SettingsIn DEF BmpHistory
<1>16. driver.over = over /\ driver.mode = dmode
  BY <1>11
<1>17. BmpTypes
  BY <1>12, <1>14, <1>15, <1>16 DEF BmpTypes
<1>18. ~wrong => CtrlIs(ctrl, mode, asked)
  <2>1. CASE on
    BY <1>4, <1>5, <1>7, <1>8, <2>1, Packed, ModesIn DEF CtrlIs, InMode
  <2>2. CASE ~on /\ control
    BY <1>4, <1>5, <1>7, <1>8, <2>2, Packed, ModesIn DEF CtrlIs, InMode
  <2>3. CASE ~control
    BY <1>4, <1>7, <1>8, <2>3, ResetIs
  <2> QED BY <2>1, <2>2, <2>3
<1>19. kept => config = B!Config(SetOf(s))
  BY <1>6, <1>7, SettingsIn
<1>20. control => asked = over /\ (dmode = B!Normal <=> mode = B!Normal)
  BY <1>4, <1>8 DEF B!Normal, B!Sleeps
<1> QED BY <1>14, <1>15, <1>16, <1>17, <1>18, <1>19, <1>20 DEF BmpInv, BmpControl

LEMMA MeasuredKeeps ==
  ASSUME BmpInv, B!Measured
  PROVE  BmpInv'
<1>1. chip \in BmpChip /\ report \in BmpHistory /\ report.measured \in 0..2 /\ chip.ctrl \in Register
  BY DEF BmpInv, BmpTypes, BmpChip, BmpHistory
<1>2. PICK n \in 1..2 : n = report.measured + 1
  BY <1>1 DEF B!Measured
<1>4. PICK ctrl : ctrl = IF B!Mode(chip.ctrl) = B!Bits(B!Normal) THEN chip.ctrl ELSE chip.ctrl \ {0, 1}
  OBVIOUS
<1>5. /\ report' = [report EXCEPT !.measured = n, !.ended = n] /\ UNCHANGED driver
      /\ chip' = [chip EXCEPT !.data = n, !.making = 0, !.ctrl = ctrl]
  BY <1>2, <1>4 DEF B!Measured
<1>6. ctrl \in Register
  BY <1>1, <1>4 DEF Register
<1>7. chip' \in BmpChip /\ chip'.data = n /\ chip'.ctrl = ctrl /\ chip'.config = chip.config
  <2>1. chip = [ctrl |-> chip.ctrl, config |-> chip.config, data |-> chip.data, making |-> chip.making] /\ chip.config \in Register
    BY <1>1 DEF BmpChip
  <2>2. chip' = [ctrl |-> ctrl, config |-> chip.config, data |-> n, making |-> 0]
    BY <1>5, <2>1
  <2>3. n \in 0..2 /\ 0 \in 0..3
    OBVIOUS
  <2> QED BY <1>6, <2>1, <2>2, <2>3 DEF BmpChip
<1>8. /\ report' \in BmpHistory /\ report'.ended = n /\ report'.of = report.of /\ report'.last = report.last
      /\ report'.ok = report.ok /\ report'.bad = report.bad /\ report'.config = report.config
      /\ report'.mode = report.mode /\ report'.over = report.over /\ report'.own = report.own /\ report'.set = report.set
  <2>1. n \in 0..2
    OBVIOUS
  <2> QED BY <1>1, <1>5, <2>1 DEF BmpHistory
<1>9. ASSUME B!Fits(report.over), ~report.bad PROVE CtrlIs(ctrl, report.mode, report.over)
  <2>1. CtrlIs(chip.ctrl, report.mode, report.over)
    BY <1>9 DEF BmpInv, BmpControl
  <2>2. CASE B!Mode(chip.ctrl) = B!Bits(B!Normal)
    BY <1>4, <2>1, <2>2
  <2>3. CASE B!Mode(chip.ctrl) # B!Bits(B!Normal)
    <3>1. ctrl = chip.ctrl \ {0, 1} /\ report.mode # B!Normal
      BY <1>4, <2>1, <2>3 DEF CtrlIs, InMode
    <3>2. B!Mode(ctrl) = {}
      BY <3>1 DEF B!Mode, B!Field
    <3>3. ctrl \cap (2..7) = chip.ctrl \cap (2..7)
      BY <3>1
    <3> QED BY <2>1, <3>1, <3>2, <3>3 DEF CtrlIs, InMode, Oversampled
  <2> QED BY <2>2, <2>3
<1>10. BmpTypes'
  BY <1>5, <1>7, <1>8 DEF BmpInv, BmpTypes
<1> QED BY <1>5, <1>7, <1>8, <1>9, <1>10 DEF BmpInv, BmpControl

LEMMA ResultsKeep ==
  ASSUME BmpInv, NEW bad \in 0..2, B!GetResults(bad)
  PROVE  BmpInv'
<1>1. chip \in BmpChip /\ report \in BmpHistory /\ chip.data \in 0..2 /\ BmpTypes /\ chip.data = report.ended
  BY DEF BmpInv, BmpTypes, BmpControl, BmpChip
<1>2. PICK forces \in BOOLEAN : forces <=> driver.mode # B!Normal /\ ~B!Refused(driver.over)
  OBVIOUS
<1>3. PICK ok \in BOOLEAN : ok <=> bad # 2
  OBVIOUS
<1>4. PICK lost \in BOOLEAN : lost <=> bad = 1
  OBVIOUS
<1>5. PICK of \in Int : of = IF bad = 2 THEN 0 ELSE chip.data
  BY <1>1
<1>6. PICK n \in 0..MaxFaults : n = IF bad = 0 THEN report.faults ELSE report.faults + 1
  BY <1>1, HistoryIs, FaultsAssumption DEF B!GetResults
<1>7. PICK next : next = IF forces /\ ~lost THEN B!Control(chip, B!MeasCtrl(driver.mode, driver.over)) ELSE chip
  OBVIOUS
<1>8. ok = (bad # 2) /\ lost = (bad = 1) /\ forces = (driver.mode # B!Normal /\ ~B!Refused(driver.over))
  BY <1>2, <1>3, <1>4
<1>9. /\ chip' = next /\ UNCHANGED driver /\ (lost => forces)
      /\ report' = [(IF forces THEN [report EXCEPT !.mode = driver.mode, !.over = driver.over, !.own = TRUE, !.bad = lost]
                     ELSE report) EXCEPT !.ok = ok, !.of = of, !.last = report.ended, !.faults = n]
  <2>1. /\ chip' = IF forces /\ bad # 1 THEN B!Control(chip, B!MeasCtrl(driver.mode, driver.over)) ELSE chip
        /\ UNCHANGED driver /\ (bad = 1 => forces)
    BY <1>8 DEF B!GetResults
  <2>2. report' = [(IF forces THEN [report EXCEPT !.mode = driver.mode, !.over = driver.over, !.own = TRUE, !.bad = lost]
                    ELSE report) EXCEPT !.ok = ok, !.of = of, !.last = report.ended,
                                        !.faults = IF bad = 0 THEN @ ELSE @ + 1]
    BY <1>5, <1>8 DEF B!GetResults
  <2> QED BY <1>1, <1>4, <1>6, <1>7, <2>1, <2>2 DEF BmpHistory
<1>10. driver.mode \in 0..3 /\ driver.over \in Oversamplings
  BY ModesIn DEF BmpInv, BmpTypes
<1>11. /\ report' \in BmpHistory /\ report'.ended = report.ended /\ report'.of = of /\ report'.last = report.ended
       /\ report'.ok = ok /\ report'.config = report.config /\ report'.set = report.set
       /\ IF forces THEN report'.mode = driver.mode /\ report'.over = driver.over /\ report'.own /\ report'.bad = lost
          ELSE report'.mode = report.mode /\ report'.over = report.over /\ report'.own = report.own /\ report'.bad = report.bad
  <2>1. CASE forces
    <3>1. report' = [ok |-> ok, of |-> of, last |-> report.ended, ended |-> report.ended,
                     measured |-> report.measured, mode |-> driver.mode, over |-> driver.over, own |-> TRUE,
                     bad |-> lost, set |-> report.set, config |-> report.config, faults |-> n]
      BY <1>1, <1>9, <2>1, HistoryIs
    <3> QED BY <1>1, <1>10, <2>1, <3>1, HistoryIs DEF BmpHistory
  <2>2. CASE ~forces
    <3>1. report' = [ok |-> ok, of |-> of, last |-> report.ended, ended |-> report.ended,
                     measured |-> report.measured, mode |-> report.mode, over |-> report.over, own |-> report.own,
                     bad |-> report.bad, set |-> report.set, config |-> report.config, faults |-> n]
      BY <1>1, <1>9, <2>2, HistoryIs
    <3> QED BY <1>1, <2>2, <3>1, HistoryIs DEF BmpHistory
  <2> QED BY <2>1, <2>2
<1>12. /\ chip' \in BmpChip /\ chip'.data = chip.data /\ chip'.config = chip.config
       /\ IF forces /\ ~lost THEN CtrlIs(chip'.ctrl, driver.mode, driver.over) ELSE chip' = chip
  BY <1>1, <1>7, <1>9, <1>10, Controlled
<1>13. BmpTypes'
  BY <1>9, <1>11, <1>12 DEF BmpInv, BmpTypes
<1>14. ASSUME B!Fits(report'.over), ~report'.bad PROVE CtrlIs(chip'.ctrl, report'.mode, report'.over)
  <2>1. CASE forces
    BY <1>11, <1>12, <1>14, <2>1
  <2>2. CASE ~forces
    BY <1>11, <1>12, <1>14, <2>2 DEF BmpInv, BmpControl
  <2> QED BY <2>1, <2>2
<1>15. report'.own => report'.over = driver'.over /\ (driver'.mode = B!Normal <=> report'.mode = B!Normal)
  BY <1>9, <1>11 DEF BmpInv, BmpControl
<1>16. chip'.data = report'.ended /\ (report'.ok => report'.of = report'.last)
  BY <1>1, <1>3, <1>5, <1>11, <1>12
<1>17. report'.config => chip'.config = B!Config(report'.set)
  BY <1>11, <1>12 DEF BmpInv, BmpControl
<1> QED BY <1>13, <1>14, <1>15, <1>16, <1>17 DEF BmpInv, BmpControl

LEMMA MeasureKeeps ==
  ASSUME BmpInv, NEW mode \in 0..3, NEW over, NEW bad \in 0..1, B!SetMeasureControl(mode, over, bad),
         DOMAIN over = {"p", "t"}, over = [p |-> over.p, t |-> over.t]
  PROVE  BmpInv'
<1>1. chip \in BmpChip /\ report \in BmpHistory /\ BmpTypes
  BY DEF BmpInv, BmpTypes
<1>2. over \in Oversamplings
  BY DEF B!SetMeasureControl, B!Asserted, Oversamplings
<1>3. PICK lost \in BOOLEAN : lost <=> bad = 1
  OBVIOUS
<1>4. PICK n \in 0..MaxFaults : n = report.faults + bad
  BY <1>1, HistoryIs, FaultsAssumption DEF B!SetMeasureControl
<1>5. lost = (bad = 1)
  BY <1>3
<1>6. /\ chip' = (IF lost THEN chip ELSE B!Control(chip, B!MeasCtrl(mode, over))) /\ UNCHANGED driver
      /\ report' = [report EXCEPT !.mode = mode, !.over = over, !.own = FALSE, !.bad = lost, !.faults = n]
  BY <1>4, <1>5 DEF B!SetMeasureControl
<1>7. /\ report' \in BmpHistory /\ report'.ended = report.ended /\ report'.of = report.of /\ report'.last = report.last
      /\ report'.ok = report.ok /\ report'.config = report.config /\ report'.set = report.set
      /\ report'.mode = mode /\ report'.over = over /\ report'.own = FALSE /\ report'.bad = lost
  BY <1>1, <1>2, <1>6 DEF BmpHistory
<1>8. /\ chip' \in BmpChip /\ chip'.data = chip.data /\ chip'.config = chip.config
      /\ (~lost => CtrlIs(chip'.ctrl, mode, over))
  BY <1>1, <1>6, Controlled
<1>9. BmpTypes'
  BY <1>6, <1>7, <1>8 DEF BmpInv, BmpTypes
<1>10. report'.bad \/ CtrlIs(chip'.ctrl, report'.mode, report'.over)
  BY <1>7, <1>8
<1>11. chip'.data = report'.ended /\ (report'.ok => report'.of = report'.last)
       /\ (report'.config => chip'.config = B!Config(report'.set))
  BY <1>7, <1>8 DEF BmpInv, BmpControl
<1> QED BY <1>7, <1>9, <1>10, <1>11 DEF BmpInv, BmpControl

LEMMA ConfigKeeps ==
  ASSUME BmpInv, NEW s \in Settings, NEW bad \in 0..1, B!SetConfig(s, bad)
  PROVE  BmpInv'
<1>1. chip \in BmpChip /\ report \in BmpHistory /\ report.faults \in 0..MaxFaults
  BY DEF BmpInv, BmpTypes, BmpChip, BmpHistory
<1>2. PICK config \in Register : config = IF bad = 1 THEN chip.config ELSE B!Config(s)
  BY <1>1, ConfigIn DEF BmpChip
<1>3. PICK kept \in BOOLEAN : kept <=> bad = 0
  OBVIOUS
<1>4. PICK n \in 0..MaxFaults : n = report.faults + bad
  BY <1>1, FaultsAssumption DEF B!SetConfig
<1>5. /\ chip' = [chip EXCEPT !.config = config] /\ UNCHANGED driver
      /\ report' = [report EXCEPT !.set = SetOf(s), !.config = kept, !.faults = n]
  <2>1. chip' = [chip EXCEPT !.config = config]
    BY <1>1, <1>2 DEF B!SetConfig, BmpChip
  <2>2. kept = (bad = 0)
    BY <1>3
  <2> QED BY <1>4, <2>1, <2>2 DEF B!SetConfig, SetOf
<1>6. chip' \in BmpChip /\ chip'.data = chip.data /\ chip'.ctrl = chip.ctrl /\ chip'.config = config
  BY <1>1, <1>5 DEF BmpChip
<1>7. /\ report' \in BmpHistory /\ report'.ended = report.ended /\ report'.of = report.of /\ report'.last = report.last
      /\ report'.ok = report.ok /\ report'.bad = report.bad /\ report'.config = kept /\ report'.set = SetOf(s)
      /\ report'.mode = report.mode /\ report'.over = report.over /\ report'.own = report.own
  <2>1. SetOf(s) \in [filter : Nat, standby : 0..7]
    BY SettingsIn
  <2> QED BY <1>1, <1>5, <2>1 DEF BmpHistory
<1>8. BmpTypes'
  BY <1>5, <1>6, <1>7 DEF BmpInv, BmpTypes
<1>9. kept => config = B!Config(SetOf(s))
  BY <1>2, <1>3, SettingsIn
<1>10. B!Fits(report'.over) /\ ~report'.bad => CtrlIs(chip'.ctrl, report'.mode, report'.over)
  BY <1>6, <1>7 DEF BmpInv, BmpControl
<1> QED BY <1>5, <1>6, <1>7, <1>8, <1>9, <1>10 DEF BmpInv, BmpControl

LEMMA ResetKeeps ==
  ASSUME BmpInv, B!Reset
  PROVE  BmpInv'
<1>1. report \in BmpHistory
  BY DEF BmpInv, BmpTypes
<1>2. /\ chip' = [ctrl |-> {}, config |-> {}, data |-> 0, making |-> 0] /\ UNCHANGED driver
      /\ report' = [report EXCEPT !.mode = B!Sleeps, !.over = B!AtReset, !.own = FALSE, !.bad = FALSE,
                                  !.set = [filter |-> 0, standby |-> 0], !.config = TRUE, !.ended = 0]
  BY DEF B!Reset
<1>3. chip' \in BmpChip
  BY <1>2, ResetIs DEF BmpChip
<1>4. /\ report' \in BmpHistory /\ report'.ended = 0 /\ report'.of = report.of /\ report'.last = report.last
      /\ report'.ok = report.ok /\ report'.set = [filter |-> 0, standby |-> 0]
      /\ report'.mode = B!Sleeps /\ report'.over = B!AtReset /\ report'.own = FALSE
  <2>0. \A a \in Nat, c \in 0..7 : [filter |-> a, standby |-> c] \in [filter : Nat, standby : 0..7]
    OBVIOUS
  <2>a. 0 \in Nat /\ 0 \in 0..7
    OBVIOUS
  <2>1. PICK set \in [filter : Nat, standby : 0..7] : set = [filter |-> 0, standby |-> 0]
    BY <2>0, <2>a, Zenon
  <2>2. B!Sleeps \in 0..3 /\ B!AtReset \in Oversamplings /\ 0 \in 0..2
    BY ResetIs DEF B!Sleeps
  <2>3. report' = [ok |-> report.ok, of |-> report.of, last |-> report.last, ended |-> 0, measured |-> report.measured,
                   mode |-> B!Sleeps, over |-> B!AtReset, own |-> FALSE, bad |-> FALSE, set |-> set, config |-> TRUE,
                   faults |-> report.faults]
    BY <1>1, <1>2, <2>1, HistoryIs
  <2> QED BY <1>1, <2>1, <2>2, <2>3, HistoryIs DEF BmpHistory
<1>5. BmpTypes'
  BY <1>2, <1>3, <1>4 DEF BmpInv, BmpTypes
<1> QED BY <1>2, <1>4, <1>5, ResetIs DEF BmpInv, BmpControl

LEMMA ResetFailsKeeps ==
  ASSUME BmpInv, B!ResetFails
  PROVE  BmpInv'
<1>1. report \in BmpHistory
  BY DEF BmpInv, BmpTypes
<1>2. PICK n \in 0..MaxFaults : n = report.faults + 1
  BY <1>1, HistoryIs, FaultsAssumption DEF B!ResetFails
<1>3. report' = [report EXCEPT !.faults = n] /\ UNCHANGED <<chip, driver>>
  BY <1>2 DEF B!ResetFails
<1>4. /\ report' \in BmpHistory /\ report'.ended = report.ended /\ report'.of = report.of /\ report'.last = report.last
      /\ report'.ok = report.ok /\ report'.bad = report.bad /\ report'.config = report.config /\ report'.set = report.set
      /\ report'.mode = report.mode /\ report'.over = report.over /\ report'.own = report.own
  BY <1>1, <1>3 DEF BmpHistory
<1>5. BmpTypes'
  BY <1>3, <1>4 DEF BmpInv, BmpTypes
<1> QED BY <1>3, <1>4, <1>5 DEF BmpInv, BmpControl

LEMMA BmpStep ==
  ASSUME BmpInv, B!BmpNext
  PROVE  BmpInv'
<1>1. CASE B!Measured \/ B!Reset \/ B!ResetFails
  BY <1>1, MeasuredKeeps, ResetKeeps, ResetFailsKeeps
<1>2. ASSUME NEW bad \in 0..2, B!GetResults(bad) PROVE BmpInv'
  BY <1>2, ResultsKeep
<1>3. ASSUME NEW s \in Settings, NEW bad \in 0..1, B!SetConfig(s, bad) PROVE BmpInv'
  BY <1>3, ConfigKeeps
<1>4. ASSUME NEW s \in Settings, NEW bad \in 0..1, NEW mode \in 0..3,
             B!SetMeasureControl(mode, [p |-> s.p, t |-> s.t], bad)
      PROVE  BmpInv'
  <2>1. PICK over : over = [p |-> s.p, t |-> s.t]
    OBVIOUS
  <2>2. DOMAIN over = {"p", "t"} /\ over = [p |-> over.p, t |-> over.t]
    BY <2>1
  <2> QED BY <1>4, <2>1, <2>2, MeasureKeeps
<1> QED BY <1>1, <1>2, <1>3, <1>4 DEF B!BmpNext

LEMMA BmpHolds ==
  ASSUME BmpInv
  PROVE  B!BmpTypeOK /\ B!BmpAgrees /\ B!BmpReports
<1>1. chip \in BmpChip /\ report \in BmpHistory /\ chip.ctrl \in Register /\ chip.config \in Register
  BY DEF BmpInv, BmpTypes, BmpChip
<1>2. B!BmpTypeOK
  BY <1>1 DEF BmpChip, BmpHistory, Register, B!BmpTypeOK
<1>3. ASSUME B!Fits(report.over), ~report.bad
      PROVE  /\ B!Measures(chip.ctrl).p = B!Bits(report.over.p) /\ B!Measures(chip.ctrl).t = B!Bits(B!TempOver(report.over))
             /\ B!Measures(chip.ctrl).mode \in {B!Bits(report.mode), IF report.mode = B!Normal THEN B!Bits(B!Normal) ELSE {}}
  <2>1. CtrlIs(chip.ctrl, report.mode, report.over)
    BY <1>3 DEF BmpInv, BmpControl
  <2>2. report.over \in Oversamplings
    BY <1>1, HistoryIs
  <2>3. report.over.p \in 0..7
    BY <1>3, <2>2 DEF B!Fits, Oversamplings
  <2>4. B!TempOver(report.over) \in 0..7
    <3>1. B!TempOver(report.over) < 8
      BY <1>3 DEF B!Fits
    <3>2. B!TempOver(report.over) \in Nat
      BY <2>2 DEF B!TempOver, Oversamplings, B!Unset
    <3> QED BY <3>1, <3>2
  <2>5. B!Field(chip.ctrl, 2, 3) = B!Bits(report.over.p) /\ B!Field(chip.ctrl, 5, 3) = B!Bits(B!TempOver(report.over))
    BY <1>1, <2>1, <2>3, <2>4, Fields DEF CtrlIs, Oversampled
  <2> QED BY <2>1, <2>5 DEF B!Measures, CtrlIs, InMode
<1>4. ASSUME report.config, report.set.filter < 8
      PROVE  B!Configured(chip.config) = [filter |-> B!Bits(report.set.filter), standby |-> B!Bits(report.set.standby)]
  <2>1. chip.config = B!Config(report.set)
    BY <1>4 DEF BmpInv, BmpControl
  <2>2. report.set.filter \in 0..7 /\ report.set.standby \in 0..7
    BY <1>1, <1>4, HistoryIs
  <2>3. B!Shifted(report.set.standby, 5) \subseteq 5..7 /\ B!Shifted(report.set.filter, 2) \subseteq 2..7
    BY ShiftedIn
  <2>4. chip.config \cap (2..7) = B!Shifted(report.set.standby, 5) \cup B!Shifted(report.set.filter, 2)
    BY <2>1, <2>3 DEF B!Config
  <2>5. B!Field(chip.config, 2, 3) = B!Bits(report.set.filter) /\ B!Field(chip.config, 5, 3) = B!Bits(report.set.standby)
    BY <1>1, <2>2, <2>4, Fields
  <2> QED BY <2>5 DEF B!Configured
<1>5. B!BmpReports
  BY DEF BmpInv, BmpControl, B!BmpReports
<1>6. B!BmpAgrees
  <2>1. report.own => report.over = driver.over /\ (driver.mode = B!Normal <=> report.mode = B!Normal)
    BY DEF BmpInv, BmpControl
  <2> QED BY <1>3, <1>4, <2>1 DEF B!BmpAgrees
<1> QED BY <1>2, <1>5, <1>6

-----------------------------------------------------------------------------
(* the SI7021 (Si7021)                                                      *)

Byte == 0..255
FaultCounts == 0..MaxFaults
SiDriver == [user : Byte, humidity : I!Percents, temperature : I!Hundredths]
AirRecords == Airs \cup {<<0, 0>>}
Bads == 0..6
SiHistory == [air : AirRecords, whole : BOOLEAN, bad : Bads, faults : FaultCounts]

SiTypes == chip \in Byte /\ driver \in SiDriver /\ report \in SiHistory

SiInv == SiTypes /\ I!SiAgrees /\ I!SiReports /\ I!HeaterOff

LEMMA SiConstants ==
  /\ MaxFaults \in Nat
  /\ SiRegisters \subseteq Byte /\ UnsetRegister \subseteq Byte
  /\ \A air \in Airs : air[1] \in Word16 /\ air[2] \in Word16
<1>1. MaxFaults \in Nat
  BY SiAssumption, FaultsAssumption
<1>2. SiRegisters \subseteq Byte /\ UnsetRegister \subseteq Byte
  BY SiAssumption, FaultsAssumption DEF Byte
<1>3. \A air \in Airs : air[1] \in Word16 /\ air[2] \in Word16
  BY SiAssumption, FaultsAssumption DEF AirPairs
<1> QED BY <1>1, <1>2, <1>3

LEMMA HeaterBit ==
  ASSUME NEW r \in Byte, I!Heated(r)
  PROVE  r - 4 \in Byte /\ ~I!Heated(r - 4)
<1>1. r \div 4 \in Int /\ 4 * (r \div 4) <= r /\ r < 4 * (r \div 4) + 4 /\ r \in Int
  BY DEF Byte
<1>2. r >= 4
  <2>1. r < 4 => r \div 4 = 0
    BY <1>1 DEF Byte
  <2>2. 0 % 2 = 0
    OBVIOUS
  <2> QED BY <1>1, <2>1, <2>2 DEF I!Heated
<1>3. (r - 4) \div 4 = r \div 4 - 1
  BY <1>1
<1>4. (r \div 4) % 2 = 1 => (r \div 4 - 1) % 2 = 0
  BY <1>1
<1> QED BY <1>1, <1>2, <1>3, <1>4 DEF I!Heated, Byte

LEMMA SiInit ==
  ASSUME I!SiInit
  PROVE  SiInv
<1>1. PICK user \in SiRegisters, garbage \in UnsetRegister, bad \in 0..3 :
        LET first == IF bad = 1 THEN I!Unread ELSE user
            now == IF I!Heated(first) THEN I!SetHeaterOff(user, garbage, bad) ELSE user
        IN  /\ bad # 0 => MaxFaults > 0
            /\ bad \in {2, 3} => I!Heated(first)
            /\ chip = now
            /\ driver = [user |-> IF ~I!Heated(first) THEN first ELSE IF bad = 3 THEN I!Unread ELSE now,
                         humidity |-> 0, temperature |-> 0]
            /\ report = [air |-> <<0, 0>>, whole |-> FALSE, bad |-> bad, faults |-> IF bad = 0 THEN 0 ELSE 1]
  BY DEF I!SiInit
<1> DEFINE first == IF bad = 1 THEN I!Unread ELSE user
<1> DEFINE off == IF I!Heated(garbage) THEN garbage - 4 ELSE garbage
<1> DEFINE now == IF I!Heated(first) THEN (IF bad = 2 THEN user ELSE off) ELSE user
<1> DEFINE known == IF ~I!Heated(first) THEN first ELSE IF bad = 3 THEN I!Unread ELSE now
<1> DEFINE faults == IF bad = 0 THEN 0 ELSE 1
<1>2. user \in Byte /\ garbage \in Byte /\ I!Unread \in Byte
  <2>1. 255 \in Byte
    BY DEF Byte
  <2> QED BY <2>1, SiConstants DEF I!Unread
<1>3. off \in Byte /\ ~I!Heated(off)
  BY <1>2, HeaterBit
<1>4. first \in Byte /\ now \in Byte /\ known \in Byte
  <2> HIDE DEF off
  <2> QED BY <1>2, <1>3
<1>5. bad # 2 => ~I!Heated(now)
  <2>1. I!Heated(I!Unread)
    BY DEF I!Heated, I!Unread
  <2> HIDE DEF off
  <2> QED BY <1>3, <2>1
<1>6. bad = 0 => known = now
  <2> HIDE DEF off
  <2> QED OBVIOUS
<1>7. faults \in FaultCounts
  <2>1. MaxFaults \in Nat
    BY SiConstants
  <2>2. bad # 0 => MaxFaults > 0
    BY <1>1
  <2> QED BY <2>1, <2>2 DEF FaultCounts
<1>8. chip = now
  BY <1>1 DEF I!SetHeaterOff
<1>9. driver = [user |-> known, humidity |-> 0, temperature |-> 0]
  BY <1>1 DEF I!SetHeaterOff
<1>10. report = [air |-> <<0, 0>>, whole |-> FALSE, bad |-> bad, faults |-> faults]
  BY <1>1
<1>11. SiTypes
  <2>1. 0 \in I!Percents /\ 0 \in I!Hundredths /\ bad \in Bads
    BY DEF I!Percents, I!Hundredths, Bads
  <2>4. <<0, 0>> \in AirRecords
    BY DEF AirRecords
  <2>2. driver \in SiDriver
    <3> HIDE DEF known
    <3> QED BY <1>4, <1>9, <2>1 DEF SiDriver
  <2>3. report \in SiHistory
    <3> HIDE DEF faults
    <3> QED BY <1>7, <1>10, <2>1, <2>4 DEF SiHistory
  <2> HIDE DEF now
  <2> QED BY <1>4, <1>8, <2>2, <2>3 DEF SiTypes
<1>12. driver.user = known /\ report.bad = bad /\ report.whole = FALSE
  <2> HIDE DEF known, faults
  <2> QED BY <1>9, <1>10
<1>13. I!SiReports
  BY <1>12 DEF I!SiReports
<1>14. I!SiAgrees
  <2> HIDE DEF known, now
  <2> QED BY <1>6, <1>8, <1>12 DEF I!SiAgrees
<1>15. I!HeaterOff
  <2> HIDE DEF known, now
  <2> QED BY <1>5, <1>8, <1>12 DEF I!HeaterOff
<1> QED BY <1>11, <1>13, <1>14, <1>15 DEF SiInv

LEMMA IsWord ==
  ASSUME NEW x \in Int, 0 <= x, x <= 65535
  PROVE  x \in Word16
BY DEF Word16

LEMMA WordIn ==
  ASSUME NEW raw \in Word16, NEW n \in Int, NEW bad \in Int
  PROVE  /\ I!Word(raw, n, bad) \in Word16
         /\ bad # n /\ bad # n + 1 => I!Word(raw, n, bad) = raw
<1> DEFINE h == raw \div 256
<1> DEFINE l == raw % 256
<1>1. raw \in Int /\ 0 <= raw /\ raw <= 65535
  BY DEF Word16
<1>3. h \in Int /\ l \in Int /\ 256 * h <= raw /\ raw < 256 * h + 256 /\ l = raw - 256 * h
  BY <1>1
<1>2. I!Word(raw, n, bad) = 256 * (IF bad = n THEN 255 ELSE h) + (IF bad = n + 1 THEN 255 ELSE l)
  BY DEF I!Word, I!Unread
<1>4. 0 <= h /\ h <= 255 /\ 0 <= l /\ l <= 255
  <2> HIDE DEF h, l
  <2> QED BY <1>1, <1>3
<1> DEFINE word == 256 * (IF bad = n THEN 255 ELSE h) + (IF bad = n + 1 THEN 255 ELSE l)
<1>5. word \in Int /\ 0 <= word /\ word <= 65535
  <2> HIDE DEF h, l
  <2> QED BY <1>1, <1>3, <1>4
<1>8. bad # n /\ bad # n + 1 => word = raw
  <2> HIDE DEF h, l
  <2> QED BY <1>1, <1>3, <1>4
<1> HIDE DEF h, l
<1>6. I!Word(raw, n, bad) = word
  BY <1>2
<1> HIDE DEF word
<1>7. word \in Word16
  BY <1>5, IsWord
<1> QED BY <1>6, <1>7, <1>8

LEMMA HumidityIn ==
  ASSUME NEW raw \in Word16
  PROVE  /\ I!Humidity(raw) \in I!Percents
         /\ I!Humidity(raw) < 100 => (I!Humidity(raw) + 6) * 65536 \in 125 * raw - 65535..125 * raw
<1> DEFINE q == (125 * raw) \div 65536
<1>1. q \in Int /\ 65536 * q <= 125 * raw /\ 125 * raw < 65536 * q + 65536 /\ raw \in Int /\ 0 <= raw
  BY DEF Word16
<1>2. I!Humidity(raw) = IF q - 6 > 100 THEN 100 ELSE q - 6
  BY DEF I!Humidity
<1> HIDE DEF q
<1>3. I!Humidity(raw) \in I!Percents
  BY <1>1, <1>2 DEF I!Percents
<1>4. I!Humidity(raw) < 100 => (I!Humidity(raw) + 6) * 65536 \in 125 * raw - 65535..125 * raw
  BY <1>1, <1>2
<1> QED BY <1>3, <1>4

LEMMA TemperatureIn ==
  ASSUME NEW raw \in Word16
  PROVE  /\ I!Temperature(raw) \in I!Hundredths
         /\ (I!Temperature(raw) + 4685) * 65536 \in 17572 * raw - 65535..17572 * raw
<1> DEFINE q == (17572 * raw) \div 65536
<1>1. q \in Int /\ 65536 * q <= 17572 * raw /\ 17572 * raw < 65536 * q + 65536 /\ raw \in Int /\ 0 <= raw /\ raw <= 65535
  BY DEF Word16
<1>2. I!Temperature(raw) = q - 4685
  BY DEF I!Temperature
<1> HIDE DEF q
<1>3. -4685 <= q - 4685 /\ q - 4685 <= 12887
  BY <1>1
<1> DEFINE t == q - 4685
<1>4. t \in Int /\ -4685 <= t /\ t <= 12887
  BY <1>1, <1>3
<1>8. t + 4685 = q
  BY <1>1
<1>5. q * 65536 \in 17572 * raw - 65535..17572 * raw
  BY <1>1
<1> HIDE DEF t
<1>6. t \in I!Hundredths
  BY <1>4, SMTT(60) DEF I!Hundredths
<1>7. (t + 4685) * 65536 \in 17572 * raw - 65535..17572 * raw
  BY <1>5, <1>8
<1> QED BY <1>2, <1>6, <1>7 DEF t

LEMMA GetResults ==
  ASSUME NEW air \in Airs, NEW bad \in 0..5, SiInv, I!GetResults(air, bad)
  PROVE  SiInv'
<1> DEFINE mrh == IF bad = 5 THEN 65535 ELSE I!Word(air[1], 1, bad)
<1> DEFINE temp == I!Word(air[2], 3, bad)
<1> DEFINE faults == IF bad = 0 THEN report.faults ELSE report.faults + 1
<1> DEFINE whole == bad = 0
<1>1. air \in AirRecords /\ air[1] \in Word16 /\ air[2] \in Word16
  BY SiConstants DEF AirRecords
<1>2. mrh \in Word16 /\ temp \in Word16 /\ (whole => mrh = air[1] /\ temp = air[2])
  <2>1. 65535 \in Word16
    BY DEF Word16
  <2>3. I!Word(air[1], 1, bad) \in Word16 /\ I!Word(air[2], 3, bad) \in Word16
    BY <1>1, WordIn
  <2>4. whole => I!Word(air[1], 1, bad) = air[1] /\ I!Word(air[2], 3, bad) = air[2]
    <3>1. whole => bad # 1 /\ bad # 1 + 1 /\ bad # 3 /\ bad # 3 + 1
      OBVIOUS
    <3>2. bad \in Int /\ 1 \in Int /\ 3 \in Int
      OBVIOUS
    <3> HIDE DEF whole
    <3> QED BY <1>1, <3>1, <3>2, WordIn
  <2> QED BY <2>1, <2>3, <2>4
<1>3. faults \in FaultCounts
  <2>1. report.faults \in FaultCounts
    BY DEF SiInv, SiTypes, SiHistory
  <2>2. MaxFaults \in Nat
    BY SiConstants
  <2>3. bad # 0 => report.faults < MaxFaults
    BY DEF I!GetResults
  <2> QED BY <2>1, <2>2, <2>3 DEF FaultCounts
<1>4. whole \in BOOLEAN
  OBVIOUS
<1>5. driver' = [driver EXCEPT !.humidity = I!Humidity(mrh), !.temperature = I!Temperature(temp)]
  BY DEF I!GetResults
<1>6. report' = [report EXCEPT !.air = air, !.whole = whole, !.faults = faults]
  BY DEF I!GetResults
<1>7. chip' = chip
  BY DEF I!GetResults
<1>8. /\ driver' \in SiDriver /\ driver'.user = driver.user /\ driver'.humidity = I!Humidity(mrh)
      /\ driver'.temperature = I!Temperature(temp)
  <2> HIDE DEF mrh, temp
  <2>1. I!Humidity(mrh) \in I!Percents /\ I!Temperature(temp) \in I!Hundredths
    BY <1>2, HumidityIn, TemperatureIn
  <2>2. driver \in SiDriver
    BY DEF SiInv, SiTypes
  <2> QED BY <1>5, <2>1, <2>2 DEF SiDriver
<1>9. report' \in SiHistory /\ report'.air = air /\ report'.whole = whole /\ report'.bad = report.bad
  <2>1. report \in SiHistory
    BY DEF SiInv, SiTypes
  <2> HIDE DEF whole, faults
  <2> QED BY <1>1, <1>3, <1>4, <1>6, <2>1 DEF SiHistory
<1>10. SiTypes' /\ I!SiAgrees' /\ I!HeaterOff'
  <2> HIDE DEF whole
  <2> QED BY <1>7, <1>8, <1>9 DEF SiInv, SiTypes, I!SiAgrees, I!HeaterOff
<1>11. I!SiReports'
  <2>1. whole => I!IsAir(I!Humidity(mrh), I!Temperature(temp), air)
    <3>1. whole => mrh = air[1] /\ temp = air[2]
      BY <1>2
    <3>2. /\ I!Humidity(mrh) < 100 => (I!Humidity(mrh) + 6) * 65536 \in 125 * mrh - 65535..125 * mrh
          /\ (I!Temperature(temp) + 4685) * 65536 \in 17572 * temp - 65535..17572 * temp
      <4> HIDE DEF mrh, temp, whole
      <4> QED BY <1>2, HumidityIn, TemperatureIn
    <3> HIDE DEF mrh, temp, whole
    <3> QED BY <3>1, <3>2 DEF I!IsAir
  <2>2. report'.whole => I!IsAir(driver'.humidity, driver'.temperature, report'.air)
    <3> HIDE DEF mrh, temp, whole
    <3> QED BY <1>8, <1>9, <2>1
  <2> QED BY <2>2 DEF I!SiReports
<1> QED BY <1>10, <1>11 DEF SiInv

LEMMA Reset ==
  ASSUME NEW bad \in 0..1, SiInv, I!Reset(bad)
  PROVE  SiInv'
<1> DEFINE register == IF bad = 1 THEN chip ELSE 58
<1> DEFINE faults == report.faults + bad
<1> DEFINE mark == IF bad = 1 THEN report.bad ELSE 6
<1>1. report \in SiHistory /\ report.faults \in FaultCounts /\ report.bad \in Bads
  BY DEF SiInv, SiTypes, SiHistory
<1>2. faults \in FaultCounts
  <2>1. MaxFaults \in Nat
    BY SiConstants
  <2>2. bad = 1 => report.faults < MaxFaults
    BY DEF I!Reset
  <2> QED BY <1>1, <2>1, <2>2 DEF FaultCounts
<1>3. mark \in Bads
  BY <1>1 DEF Bads
<1>4. report' = [report EXCEPT !.faults = faults, !.bad = mark]
  BY DEF I!Reset
<1>5. /\ report' \in SiHistory /\ report'.bad = mark /\ report'.whole = report.whole /\ report'.air = report.air
  <2> HIDE DEF faults, mark
  <2> QED BY <1>1, <1>2, <1>3, <1>4 DEF SiHistory
<1>6. driver' = driver /\ chip' = register
  BY DEF I!Reset
<1>7. ~I!Heated(58) /\ 58 \in Byte
  <2>1. 58 \div 4 = 14 /\ 14 % 2 = 0
    OBVIOUS
  <2> QED BY <2>1 DEF I!Heated, Byte
<1>8. register \in Byte /\ (mark # 2 => ~I!Heated(register)) /\ (mark = 0 => driver.user = register)
  BY <1>7 DEF SiInv, SiTypes, I!SiAgrees, I!HeaterOff
<1> HIDE DEF register, mark
<1>9. SiTypes'
  BY <1>5, <1>6, <1>8 DEF SiInv, SiTypes
<1>10. I!SiReports'
  BY <1>5, <1>6 DEF SiInv, I!SiReports
<1>11. I!SiAgrees' /\ I!HeaterOff'
  BY <1>5, <1>6, <1>8 DEF I!SiAgrees, I!HeaterOff
<1> QED BY <1>9, <1>10, <1>11 DEF SiInv

LEMMA SiStep ==
  ASSUME SiInv, I!SiNext
  PROVE  SiInv'
BY GetResults, Reset DEF I!SiNext

LEMMA SiHolds ==
  ASSUME SiInv
  PROVE  I!SiTypeOK /\ I!SiAgrees /\ I!SiReports /\ I!HeaterOff
<1>1. I!SiTypeOK
  BY DEF SiInv, SiTypes, SiDriver, SiHistory, Byte, FaultCounts, I!SiTypeOK
<1> QED BY <1>1 DEF SiInv

-----------------------------------------------------------------------------
(* the MPU6050 (Mpu6050)                                                    *)

MpuUnknowns == SUBSET {"range", "sleep", "base", "angle"}
MpuChip == [range : 0..3, test : BOOLEAN, asleep : BOOLEAN, rate : Int]
MpuDriver == [range : 0..3, asleep : BOOLEAN, base : Int, time : Int, angle : Int]
MpuTasks == [clock : Int, read : Int]
MpuHistory == [time : Int, angle : Int, bad : MpuUnknowns, faults : Nat]

MpuTypes ==
  /\ chip \in MpuChip /\ driver \in MpuDriver /\ task \in MpuTasks /\ report \in MpuHistory
  /\ report.faults <= MaxFaults
  /\ Epoch <= task.clock /\ task.clock <= Epoch + MaxTime
  /\ driver.time = 0 \/ (Epoch <= driver.time /\ driver.time <= task.clock)

(* The angle of the driver belongs to its time, and a figure that was read  *)
(* is the rate in eighths.                                                  *)
MpuControl ==
  "angle" \notin report.bad =>
    /\ driver.angle = 8 * (chip.rate * driver.time)
    /\ report.angle = 8 * (chip.rate * report.time)
    /\ worker = "store" => M!Eighths(task.read, driver.range) = 8 * chip.rate

MpuBase == "base" \notin report.bad => driver.base = 0

MpuInv == MpuTypes /\ MpuControl /\ MpuBase /\ M!MpuAgrees

(* The figures of the chip, with the sensitivity of its own range.          *)
LEMMA EighthsOf ==
  ASSUME NEW range \in 0..3, NEW n \in Int
  PROVE  /\ M!Eighths(n, range) \in Int /\ M!Lsb[range + 1] \in Int
         /\ M!Eighths(n * M!Lsb[range + 1], range) = 8 * n
<1>1. /\ M!Lsb[1] = 8 /\ M!Lsb[2] = 4 /\ M!Lsb[3] = 2 /\ M!Lsb[4] = 1
      /\ 8 \div 8 = 1 /\ 8 \div 4 = 2 /\ 8 \div 2 = 4 /\ 8 \div 1 = 8
  BY DEF M!Lsb
<1>2. CASE range = 0
  BY <1>1, <1>2 DEF M!Eighths
<1>3. CASE range = 1
  BY <1>1, <1>3 DEF M!Eighths
<1>4. CASE range = 2
  BY <1>1, <1>4 DEF M!Eighths
<1>5. CASE range = 3
  BY <1>1, <1>5 DEF M!Eighths
<1> QED BY <1>2, <1>3, <1>4, <1>5

LEMMA ResetChip ==
  ASSUME NEW c \in MpuChip
  PROVE  M!AfterReset(c) \in MpuChip /\ M!AfterReset(c).rate = c.rate /\ M!AfterReset(c).asleep = TRUE
<1>1. c.rate \in Int
  BY DEF MpuChip
<1>2. M!AfterReset(c) = [range |-> 0, test |-> FALSE, asleep |-> TRUE, rate |-> c.rate]
  BY DEF M!AfterReset
<1> QED BY <1>1, <1>2 DEF MpuChip

LEMMA MpuInit ==
  ASSUME M!MpuInit, ThreadInit
  PROVE  MpuInv
<1>1. PICK range \in Ranges, rate \in Rates, asleep \in BOOLEAN, bad \in 0..6 :
        LET found == [range |-> range, test |-> FALSE, asleep |-> asleep /\ bad = 4, rate |-> rate]
        IN  /\ bad # 0 => MaxFaults > 0
            /\ bad \in {3, 4} => asleep
            /\ chip = IF bad = 3 THEN M!AfterReset(found) ELSE found
            /\ driver = [range |-> IF bad = 1 THEN 3 ELSE range, asleep |-> bad \in {3, 4, 5},
                         base |-> IF bad = 6 THEN M!Unread ELSE 0, time |-> 0, angle |-> 0]
            /\ task = [clock |-> Epoch, read |-> 0]
            /\ report = [time |-> 0, angle |-> 0,
                         bad |-> CASE bad \in {1, 3} -> {"range"} [] bad = 5 -> {"sleep"} [] bad = 6 -> {"base"}
                                   [] OTHER -> {},
                         faults |-> IF bad = 0 THEN 0 ELSE 1]
  BY DEF M!MpuInit
<1>2. range \in 0..3 /\ rate \in Int /\ Epoch \in Nat /\ MaxTime \in Nat /\ MaxFaults \in Nat
  BY MpuAssumption, FaultsAssumption
<1>3. PICK sleeps \in BOOLEAN : sleeps <=> (asleep /\ bad = 4)
  OBVIOUS
<1>4. PICK seen \in BOOLEAN : seen <=> bad \in {3, 4, 5}
  OBVIOUS
<1>5. PICK found : found = [range |-> range, test |-> FALSE, asleep |-> sleeps, rate |-> rate]
  OBVIOUS
<1>6. found \in MpuChip /\ found.range = range /\ found.asleep = sleeps /\ found.rate = rate
  BY <1>2, <1>5 DEF MpuChip
<1>7. PICK base \in Int, known \in 0..3 : base = (IF bad = 6 THEN M!Unread ELSE 0) /\ known = IF bad = 1 THEN 3 ELSE range
  BY <1>2 DEF M!Unread
<1>8. PICK unknown \in MpuUnknowns :
        unknown = CASE bad \in {1, 3} -> {"range"} [] bad = 5 -> {"sleep"} [] bad = 6 -> {"base"} [] OTHER -> {}
  <2>1. CASE bad \in {1, 3}
    <3>1. {"range"} = CASE bad \in {1, 3} -> {"range"} [] bad = 5 -> {"sleep"} [] bad = 6 -> {"base"} [] OTHER -> {}
      BY <2>1
    <3> QED BY <3>1 DEF MpuUnknowns
  <2>2. CASE bad = 5
    <3>1. {"sleep"} = CASE bad \in {1, 3} -> {"range"} [] bad = 5 -> {"sleep"} [] bad = 6 -> {"base"} [] OTHER -> {}
      BY <2>2
    <3> QED BY <3>1 DEF MpuUnknowns
  <2>3. CASE bad = 6
    <3>1. {"base"} = CASE bad \in {1, 3} -> {"range"} [] bad = 5 -> {"sleep"} [] bad = 6 -> {"base"} [] OTHER -> {}
      BY <2>3
    <3> QED BY <3>1 DEF MpuUnknowns
  <2>4. CASE bad \notin {1, 3, 5, 6}
    <3>1. {} = CASE bad \in {1, 3} -> {"range"} [] bad = 5 -> {"sleep"} [] bad = 6 -> {"base"} [] OTHER -> {}
      BY <2>4
    <3> QED BY <3>1 DEF MpuUnknowns
  <2> QED BY <2>1, <2>2, <2>3, <2>4
<1>9. PICK faults \in Nat : faults = (IF bad = 0 THEN 0 ELSE 1) /\ faults <= MaxFaults
  BY <1>1, <1>2
<1>10. sleeps = (asleep /\ bad = 4) /\ seen = (bad \in {3, 4, 5})
  BY <1>3, <1>4
<1>11. /\ chip = (IF bad = 3 THEN M!AfterReset(found) ELSE found) /\ (bad \in {3, 4} => asleep)
       /\ driver = [range |-> known, asleep |-> seen, base |-> base, time |-> 0, angle |-> 0]
       /\ task = [clock |-> Epoch, read |-> 0]
       /\ report = [time |-> 0, angle |-> 0, bad |-> unknown, faults |-> faults]
  BY <1>1, <1>5, <1>7, <1>8, <1>9, <1>10
<1>12. chip \in MpuChip /\ chip.rate = rate /\ (bad # 3 => chip.range = range /\ chip.asleep = sleeps)
       /\ (bad = 3 => chip.asleep = TRUE)
  BY <1>6, <1>11, ResetChip
<1>13. driver \in MpuDriver /\ driver.range = known /\ driver.asleep = seen /\ driver.base = base /\ driver.time = 0
       /\ driver.angle = 0
  BY <1>11 DEF MpuDriver
<1>14. task \in MpuTasks /\ task.clock = Epoch
  BY <1>2, <1>11 DEF MpuTasks
<1>15. report \in MpuHistory /\ report.bad = unknown /\ report.faults = faults /\ report.time = 0 /\ report.angle = 0
  BY <1>11 DEF MpuHistory
<1>16. MpuTypes
  BY <1>2, <1>9, <1>12, <1>13, <1>14, <1>15 DEF MpuTypes
<1>17. MpuControl
  <2>1. 8 * (chip.rate * 0) = 0
    BY <1>2, <1>12
  <2> QED BY <1>13, <1>15, <2>1 DEF MpuControl, ThreadInit
<1>18. MpuBase
  <2>1. bad = 6 => unknown = {"base"}
    BY <1>8
  <2> QED BY <1>7, <1>13, <1>15, <2>1 DEF MpuBase
<1>19. M!MpuAgrees
  <2>1. bad \in {1, 3} => unknown = {"range"}
    BY <1>8
  <2>2. bad = 5 => unknown = {"sleep"}
    BY <1>8
  <2>3. "range" \notin unknown => known = chip.range
    BY <1>7, <1>12, <2>1
  <2>4. "sleep" \notin unknown => (seen <=> chip.asleep)
    BY <1>3, <1>4, <1>11, <1>12, <2>2
  <2>5. chip.asleep \in BOOLEAN
    BY <1>12 DEF MpuChip
  <2> QED BY <1>13, <1>15, <2>3, <2>4, <2>5 DEF M!MpuAgrees
<1> QED BY <1>16, <1>17, <1>18, <1>19 DEF MpuInv

LEMMA MpuCalls ==
  ASSUME MpuInv,
         \/ M!GetLast \/ M!StartCall \/ M!StopCall \/ M!StopJoin \/ M!LoopHead \/ M!Tick
         \/ \E range \in Ranges : M!SetRange(range)
  PROVE  MpuInv'
<1> USE DEF MpuInv, MpuControl, MpuBase, M!MpuAgrees
<1>1. CASE M!GetLast
  <2>1. report' = [report EXCEPT !.time = driver.time, !.angle = driver.angle] /\ UNCHANGED <<chip, driver, task, worker>>
    BY <1>1 DEF M!GetLast, M!threadVars
  <2>2. report' \in MpuHistory /\ report'.time = driver.time /\ report'.angle = driver.angle /\ report'.bad = report.bad
        /\ report'.faults = report.faults
    BY <2>1 DEF MpuTypes, MpuDriver, MpuHistory
  <2>3. MpuTypes'
    BY <2>1, <2>2 DEF MpuTypes
  <2> QED BY <2>1, <2>2, <2>3
<1>2. CASE M!StartCall
  BY <1>2 DEF M!StartCall, M!Start, M!mpuVars, MpuTypes
<1>3. CASE M!StopCall
  BY <1>3 DEF M!StopCall, M!Tell, M!mpuVars, MpuTypes
<1>4. CASE M!StopJoin
  BY <1>4 DEF M!StopJoin, M!Join, M!mpuVars, MpuTypes
<1>5. CASE M!LoopHead
  BY <1>5 DEF M!LoopHead, M!Goto, M!mpuVars, MpuTypes
<1>6. CASE M!Tick
  <2>1. task' = [task EXCEPT !.clock = @ + 1] /\ task.clock < Epoch + MaxTime /\ UNCHANGED <<chip, driver, report, worker>>
    BY <1>6 DEF M!Tick, M!threadVars
  <2>2. task.clock \in Int /\ Epoch \in Int /\ MaxTime \in Int /\ driver.time \in Int
    BY MpuAssumption DEF MpuTypes, MpuTasks, MpuDriver
  <2>3. PICK c \in Int : c = task.clock + 1
    BY <2>2
  <2>4. task' = [task EXCEPT !.clock = c]
    BY <2>1, <2>3
  <2>5. task' \in MpuTasks /\ task'.clock = task.clock + 1 /\ task'.read = task.read
    BY <2>3, <2>4 DEF MpuTypes, MpuTasks
  <2>6. MpuTypes'
    BY <2>1, <2>2, <2>5 DEF MpuTypes
  <2> QED BY <2>1, <2>5, <2>6
<1>7. ASSUME NEW range \in Ranges, M!SetRange(range) PROVE MpuInv'
  BY <1>7 DEF M!SetRange, M!mpuVars, M!threadVars, MpuTypes
<1> QED BY <1>1, <1>2, <1>3, <1>4, <1>5, <1>6, <1>7

LEMMA MpuFaults ==
  ASSUME MpuTypes, NEW n \in 0..2, M!Failing(n)
  PROVE  M!Faults(n) \in Nat /\ M!Faults(n) <= MaxFaults
<1>1. report.faults \in Nat /\ report.faults <= MaxFaults
  BY DEF MpuTypes, MpuHistory
<1> QED BY <1>1, FaultsAssumption DEF M!Failing, M!Faults

LEMMA SleepSet ==
  ASSUME MpuInv, NEW on \in BOOLEAN, NEW bad \in 0..2, M!SetSleep(on, bad)
  PROVE  MpuInv'
<1> USE DEF MpuInv, MpuControl, MpuBase, M!MpuAgrees
<1>1. /\ M!Failing(bad) /\ driver' = [driver EXCEPT !.asleep = on] /\ UNCHANGED <<task, worker>>
      /\ chip' = CASE bad = 0 -> [chip EXCEPT !.asleep = on] [] bad = 1 -> chip [] bad = 2 -> M!AfterReset(chip)
      /\ report' = [report EXCEPT !.faults = M!Faults(bad),
                       !.bad = CASE bad = 0 -> @ \ {"sleep"} [] bad = 1 -> @ \cup {"sleep"}
                                 [] bad = 2 -> @ \cup {"range", "sleep"}]
  BY DEF M!SetSleep, M!threadVars
<1>2. PICK faults \in Nat : faults = M!Faults(bad) /\ faults <= MaxFaults
  BY <1>1, MpuFaults
<1>3. report.bad \in MpuUnknowns /\ chip \in MpuChip
  BY DEF MpuTypes, MpuHistory
<1>4. PICK now \in MpuUnknowns : now = CASE bad = 0 -> report.bad \ {"sleep"} [] bad = 1 -> report.bad \cup {"sleep"}
                                          [] bad = 2 -> report.bad \cup {"range", "sleep"}
  <2>1. CASE bad = 0
    BY <1>3, <2>1 DEF MpuUnknowns
  <2>2. CASE bad = 1
    BY <1>3, <2>2 DEF MpuUnknowns
  <2>3. CASE bad = 2
    BY <1>3, <2>3 DEF MpuUnknowns
  <2> QED BY <2>1, <2>2, <2>3
<1>a. /\ bad = 0 => now = report.bad \ {"sleep"}
      /\ bad = 1 => now = report.bad \cup {"sleep"}
      /\ bad = 2 => now = report.bad \cup {"range", "sleep"}
  BY <1>4
<1>5. report' = [report EXCEPT !.faults = faults, !.bad = now]
  BY <1>1, <1>2, <1>4
<1>6. report' \in MpuHistory /\ report'.faults = faults /\ report'.bad = now /\ report'.time = report.time
      /\ report'.angle = report.angle
  BY <1>5 DEF MpuTypes, MpuHistory
<1>7. driver' \in MpuDriver /\ driver'.range = driver.range /\ driver'.time = driver.time /\ driver'.angle = driver.angle
      /\ driver'.asleep = on /\ driver'.base = driver.base
  BY <1>1 DEF MpuTypes, MpuDriver
<1>8. chip' \in MpuChip /\ chip'.rate = chip.rate /\ (bad # 2 => chip'.range = chip.range) /\ (bad = 0 => chip'.asleep = on)
  <2>1. CASE bad = 0
    <3>1. chip' = [chip EXCEPT !.asleep = on]
      BY <1>1, <2>1
    <3> QED BY <1>3, <2>1, <3>1 DEF MpuChip
  <2>2. CASE bad = 1
    <3>1. chip' = chip
      BY <1>1, <2>2
    <3> QED BY <1>3, <2>2, <3>1
  <2>3. CASE bad = 2
    <3>1. chip' = M!AfterReset(chip)
      BY <1>1, <2>3
    <3>2. M!AfterReset(chip) \in MpuChip /\ M!AfterReset(chip).rate = chip.rate
      BY <1>3, ResetChip
    <3> QED BY <2>3, <3>1, <3>2
  <2> QED BY <2>1, <2>2, <2>3
<1>9. MpuTypes'
  BY <1>1, <1>2, <1>6, <1>7, <1>8 DEF MpuTypes
<1>b. ("angle" \in now <=> "angle" \in report.bad) /\ ("base" \in now <=> "base" \in report.bad)
  BY <1>a
<1>10. MpuControl'
  BY <1>1, <1>b, <1>6, <1>7, <1>8
<1>11. M!MpuAgrees'
  <2>1. "range" \notin now => "range" \notin report.bad /\ bad # 2
    BY <1>a
  <2>2. "sleep" \notin now => bad = 0
    BY <1>a
  <2> QED BY <1>6, <1>7, <1>8, <2>1, <2>2
<1>12. MpuBase'
  BY <1>b, <1>6, <1>7
<1> QED BY <1>9, <1>10, <1>11, <1>12

LEMMA SelfChecked ==
  ASSUME MpuInv, NEW bad \in 0..1, M!SelfCheck(bad)
  PROVE  MpuInv'
<1> USE DEF MpuInv, MpuControl, MpuBase, M!MpuAgrees
<1>1. /\ report' = [report EXCEPT !.bad = @ \cup {"range"}, !.faults = M!Faults(bad)] /\ UNCHANGED <<driver, task, worker>>
      /\ chip' = (IF bad = 1 THEN chip ELSE [chip EXCEPT !.range = 0, !.test = (caller = "free")]) /\ M!Failing(bad)
  BY DEF M!SelfCheck
<1>2. PICK x \in BOOLEAN : x <=> caller = "free"
  OBVIOUS
<1>3. x = (caller = "free")
  BY <1>2
<1>4. chip' = IF bad = 1 THEN chip ELSE [chip EXCEPT !.range = 0, !.test = x]
  BY <1>1, <1>3
<1>5. chip' \in MpuChip /\ chip'.rate = chip.rate /\ chip'.asleep = chip.asleep
  <2>1. chip \in MpuChip
    BY DEF MpuTypes
  <2>2. CASE bad = 1
    BY <1>4, <2>1, <2>2
  <2>3. CASE bad # 1
    <3>1. chip' = [range |-> 0, test |-> x, asleep |-> chip.asleep, rate |-> chip.rate]
      BY <1>4, <2>1, <2>3 DEF MpuChip
    <3> QED BY <2>1, <3>1 DEF MpuChip
  <2> QED BY <2>2, <2>3
<1>6. PICK now \in MpuUnknowns : now = report.bad \cup {"range"}
  BY DEF MpuTypes, MpuHistory, MpuUnknowns
<1>7. PICK faults \in Nat : faults = M!Faults(bad) /\ faults <= MaxFaults
  BY <1>1, MpuFaults
<1>8. report' \in MpuHistory /\ report'.faults = faults /\ report'.bad = now /\ report'.time = report.time
      /\ report'.angle = report.angle
  <2>1. report' = [report EXCEPT !.bad = now, !.faults = faults]
    BY <1>1, <1>6, <1>7
  <2> QED BY <2>1 DEF MpuTypes, MpuHistory
<1>9. MpuTypes'
  BY <1>1, <1>5, <1>7, <1>8 DEF MpuTypes
<1> QED BY <1>1, <1>5, <1>6, <1>8, <1>9

LEMMA MpuCalibrated ==
  ASSUME MpuInv, NEW bad \in 0..1, M!Calibrate(bad)
  PROVE  MpuInv'
<1> USE DEF MpuInv, MpuControl, MpuBase, M!MpuAgrees
<1>1. /\ M!Failing(bad) /\ UNCHANGED <<chip, task, worker>>
      /\ driver' = [driver EXCEPT !.base = IF bad = 1 THEN M!Unread ELSE 0]
      /\ report' = [report EXCEPT !.faults = M!Faults(bad),
                                  !.bad = IF bad = 1 THEN @ \cup {"base"} ELSE @ \ {"base"}]
  BY DEF M!Calibrate, M!threadVars
<1>2. PICK faults \in Nat : faults = M!Faults(bad) /\ faults <= MaxFaults
  BY <1>1, MpuFaults
<1>3. PICK base \in Int : base = IF bad = 1 THEN M!Unread ELSE 0
  BY DEF M!Unread
<1>4. report.bad \in MpuUnknowns
  BY DEF MpuTypes, MpuHistory
<1>5. PICK now \in MpuUnknowns : now = IF bad = 1 THEN report.bad \cup {"base"} ELSE report.bad \ {"base"}
  BY <1>4 DEF MpuUnknowns
<1>6. report' = [report EXCEPT !.faults = faults, !.bad = now] /\ driver' = [driver EXCEPT !.base = base]
  BY <1>1, <1>2, <1>3, <1>5
<1>7. report' \in MpuHistory /\ report'.faults = faults /\ report'.bad = now /\ report'.time = report.time
      /\ report'.angle = report.angle
  BY <1>6 DEF MpuTypes, MpuHistory
<1>8. driver' \in MpuDriver /\ driver'.range = driver.range /\ driver'.time = driver.time /\ driver'.angle = driver.angle
      /\ driver'.asleep = driver.asleep /\ driver'.base = base
  BY <1>6 DEF MpuTypes, MpuDriver
<1>9. MpuTypes'
  BY <1>1, <1>2, <1>7, <1>8 DEF MpuTypes
<1>10. MpuControl' /\ M!MpuAgrees'
  BY <1>1, <1>5, <1>7, <1>8
<1>11. MpuBase'
  BY <1>3, <1>5, <1>7, <1>8
<1> QED BY <1>9, <1>10, <1>11

LEMMA AxisRead ==
  ASSUME MpuInv, NEW bad \in 0..1, M!Read(bad)
  PROVE  MpuInv'
<1> USE DEF MpuInv, MpuControl, MpuBase, M!MpuAgrees
<1>1. /\ M!Failing(bad) /\ UNCHANGED <<chip, driver>> /\ worker' = "store"
      /\ task' = [task EXCEPT !.read = IF bad = 1 THEN M!Unread
                                       ELSE IF chip.test \/ chip.asleep THEN 0 ELSE chip.rate * M!Lsb[chip.range + 1]]
      /\ report' = [report EXCEPT !.faults = M!Faults(bad),
                       !.bad = IF bad = 1 \/ chip.test \/ chip.asleep \/ "range" \in @
                               THEN @ \cup {"angle"} ELSE @]
  BY DEF M!Read, M!Goto
<1>2. PICK faults \in Nat : faults = M!Faults(bad) /\ faults <= MaxFaults
  BY <1>1, MpuFaults
<1>3. report.bad \in MpuUnknowns /\ chip.rate \in Int /\ chip.range \in 0..3
  BY DEF MpuTypes, MpuHistory, MpuChip
<1>a. PICK spoilt \in BOOLEAN : spoilt <=> (bad = 1 \/ chip.test \/ chip.asleep \/ "range" \in report.bad)
  OBVIOUS
<1>4. PICK now \in MpuUnknowns : now = IF spoilt THEN report.bad \cup {"angle"} ELSE report.bad
  BY <1>3 DEF MpuUnknowns
<1>c. M!Lsb[chip.range + 1] \in Int
  <2>1. 0 \in Int
    OBVIOUS
  <2> QED BY <1>3, <2>1, EighthsOf
<1>b. PICK figure \in Int : figure = chip.rate * M!Lsb[chip.range + 1]
  BY <1>3, <1>c
<1>5. PICK read \in Int : read = IF bad = 1 THEN M!Unread ELSE IF chip.test \/ chip.asleep THEN 0 ELSE figure
  BY DEF M!Unread
<1>6. report' = [report EXCEPT !.faults = faults, !.bad = now] /\ task' = [task EXCEPT !.read = read]
  <2>1. task' = [task EXCEPT !.read = read]
    BY <1>1, <1>b, <1>5
  <2>2. now = IF bad = 1 \/ chip.test \/ chip.asleep \/ "range" \in report.bad
              THEN report.bad \cup {"angle"} ELSE report.bad
    BY <1>a, <1>4
  <2>3. report' = [report EXCEPT !.faults = faults, !.bad = now]
    BY <1>1, <1>2, <2>2
  <2> QED BY <2>1, <2>3
<1>7. report' \in MpuHistory /\ report'.faults = faults /\ report'.bad = now /\ report'.time = report.time
      /\ report'.angle = report.angle
  BY <1>6 DEF MpuTypes, MpuHistory
<1>8. task' \in MpuTasks /\ task'.clock = task.clock /\ task'.read = read
  BY <1>6 DEF MpuTypes, MpuTasks
<1>9. MpuTypes'
  BY <1>1, <1>2, <1>7, <1>8 DEF MpuTypes
<1>10. ASSUME "angle" \notin now PROVE M!Eighths(read, driver.range) = 8 * chip.rate /\ "angle" \notin report.bad
  <2>1. ~spoilt /\ "angle" \notin report.bad
    BY <1>4, <1>10
  <2>2. read = figure /\ driver.range = chip.range
    BY <1>a, <1>5, <2>1
  <2> QED BY <1>3, <1>b, <2>1, <2>2, EighthsOf
<1>11. \A x \in {"range", "sleep", "base"} : x \in now <=> x \in report.bad
  BY <1>4
<1>12. MpuControl'
  BY <1>1, <1>7, <1>8, <1>10
<1>13. MpuBase' /\ M!MpuAgrees'
  BY <1>1, <1>7, <1>11
<1> QED BY <1>9, <1>12, <1>13

LEMMA Turned ==
  ASSUME NEW a \in Int, NEW t \in Int, NEW c \in Int
  PROVE  8 * (a * t) + (8 * a) * (c - t) = 8 * (a * c)
<1>1. a * (c - t) = a * c - a * t /\ a * c \in Int /\ a * t \in Int
  OBVIOUS
<1>2. (8 * a) * (c - t) = 8 * (a * (c - t))
  OBVIOUS
<1> QED BY <1>1, <1>2

LEMMA AngleStored ==
  ASSUME MpuInv, M!Store
  PROVE  MpuInv'
<1> USE DEF MpuInv, MpuControl, MpuBase, M!MpuAgrees
<1>1. /\ UNCHANGED chip /\ worker = "store" /\ worker' = "top" /\ task' = [task EXCEPT !.read = 0]
      /\ driver' = [driver EXCEPT !.time = task.clock,
                       !.angle = @ + M!Eighths(task.read - driver.base, driver.range) * (task.clock - driver.time)]
      /\ report' = [report EXCEPT !.bad = IF "base" \in @ THEN @ \cup {"angle"} ELSE @]
  BY DEF M!Store, M!Goto
<1>2. task.clock \in Int /\ task.read \in Int /\ driver.time \in Int /\ driver.angle \in Int /\ chip.rate \in Int
      /\ driver.base \in Int /\ driver.range \in 0..3 /\ report.bad \in MpuUnknowns
  BY DEF MpuTypes, MpuTasks, MpuDriver, MpuChip, MpuHistory
<1>a. PICK turned \in Int : turned = M!Eighths(task.read - driver.base, driver.range)
  <2>1. task.read - driver.base \in Int
    BY <1>2
  <2> QED BY <1>2, <2>1, EighthsOf
<1>3. PICK angle \in Int : angle = driver.angle + turned * (task.clock - driver.time)
  BY <1>2
<1>4. driver' = [driver EXCEPT !.time = task.clock, !.angle = angle]
  BY <1>1, <1>a, <1>3
<1>5. driver' \in MpuDriver /\ driver'.time = task.clock /\ driver'.angle = angle /\ driver'.range = driver.range
      /\ driver'.asleep = driver.asleep /\ driver'.base = driver.base
  BY <1>2, <1>4 DEF MpuTypes, MpuDriver
<1>6. task' \in MpuTasks /\ task'.clock = task.clock
  BY <1>1 DEF MpuTypes, MpuTasks
<1>b. PICK now \in MpuUnknowns : now = IF "base" \in report.bad THEN report.bad \cup {"angle"} ELSE report.bad
  BY <1>2 DEF MpuUnknowns
<1>c. report' \in MpuHistory /\ report'.bad = now /\ report'.time = report.time /\ report'.angle = report.angle
      /\ report'.faults = report.faults
  <2>1. report' = [report EXCEPT !.bad = now]
    BY <1>1, <1>b
  <2> QED BY <2>1 DEF MpuTypes, MpuHistory
<1>7. MpuTypes'
  BY <1>1, <1>2, <1>5, <1>6, <1>c DEF MpuTypes
<1>8. ASSUME "angle" \notin now PROVE angle = 8 * (chip.rate * task.clock) /\ "angle" \notin report.bad
  <2>1. "base" \notin report.bad /\ "angle" \notin report.bad
    BY <1>b, <1>8
  <2>2. M!Eighths(task.read, driver.range) = 8 * chip.rate /\ driver.angle = 8 * (chip.rate * driver.time)
        /\ driver.base = 0
    BY <1>1, <2>1
  <2>3. task.read - driver.base = task.read
    BY <1>2, <2>2
  <2>4. turned = 8 * chip.rate
    BY <1>a, <2>2, <2>3
  <2>5. angle = 8 * (chip.rate * driver.time) + (8 * chip.rate) * (task.clock - driver.time)
    BY <1>3, <2>2, <2>4
  <2> QED BY <1>2, <2>1, <2>5, Turned
<1>11. \A x \in {"range", "sleep", "base"} : x \in now <=> x \in report.bad
  BY <1>b
<1>12. MpuControl'
  BY <1>1, <1>5, <1>8, <1>c
<1>13. MpuBase' /\ M!MpuAgrees'
  BY <1>1, <1>5, <1>c, <1>11
<1> QED BY <1>7, <1>12, <1>13

LEMMA MpuStep ==
  ASSUME MpuInv, M!MpuNext
  PROVE  MpuInv'
BY MpuCalls, SleepSet, SelfChecked, MpuCalibrated, AxisRead, AngleStored DEF M!MpuNext, M!WorkerNext

LEMMA MpuHolds ==
  ASSUME MpuInv
  PROVE  M!MpuTypeOK /\ M!MpuAgrees /\ M!MpuReports
<1>1. /\ chip.range \in 0..3 /\ driver.range \in 0..3 /\ task.clock \in Int /\ driver.time \in Int /\ report.faults \in Nat
      /\ Epoch \in Int /\ MaxTime \in Int /\ MaxFaults \in Nat
  BY MpuAssumption, FaultsAssumption DEF MpuInv, MpuTypes, MpuChip, MpuDriver, MpuTasks, MpuHistory
<1>2. M!MpuTypeOK
  BY <1>1 DEF M!MpuTypeOK, MpuInv, MpuTypes
<1>3. M!MpuReports
  BY DEF M!MpuReports, MpuInv, MpuControl
<1> QED BY <1>2, <1>3 DEF MpuInv

-----------------------------------------------------------------------------
(* SPI (Spi)                                                                *)

PinLevels == {"high", "low"}
SpiSteps == {"idle", "switch", "raise", "mine", "lower", "ready", "send", "release", "off"}
UserTasks == [channel : Q!Channels, step : SpiSteps, other : Q!Channels]
SpiTransfers == [device : Int, chips : SUBSET Q!Channels]
SpiDriver == [channels : Nat, channel : Q!Channels, open : SUBSET Q!Channels]
SpiHistory == [last : [Q!Users -> SpiTransfers], overlapped : BOOLEAN, rounds : Int, faults : Nat]

SpiTypes ==
  /\ chip \in [Q!Channels -> PinLevels] /\ driver \in SpiDriver
  /\ task \in [Q!Users -> UserTasks] /\ report \in SpiHistory

(* What a user knows between two of its steps.                              *)
UserControl(u) ==
  /\ task[u].step \in {"switch", "raise", "mine", "lower", "off"} => Q!Known(task[u].channel)
  /\ ~report.overlapped =>
       /\ task[u].step \in {"switch", "raise", "send"} => task[u].other = driver.channel
       /\ task[u].step \in {"mine", "lower"} => \A c \in Q!Channels : chip[c] = "low" => c = task[u].channel
       /\ task[u].step \in {"ready", "send", "release", "off"} /\ Q!Known(task[u].channel) =>
            driver.channel = task[u].channel /\ chip[task[u].channel] = "low"

Alone ==
  ~report.overlapped => \A u, v \in Q!Users : u # v => task[u].step = "idle" \/ task[v].step = "idle"

LastReaches(u) ==
  ~report.overlapped /\ Q!Known(task[u].channel) /\ report.last[u].device # -1 =>
    /\ report.last[u].device = task[u].channel
    /\ report.last[u].chips = IF task[u].channel \in driver.open THEN {task[u].channel} ELSE {}

SpiControl == Alone /\ (\A u \in Q!Users : UserControl(u)) /\ (\A u \in Q!Users : LastReaches(u))

SpiInv == SpiTypes /\ SpiControl /\ Q!SpiAgrees

LEMMA SpiInit ==
  ASSUME Q!SpiInit
  PROVE  SpiInv
<1>1. PICK channels \in 1..2, closed \in SUBSET Q!Channels :
        /\ driver = [channels |-> channels, channel |-> 0, open |-> (0..channels - 1) \ closed]
        /\ report = [last |-> [u \in Q!Users |-> Q!NoTransfer], overlapped |-> FALSE, rounds |-> 0,
                     faults |-> IF closed = {} THEN 0 ELSE 1]
  BY DEF Q!SpiInit
<1>2. chip = [c \in Q!Channels |-> "high"]
  BY DEF Q!SpiInit
<1>3. PICK channel \in [Q!Users -> Q!Channels] :
        task = [u \in Q!Users |-> [channel |-> channel[u], step |-> "idle", other |-> 0]]
  BY DEF Q!SpiInit
<1>4. chip \in [Q!Channels -> PinLevels]
  BY <1>2 DEF PinLevels
<1>5. driver \in SpiDriver /\ Q!Known(driver.channel)
  <2>1. 0..channels - 1 \subseteq Q!Channels
    BY DEF Q!Channels
  <2> QED BY <1>1, <2>1 DEF SpiDriver, Q!Channels, Q!Known
<1>6. task \in [Q!Users -> UserTasks] /\ \A u \in Q!Users : task[u].step = "idle"
  <2>1. \A u \in Q!Users : channel[u] \in Q!Channels /\ 0 \in Q!Channels
    BY <1>3 DEF Q!Channels
  <2> QED BY <1>3, <2>1 DEF UserTasks, SpiSteps
<1>7. report.last = [u \in Q!Users |-> Q!NoTransfer] /\ report.overlapped = FALSE /\ report \in SpiHistory
  <2>1. [u \in Q!Users |-> Q!NoTransfer] \in [Q!Users -> SpiTransfers]
    BY DEF Q!NoTransfer, SpiTransfers
  <2>2. (IF closed = {} THEN 0 ELSE 1) \in Nat
    OBVIOUS
  <2> QED BY <1>1, <2>1, <2>2 DEF SpiHistory
<1>8. SpiTypes
  BY <1>4, <1>5, <1>6, <1>7 DEF SpiTypes
<1>9. Q!SpiAgrees
  BY <1>2, <1>5 DEF Q!SpiAgrees
<1>10. SpiControl
  <2>1. \A u \in Q!Users : LastReaches(u)
    BY <1>7 DEF LastReaches, Q!NoTransfer
  <2> QED BY <1>6, <2>1 DEF SpiControl, Alone, UserControl
<1> QED BY <1>8, <1>9, <1>10 DEF SpiInv

LEMMA GoFields ==
  ASSUME NEW u \in Q!Users, NEW s \in SpiSteps, task \in [Q!Users -> UserTasks], Q!Go(u, s)
  PROVE  /\ task' \in [Q!Users -> UserTasks] /\ task'[u].step = s
         /\ task'[u].channel = task[u].channel /\ task'[u].other = task[u].other
         /\ \A v \in Q!Users \ {u} : task'[v] = task[v]
BY DEF Q!Go, UserTasks

LEMMA GoOther ==
  ASSUME NEW u \in Q!Users, NEW s \in SpiSteps, NEW o \in Q!Channels, task \in [Q!Users -> UserTasks],
         task' = [task EXCEPT ![u].step = s, ![u].other = o]
  PROVE  /\ task' \in [Q!Users -> UserTasks] /\ task'[u].step = s
         /\ task'[u].channel = task[u].channel /\ task'[u].other = o
         /\ \A v \in Q!Users \ {u} : task'[v] = task[v]
BY DEF UserTasks

(* A step of one user that is busy, or starts to be, leaves what all the    *)
(* others know.                                                             *)
LEMMA Others ==
  ASSUME NEW u \in Q!Users, SpiInv,
         driver'.channels = driver.channels, driver'.open = driver.open,
         report'.overlapped \in BOOLEAN, report.overlapped => report'.overlapped,
         task'[u].channel = task[u].channel,
         \A v \in Q!Users \ {u} :
           /\ task'[v] = task[v] /\ report'.last[v] = report.last[v]
           /\ ~report'.overlapped => task[v].step = "idle",
         UserControl(u)', LastReaches(u)'
  PROVE  SpiControl'
<1>1. ASSUME NEW v \in Q!Users
      PROVE  UserControl(v)' /\ LastReaches(v)'
  <2>1. CASE v = u
    BY <2>1
  <2>2. CASE v # u
    <3>1. UserControl(v) /\ LastReaches(v)
      BY DEF SpiInv, SpiControl
    <3>2. Q!Known(task[v].channel)' <=> Q!Known(task[v].channel)
      BY <2>2 DEF Q!Known
    <3>3. task'[v] = task[v] /\ report'.last[v] = report.last[v] /\ (~report'.overlapped => task[v].step = "idle")
      BY <2>2
    <3> QED BY <3>1, <3>2, <3>3 DEF UserControl, LastReaches, Q!Known
  <2> QED BY <2>1, <2>2
<1>2. Alone'
  BY DEF Alone
<1> QED BY <1>1, <1>2 DEF SpiControl

(* A busy user is alone as long as no two overlapped.                       *)
LEMMA BusyAlone ==
  ASSUME NEW u \in Q!Users, SpiInv, task[u].step # "idle", report'.overlapped = report.overlapped
  PROVE  \A v \in Q!Users \ {u} : ~report'.overlapped => task[v].step = "idle"
BY DEF SpiInv, SpiControl, Alone

(* Steps that change only what the user itself knows.                       *)
LEMMA Quietly ==
  ASSUME NEW u \in Q!Users, SpiInv, UNCHANGED <<chip, driver>>, task[u].step # "idle",
         task' \in [Q!Users -> UserTasks], task'[u].channel = task[u].channel,
         \A v \in Q!Users \ {u} : task'[v] = task[v], UNCHANGED report, UserControl(u)'
  PROVE  SpiInv'
<1>1. SpiTypes' /\ Q!SpiAgrees'
  BY DEF SpiInv, SpiTypes, Q!SpiAgrees, Q!Known
<1>2. LastReaches(u)'
  BY DEF SpiInv, SpiControl, LastReaches, Q!Known
<1>3. \A v \in Q!Users \ {u} : ~report'.overlapped => task[v].step = "idle"
  BY BusyAlone
<1>4. report'.overlapped \in BOOLEAN
  BY DEF SpiInv, SpiTypes, SpiHistory
<1>5. SpiControl'
  BY <1>2, <1>3, <1>4, Others
<1> QED BY <1>1, <1>5 DEF SpiInv

LEMMA Selected ==
  ASSUME NEW u \in Q!Users, SpiInv, Q!Select(u)
  PROVE  SpiInv'
<1> DEFINE overlapped == report.overlapped \/ \E v \in Q!Users \ {u} : task[v].step # "idle"
<1>1. task \in [Q!Users -> UserTasks] /\ task[u].step = "idle" /\ report \in SpiHistory /\ driver \in SpiDriver
  BY DEF Q!Select, SpiInv, SpiTypes
<1>2. chip' = chip /\ driver' = driver
  BY DEF Q!Select
<1>3. /\ report' \in SpiHistory /\ report'.last = report.last /\ report'.overlapped = overlapped
      /\ report'.faults = report.faults
  <2>1. overlapped \in BOOLEAN
    BY <1>1 DEF SpiHistory
  <2>2. PICK rounds \in Int : rounds = report.rounds + 1
    BY <1>1 DEF SpiHistory
  <2>3. report' = [report EXCEPT !.rounds = rounds, !.overlapped = overlapped]
    BY <2>2 DEF Q!Select
  <2> HIDE DEF overlapped
  <2> QED BY <1>1, <2>1, <2>3 DEF SpiHistory
<1>4. /\ task' \in [Q!Users -> UserTasks] /\ task'[u].channel = task[u].channel
      /\ \A v \in Q!Users \ {u} : task'[v] = task[v]
      /\ UserControl(u)'
  <2>1. driver.channel \in Q!Channels
    BY <1>1 DEF SpiDriver
  <2>2. CASE ~Q!Known(task[u].channel) /\ u \in Strips
    <3>1. Q!Go(u, "ready") /\ "ready" \in SpiSteps
      BY <2>2 DEF Q!Select, SpiSteps
    <3>2. /\ task' \in [Q!Users -> UserTasks] /\ task'[u].channel = task[u].channel /\ task'[u].step = "ready"
          /\ \A v \in Q!Users \ {u} : task'[v] = task[v]
      BY <1>1, <3>1, GoFields
    <3> QED BY <1>2, <2>2, <3>2 DEF UserControl, Q!Known
  <2>3. CASE ~Q!Known(task[u].channel) /\ u \notin Strips
    <3>1. task' = task
      BY <2>3 DEF Q!Select
    <3> QED BY <1>1, <3>1 DEF UserControl
  <2>4. CASE Q!Known(task[u].channel) /\ task[u].channel # driver.channel
    <3>1. task' = [task EXCEPT ![u].step = "switch", ![u].other = driver.channel] /\ "switch" \in SpiSteps
      BY <2>4 DEF Q!Select, SpiSteps
    <3>2. /\ task' \in [Q!Users -> UserTasks] /\ task'[u].channel = task[u].channel /\ task'[u].step = "switch"
          /\ task'[u].other = driver.channel /\ \A v \in Q!Users \ {u} : task'[v] = task[v]
      BY <1>1, <2>1, <3>1, GoOther
    <3> QED BY <1>2, <2>4, <3>2 DEF UserControl, Q!Known
  <2>5. CASE Q!Known(task[u].channel) /\ task[u].channel = driver.channel
    <3>1. Q!Go(u, "mine") /\ "mine" \in SpiSteps
      BY <2>5 DEF Q!Select, SpiSteps
    <3>2. /\ task' \in [Q!Users -> UserTasks] /\ task'[u].channel = task[u].channel /\ task'[u].step = "mine"
          /\ \A v \in Q!Users \ {u} : task'[v] = task[v]
      BY <1>1, <3>1, GoFields
    <3>3. ~report'.overlapped => \A c \in Q!Channels : chip[c] = "low" => c = driver.channel
      BY <1>3 DEF SpiInv, Q!SpiAgrees
    <3> QED BY <1>2, <2>5, <3>2, <3>3 DEF UserControl, Q!Known
  <2> QED BY <2>2, <2>3, <2>4, <2>5
<1>5. SpiTypes' /\ Q!SpiAgrees'
  BY <1>2, <1>3, <1>4 DEF SpiInv, SpiTypes, Q!SpiAgrees, Q!Known
<1>6. LastReaches(u)'
  BY <1>2, <1>3, <1>4 DEF SpiInv, SpiControl, LastReaches, Q!Known
<1>7. SpiControl'
  <2>1. \A v \in Q!Users \ {u} : ~report'.overlapped => task[v].step = "idle"
    BY <1>3
  <2>2. report'.overlapped \in BOOLEAN /\ (report.overlapped => report'.overlapped)
    BY <1>3 DEF SpiHistory
  <2> QED BY <1>2, <1>3, <1>4, <1>6, <2>1, <2>2, Others
<1> QED BY <1>5, <1>7 DEF SpiInv

LEMMA SwitchedOrMine ==
  ASSUME NEW u \in Q!Users, SpiInv, Q!Switch(u) \/ Q!Mine(u) \/ Q!Release(u) \/ Q!Rest(u)
  PROVE  SpiInv'
<1>1. task \in [Q!Users -> UserTasks] /\ UNCHANGED <<chip, driver, report>> /\ UserControl(u)
  BY DEF SpiInv, SpiTypes, SpiControl, Q!Switch, Q!Mine, Q!Release, Q!Rest
<1>2. chip \in [Q!Channels -> PinLevels] /\ task[u].channel \in Q!Channels
  BY <1>1 DEF SpiInv, SpiTypes, UserTasks
<1>3. ~report.overlapped => \A c \in Q!Channels : chip[c] = "low" => c = driver.channel
  BY DEF SpiInv, Q!SpiAgrees
<1>4. PICK s \in SpiSteps :
        /\ Q!Go(u, s) /\ task[u].step # "idle"
        /\ \/ task[u].step = "switch" /\ s = IF chip[task[u].other] = "high" THEN "mine" ELSE "raise"
           \/ task[u].step = "mine" /\ s = IF task[u].channel = driver.channel /\ chip[task[u].channel] = "low" THEN "ready" ELSE "lower"
           \/ task[u].step = "release" /\ s = IF ~Q!Known(task[u].channel) \/ chip[task[u].channel] = "high" THEN "idle" ELSE "off"
           \/ task[u].step = "ready" /\ s = "idle"
  BY DEF Q!Switch, Q!Mine, Q!Release, Q!Rest, SpiSteps
<1>5. /\ task' \in [Q!Users -> UserTasks] /\ task'[u].step = s
      /\ task'[u].channel = task[u].channel /\ task'[u].other = task[u].other
      /\ \A v \in Q!Users \ {u} : task'[v] = task[v]
  BY <1>1, <1>4, GoFields
<1>6. UserControl(u)'
  <2>1. CASE task[u].step = "switch"
    <3>1. s \in {"mine", "raise"} /\ (s = "mine" => chip[task[u].other] = "high")
      BY <1>4, <2>1
    <3>2. ~report.overlapped /\ s = "mine" => \A c \in Q!Channels : chip[c] # "low"
      BY <1>1, <1>3, <2>1, <3>1 DEF UserControl
    <3> QED BY <1>1, <1>5, <2>1, <3>1, <3>2 DEF UserControl, Q!Known
  <2>2. CASE task[u].step = "mine"
    BY <1>1, <1>4, <1>5, <2>2 DEF UserControl, Q!Known
  <2>3. CASE task[u].step = "release"
    <3>1. s \in {"idle", "off"} /\ (s = "off" => Q!Known(task[u].channel) /\ chip[task[u].channel] = "low")
      BY <1>2, <1>4, <2>3 DEF PinLevels
    <3> QED BY <1>1, <1>5, <2>3, <3>1 DEF UserControl, Q!Known
  <2>4. CASE task[u].step = "ready"
    BY <1>1, <1>4, <1>5, <2>4 DEF UserControl, Q!Known
  <2> QED BY <1>4, <2>1, <2>2, <2>3, <2>4
<1> QED BY <1>1, <1>4, <1>5, <1>6, Quietly

LEMMA ChannelRead ==
  ASSUME NEW u \in Q!Users, SpiInv, Q!ReadChannel(u)
  PROVE  SpiInv'
<1>1. task \in [Q!Users -> UserTasks] /\ UNCHANGED <<chip, driver, report>> /\ UserControl(u) /\ task[u].step = "ready"
  BY DEF SpiInv, SpiTypes, SpiControl, Q!ReadChannel
<1>2. driver.channel \in Q!Channels /\ "send" \in SpiSteps
  BY DEF SpiInv, SpiTypes, SpiDriver, SpiSteps
<1>3. task' = [task EXCEPT ![u].step = "send", ![u].other = driver.channel]
  BY DEF Q!ReadChannel
<1>4. /\ task' \in [Q!Users -> UserTasks] /\ task'[u].channel = task[u].channel /\ task'[u].step = "send"
      /\ task'[u].other = driver.channel /\ \A v \in Q!Users \ {u} : task'[v] = task[v]
  BY <1>1, <1>2, <1>3, GoOther
<1>5. UserControl(u)'
  BY <1>1, <1>4 DEF UserControl, Q!Known
<1> QED BY <1>1, <1>4, <1>5, Quietly

(* A pin goes up: that of the other channel, or the own one at the end.     *)
LEMMA PinRaised ==
  ASSUME NEW u \in Q!Users, SpiInv, Q!Raise(u) \/ Q!Off(u)
  PROVE  SpiInv'
<1>1. task \in [Q!Users -> UserTasks] /\ UNCHANGED <<driver, report>> /\ UserControl(u) /\ chip \in [Q!Channels -> PinLevels]
  BY DEF SpiInv, SpiTypes, SpiControl, Q!Raise, Q!Off
<1>2. PICK c \in Q!Channels, s \in SpiSteps :
        /\ chip' = [chip EXCEPT ![c] = "high"] /\ Q!Go(u, s) /\ task[u].step # "idle"
        /\ \/ task[u].step = "raise" /\ s = "mine" /\ c = task[u].other
           \/ task[u].step = "off" /\ s = "idle" /\ c = task[u].channel
  <2>1. task[u].other \in Q!Channels /\ task[u].channel \in Q!Channels
    BY <1>1 DEF UserTasks
  <2> QED BY <2>1 DEF Q!Raise, Q!Off, SpiSteps
<1>3. chip' \in [Q!Channels -> PinLevels] /\ chip'[c] = "high" /\ \A d \in Q!Channels \ {c} : chip'[d] = chip[d]
  BY <1>1, <1>2 DEF PinLevels
<1>4. /\ task' \in [Q!Users -> UserTasks] /\ task'[u].step = s /\ task'[u].channel = task[u].channel
      /\ task'[u].other = task[u].other /\ \A v \in Q!Users \ {u} : task'[v] = task[v]
  BY <1>1, <1>2, GoFields
<1>5. ~report.overlapped => \A d \in Q!Channels : chip'[d] = "low" => d = driver.channel
  BY <1>3 DEF SpiInv, Q!SpiAgrees
<1>6. UserControl(u)'
  <2>1. CASE task[u].step = "raise"
    <3>1. ~report.overlapped => c = driver.channel
      BY <1>1, <1>2, <2>1 DEF UserControl
    <3>2. ~report.overlapped => \A d \in Q!Channels : chip'[d] # "low"
      BY <1>3, <1>5, <3>1
    <3> QED BY <1>1, <1>2, <1>4, <2>1, <3>2 DEF UserControl, Q!Known
  <2>2. CASE task[u].step = "off"
    BY <1>1, <1>2, <1>4, <2>2 DEF UserControl
  <2> QED BY <1>2, <2>1, <2>2
<1>7. SpiTypes' /\ Q!SpiAgrees' /\ LastReaches(u)'
  BY <1>1, <1>3, <1>4, <1>5 DEF SpiInv, SpiTypes, SpiControl, Q!SpiAgrees, LastReaches, Q!Known
<1>8. SpiControl'
  <2>1. \A v \in Q!Users \ {u} : ~report'.overlapped => task[v].step = "idle"
    BY <1>1, <1>2, BusyAlone
  <2>2. report'.overlapped \in BOOLEAN
    BY <1>7 DEF SpiTypes, SpiHistory
  <2> QED BY <1>1, <1>4, <1>6, <1>7, <2>1, <2>2, Others
<1> QED BY <1>7, <1>8 DEF SpiInv

LEMMA PinLowered ==
  ASSUME NEW u \in Q!Users, SpiInv, Q!Lower(u)
  PROVE  SpiInv'
<1>1. /\ task \in [Q!Users -> UserTasks] /\ UNCHANGED report /\ UserControl(u) /\ chip \in [Q!Channels -> PinLevels]
      /\ task[u].step = "lower" /\ driver \in SpiDriver
  BY DEF SpiInv, SpiTypes, SpiControl, Q!Lower
<1>2. task[u].channel \in Q!Channels /\ Q!Known(task[u].channel) /\ "ready" \in SpiSteps
  BY <1>1 DEF UserTasks, UserControl, SpiSteps
<1>3. /\ driver' \in SpiDriver /\ driver'.channel = task[u].channel /\ driver'.channels = driver.channels
      /\ driver'.open = driver.open
  <2>1. driver' = [driver EXCEPT !.channel = task[u].channel]
    BY DEF Q!Lower
  <2> QED BY <1>1, <1>2, <2>1 DEF SpiDriver
<1>4. /\ chip' \in [Q!Channels -> PinLevels] /\ chip'[task[u].channel] = "low"
      /\ \A d \in Q!Channels \ {task[u].channel} : chip'[d] = chip[d]
  <2>1. chip' = [chip EXCEPT ![task[u].channel] = "low"]
    BY DEF Q!Lower
  <2> QED BY <1>1, <1>2, <2>1 DEF PinLevels
<1>5. /\ task' \in [Q!Users -> UserTasks] /\ task'[u].step = "ready" /\ task'[u].channel = task[u].channel
      /\ \A v \in Q!Users \ {u} : task'[v] = task[v]
  <2>1. Q!Go(u, "ready")
    BY DEF Q!Lower
  <2> QED BY <1>1, <1>2, <2>1, GoFields
<1>6. UserControl(u)'
  BY <1>3, <1>4, <1>5 DEF UserControl
<1>7. SpiTypes'
  BY <1>1, <1>3, <1>4, <1>5 DEF SpiInv, SpiTypes
<1>8. Q!SpiAgrees'
  <2>1. ~report.overlapped => \A d \in Q!Channels : chip[d] = "low" => d = task[u].channel
    BY <1>1 DEF UserControl
  <2>2. Q!Known(driver.channel)'
    BY <1>2, <1>3 DEF Q!Known
  <2> QED BY <1>1, <1>3, <1>4, <2>1, <2>2 DEF Q!SpiAgrees
<1>9. LastReaches(u)'
  BY <1>1, <1>3, <1>5 DEF SpiInv, SpiControl, LastReaches, Q!Known
<1>10. SpiControl'
  <2>1. \A v \in Q!Users \ {u} : ~report'.overlapped => task[v].step = "idle"
    BY <1>1, BusyAlone
  <2>2. report'.overlapped \in BOOLEAN
    BY <1>7 DEF SpiTypes, SpiHistory
  <2> QED BY <1>1, <1>3, <1>5, <1>6, <1>9, <2>1, <2>2, Others
<1> QED BY <1>7, <1>8, <1>10 DEF SpiInv

LEMMA DataSent ==
  ASSUME NEW u \in Q!Users, SpiInv, Q!DataRw(u)
  PROVE  SpiInv'
<1> DEFINE chips == IF task[u].other \in driver.open THEN {c \in Q!Channels : chip[c] = "low"} ELSE {}
<1> DEFINE transfer == [device |-> task[u].other, chips |-> chips]
<1>1. /\ task \in [Q!Users -> UserTasks] /\ UNCHANGED <<chip, driver>> /\ UserControl(u) /\ task[u].step = "send"
      /\ report \in SpiHistory /\ chip \in [Q!Channels -> PinLevels]
  BY DEF SpiInv, SpiTypes, SpiControl, Q!DataRw
<1>2. chips \in SUBSET Q!Channels /\ task[u].other \in Int /\ task[u].channel \in Q!Channels
  BY <1>1 DEF UserTasks, Q!Channels
<1>3. transfer \in SpiTransfers /\ transfer.device = task[u].other /\ transfer.chips = chips
  <2> HIDE DEF chips
  <2> QED BY <1>2 DEF SpiTransfers
<1>4. /\ report' \in SpiHistory /\ report'.last[u] = transfer /\ report'.overlapped = report.overlapped
      /\ \A v \in Q!Users \ {u} : report'.last[v] = report.last[v]
  <2>1. report' = [report EXCEPT !.last[u] = transfer]
    BY DEF Q!DataRw
  <2> HIDE DEF transfer
  <2> QED BY <1>1, <1>3, <2>1 DEF SpiHistory
<1>5. PICK s \in SpiSteps : Q!Go(u, s) /\ s \in {"ready", "release"}
  BY DEF Q!DataRw, SpiSteps
<1>6. /\ task' \in [Q!Users -> UserTasks] /\ task'[u].step = s /\ task'[u].channel = task[u].channel
      /\ \A v \in Q!Users \ {u} : task'[v] = task[v]
  BY <1>1, <1>5, GoFields
<1>7. UserControl(u)'
  BY <1>1, <1>4, <1>5, <1>6 DEF UserControl, Q!Known
<1>8. LastReaches(u)'
  <2> SUFFICES ASSUME ~report.overlapped, Q!Known(task[u].channel)
               PROVE  transfer.device = task[u].channel /\ chips = IF task[u].channel \in driver.open THEN {task[u].channel} ELSE {}
    <3> HIDE DEF transfer, chips
    <3> QED BY <1>1, <1>3, <1>4, <1>6 DEF LastReaches, Q!Known
  <2>1. task[u].other = task[u].channel /\ driver.channel = task[u].channel /\ chip[task[u].channel] = "low"
    BY <1>1 DEF UserControl
  <2>2. {c \in Q!Channels : chip[c] = "low"} = {task[u].channel}
    BY <1>2, <2>1 DEF SpiInv, Q!SpiAgrees
  <2> QED BY <1>3, <2>1, <2>2
<1>9. SpiTypes' /\ Q!SpiAgrees'
  BY <1>1, <1>4, <1>6 DEF SpiInv, SpiTypes, Q!SpiAgrees, Q!Known
<1>10. SpiControl'
  <2>1. \A v \in Q!Users \ {u} : ~report'.overlapped => task[v].step = "idle"
    BY <1>1, <1>4, BusyAlone
  <2>2. report'.overlapped \in BOOLEAN
    BY <1>9 DEF SpiTypes, SpiHistory
  <2> QED BY <1>1, <1>4, <1>6, <1>7, <1>8, <2>1, <2>2, Others
<1> QED BY <1>9, <1>10 DEF SpiInv

LEMMA SpiStep ==
  ASSUME SpiInv, Q!SpiNext
  PROVE  SpiInv'
BY Selected, SwitchedOrMine, ChannelRead, PinRaised, PinLowered, DataSent DEF Q!SpiNext

LEMMA SpiHolds ==
  ASSUME SpiInv
  PROVE  Q!SpiTypeOK /\ Q!SpiAgrees /\ Q!SpiReports
<1>1. Q!SpiTypeOK
  BY DEF SpiInv, SpiTypes, SpiDriver, UserTasks, PinLevels, Q!SpiTypeOK
<1>2. Q!SpiReports
  BY DEF SpiInv, SpiControl, LastReaches, Q!SpiReports
<1> QED BY <1>1, <1>2 DEF SpiInv
=============================================================================

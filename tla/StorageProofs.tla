---------------------------- MODULE StorageProofs ----------------------------
(***************************************************************************)
(* The two storages a measurement goes to.                                 *)
(*                                                                         *)
(* The data files with any days, and any number of changes of the clock,   *)
(* restarts, failures and deletions: the file that is written is not       *)
(* removed under the storage, a line goes to the file of its day, and the  *)
(* list names the files that are there.                                    *)
(*                                                                         *)
(* The MQTT client with any size of the buffer, any number of messages and *)
(* of lost connections: its type, when the worker can meet a null message, *)
(* that a stopped client stays offline, and what the broker gets.          *)
(***************************************************************************)
EXTENDS Files, MqttClient, CircularBufferProofs

(* The data files *)

USE DEF diskVars, storVars, webVars, envVars, WebStep

(* The current path is the one that is open, if any; nothing is open before *)
(* the start and after the stop. A deletion of the open file was tested     *)
(* before the file was opened, which raced remembers, or names it in        *)
(* another way.                                                             *)
OpenInv ==
  /\ fd # NoPath => fd = path
  /\ spc \in {"off", "listing", "ready", "stopped"} => fd = NoPath
  /\ web # "idle" => target # NoPath
  /\ (web = "remove" /\ fd = target) => fd \in raced \/ ~exact
  /\ gone => fd # NoPath /\ fd \in raced \cup aliased

(* Without such a change of the clock the folder is the one of the month of *)
(* the time that is kept, the file the one of its day, and a write that     *)
(* began saw that time.                                                     *)
DayInv ==
  /\ spc = "write" => fd # NoPath
  /\ ~skewed =>
       /\ dir = MonthOf[time]
       /\ fd # NoPath => fd = [dir |-> MonthOf[time], day |-> time]
       /\ spc \in {"append", "write"} => seen = time

LEMMA InitFiles == FilesInit => OpenInv /\ DayInv
<1> SUFFICES ASSUME FilesInit PROVE OpenInv /\ DayInv
  OBVIOUS
<1>1. OpenInv
  BY DEF FilesInit, OpenInv
<1>2. DayInv
  BY DEF FilesInit, DayInv
<1>3. QED
  BY <1>1, <1>2

(* What create_file leaves.                                                 *)
LEMMA CreateFileOpens ==
  ASSUME NEW m, NEW d, NEW n \in {0, 1}, CreateFile(m, d, n), OpenInv
  PROVE  /\ time' = d /\ ~gone'
         /\ fd' \in {NoPath, [dir |-> m, day |-> d]}
         /\ fd' # NoPath => fd' = path'
         /\ (web # "idle" /\ fd' = target /\ fd' # NoPath) => fd' \in raced'
BY DEF CreateFile

LEMMA StartStep == OpenInv /\ DayInv /\ Start => OpenInv' /\ DayInv'
<1> SUFFICES ASSUME OpenInv, DayInv, Start PROVE OpenInv' /\ DayInv'
  OBVIOUS
<1>1. /\ spc = "ready" /\ dir' = MonthOf[now] /\ time' = now /\ seen' = now
      /\ UNCHANGED <<web, target, exact>>
  BY DEF Start, CreateMonthDir, CreateFile
<1>2. PICK n \in {0, 1} :
        IF n = 1
          THEN spc' = "idle" /\ UNCHANGED <<path, fd, gone, raced, aliased>>
          ELSE (\E k \in {0, 1} : CreateFile(MonthOf[now], now, k)) /\ spc' = "append"
  BY DEF Start
<1>3. CASE n = 1
  <2>1. fd' = NoPath /\ ~gone' /\ spc' = "idle" /\ raced' = raced /\ aliased' = aliased
    BY <1>1, <1>2, <1>3 DEF OpenInv
  <2>2. OpenInv'
    BY <1>1, <2>1 DEF OpenInv
  <2>3. DayInv'
    BY <1>1, <2>1 DEF DayInv
  <2>4. QED
    BY <2>2, <2>3
<1>4. CASE n = 0
  <2>1. PICK k \in {0, 1} : CreateFile(MonthOf[now], now, k)
    BY <1>2, <1>4
  <2>2. spc' = "append"
    BY <1>2, <1>4
  <2>3. OpenInv'
    BY <1>1, <2>1, <2>2, CreateFileOpens DEF OpenInv
  <2>4. DayInv'
    BY <1>1, <2>1, <2>2, CreateFileOpens DEF DayInv
  <2>5. QED
    BY <2>3, <2>4
<1>5. QED
  BY <1>3, <1>4

LEMMA WriteStep == OpenInv /\ DayInv /\ WriteData => OpenInv' /\ DayInv'
<1> SUFFICES ASSUME OpenInv, DayInv, WriteData PROVE OpenInv' /\ DayInv'
  OBVIOUS
<1>1. /\ spc = "idle" /\ fd # NoPath /\ seen' = now /\ UNCHANGED <<web, target, exact>>
  BY DEF WriteData
<1>2. IF MonthOf[now] # MonthOf[time] THEN dir' = MonthOf[now] ELSE dir' = dir
  BY DEF WriteData, CreateMonthDir
<1>3. CASE MDayOf[now] # MDayOf[time]
  <2>1. PICK k \in {0, 1} : CreateFile(dir', now, k)
    BY <1>3 DEF WriteData
  <2>2. spc' = "append" /\ skewed' = (skewed /\ MonthOf[now] = MonthOf[time])
    BY <1>3 DEF WriteData
  <2>3. ~skewed' => dir' = MonthOf[now]
    BY <1>2, <2>2 DEF DayInv
  <2>4. OpenInv'
    BY <1>1, <2>1, <2>2, CreateFileOpens DEF OpenInv
  <2>5. DayInv'
    BY <1>1, <2>1, <2>2, <2>3, CreateFileOpens DEF DayInv
  <2>6. QED
    BY <2>4, <2>5
<1>4. CASE MDayOf[now] = MDayOf[time]
  <2>1. /\ spc' = "write" /\ skewed' = (skewed \/ now # time)
        /\ UNCHANGED <<time, path, fd, gone, raced, aliased>>
    BY <1>4 DEF WriteData
  <2>2. OpenInv'
    BY <1>1, <2>1 DEF OpenInv
  <2>3. DayInv'
    BY <1>1, <1>2, <2>1 DEF DayInv
  <2>4. QED
    BY <2>2, <2>3
<1>5. QED
  BY <1>3, <1>4

(* The web thread changes neither the storage's variables nor, before its   *)
(* removal, what is open.                                                   *)
LEMMA WebSteps ==
  ASSUME OpenInv, DayInv,
         (\E p \in Paths, own \in BOOLEAN : FilesDelete(p, own)) \/ Remove \/ RemoveEntries \/ DeleteList
  PROVE  OpenInv' /\ DayInv'
<1>1. DayInv'
  BY DEF DayInv, FilesDelete, DeletionOf, Remove, RemoveEntries, DeleteList
<1>2. CASE \E p \in Paths, own \in BOOLEAN : FilesDelete(p, own)
  <2>1. PICK p \in Paths, own \in BOOLEAN : FilesDelete(p, own)
    BY <1>2
  <2>2. p # NoPath /\ (p # fd \/ ~own)
    BY <2>1, FilesAssumption DEF FilesDelete, OpenInv
  <2>3. /\ web' = "remove" /\ target' = p /\ exact' = own
        /\ UNCHANGED <<path, fd, raced, aliased, gone, spc>>
    BY <2>1 DEF FilesDelete, DeletionOf
  <2>4. QED
    BY <2>2, <2>3, <1>1 DEF OpenInv
<1>3. CASE Remove
  <2>1. web = "remove" /\ target # NoPath /\ UNCHANGED <<path, fd, raced, spc>>
    BY <1>3 DEF Remove, OpenInv
  <2>2. CASE web' = "idle" /\ UNCHANGED <<gone, aliased>>
    BY <2>1, <2>2, <1>1 DEF OpenInv
  <2>3. CASE /\ web' = "unlist" /\ target' = target /\ gone' = (gone \/ fd = target)
             /\ aliased' = IF fd = target /\ ~exact THEN aliased \cup {target} ELSE aliased
    BY <2>1, <2>3, <1>1 DEF OpenInv
  <2>4. QED
    BY <1>3, <2>2, <2>3 DEF Remove
<1>4. CASE RemoveEntries \/ DeleteList
  BY <1>4, <1>1 DEF OpenInv, RemoveEntries, DeleteList
<1>5. QED
  BY <1>2, <1>3, <1>4

LEMMA OtherSteps ==
  ASSUME OpenInv, DayInv,
         \/ CollectDataFiles \/ WriteList \/ AppendList \/ Write \/ Stop
         \/ SetClock \/ Restart \/ UNCHANGED filesVars
  PROVE  OpenInv' /\ DayInv'
<1>1. CASE CollectDataFiles \/ WriteList \/ AppendList \/ Write
  <2>1. /\ UNCHANGED <<time, dir, path, fd, gone, raced, aliased, skewed, web, target, exact, seen>>
        /\ spc' \in {"listing", "ready", "write", "idle"}
        /\ spc' \in {"listing", "ready"} => fd = NoPath
        /\ spc' = "write" => spc = "append" /\ fd # NoPath
    BY <1>1 DEF CollectDataFiles, WriteList, AppendList, Write, OpenInv
  <2>2. QED
    BY <2>1 DEF OpenInv, DayInv
<1>2. CASE Stop
  BY <1>2 DEF Stop, OpenInv, DayInv
<1>3. CASE SetClock
  BY <1>3 DEF SetClock, OpenInv, DayInv
<1>4. CASE Restart
  BY <1>4 DEF Restart, OpenInv, DayInv
<1>5. CASE UNCHANGED filesVars
  BY <1>5 DEF filesVars, OpenInv, DayInv
<1>6. QED
  BY <1>1, <1>2, <1>3, <1>4, <1>5

THEOREM FilesInv == FilesSpec => [](OpenInv /\ DayInv)
<1>1. OpenInv /\ DayInv /\ [FilesNext]_filesVars => OpenInv' /\ DayInv'
  BY StartStep, WriteStep, WebSteps, OtherSteps DEF FilesNext
<1>2. QED
  BY <1>1, InitFiles, PTL DEF FilesSpec

(* The web removes the file that is written only if the file was opened     *)
(* between its test and its removal.                                        *)
THEOREM OpenFileCorrect == FilesSpec => []OpenFileKept
<1>1. OpenInv => OpenFileKept
  BY DEF OpenInv, OpenFileKept
<1>2. QED
  BY <1>1, FilesInv, PTL

(* A line goes to the file of its day, in the folder of its month, unless   *)
(* the clock changed to the same day of another month.                      *)
THEOREM LineCorrect == FilesSpec => []LineInItsFile
<1>1. OpenInv /\ DayInv => LineInItsFile
  BY DEF OpenInv, DayInv, LineInItsFile
<1>2. QED
  BY <1>1, FilesInv, PTL
-----------------------------------------------------------------------------
(* The type.                                                                *)

LEMMA PathIsPath ==
  ASSUME NEW d \in Days, NEW m \in Months
  PROVE  MonthOf[d] \in Months /\ [dir |-> m, day |-> d] \in Paths
BY DEF Months, Paths

LEMMA CreateFileType ==
  ASSUME FilesTypeOK, NEW d \in Days, NEW m \in Months, NEW n \in {0, 1}, CreateFile(m, d, n)
  PROVE  /\ time' \in Days /\ path' \in Paths /\ fd' \in Paths \cup {NoPath}
         /\ files' \subseteq Paths /\ raced' \subseteq Paths /\ excused' \subseteq Paths
         /\ gone' \in BOOLEAN /\ aliased' \subseteq Paths
<1> DEFINE p == [dir |-> m, day |-> d]
<1>1. p \in Paths
  BY PathIsPath
<1>2. time' = d /\ path' = p /\ fd' \in {p, NoPath} /\ gone' = FALSE
  BY DEF CreateFile
<1>3. files' \subseteq files \cup {p} /\ raced' \subseteq raced \cup {p}
      /\ excused' \subseteq excused \cup {p} /\ aliased' \subseteq aliased
  BY DEF CreateFile
<1>4. QED
  BY <1>1, <1>2, <1>3 DEF FilesTypeOK

LEMMA CountType ==
  ASSUME FilesTypeOK, NEW n \in {0, 1, 2}, Fails(n)
  PROVE  failures' \in 0..MaxFailures
BY FilesAssumption DEF Fails, FilesTypeOK

LEMMA StartType == FilesTypeOK /\ Start => FilesTypeOK'
<1> SUFFICES ASSUME FilesTypeOK, Start PROVE FilesTypeOK'
  OBVIOUS
<1>1. now \in Days /\ MonthOf[now] \in Months
  BY PathIsPath DEF FilesTypeOK
<1>2. PICK n \in {0, 1} :
        /\ CreateMonthDir(MonthOf[now], n)
        /\ IF n = 1
             THEN /\ Fails(1) /\ spc' = "idle" /\ time' = now
                  /\ UNCHANGED <<files, path, fd, gone, raced, aliased, excused>>
             ELSE /\ \E k \in {0, 1} : CreateFile(MonthOf[now], now, k) /\ Fails(k)
                  /\ spc' = "append"
  BY DEF Start
<1>3. dir' \in Months /\ dirs' \subseteq Months
  BY <1>1, <1>2 DEF CreateMonthDir, FilesTypeOK
<1>4. /\ skewed' = FALSE /\ seen' = now
      /\ UNCHANGED <<list, web, target, exact, deletes, now, clocks, runs, scan>>
  BY DEF Start
<1>5. /\ time' \in Days /\ path' \in Paths \cup {NoPath} /\ fd' \in Paths \cup {NoPath}
      /\ files' \subseteq Paths /\ raced' \subseteq Paths /\ excused' \subseteq Paths
      /\ gone' \in BOOLEAN /\ aliased' \subseteq Paths /\ failures' \in 0..MaxFailures
  <2>1. CASE n = 1
    BY <1>1, <1>2, <2>1, CountType DEF FilesTypeOK
  <2>2. CASE n = 0
    BY <1>1, <1>2, <2>2, CountType, CreateFileType
  <2>3. QED
    BY <2>1, <2>2
<1>6. spc' \in {"idle", "append"}
  BY <1>2
<1>7. QED
  BY <1>1, <1>3, <1>4, <1>5, <1>6 DEF FilesTypeOK

LEMMA WriteType == FilesTypeOK /\ WriteData => FilesTypeOK'
<1> SUFFICES ASSUME FilesTypeOK, WriteData PROVE FilesTypeOK'
  OBVIOUS
<1>1. now \in Days /\ MonthOf[now] \in Months
  BY PathIsPath DEF FilesTypeOK
<1>2. PICK n \in {0, 1}, k \in {0, 1} :
        /\ Fails(n + k)
        /\ IF MonthOf[now] # MonthOf[time]
             THEN CreateMonthDir(MonthOf[now], n)
             ELSE n = 0 /\ UNCHANGED <<dir, dirs>>
        /\ IF MDayOf[now] # MDayOf[time]
             THEN /\ CreateFile(dir', now, k)
                  /\ spc' = "append"
                  /\ skewed' = (skewed /\ MonthOf[now] = MonthOf[time])
             ELSE /\ spc' = "write"
                  /\ skewed' = (skewed \/ now # time)
                  /\ UNCHANGED <<files, time, path, fd, gone, raced, aliased, excused>>
  BY DEF WriteData
<1>3. dir' \in Months /\ dirs' \subseteq Months
  BY <1>1, <1>2 DEF CreateMonthDir, FilesTypeOK
<1>4. seen' = now /\ UNCHANGED <<list, web, target, exact, deletes, now, clocks, runs, scan>>
  BY DEF WriteData
<1>5. /\ time' \in Days /\ path' \in Paths \cup {NoPath} /\ fd' \in Paths \cup {NoPath}
      /\ files' \subseteq Paths /\ raced' \subseteq Paths /\ excused' \subseteq Paths
      /\ gone' \in BOOLEAN /\ aliased' \subseteq Paths
  <2>1. CASE MDayOf[now] # MDayOf[time]
    BY <1>1, <1>2, <1>3, <2>1, CreateFileType
  <2>2. CASE MDayOf[now] = MDayOf[time]
    BY <1>2, <2>2 DEF FilesTypeOK
  <2>3. QED
    BY <2>1, <2>2
<1>6. failures' \in 0..MaxFailures
  BY <1>2, CountType
<1>7. spc' \in {"append", "write"} /\ skewed' \in BOOLEAN
  BY <1>2 DEF FilesTypeOK
<1>8. QED
  BY <1>1, <1>3, <1>4, <1>5, <1>6, <1>7 DEF FilesTypeOK

LEMMA ListOfType == ASSUME NEW paths PROVE ListOf(paths) \in [Paths -> Nat]
BY DEF ListOf

LEMMA WriteListType == FilesTypeOK /\ WriteList => FilesTypeOK'
<1> SUFFICES ASSUME FilesTypeOK, WriteList PROVE FilesTypeOK'
  OBVIOUS
<1>1. list' \in {NoList} \cup [Paths -> Nat] /\ excused' \subseteq Paths /\ spc' = "ready"
  BY ListOfType DEF WriteList, FilesTypeOK
<1>2. failures' \in 0..MaxFailures
  BY CountType DEF WriteList
<1>3. UNCHANGED <<files, dirs, storVars, webVars, envVars, scan, seen>>
  BY DEF WriteList
<1>4. QED
  BY <1>1, <1>2, <1>3 DEF FilesTypeOK

(* What is appended to the list is the path of a file.                      *)
AppendsPath == spc = "append" => path \in Paths

LEMMA AppendListType == FilesTypeOK /\ AppendsPath /\ AppendList => FilesTypeOK'
<1> SUFFICES ASSUME FilesTypeOK, AppendsPath, AppendList PROVE FilesTypeOK'
  OBVIOUS
<1>1. list # NoList => [list EXCEPT ![path] = list[path] + 1] \in [Paths -> Nat]
  <2>1. ASSUME list # NoList, path \in Paths
        PROVE  [list EXCEPT ![path] = list[path] + 1] \in [Paths -> Nat]
    BY <2>1 DEF FilesTypeOK
  <2>2. ASSUME list # NoList, path \notin Paths
        PROVE  [list EXCEPT ![path] = list[path] + 1] = list
    BY <2>2 DEF FilesTypeOK
  <2>3. QED
    BY <2>1, <2>2 DEF FilesTypeOK
<1>2. list' \in {NoList} \cup [Paths -> Nat] /\ spc' \in {"idle", "write"}
  BY <1>1 DEF AppendList, FilesTypeOK
<1>3. failures' \in 0..MaxFailures
  BY CountType DEF AppendList
<1>4. excused' \subseteq Paths
  BY DEF AppendList, AppendsPath, FilesTypeOK
<1>6. UNCHANGED <<files, dirs, storVars, webVars, envVars, scan, seen>>
  BY DEF AppendList
<1>5. QED
  BY <1>2, <1>3, <1>4, <1>6 DEF FilesTypeOK

(* Entries go, and never below none.                                        *)
LEMMA LessEntries ==
  ASSUME list \in [Paths -> Nat], NEW t \in Paths, NEW p \in Paths, list[p] > 0
  PROVE  [list EXCEPT ![t] = 0, ![p] = @ - 1] \in [Paths -> Nat]
<1>1. list[p] - 1 \in Nat
  OBVIOUS
<1>2. CASE p = t
  BY <1>2
<1>3. CASE p # t
  BY <1>1, <1>3
<1>4. QED
  BY <1>2, <1>3

LEMMA RemoveEntriesType == FilesTypeOK /\ OpenInv /\ RemoveEntries => FilesTypeOK'
<1> SUFFICES ASSUME FilesTypeOK, OpenInv, RemoveEntries PROVE FilesTypeOK'
  OBVIOUS
<1>1. target \in Paths
  BY DEF RemoveEntries, FilesTypeOK, OpenInv
<1>2. list # NoList => [list EXCEPT ![target] = 0] \in [Paths -> Nat]
  BY DEF FilesTypeOK
<1>3. list' \in {NoList} \cup [Paths -> Nat]
  <2>1. CASE list' \in {list, [list EXCEPT ![target] = 0]} /\ (list' # list => list # NoList)
    BY <2>1, <1>2 DEF FilesTypeOK
  <2>2. CASE \E p \in Paths \ {target} :
               /\ list # NoList /\ list[p] > 0
               /\ list' = [list EXCEPT ![target] = 0, ![p] = @ - 1]
    BY <2>2, <1>1, LessEntries DEF FilesTypeOK
  <2>3. QED
    BY <2>1, <2>2 DEF RemoveEntries
<1>4. excused' \subseteq Paths /\ web' = "idle" /\ target' = NoPath /\ exact' = TRUE
  BY <1>1 DEF RemoveEntries, FilesTypeOK
<1>5. failures' \in 0..MaxFailures
  BY CountType DEF RemoveEntries
<1>6. UNCHANGED <<dirs, time, dir, path, fd, raced, skewed, envVars, spc, scan, seen,
                  files, gone, aliased, deletes>>
  BY DEF RemoveEntries
<1>7. QED
  BY <1>3, <1>4, <1>5, <1>6 DEF FilesTypeOK

LEMMA DeleteListType == FilesTypeOK /\ DeleteList => FilesTypeOK'
<1> SUFFICES ASSUME FilesTypeOK, DeleteList PROVE FilesTypeOK'
  OBVIOUS
<1>1. deletes' \in 0..MaxDeletes
  BY FilesAssumption DEF DeleteList, FilesTypeOK
<1>2. QED
  BY <1>1 DEF DeleteList, FilesTypeOK

LEMMA RestType ==
  ASSUME FilesTypeOK, OpenInv,
         \/ CollectDataFiles \/ Write \/ Stop \/ (\E p \in Paths, own \in BOOLEAN : FilesDelete(p, own)) \/ Remove
         \/ SetClock \/ Restart \/ UNCHANGED filesVars
  PROVE  FilesTypeOK'
<1>1. CASE CollectDataFiles
  <2>1. failures' \in 0..MaxFailures
    BY <1>1, CountType DEF CollectDataFiles
  <2>2. QED
    BY <2>1, <1>1 DEF CollectDataFiles, FilesTypeOK
<1>9. CASE Write
  BY <1>9 DEF Write, FilesTypeOK
<1>2. CASE Stop
  BY <1>2 DEF Stop, FilesTypeOK
<1>3. CASE \E p \in Paths, own \in BOOLEAN : FilesDelete(p, own)
  <2>1. PICK p \in Paths, own \in BOOLEAN : DeletionOf(p, own)
    BY <1>3 DEF FilesDelete
  <2>2. deletes' \in 0..MaxDeletes /\ target' \in Paths /\ exact' \in BOOLEAN
    BY <2>1, FilesAssumption DEF DeletionOf, FilesTypeOK
  <2>3. QED
    BY <2>1, <2>2 DEF DeletionOf, FilesTypeOK
<1>4. CASE Remove
  <2>1. target \in Paths
    BY <1>4 DEF Remove, FilesTypeOK, OpenInv
  <2>2. files' \subseteq Paths /\ web' \in {"idle", "unlist"} /\ gone' \in BOOLEAN
        /\ aliased' \subseteq Paths /\ excused' \subseteq Paths
        /\ target' \in {target, NoPath} /\ exact' \in {exact, TRUE}
    BY <1>4, <2>1 DEF Remove, FilesTypeOK
  <2>3. failures' \in 0..MaxFailures
    BY <1>4, CountType DEF Remove
  <2>4. UNCHANGED <<dirs, time, dir, path, fd, raced, skewed, envVars, spc, scan, seen,
                    list, deletes>>
    BY <1>4 DEF Remove
  <2>5. QED
    BY <2>1, <2>2, <2>3, <2>4 DEF FilesTypeOK
<1>5. CASE SetClock
  <2>1. clocks' \in 0..MaxClock
    BY <1>5, FilesAssumption DEF SetClock, FilesTypeOK
  <2>2. QED
    BY <2>1, <1>5 DEF SetClock, FilesTypeOK
<1>6. CASE Restart
  <2>1. runs' \in 1..MaxRuns /\ MonthOf[now] \in Months
    BY <1>6, FilesAssumption, PathIsPath DEF Restart, FilesTypeOK
  <2>2. QED
    BY <2>1, <1>6 DEF Restart, FilesTypeOK
<1>7. CASE UNCHANGED filesVars
  BY <1>7 DEF filesVars, FilesTypeOK
<1>8. QED
  BY <1>1, <1>2, <1>3, <1>4, <1>5, <1>6, <1>7, <1>9

LEMMA AppendsPathKept ==
  FilesTypeOK /\ AppendsPath /\ [FilesNext]_filesVars => AppendsPath'
<1> SUFFICES ASSUME FilesTypeOK, AppendsPath, [FilesNext]_filesVars, spc' = "append"
             PROVE  path' \in Paths
  BY DEF AppendsPath
<1>1. now \in Days /\ MonthOf[now] \in Months /\ dir \in Months
  BY PathIsPath DEF FilesTypeOK
<1>2. CASE Start
  BY <1>1, <1>2, CreateFileType DEF Start
<1>3. CASE WriteData
  <2>1. dir' \in Months
    BY <1>1, <1>3 DEF WriteData, CreateMonthDir
  <2>2. QED
    BY <1>1, <1>3, <2>1, CreateFileType DEF WriteData
<1>4. CASE CollectDataFiles \/ WriteList \/ AppendList \/ Write \/ Stop \/ Restart
  BY <1>4 DEF CollectDataFiles, WriteList, AppendList, Write, Stop, Restart
<1>5. CASE \/ \E p \in Paths, own \in BOOLEAN : FilesDelete(p, own)
           \/ Remove \/ RemoveEntries \/ DeleteList \/ SetClock \/ UNCHANGED filesVars
  BY <1>5 DEF FilesDelete, DeletionOf, Remove, RemoveEntries, DeleteList, SetClock, filesVars,
              AppendsPath
<1>6. QED
  BY <1>2, <1>3, <1>4, <1>5 DEF FilesNext

(* Every variable of the storage, the folder and the web thread keeps its   *)
(* type; the list counts the entries of paths only.                         *)
THEOREM FilesTypeCorrect == FilesSpec => []FilesTypeOK
<1>1. FilesInit => FilesTypeOK
  <2> SUFFICES ASSUME FilesInit PROVE FilesTypeOK
    OBVIOUS
  <2>1. dir \in Months
    BY DEF FilesInit, Months
  <2>2. clocks \in 0..MaxClock /\ failures \in 0..MaxFailures /\ deletes \in 0..MaxDeletes
    BY FilesAssumption DEF FilesInit
  <2>3. runs \in 1..MaxRuns
    BY FilesAssumption DEF FilesInit
  <2>4. QED
    BY <2>1, <2>2, <2>3 DEF FilesInit, FilesTypeOK
<1>2. FilesTypeOK /\ AppendsPath /\ OpenInv /\ [FilesNext]_filesVars => FilesTypeOK'
  BY StartType, WriteType, WriteListType, AppendListType, RemoveEntriesType, DeleteListType,
     RestType DEF FilesNext
<1>3. FilesInit => AppendsPath
  BY DEF FilesInit, AppendsPath
<1>4. QED
  BY <1>1, <1>2, <1>3, AppendsPathKept, FilesInv, PTL DEF FilesSpec
-----------------------------------------------------------------------------
(* The list.                                                                *)

Listed == {"ready", "append", "write", "idle", "stopped"}
Unlisting(p) == web = "unlist" /\ target = p
Appending(p) == spc = "append" /\ path = p

(* What was collected is what is there, and from WriteList on the list says *)
(* so, except for the file that is about to be appended, which is there if  *)
(* it is not deleted under another spelling, and the one whose entries are  *)
(* about to be removed, which is not.                                       *)
SyncInv ==
  /\ spc = "off" => excused = {}
  /\ spc = "listing" => \A p \in Paths \ excused : (p \in scan) = (p \in files)
  /\ (web = "unlist" /\ target \notin excused) => target \notin files
  /\ (spc = "append" /\ path \notin excused) =>
       /\ path \in files \/ (Unlisting(path) /\ ~exact)
       /\ (web # "idle" /\ exact) => target # path
  /\ (spc \in Listed /\ list # NoList) =>
       \A p \in Paths \ excused :
         ~Unlisting(p) /\ ~Appending(p) => (list[p] > 0) = (p \in files)

USE DEF Unlisting, Appending

LEMMA SyncMeans == SyncInv => ListInSync
BY DEF SyncInv, ListInSync, Listed

(* What create_file does to the list's view of the files: only its own path *)
(* changes, it is there, or excused when a deletion of it is under way.     *)
LEMMA CreateFileSync ==
  ASSUME NEW m, NEW d, NEW n \in {0, 1}, CreateFile(m, d, n)
  PROVE  /\ path' \notin excused' => path' \in files' /\ (web # "idle" => target # path')
         /\ files \subseteq files' /\ files' \subseteq files \cup {path'}
         /\ excused \subseteq excused'
         /\ (web # "idle" /\ target = path' /\ files' # files) => path' \in excused'
<1> DEFINE p == [dir |-> m, day |-> d]
           racing == IF web # "idle" /\ target = p THEN {p} ELSE {}
<1>1. path' = p
  BY DEF CreateFile
<1>2. CASE files' = files \cup {p} /\ excused' = excused \cup racing
  BY <1>1, <1>2
<1>3. CASE excused' = excused \cup {p} /\ UNCHANGED files
  BY <1>1, <1>3
<1>4. QED
  BY <1>2, <1>3 DEF CreateFile

(* A step of the storage's thread that creates a file, or none.             *)
LEMMA CreateSync ==
  ASSUME FilesTypeOK, SyncInv, spc \in {"ready", "idle"}, UNCHANGED <<list, web, target>>,
         \/ /\ spc' = "append"
            /\ \E m \in Months, d \in Days, n \in {0, 1} : CreateFile(m, d, n)
         \/ spc' \in {"idle", "write"} /\ UNCHANGED <<files, excused>>
  PROVE  SyncInv'
<1>1. CASE spc' = "append"
  <2>1. PICK m \in Months, d \in Days, n \in {0, 1} : CreateFile(m, d, n)
    BY <1>1
  <2>2. /\ path' \notin excused' => path' \in files' /\ (web # "idle" => target # path')
        /\ files \subseteq files' /\ files' \subseteq files \cup {path'}
        /\ excused \subseteq excused'
        /\ (web # "idle" /\ target = path' /\ files' # files) => path' \in excused'
    BY <2>1, CreateFileSync
  <2>3. (web' = "unlist" /\ target' \notin excused') => target' \notin files'
    BY <2>2 DEF SyncInv
  <2>4. list # NoList =>
          \A p \in Paths \ excused' :
            ~(Unlisting(p))' /\ ~(Appending(p))' => (list'[p] > 0) = (p \in files')
    BY <1>1, <2>2 DEF SyncInv, Listed
  <2>5. QED
    BY <1>1, <2>2, <2>3, <2>4 DEF SyncInv
<1>2. CASE spc' \in {"idle", "write"} /\ UNCHANGED <<files, excused>>
  BY <1>2 DEF SyncInv, Listed
<1>3. QED
  BY <1>1, <1>2

LEMMA StorageSync == FilesTypeOK /\ SyncInv /\ (Start \/ WriteData) => SyncInv'
<1> SUFFICES ASSUME FilesTypeOK, SyncInv, Start \/ WriteData PROVE SyncInv'
  OBVIOUS
<1>1. now \in Days /\ MonthOf[now] \in Months /\ dir \in Months
  BY PathIsPath DEF FilesTypeOK
<1>2. spc \in {"ready", "idle"} /\ UNCHANGED <<list, web, target>>
  BY DEF Start, WriteData
<1>3. dir' \in Months
  BY <1>1 DEF Start, WriteData, CreateMonthDir
<1>4. \/ /\ spc' = "append"
         /\ \E m \in Months, d \in Days, n \in {0, 1} : CreateFile(m, d, n)
      \/ spc' \in {"idle", "write"} /\ UNCHANGED <<files, excused>>
  <2>1. CASE Start
    BY <1>1, <2>1 DEF Start
  <2>2. CASE WriteData
    BY <1>1, <1>3, <2>2 DEF WriteData
  <2>3. QED
    BY <2>1, <2>2
<1>5. QED
  BY <1>2, <1>4, CreateSync

LEMMA ListSync ==
  ASSUME FilesTypeOK, SyncInv, CollectDataFiles \/ WriteList \/ AppendList
  PROVE  SyncInv'
<1>1. CASE CollectDataFiles
  <2>1. /\ spc' = "listing" /\ excused = {}
        /\ (scan' = files /\ excused' = {}) \/ (scan' = {} /\ excused' = files)
        /\ UNCHANGED <<files, web, target>>
    BY <1>1 DEF CollectDataFiles, SyncInv
  <2>2. QED
    BY <2>1 DEF SyncInv, Listed
<1>2. CASE WriteList
  <2>1. spc = "listing" /\ spc' = "ready" /\ UNCHANGED <<files, web, target>>
    BY <1>2 DEF WriteList
  <2>2. CASE list' = ListOf(scan) /\ UNCHANGED excused
    <3>1. \A p \in Paths : (list'[p] > 0) = (p \in scan)
      BY <2>2 DEF ListOf
    <3>2. QED
      BY <2>1, <2>2, <3>1 DEF SyncInv, Listed
  <2>5. CASE \E q \in scan : list' = ListOf(scan \ {q}) /\ excused' = excused \cup {q}
    <3>1. PICK q \in scan : list' = ListOf(scan \ {q}) /\ excused' = excused \cup {q}
      BY <2>5
    <3>2. \A p \in Paths \ {q} : (list'[p] > 0) = (p \in scan)
      BY <3>1 DEF ListOf
    <3>3. QED
      BY <2>1, <3>1, <3>2 DEF SyncInv, Listed
  <2>3. CASE excused' = Paths
    <3>1. web' = "unlist" => target' \in Paths \cup {NoPath}
      BY <2>1 DEF FilesTypeOK
    <3>2. NoPath \notin files'
      BY <2>1, FilesAssumption DEF FilesTypeOK
    <3>3. QED
      BY <2>1, <2>3, <3>1, <3>2 DEF SyncInv
  <2>4. QED
    BY <1>2, <2>2, <2>3, <2>5 DEF WriteList
<1>3. CASE AppendList
  <2>1. /\ spc = "append" /\ spc' \in {"idle", "write"}
        /\ UNCHANGED <<files, web, target, path>>
    BY <1>3 DEF AppendList
  <2>2. CASE excused' = excused /\ list' = IF list = NoList THEN NoList
                                           ELSE [list EXCEPT ![path] = list[path] + 1]
    <3>1. ASSUME list # NoList, NEW p \in Paths \ excused, ~Unlisting(p)
          PROVE  (list'[p] > 0) = (p \in files)
      <4>1. list \in [Paths -> Nat]
        BY <3>1 DEF FilesTypeOK
      <4>2. CASE p = path
        <5>1. list'[p] = list[p] + 1 /\ list[p] \in Nat
          BY <2>2, <3>1, <4>1, <4>2
        <5>2. p \in files
          BY <2>1, <3>1, <4>2 DEF SyncInv
        <5>3. QED
          BY <5>1, <5>2
      <4>3. CASE p # path
        <5>1. list'[p] = list[p]
          BY <2>2, <3>1, <4>1, <4>3
        <5>2. QED
          BY <5>1, <2>1, <3>1, <4>3 DEF SyncInv, Listed
      <4>4. QED
        BY <4>2, <4>3
    <3>2. list' # NoList => list # NoList
      BY <2>2
    <3>3. QED
      BY <2>1, <2>2, <3>1, <3>2 DEF SyncInv
  <2>3. CASE excused' = excused \cup {path} /\ list' = list
    BY <2>1, <2>3 DEF SyncInv, Listed
  <2>4. QED
    BY <1>3, <2>2, <2>3 DEF AppendList
<1>4. QED
  BY <1>1, <1>2, <1>3

(* The web thread: the entries of a file go after the file.                 *)
LEMMA WebSync ==
  ASSUME FilesTypeOK, OpenInv, SyncInv,
         (\E p \in Paths, own \in BOOLEAN : FilesDelete(p, own)) \/ Remove \/ RemoveEntries \/ DeleteList
  PROVE  SyncInv'
<1>1. CASE \E p \in Paths, own \in BOOLEAN : FilesDelete(p, own)
  <2>1. PICK p \in Paths, own \in BOOLEAN : FilesDelete(p, own)
    BY <1>1
  <2>2. /\ web = "idle" /\ web' = "remove" /\ target' = p /\ exact' = own
        /\ spc = "off" \/ ~own \/ p # path
        /\ UNCHANGED <<files, list, path, spc, scan, excused>>
    BY <2>1 DEF FilesDelete, DeletionOf
  <2>3. QED
    BY <2>2 DEF SyncInv
<1>2. CASE Remove
  <2>1. web = "remove" /\ UNCHANGED <<path, spc, scan, list>>
    BY <1>2 DEF Remove
  <2>2. CASE web' = "idle" /\ UNCHANGED <<files, excused>>
    BY <2>1, <2>2 DEF SyncInv, Listed
  <2>3. CASE /\ web' = "unlist" /\ files' = files \ {target} /\ UNCHANGED <<target, exact>>
             /\ excused' = (IF spc = "listing" THEN excused \cup {target} ELSE excused)
    <3>1. spc = "off" => excused' = {}
      BY <2>1, <2>3 DEF SyncInv
    <3>2. spc = "listing" => \A p \in Paths \ excused' : (p \in scan') = (p \in files')
      BY <2>1, <2>3 DEF SyncInv
    <3>3. (spc = "append" /\ path \notin excused') =>
            /\ path \in files' \/ (target = path /\ ~exact)
            /\ exact => target # path
      BY <2>1, <2>3 DEF SyncInv
    <3>4. (spc \in Listed /\ list # NoList) =>
            \A p \in Paths \ excused' :
              ~(Unlisting(p))' /\ ~(Appending(p))' => (list[p] > 0) = (p \in files')
      BY <2>1, <2>3 DEF SyncInv, Listed
    <3>5. QED
      BY <2>1, <2>3, <3>1, <3>2, <3>3, <3>4 DEF SyncInv
  <2>4. QED
    BY <1>2, <2>2, <2>3 DEF Remove
<1>3. CASE RemoveEntries
  <2>1. /\ web = "unlist" /\ web' = "idle" /\ excused \subseteq excused'
        /\ UNCHANGED <<files, path, spc, scan>>
        /\ spc = "off" => excused' = excused
    BY <1>3 DEF RemoveEntries
  <2>2. target \in Paths
    BY <2>1 DEF OpenInv, FilesTypeOK
  <2>3. \/ spc = "off" \/ list = NoList
        \/ /\ list[target] > 0 /\ exact /\ excused' = excused
           /\ list' = [list EXCEPT ![target] = 0]
        \/ /\ exact /\ ~(list[target] > 0) /\ UNCHANGED <<list, excused>>
        \/ list' = list /\ excused' = excused \cup {target}
        \/ \E q \in Paths \ {target} :
             /\ exact /\ list' = [list EXCEPT ![target] = 0, ![q] = @ - 1]
             /\ excused' = excused \cup {q}
    BY <1>3 DEF RemoveEntries
  <2>4. list' # NoList => list # NoList
    BY <1>3 DEF RemoveEntries
  <2>5. ASSUME spc \in Listed, list' # NoList, NEW p \in Paths \ excused', ~Appending(p)
        PROVE  (list'[p] > 0) = (p \in files)
    <3>1. list # NoList /\ spc # "off" /\ p \notin excused
      BY <2>1, <2>4, <2>5 DEF Listed
    <3>2. list \in [Paths -> Nat]
      BY <3>1 DEF FilesTypeOK
    <3>3. CASE p = target
      <4>1. p \notin files
        BY <2>1, <3>1, <3>3 DEF SyncInv
      <4>2. ~(list'[p] > 0)
        BY <2>2, <2>3, <2>5, <3>1, <3>2, <3>3
      <4>3. QED
        BY <4>1, <4>2
    <3>4. CASE p # target
      <4>1. list'[p] = list[p]
        BY <2>2, <2>3, <2>5, <3>1, <3>2, <3>4
      <4>2. QED
        BY <4>1, <2>1, <2>5, <3>1, <3>4 DEF SyncInv
    <3>5. QED
      BY <3>3, <3>4
  <2>6. spc = "append" /\ path \notin excused' => path \in files
    BY <1>3, <2>1, <2>2 DEF SyncInv, RemoveEntries
  <2>7. QED
    BY <2>1, <2>5, <2>6 DEF SyncInv
<1>4. CASE DeleteList
  <2>1. web = "idle" /\ list' = NoList /\ UNCHANGED <<files, web, target, excused, path, spc, scan>>
    BY <1>4 DEF DeleteList
  <2>2. QED
    BY <2>1 DEF SyncInv
<1>5. QED
  BY <1>1, <1>2, <1>3, <1>4

LEMMA RestSync ==
  ASSUME SyncInv, Write \/ Stop \/ SetClock \/ Restart \/ UNCHANGED filesVars
  PROVE  SyncInv'
<1>1. CASE Write \/ Stop
  BY <1>1 DEF Write, Stop, SyncInv, Listed
<1>2. CASE SetClock \/ UNCHANGED filesVars
  BY <1>2 DEF SetClock, filesVars, SyncInv
<1>3. CASE Restart
  BY <1>3 DEF Restart, SyncInv, Listed
<1>4. QED
  BY <1>1, <1>2, <1>3

(* Whenever no deletion and no create_file is under way, the list names the *)
(* files that are there, but for the excused ones (prepare_data_files_list, *)
(* append_data_files_list, remove_data_files_list).                         *)
THEOREM ListCorrect == FilesSpec => []ListInSync
<1>1. FilesInit => SyncInv
  BY DEF FilesInit, SyncInv, Listed
<1>2. FilesTypeOK /\ OpenInv /\ SyncInv /\ [FilesNext]_filesVars => SyncInv'
  BY StorageSync, ListSync, WebSync, RestSync DEF FilesNext
<1>3. QED
  BY <1>1, <1>2, SyncMeans, FilesInv, FilesTypeCorrect, PTL DEF FilesSpec
-----------------------------------------------------------------------------
(* The MQTT client *)

USE DEF pubVars, netVars, workVars, ownVars, Alive, WorkerAt, OwnerAt

(* The type, from the first state on.                                       *)
LEMMA InitType == Init => TypeOK
<1> SUFFICES ASSUME Init PROVE TypeOK
  OBVIOUS
<1>1. MaxSize \in Nat \ {0} /\ Slots = 0 .. MaxSize - 1
  BY BufferAssumption DEF Slots
<1>2. 0 \in Slots /\ 0 \in 0..MaxSize
  BY <1>1
<1>3. messages \in Buffers
  BY <1>2 DEF Init, NewBuffer, Buffers
<1>4. queued \in Seq(Values)
  BY DEF Init
<1>5. sent \in Seq(Values)
  BY DEF Init
<1>6. puts \in 0..MaxPublish /\ losses \in 0..MaxLosses
  BY MqttAssumption DEF Init
<1>7. QED
  BY <1>3, <1>4, <1>5, <1>6 DEF Init, TypeOK

(* The next message is a value.                                             *)
LEMMA NextMessage ==
  ASSUME TypeOK, puts < MaxPublish
  PROVE  puts + 1 \in Values /\ puts + 1 \in 0..MaxPublish
BY MqttAssumption DEF TypeOK

(* The steps of the publishing thread and of the library keep the type ...  *)
LEMMA OutsideType ==
  ASSUME TypeOK, PutMessage \/ Notify \/ OnConnect \/ Lose \/ OnDisconnect
  PROVE  TypeOK'
<1>1. CASE PutMessage
  <2>1. puts + 1 \in Values /\ puts' \in 0..MaxPublish
    BY <1>1, NextMessage DEF PutMessage
  <2>2. messages' \in Buffers
    BY <2>1, <1>1, PutType DEF PutMessage, TypeOK
  <2>3. Append(queued, puts + 1) \in Seq(Values)
    BY <2>1, AppendProperties DEF TypeOK
  <2>4. queued' \in Seq(Values)
    BY <2>3, <1>1 DEF PutMessage, TypeOK
  <2>5. filled' \in BOOLEAN
    BY <1>1 DEF PutMessage, TypeOK
  <2>6. QED
    BY <2>1, <2>2, <2>4, <2>5, <1>1 DEF PutMessage, TypeOK
<1>2. CASE Notify
  <2>1. wpc' \in {wpc, "wait"} /\ ppc' = "idle"
    BY <1>2 DEF Notify, Wake
  <2>2. missed' \in BOOLEAN
    BY <1>2 DEF Notify, TypeOK
  <2>3. UNCHANGED <<messages, puts, filled, netVars, item, sent, ownVars, queued, quiet>>
    BY <1>2 DEF Notify
  <2>4. QED
    BY <2>1, <2>2, <2>3 DEF TypeOK
<1>3. CASE OnConnect
  <2>1. quiet' \in BOOLEAN
    BY <1>3 DEF OnConnect, TypeOK
  <2>2. QED
    BY <2>1, <1>3 DEF OnConnect, NetStep, TypeOK
<1>4. CASE Lose
  <2>1. losses' \in 0..MaxLosses
    BY <1>4, MqttAssumption DEF Lose, TypeOK
  <2>2. QED
    BY <2>1, <1>4 DEF Lose, NetStep, TypeOK
<1>5. CASE OnDisconnect
  <2>1. net' \in {"connecting", "off"} /\ connected' \in BOOLEAN
    BY <1>5 DEF OnDisconnect
  <2>2. UNCHANGED <<messages, pubVars, workVars, ownVars, queued, missed, wanted, losses, quiet>>
    BY <1>5 DEF OnDisconnect, NetStep
  <2>3. QED
    BY <2>1, <2>2 DEF TypeOK
<1>6. QED
  BY <1>1, <1>2, <1>3, <1>4, <1>5

(* ... and so do those of the worker and of stop.                           *)
LEMMA InsideType ==
  ASSUME TypeOK,
         \/ WorkerStep \/ SpuriousWakeup
         \/ EmptyQueue \/ StopDisconnects \/ SetStopSignal \/ Join
  PROVE  TypeOK'
<1>1. CASE Connect \/ OuterLoop \/ Check \/ Sleep \/ InnerLoop \/ SpuriousWakeup
  <2>1. /\ wpc' \in {"top", "leave", "wait", "inner", "prewait", "asleep", "get"}
        /\ net' \in {net, "connecting"}
        /\ UNCHANGED <<messages, pubVars, item, sent, ownVars, queued,
                       connected, wanted, losses>>
    BY <1>1 DEF Connect, OuterLoop, Check, Sleep, InnerLoop, SpuriousWakeup
  <2>2. missed' \in BOOLEAN /\ quiet' \in BOOLEAN
    BY <1>1 DEF Connect, OuterLoop, Check, Sleep, InnerLoop, SpuriousWakeup, TypeOK
  <2>3. QED
    BY <2>1, <2>2 DEF TypeOK
<1>2. CASE GetMessage
  <2>1. messages' \in Buffers /\ item' \in Values \cup {Empty}
    BY <1>2, GetType DEF GetMessage, TypeOK
  <2>2. queued' \in Seq(Values)
    BY <1>2, HeadTailProperties DEF GetMessage, TypeOK
  <2>3. QED
    BY <2>1, <2>2, <1>2 DEF GetMessage, TypeOK
<1>3. CASE SendMessage
  <2>1. sent' \in Seq(Values)
    BY <1>3, AppendProperties DEF SendMessage, TypeOK
  <2>2. QED
    BY <2>1, <1>3 DEF SendMessage, TypeOK
<1>4. ASSUME Disconnect PROVE /\ wanted' \in BOOLEAN /\ connected' \in BOOLEAN
                              /\ net' \in {net, "closing"} /\ losses' = losses
  BY <1>4 DEF Disconnect, TypeOK
<1>5. CASE Leave
  BY <1>5, <1>4 DEF Leave, TypeOK
<1>6. CASE StopDisconnects
  BY <1>6, <1>4 DEF StopDisconnects, TypeOK
<1>7. CASE EmptyQueue
  <2>1. messages' \in Buffers
    <3>1. messages.head \in Slots /\ 0 \in 0..MaxSize
      BY BufferAssumption DEF TypeOK, Buffers
    <3>2. QED
      BY <3>1, <1>7 DEF EmptyQueue, Clear, TypeOK, Buffers
  <2>2. queued' \in Seq(Values)
    BY <1>7 DEF EmptyQueue
  <2>3. QED
    BY <2>1, <2>2, <1>7 DEF EmptyQueue, TypeOK
<1>8. CASE SetStopSignal
  BY <1>8 DEF SetStopSignal, Wake, TypeOK
<1>9. CASE Join
  BY <1>9 DEF Join, TypeOK
<1>10. QED
  BY <1>1, <1>2, <1>3, <1>5, <1>6, <1>7, <1>8, <1>9 DEF WorkerStep

(* Every variable of the client keeps its type.                             *)
THEOREM MqttTypeCorrect == Spec => []TypeOK
<1>1. TypeOK /\ [Next]_vars => TypeOK'
  <2> SUFFICES ASSUME TypeOK, [Next]_vars PROVE TypeOK'
    OBVIOUS
  <2>1. CASE UNCHANGED vars
    BY <2>1 DEF vars, TypeOK
  <2>2. QED
    BY <2>1, OutsideType, InsideType DEF Next
<1>2. QED
  BY <1>1, InitType, PTL DEF Spec
-----------------------------------------------------------------------------
(* The connection.                                                          *)

(* m_connected is only set while the library has a connection or does not   *)
(* know yet that it was lost, and a client that was asked to disconnect     *)
(* does not connect again.                                                  *)
NetInv ==
  /\ connected => net \in {"up", "lost"}
  /\ ~wanted => net \in {"closing", "lost", "off"}
  /\ wpc = "connect" => wanted /\ ~connected /\ net = "off"

(* A client whose stop or worker disconnected it stays offline.             *)
THEOREM OfflineCorrect == Spec => []StoppedIsOffline
<1>1. Init => NetInv
  BY DEF Init, NetInv
<1>2. TypeOK /\ NetInv /\ [Next]_vars => NetInv'
  <2> SUFFICES ASSUME TypeOK, NetInv, [Next]_vars PROVE NetInv'
    OBVIOUS
  <2> USE DEF NetInv
  <2>1. CASE OnConnect \/ Lose \/ OnDisconnect
    <3>2. CASE OnConnect
      BY <3>2 DEF OnConnect, NetStep
    <3>3. CASE Lose
      BY <3>3 DEF Lose, NetStep
    <3>4. CASE OnDisconnect
      BY <3>4 DEF OnDisconnect, NetStep, TypeOK
    <3>5. QED
      BY <2>1, <3>2, <3>3, <3>4
  <2>2. ASSUME connected, Disconnect, wpc' # "connect"
        PROVE  NetInv'
    BY <2>2 DEF Disconnect, TypeOK
  <2>3. CASE Leave
    BY <2>2, <2>3 DEF Leave
  <2>4. CASE StopDisconnects
    BY <2>2, <2>4 DEF StopDisconnects
  <2>5. CASE Connect
    BY <2>5 DEF Connect
  <2>6. CASE \/ OuterLoop \/ Check \/ Sleep \/ InnerLoop \/ GetMessage \/ SendMessage
             \/ SpuriousWakeup
    BY <2>6 DEF OuterLoop, Check, Sleep, InnerLoop, GetMessage, SendMessage, SpuriousWakeup
  <2>7. CASE PutMessage \/ Notify \/ EmptyQueue \/ SetStopSignal \/ Join
    <3>1. UNCHANGED netVars
      BY <2>7 DEF PutMessage, Notify, EmptyQueue, SetStopSignal, Join
    <3>2. wpc' = wpc \/ wpc' = "wait"
      BY <2>7 DEF PutMessage, Notify, EmptyQueue, SetStopSignal, Join, Wake
    <3>3. QED
      BY <3>1, <3>2
  <2>8. CASE UNCHANGED vars
    BY <2>8 DEF vars
  <2>9. QED
    BY <2>1, <2>3, <2>4, <2>5, <2>6, <2>7, <2>8 DEF Next, WorkerStep
<1>3. NetInv => StoppedIsOffline
  BY DEF NetInv, StoppedIsOffline
<1>4. QED
  BY <1>1, <1>2, <1>3, MqttTypeCorrect, PTL DEF Spec
-----------------------------------------------------------------------------
(* The null message.                                                        *)

(* The buffer counts what is queued and, unless it was full, holds it in    *)
(* order. Only the worker takes, so that what it found in the buffer is     *)
(* still there when it gets it, unless stop emptied the buffer.             *)
QueueInv ==
  /\ messages.size = Len(queued)
  /\ ~filled => HoldsInOrder(messages, queued)

HandInv ==
  /\ wpc = "get" => queued # <<>> \/ owner # "running"
  /\ wpc = "put" => item # Empty \/ owner # "running" \/ filled
  /\ NullOnlyByStop

USE DEF NullOnlyByStop

LEMMA InitQueue == Init => QueueInv /\ HandInv
<1> SUFFICES ASSUME Init PROVE QueueInv /\ HandInv
  OBVIOUS
<1>1. messages.head \in Slots /\ messages.tail = messages.head /\ messages.size = 0
  BY BufferAssumption DEF Init, NewBuffer, Slots
<1>2. QueueInv
  BY <1>1, NoneInOrder DEF Init, QueueInv
<1>3. HandInv
  BY DEF Init, HandInv
<1>4. QED
  BY <1>2, <1>3

LEMMA PutQueue == TypeOK /\ QueueInv /\ PutMessage => QueueInv'
<1> SUFFICES ASSUME TypeOK, QueueInv, PutMessage PROVE QueueInv'
  OBVIOUS
<1> DEFINE v == puts + 1
<1>1. /\ messages \in Buffers /\ v \in Values /\ queued \in Seq(Values)
      /\ messages.size = Len(queued)
  BY NextMessage DEF PutMessage, TypeOK, QueueInv
<1>2. messages.size \in 0..MaxSize /\ MaxSize \in Nat \ {0}
  BY <1>1, BufferAssumption DEF Buffers
<1>3. Len(Append(queued, v)) = Len(queued) + 1
  BY <1>1, AppendProperties
<1>4. messages'.size = Len(queued')
  BY <1>1, <1>2, <1>3 DEF PutMessage, Put, IsFull
<1>5. ASSUME ~filled' PROVE HoldsInOrder(messages', queued')
  <2>1. ~filled /\ ~(messages.size + 1 >= MaxSize)
    BY <1>5 DEF PutMessage, TypeOK
  <2>2. messages.size + 1 < MaxSize /\ ~IsFull(messages)
    BY <2>1, <1>2 DEF IsFull
  <2>3. HoldsInOrder(messages, queued)
    BY <2>1 DEF QueueInv
  <2>4. HoldsInOrder(Put(messages, v), Append(queued, v))
    BY <2>2, <2>3, <1>1, PutInOrder
  <2>5. QED
    BY <2>2, <2>4 DEF PutMessage
<1>6. QED
  BY <1>4, <1>5 DEF QueueInv

LEMMA GetQueue == TypeOK /\ QueueInv /\ HandInv /\ GetMessage => QueueInv' /\ HandInv'
<1> SUFFICES ASSUME TypeOK, QueueInv, HandInv, GetMessage PROVE QueueInv' /\ HandInv'
  OBVIOUS
<1>1. /\ messages \in Buffers /\ queued \in Seq(Values)
      /\ messages.size = Len(queued)
      /\ ~filled => HoldsInOrder(messages, queued)
  BY DEF TypeOK, QueueInv
<1>2. /\ messages' = Get(messages) /\ item' = Got(messages) /\ wpc = "get"
      /\ wpc' = "put" /\ filled' = filled /\ owner' = owner
  BY DEF GetMessage
<1>3. CASE queued = <<>>
  <2>1. messages.size = 0 /\ queued' = queued
    BY <1>1, <1>3 DEF GetMessage
  <2>2. messages'.size = 0 /\ messages'.head = messages.head /\ messages'.tail = messages.tail
    BY <2>1, <1>2 DEF Get, IsEmpty
  <2>3. QueueInv'
    BY <2>1, <2>2, <1>1, <1>2, <1>3 DEF QueueInv, HoldsInOrder
  <2>4. owner' # "running"
    BY <1>2, <1>3 DEF HandInv
  <2>5. QED
    BY <2>3, <2>4, <1>2 DEF HandInv
<1>4. CASE queued # <<>>
  <2>1. /\ Len(queued) \in Nat \ {0} /\ Len(Tail(queued)) = Len(queued) - 1
        /\ Head(queued) \in Values
    BY <1>1, <1>4, HeadTailProperties, EmptySeq
  <2>2. queued' = Tail(queued)
    BY <1>4 DEF GetMessage
  <2>3. messages'.size = Len(queued')
    BY <2>1, <2>2, <1>1, <1>2 DEF Get, IsEmpty
  <2>4. ~filled => Got(messages) = Head(queued) /\ HoldsInOrder(Get(messages), Tail(queued))
    BY <1>1, <1>4, GetInOrder
  <2>5. QueueInv'
    BY <2>2, <2>3, <2>4, <1>2 DEF QueueInv
  <2>6. ~filled => item' # Empty
    BY <2>1, <2>4, <1>2, BufferAssumption
  <2>7. QED
    BY <2>5, <2>6, <1>2 DEF HandInv
<1>5. QED
  BY <1>3, <1>4

LEMMA EmptyQueueQueue == TypeOK /\ EmptyQueue => QueueInv' /\ HandInv'
<1> SUFFICES ASSUME TypeOK, EmptyQueue PROVE QueueInv' /\ HandInv'
  OBVIOUS
<1>1. /\ messages'.size = 0 /\ messages'.head = messages.head
      /\ messages'.tail = messages.head /\ messages.head \in Slots
  BY DEF EmptyQueue, Clear, TypeOK, Buffers
<1>2. QueueInv'
  BY <1>1, NoneInOrder DEF EmptyQueue, QueueInv
<1>3. HandInv'
  BY DEF EmptyQueue, HandInv
<1>4. QED
  BY <1>2, <1>3

(* The other steps leave the buffer, and stop, once it began, goes on.      *)
LEMMA RestQueue ==
  ASSUME TypeOK, QueueInv, HandInv,
         \/ Notify \/ OnConnect \/ Lose \/ OnDisconnect
         \/ Connect \/ OuterLoop \/ Check \/ Sleep \/ InnerLoop \/ SendMessage \/ Leave
         \/ SpuriousWakeup \/ StopDisconnects \/ SetStopSignal \/ Join
         \/ UNCHANGED vars
  PROVE  QueueInv' /\ HandInv'
<1>1. UNCHANGED <<messages, queued, filled, item>>
  BY DEF Notify, OnConnect, Lose, OnDisconnect, NetStep, Connect, OuterLoop, Check, Sleep,
    InnerLoop, SendMessage, Leave, SpuriousWakeup, StopDisconnects, SetStopSignal, Join, vars
<1>2. owner # "running" => owner' # "running"
  BY DEF Notify, OnConnect, Lose, OnDisconnect, NetStep, Connect, OuterLoop, Check, Sleep,
    InnerLoop, SendMessage, Leave, SpuriousWakeup, StopDisconnects, SetStopSignal, Join, vars
<1>3. /\ wpc' = "put" => wpc = "put"
      /\ wpc' = "crashed" => wpc = "crashed" \/ (wpc = "put" /\ item = Empty)
  BY DEF Notify, OnConnect, Lose, OnDisconnect, NetStep, Connect, OuterLoop, Check, Sleep,
    InnerLoop, SendMessage, Leave, SpuriousWakeup, StopDisconnects, SetStopSignal, Join, vars,
    Wake
<1>4. wpc' = "get" => wpc = "get" \/ ~IsEmpty(messages)
  BY DEF Notify, OnConnect, Lose, OnDisconnect, NetStep, Connect, OuterLoop, Check, Sleep,
    InnerLoop, SendMessage, Leave, SpuriousWakeup, StopDisconnects, SetStopSignal, Join, vars,
    Wake
<1>5. ~IsEmpty(messages) => queued # <<>>
  BY DEF IsEmpty, QueueInv
<1>6. QueueInv'
  BY <1>1 DEF QueueInv
<1>7. HandInv'
  BY <1>1, <1>2, <1>3, <1>4, <1>5 DEF HandInv
<1>8. QED
  BY <1>6, <1>7

(* put meets a null message only after stop emptied the buffer, or after    *)
(* the buffer had been full.                                                *)
THEOREM NullCorrect == Spec => []NullOnlyByStop
<1> DEFINE Inv == QueueInv /\ HandInv
<1>1. Init => Inv
  BY InitQueue
<1>2. TypeOK /\ Inv /\ [Next]_vars => Inv'
  <2> SUFFICES ASSUME TypeOK, Inv, [Next]_vars PROVE Inv'
    OBVIOUS
  <2>1. CASE PutMessage
    <3>1. HandInv'
      BY <2>1 DEF HandInv, PutMessage, TypeOK
    <3>2. QED
      BY <2>1, <3>1, PutQueue
  <2>2. QED
    BY <2>1, GetQueue, EmptyQueueQueue, RestQueue DEF Next, WorkerStep
<1>3. Inv => NullOnlyByStop
  BY DEF HandInv
<1>4. QED
  BY <1>1, <1>2, <1>3, MqttTypeCorrect, PTL DEF Spec
-----------------------------------------------------------------------------
(* What the broker gets.                                                    *)

(* The message in m is in no slot.                                          *)
Gone(m) == \A s \in Slots : messages.slots[s] # m

SentOnce == \A i, j \in DOMAIN sent : i < j => sent[i] # sent[j]

(* A message is in one slot, in the worker's hand or was sent, and only     *)
(* messages that were published are.                                        *)
OnceInv ==
  /\ \A s \in Slots : messages.slots[s] \in 1..puts \cup {Empty}
  /\ \A s, r \in Slots :
       messages.slots[s] = messages.slots[r] => s = r \/ messages.slots[s] = Empty
  /\ (wpc = "put" /\ item # Empty) =>
       item \in 1..puts /\ Gone(item) /\ \A i \in DOMAIN sent : sent[i] # item
  /\ \A i \in DOMAIN sent : sent[i] \in 1..puts /\ Gone(sent[i])
  /\ SentOnce

(* A message is new when it is published.                                   *)
LEMMA NewMessage ==
  ASSUME TypeOK, puts < MaxPublish
  PROVE  /\ puts + 1 \in Values /\ puts + 1 # Empty
         /\ puts + 1 \notin 1..puts /\ 1..puts \subseteq 1 .. puts + 1
         /\ puts + 1 \in 1 .. puts + 1
<1>1. puts \in Nat /\ puts + 1 \in 1..MaxPublish
  BY MqttAssumption DEF TypeOK
<1>2. puts + 1 \in Values /\ puts + 1 # Empty
  BY <1>1, MqttAssumption, BufferAssumption
<1>3. QED
  BY <1>1, <1>2

LEMMA NumbersAreValues == TypeOK => 1..puts \subseteq Values /\ Empty \notin 1..puts
BY MqttAssumption, BufferAssumption DEF TypeOK

(* publish writes a new message to one slot or to none ...                  *)
LEMMA OncePut ==
  ASSUME TypeOK, OnceInv, PutMessage
  PROVE  OnceInv'
<1> DEFINE v == puts + 1
<1>1. /\ v # Empty /\ v \notin 1..puts /\ 1..puts \subseteq 1..puts' /\ v \in 1..puts'
      /\ UNCHANGED <<wpc, item, sent>>
  BY NewMessage DEF PutMessage
<1>2. \/ messages' = messages
      \/ messages'.slots = [messages.slots EXCEPT ![messages.head] = v]
  BY DEF PutMessage, Put
<1>3. messages.head \in Slots /\ messages.slots \in [Slots -> Values \cup {Empty}]
  BY DEF TypeOK, Buffers
<1>4. \A s \in Slots : messages'.slots[s] = messages.slots[s] \/ messages'.slots[s] = v
  BY <1>2, <1>3
<1>5. \A s, r \in Slots : messages'.slots[s] = v /\ messages'.slots[r] = v => s = r
  BY <1>1, <1>2, <1>3 DEF OnceInv
<1>6. \A m \in 1..puts : Gone(m) => Gone(m)'
  BY <1>1, <1>4 DEF Gone
<1>7. \A s \in Slots : messages'.slots[s] \in 1..puts' \cup {Empty}
  BY <1>1, <1>4 DEF OnceInv
<1>8. \A s, r \in Slots :
        messages'.slots[s] = messages'.slots[r] => s = r \/ messages'.slots[s] = Empty
  BY <1>1, <1>4, <1>5 DEF OnceInv
<1>9. (wpc' = "put" /\ item' # Empty) =>
        item' \in 1..puts' /\ Gone(item)' /\ \A i \in DOMAIN sent' : sent'[i] # item'
  BY <1>1, <1>6 DEF OnceInv
<1>10. \A i \in DOMAIN sent' : sent'[i] \in 1..puts' /\ Gone(sent[i])'
  BY <1>1, <1>6 DEF OnceInv, Gone
<1>11. SentOnce'
  BY <1>1 DEF OnceInv, SentOnce
<1>12. QED
  BY <1>7, <1>8, <1>9, <1>10, <1>11 DEF OnceInv

(* ... get takes it out of its slot ...                                     *)
LEMMA OnceGet ==
  ASSUME TypeOK, OnceInv, GetMessage
  PROVE  OnceInv'
<1>1. messages.tail \in Slots /\ messages.slots \in [Slots -> Values \cup {Empty}]
  BY DEF TypeOK, Buffers
<1>2. /\ messages'.slots = [messages.slots EXCEPT ![messages.tail] = Empty]
      /\ item' = messages.slots[messages.tail] /\ UNCHANGED <<puts, sent>>
  BY MqttAssumption DEF GetMessage, Get, Got
<1>3. \A s \in Slots :
        messages'.slots[s] = (IF s = messages.tail THEN Empty ELSE messages.slots[s])
  BY <1>1, <1>2
<1>4. \A m \in 1..puts : Gone(m) => Gone(m)'
  BY <1>3, NumbersAreValues DEF Gone
<1>5. item' # Empty => item' \in 1..puts' /\ Gone(item)'
  BY <1>1, <1>2, <1>3 DEF OnceInv, Gone
<1>6. \A s \in Slots : messages'.slots[s] \in 1..puts' \cup {Empty}
  BY <1>2, <1>3 DEF OnceInv
<1>7. \A s, r \in Slots :
        messages'.slots[s] = messages'.slots[r] => s = r \/ messages'.slots[s] = Empty
  BY <1>3 DEF OnceInv
<1>8. \A i \in DOMAIN sent' : sent'[i] # item'
  BY <1>1, <1>2 DEF OnceInv, Gone
<1>9. \A i \in DOMAIN sent' : sent'[i] \in 1..puts' /\ Gone(sent[i])'
  BY <1>2, <1>4 DEF OnceInv
<1>10. SentOnce'
  BY <1>2 DEF OnceInv, SentOnce
<1>11. QED
  BY <1>5, <1>6, <1>7, <1>8, <1>9, <1>10 DEF OnceInv

(* What is sent is appended, if the library sends it.                       *)
LEMMA SentGrows ==
  ASSUME TypeOK, SendMessage, sent' # sent
  PROVE  /\ item # Empty /\ sent' = Append(sent, item)
         /\ Len(sent) \in Nat /\ DOMAIN sent = 1..Len(sent)
         /\ DOMAIN sent' = 1 .. Len(sent) + 1
         /\ \A i \in DOMAIN sent : sent'[i] = sent[i]
         /\ sent'[Len(sent) + 1] = item
<1>1. item # Empty /\ sent' = Append(sent, item)
  BY DEF SendMessage
<1>2. sent \in Seq(Values) /\ item \in Values
  BY <1>1 DEF TypeOK
<1>3. /\ sent' \in Seq(Values)
      /\ Len(sent') = Len(sent) + 1
      /\ \A i \in 1..Len(sent) : sent'[i] = sent[i]
      /\ sent'[Len(sent) + 1] = item
  BY <1>1, <1>2, AppendProperties
<1>4. QED
  BY <1>1, <1>2, <1>3, LenProperties

(* ... and the worker sends what it holds, or loses it.                     *)
LEMMA OnceSend ==
  ASSUME TypeOK, OnceInv, SendMessage
  PROVE  OnceInv'
<1>1. /\ wpc = "put" /\ wpc' # "put" /\ UNCHANGED <<messages, puts, item>>
  BY DEF SendMessage
<1>2. \A m : Gone(m) = Gone(m)'
  BY <1>1 DEF Gone
<1>3. CASE sent' = sent
  BY <1>1, <1>2, <1>3 DEF OnceInv, SentOnce, Gone
<1>4. CASE sent' # sent
  <2>1. \A i \in DOMAIN sent' : i \in DOMAIN sent \/ (i = Len(sent) + 1 /\ sent'[i] = item)
    BY <1>4, SentGrows
  <2>2. \A i \in DOMAIN sent : i < Len(sent) + 1 /\ sent'[i] = sent[i]
    BY <1>4, SentGrows
  <2>3. \A i \in DOMAIN sent' : sent'[i] \in 1..puts' /\ Gone(sent'[i])
    BY <2>1, <2>2, <1>1, <1>4, SentGrows DEF OnceInv
  <2>4. SentOnce'
    <3> SUFFICES ASSUME NEW i \in DOMAIN sent', NEW j \in DOMAIN sent', i < j
                 PROVE  sent'[i] # sent'[j]
      BY DEF SentOnce
    <3>1. i \in DOMAIN sent
      BY <2>1, <1>4, SentGrows
    <3>2. CASE j \in DOMAIN sent
      BY <3>1, <3>2, <2>2 DEF OnceInv, SentOnce
    <3>3. CASE j \notin DOMAIN sent
      BY <3>1, <3>3, <2>1, <2>2, <1>1, <1>4, SentGrows DEF OnceInv
    <3>4. QED
      BY <3>2, <3>3
  <2>5. QED
    BY <2>3, <2>4, <1>1, <1>2 DEF OnceInv, Gone
<1>5. QED
  BY <1>3, <1>4

(* The other steps touch neither a slot that is used nor what is sent:      *)
(* empty, which stop calls, leaves the slots as they are.                   *)
LEMMA OnceRest ==
  ASSUME TypeOK, OnceInv,
         \/ Notify \/ OnConnect \/ Lose \/ OnDisconnect
         \/ Connect \/ OuterLoop \/ Check \/ Sleep \/ InnerLoop \/ Leave
         \/ SpuriousWakeup \/ EmptyQueue \/ StopDisconnects \/ SetStopSignal \/ Join
         \/ UNCHANGED vars
  PROVE  OnceInv'
<1>1. messages'.slots = messages.slots
  <2>1. CASE EmptyQueue
    BY <2>1 DEF EmptyQueue, Clear, TypeOK, Buffers
  <2>2. CASE ~EmptyQueue
    BY <2>2 DEF Notify, OnConnect, Lose, OnDisconnect, NetStep, Connect, OuterLoop, Check,
      Sleep, InnerLoop, Leave, SpuriousWakeup, StopDisconnects, SetStopSignal, Join, vars
  <2>3. QED
    BY <2>1, <2>2
<1>2. UNCHANGED <<puts, item, sent>> /\ (wpc' = "put" => wpc = "put")
  BY DEF Notify, OnConnect, Lose, OnDisconnect, NetStep, Connect, OuterLoop, Check,
    Sleep, InnerLoop, Leave, SpuriousWakeup, EmptyQueue, StopDisconnects, SetStopSignal,
    Join, vars, Wake
<1>3. QED
  BY <1>1, <1>2 DEF OnceInv, Gone, SentOnce

(* A slot that is in use is one of those from tail_ on.                     *)
OnlyQueued(b, q) ==
  \A s \in Slots : b.slots[s] # Empty => \E k \in 1..Len(q) : s = SlotFrom(b.tail, k - 1)

(* The slot behind the last element is empty, so that the null message is   *)
(* what the worker gets from a buffer that was never full and was emptied.  *)
FreeInv ==
  /\ owner # "running" => queued = <<>>
  /\ ~filled => /\ messages.slots[messages.head] = Empty
                /\ owner = "running" => OnlyQueued(messages, queued)

(* put into a buffer with two free slots, and get, keep the other slots     *)
(* empty.                                                                   *)
LEMMA PutOnlyQueued ==
  ASSUME NEW b \in Buffers, NEW v \in Values, NEW q \in Seq(Values),
         HoldsInOrder(b, q), b.size = Len(q), b.size + 1 < MaxSize, OnlyQueued(b, q)
  PROVE  /\ OnlyQueued(Put(b, v), Append(q, v))
         /\ Put(b, v).slots[Put(b, v).head] = Empty
<1>1. /\ b.head \in Slots /\ b.tail \in Slots /\ b.size \in 0..MaxSize
      /\ MaxSize \in Nat \ {0} /\ b.slots \in [Slots -> Values \cup {Empty}]
  BY BufferAssumption DEF Buffers
<1>2. Len(Append(q, v)) = Len(q) + 1 /\ Len(q) \in Nat /\ Len(q) + 1 < MaxSize
  BY <1>1, AppendProperties
<1>3. /\ Put(b, v).slots = [b.slots EXCEPT ![b.head] = v]
      /\ Put(b, v).head = Following(b.head)
      /\ Put(b, v).tail = (IF Following(b.head) = b.tail THEN Following(b.tail) ELSE b.tail)
  BY <1>1, <1>2 DEF Put, IsFull
<1>4. b.head = SlotFrom(b.tail, Len(q))
  BY DEF HoldsInOrder
<1>5. Following(b.head) = SlotFrom(b.tail, Len(q) + 1)
  BY <1>1, <1>2, <1>4, SlotFollows
<1>6. \A k \in 1 .. Len(q) + 1 : SlotFrom(b.tail, k - 1) # Following(b.head)
  <2> TAKE k \in 1 .. Len(q) + 1
  <2>1. k - 1 \in Nat /\ k - 1 < Len(q) + 1 /\ Len(q) + 1 \in Nat
    BY <1>2
  <2>2. QED
    BY <2>1, <1>1, <1>2, <1>5, SlotsDiffer
<1>7. Following(b.head) # b.tail
  <2>1. SlotFrom(b.tail, 1 - 1) = b.tail
    BY <1>1 DEF SlotFrom, Slots
  <2>2. 1 \in 1 .. Len(q) + 1
    BY <1>2
  <2>3. QED
    BY <2>1, <2>2, <1>6
<1>8. OnlyQueued(Put(b, v), Append(q, v))
  <2> SUFFICES ASSUME NEW s \in Slots, Put(b, v).slots[s] # Empty
               PROVE  \E k \in 1 .. Len(q) + 1 : s = SlotFrom(b.tail, k - 1)
    BY <1>2, <1>3, <1>7 DEF OnlyQueued
  <2>1. CASE s = b.head
    <3>1. Len(q) + 1 \in 1 .. Len(q) + 1 /\ (Len(q) + 1) - 1 = Len(q)
      BY <1>2
    <3>2. QED
      BY <3>1, <2>1, <1>4
  <2>2. CASE s # b.head
    <3>1. b.slots[s] # Empty
      BY <2>2, <1>1, <1>3
    <3>2. PICK k \in 1..Len(q) : s = SlotFrom(b.tail, k - 1)
      BY <3>1 DEF OnlyQueued
    <3>3. k \in 1 .. Len(q) + 1
      BY <1>2
    <3>4. QED
      BY <3>2, <3>3
  <2>3. QED
    BY <2>1, <2>2
<1>9. b.slots[Following(b.head)] = Empty
  <2>1. Following(b.head) \in Slots
    BY <1>1, FollowingInSlots
  <2>2. \A k \in 1..Len(q) : Following(b.head) # SlotFrom(b.tail, k - 1)
    BY <1>2, <1>6
  <2>3. QED
    BY <2>1, <2>2 DEF OnlyQueued
<1>10. Following(b.head) # b.head
  <2>1. Len(q) + 1 \in 1 .. Len(q) + 1 /\ (Len(q) + 1) - 1 = Len(q)
    BY <1>2
  <2>2. QED
    BY <2>1, <1>4, <1>6
<1>11. QED
  BY <1>1, <1>3, <1>8, <1>9, <1>10

LEMMA GetOnlyQueued ==
  ASSUME NEW b \in Buffers, NEW q \in Seq(Values), q # <<>>,
         HoldsInOrder(b, q), b.size = Len(q), OnlyQueued(b, q)
  PROVE  OnlyQueued(Get(b), Tail(q))
<1>1. /\ b.tail \in Slots /\ MaxSize \in Nat \ {0}
      /\ b.slots \in [Slots -> Values \cup {Empty}]
  BY BufferAssumption DEF Buffers
<1>2. Len(q) \in Nat \ {0} /\ Len(Tail(q)) = Len(q) - 1 /\ Len(q) < MaxSize
  BY HeadTailProperties, EmptySeq DEF HoldsInOrder
<1>3. /\ Get(b).tail = Following(b.tail)
      /\ Get(b).slots = [b.slots EXCEPT ![b.tail] = Empty]
  BY <1>2, MqttAssumption DEF Get, IsEmpty
<1> SUFFICES ASSUME NEW s \in Slots, Get(b).slots[s] # Empty
             PROVE  \E k \in 1 .. Len(q) - 1 : s = SlotFrom(Following(b.tail), k - 1)
  BY <1>2, <1>3 DEF OnlyQueued
<1>4. s # b.tail /\ b.slots[s] # Empty
  BY <1>1, <1>3
<1>5. PICK k \in 1..Len(q) : s = SlotFrom(b.tail, k - 1)
  BY <1>4 DEF OnlyQueued
<1>6. k # 1
  BY <1>1, <1>4, <1>5 DEF SlotFrom, Slots
<1>7. k - 1 \in Nat \ {0} /\ k - 1 < MaxSize /\ k - 1 \in 1 .. Len(q) - 1
  BY <1>1, <1>2, <1>6
<1>8. SlotFrom(Following(b.tail), (k - 1) - 1) = SlotFrom(b.tail, k - 1)
  BY <1>1, <1>7, SlotFromNext
<1>9. QED
  BY <1>5, <1>7, <1>8

(* As long as the buffer was never full, what is queued, in the hand and    *)
(* sent are messages in the order of publish.                               *)
OrderInv ==
  ~filled =>
    /\ \A i, j \in DOMAIN queued : i < j => queued[i] < queued[j]
    /\ \A i \in DOMAIN queued : queued[i] \in 1..puts
    /\ (wpc = "put" /\ item # Empty) =>
         /\ item \in 1..puts
         /\ \A i \in DOMAIN queued : item < queued[i]
         /\ \A i \in DOMAIN sent : sent[i] < item
    /\ \A i \in DOMAIN sent : sent[i] \in 1..puts
    /\ \A i \in DOMAIN sent, j \in DOMAIN queued : sent[i] < queued[j]
    /\ \A i, j \in DOMAIN sent : i < j => sent[i] < sent[j]

Base == TypeOK /\ QueueInv /\ FreeInv

LEMMA FreePut ==
  ASSUME Base, PutMessage
  PROVE  FreeInv'
<1> DEFINE v == puts + 1
<1>1. /\ messages \in Buffers /\ v \in Values /\ queued \in Seq(Values)
      /\ messages.size = Len(queued) /\ owner = "running" /\ owner' = owner
  BY NewMessage DEF PutMessage, Base, TypeOK, QueueInv
<1>2. ASSUME ~filled'
      PROVE  OnlyQueued(messages', queued') /\ messages'.slots[messages'.head] = Empty
  <2>1. ~filled /\ ~(messages.size + 1 >= MaxSize)
    BY <1>2 DEF PutMessage, Base, TypeOK
  <2>2. messages.size + 1 < MaxSize /\ ~IsFull(messages)
    BY <2>1, <1>1, BufferAssumption DEF IsFull, Buffers
  <2>3. HoldsInOrder(messages, queued) /\ OnlyQueued(messages, queued)
    BY <2>1, <1>1 DEF Base, QueueInv, FreeInv
  <2>4. messages' = Put(messages, v) /\ queued' = Append(queued, v)
    BY <2>2 DEF PutMessage
  <2>5. QED
    BY <2>2, <2>3, <2>4, <1>1, PutOnlyQueued
<1>3. QED
  BY <1>1, <1>2 DEF FreeInv

LEMMA FreeGet ==
  ASSUME Base, GetMessage
  PROVE  FreeInv'
<1>1. /\ messages \in Buffers /\ queued \in Seq(Values) /\ messages.size = Len(queued)
      /\ messages' = Get(messages) /\ UNCHANGED <<filled, owner>>
      /\ queued' = IF queued = <<>> THEN queued ELSE Tail(queued)
      /\ messages.head \in Slots /\ messages.slots \in [Slots -> Values \cup {Empty}]
  BY DEF GetMessage, Base, TypeOK, QueueInv, Buffers
<1>2. /\ messages'.head = messages.head
      /\ messages'.slots = [messages.slots EXCEPT ![messages.tail] = Empty]
  BY <1>1, MqttAssumption DEF Get
<1>3. ~filled => messages'.slots[messages'.head] = Empty
  BY <1>1, <1>2 DEF Base, FreeInv
<1>4. owner # "running" => queued' = <<>>
  BY <1>1 DEF Base, FreeInv
<1>5. ASSUME ~filled, owner = "running" PROVE OnlyQueued(messages', queued')
  <2>1. HoldsInOrder(messages, queued) /\ OnlyQueued(messages, queued)
    BY <1>5 DEF Base, QueueInv, FreeInv
  <2>2. CASE queued # <<>>
    BY <2>1, <2>2, <1>1, GetOnlyQueued
  <2>3. CASE queued = <<>>
    <3>1. \A s \in Slots : messages.slots[s] = Empty
      BY <2>1, <2>3 DEF OnlyQueued
    <3>2. \A s \in Slots : messages'.slots[s] = Empty
      BY <3>1, <1>1, <1>2
    <3>3. QED
      BY <3>2 DEF OnlyQueued
  <2>4. QED
    BY <2>2, <2>3
<1>6. QED
  BY <1>1, <1>3, <1>4, <1>5 DEF FreeInv

LEMMA FreeRest ==
  ASSUME Base,
         \/ Notify \/ OnConnect \/ Lose \/ OnDisconnect
         \/ Connect \/ OuterLoop \/ Check \/ Sleep \/ InnerLoop \/ SendMessage \/ Leave
         \/ SpuriousWakeup \/ EmptyQueue \/ StopDisconnects \/ SetStopSignal \/ Join
         \/ UNCHANGED vars
  PROVE  FreeInv'
<1>1. CASE EmptyQueue
  <2>1. messages'.head = messages.head /\ messages'.slots = messages.slots
    BY <1>1 DEF EmptyQueue, Clear, Base, TypeOK, Buffers
  <2>2. queued' = <<>> /\ filled' = filled /\ owner' # "running"
    BY <1>1 DEF EmptyQueue
  <2>3. QED
    BY <2>1, <2>2 DEF Base, FreeInv
<1>2. CASE ~EmptyQueue
  <2>1. UNCHANGED <<messages, queued, filled>>
    BY <1>2 DEF Notify, OnConnect, Lose, OnDisconnect, NetStep, Connect, OuterLoop, Check,
      Sleep, InnerLoop, SendMessage, Leave, SpuriousWakeup, StopDisconnects, SetStopSignal,
      Join, vars
  <2>2. owner' = "running" <=> owner = "running"
    BY <1>2 DEF Notify, OnConnect, Lose, OnDisconnect, NetStep, Connect, OuterLoop, Check,
      Sleep, InnerLoop, SendMessage, Leave, SpuriousWakeup, StopDisconnects, SetStopSignal,
      Join, vars
  <2>3. QED
    BY <2>1, <2>2 DEF Base, FreeInv
<1>3. QED
  BY <1>1, <1>2

LEMMA OrderPut ==
  ASSUME Base, OrderInv, PutMessage
  PROVE  OrderInv'
<1> SUFFICES ASSUME ~filled' PROVE OrderInv'
  BY DEF OrderInv
<1> DEFINE v == puts + 1
<1>1. ~filled /\ UNCHANGED <<wpc, item, sent>> /\ puts' = v /\ puts \in Nat
  BY MqttAssumption DEF PutMessage, Base, TypeOK
<1>2. v \in Values /\ queued \in Seq(Values)
  BY NewMessage DEF PutMessage, Base, TypeOK
<1>3. queued' = queued \/ queued' = Append(queued, v)
  BY DEF PutMessage
<1>4. /\ DOMAIN queued = 1..Len(queued) /\ Len(queued) \in Nat
      /\ DOMAIN Append(queued, v) = 1 .. Len(queued) + 1
      /\ \A i \in 1..Len(queued) : Append(queued, v)[i] = queued[i]
      /\ Append(queued, v)[Len(queued) + 1] = v
  BY <1>2, AppendProperties, LenProperties
<1>5. \A i \in DOMAIN queued' :
        \/ i \in DOMAIN queued /\ queued'[i] = queued[i]
        \/ i = Len(queued) + 1 /\ queued'[i] = v
  BY <1>3, <1>4
<1>6. \A n \in 1..puts : n < v /\ n \in 1..puts'
  BY <1>1
<1>7. \A i \in DOMAIN queued' : queued'[i] \in 1..puts'
  BY <1>1, <1>5, <1>6 DEF OrderInv
<1>8. \A i, j \in DOMAIN queued' : i < j => queued'[i] < queued'[j]
  BY <1>1, <1>4, <1>5, <1>6 DEF OrderInv
<1>9. (wpc' = "put" /\ item' # Empty) =>
         /\ item' \in 1..puts'
         /\ \A i \in DOMAIN queued' : item' < queued'[i]
         /\ \A i \in DOMAIN sent' : sent'[i] < item'
  BY <1>1, <1>5, <1>6 DEF OrderInv
<1>10. \A i \in DOMAIN sent', j \in DOMAIN queued' : sent'[i] < queued'[j]
  BY <1>1, <1>5, <1>6 DEF OrderInv
<1>11. /\ \A i \in DOMAIN sent' : sent'[i] \in 1..puts'
       /\ \A i, j \in DOMAIN sent' : i < j => sent'[i] < sent'[j]
  BY <1>1, <1>6 DEF OrderInv
<1>12. QED
  BY <1>7, <1>8, <1>9, <1>10, <1>11 DEF OrderInv

LEMMA OrderGet ==
  ASSUME Base, OrderInv, HandInv, GetMessage
  PROVE  OrderInv'
<1> SUFFICES ASSUME ~filled' PROVE OrderInv'
  BY DEF OrderInv
<1>1. /\ ~filled /\ UNCHANGED <<puts, sent>> /\ wpc = "get"
      /\ item' = Got(messages)
      /\ queued' = IF queued = <<>> THEN queued ELSE Tail(queued)
      /\ messages \in Buffers /\ queued \in Seq(Values) /\ messages.size = Len(queued)
      /\ HoldsInOrder(messages, queued)
  BY DEF GetMessage, Base, TypeOK, QueueInv
<1>2. CASE queued = <<>>
  <2>1. messages.tail \in Slots /\ MaxSize \in Nat \ {0}
    BY <1>1, BufferAssumption DEF Buffers
  <2>2. messages.head = messages.tail
    BY <1>1, <1>2, <2>1 DEF HoldsInOrder, SlotFrom, Slots
  <2>3. item' = Empty
    BY <1>1, <2>2 DEF Got, Base, FreeInv
  <2>4. QED
    BY <1>1, <1>2, <2>3 DEF OrderInv
<1>3. CASE queued # <<>>
  <2>1. item' = Head(queued) /\ queued' = Tail(queued)
    BY <1>1, <1>3, GetInOrder
  <2>2. /\ Head(queued) = queued[1] /\ Len(queued) \in Nat \ {0}
        /\ DOMAIN queued = 1..Len(queued)
        /\ DOMAIN Tail(queued) = 1 .. Len(queued) - 1
        /\ \A i \in 1 .. Len(queued) - 1 : Tail(queued)[i] = queued[i + 1]
    BY <1>1, <1>3, HeadTailProperties, EmptySeq, LenProperties
  <2>3. \A i \in DOMAIN queued' : i + 1 \in DOMAIN queued /\ 1 < i + 1 /\ queued'[i] = queued[i + 1]
    BY <2>1, <2>2
  <2>4. 1 \in DOMAIN queued /\ item' = queued[1]
    BY <2>1, <2>2
  <2>5. \A i, j \in DOMAIN queued' : i < j => queued'[i] < queued'[j]
    BY <2>1, <2>2, <1>1 DEF OrderInv
  <2>6. /\ item' \in 1..puts'
        /\ \A i \in DOMAIN queued' : item' < queued'[i]
        /\ \A i \in DOMAIN sent' : sent'[i] < item'
    <3>1. item' \in 1..puts'
      BY <2>4, <1>1 DEF OrderInv
    <3>2. ASSUME NEW i \in DOMAIN queued' PROVE item' < queued'[i]
      BY <2>3, <2>4, <1>1 DEF OrderInv
    <3>3. ASSUME NEW i \in DOMAIN sent' PROVE sent'[i] < item'
      BY <2>4, <1>1 DEF OrderInv
    <3>4. QED
      BY <3>1, <3>2, <3>3
  <2>7. /\ \A i \in DOMAIN queued' : queued'[i] \in 1..puts'
        /\ \A i \in DOMAIN sent', j \in DOMAIN queued' : sent'[i] < queued'[j]
    BY <2>3, <1>1 DEF OrderInv
  <2>8. QED
    BY <2>5, <2>6, <2>7, <1>1 DEF OrderInv
<1>4. QED
  BY <1>2, <1>3

LEMMA OrderSend ==
  ASSUME Base, OrderInv, SendMessage
  PROVE  OrderInv'
<1> SUFFICES ASSUME ~filled PROVE OrderInv'
  BY DEF OrderInv, SendMessage
<1>1. /\ wpc = "put" /\ wpc' # "put" /\ UNCHANGED <<queued, puts, item, filled>>
  BY DEF SendMessage
<1>2. CASE sent' = sent
  BY <1>1, <1>2 DEF OrderInv
<1>3. CASE sent' # sent
  <2>1. \A i \in DOMAIN sent' :
          \/ i \in DOMAIN sent /\ i < Len(sent) + 1 /\ sent'[i] = sent[i]
          \/ i = Len(sent) + 1 /\ sent'[i] = item
    BY <1>3, SentGrows DEF Base
  <2>2. /\ item \in 1..puts
        /\ \A i \in DOMAIN queued : item < queued[i]
        /\ \A i \in DOMAIN sent : sent[i] < item
    BY <1>1, <1>3, SentGrows DEF OrderInv, Base
  <2>3. \A i \in DOMAIN sent' : sent'[i] \in 1..puts
    BY <2>1, <2>2 DEF OrderInv
  <2>4. \A i \in DOMAIN sent', j \in DOMAIN queued : sent'[i] < queued[j]
    BY <2>1, <2>2 DEF OrderInv
  <2>5. Len(sent) \in Nat /\ DOMAIN sent = 1..Len(sent)
    BY <1>3, SentGrows DEF Base
  <2>6. \A i, j \in DOMAIN sent' : i < j => sent'[i] < sent'[j]
    <3> SUFFICES ASSUME NEW i \in DOMAIN sent', NEW j \in DOMAIN sent', i < j
                 PROVE  sent'[i] < sent'[j]
      OBVIOUS
    <3>1. i \in DOMAIN sent /\ sent'[i] = sent[i]
      BY <1>3, <2>1, <2>5, SentGrows DEF Base
    <3>2. QED
      BY <3>1, <2>1, <2>2 DEF OrderInv
  <2>7. QED
    BY <2>3, <2>4, <2>6, <1>1 DEF OrderInv
<1>4. QED
  BY <1>2, <1>3

LEMMA OrderRest ==
  ASSUME Base, OrderInv,
         \/ Notify \/ OnConnect \/ Lose \/ OnDisconnect
         \/ Connect \/ OuterLoop \/ Check \/ Sleep \/ InnerLoop \/ Leave
         \/ SpuriousWakeup \/ EmptyQueue \/ StopDisconnects \/ SetStopSignal \/ Join
         \/ UNCHANGED vars
  PROVE  OrderInv'
<1>1. /\ UNCHANGED <<puts, item, sent, filled>> /\ (wpc' = "put" => wpc = "put")
      /\ queued' = queued \/ queued' = <<>>
  BY DEF Notify, OnConnect, Lose, OnDisconnect, NetStep, Connect, OuterLoop, Check,
    Sleep, InnerLoop, Leave, SpuriousWakeup, EmptyQueue, StopDisconnects, SetStopSignal,
    Join, vars, Wake
<1>2. CASE queued' = queued
  BY <1>1, <1>2 DEF OrderInv
<1>3. CASE queued' = <<>>
  <2>1. DOMAIN queued' = {}
    BY <1>3
  <2>2. QED
    BY <1>1, <2>1 DEF OrderInv
<1>4. QED
  BY <1>1, <1>2, <1>3

(* Over lost connections the broker gets every message at most once, and in *)
(* the order of publish as long as the buffer was never full (publish,      *)
(* worker): get moves a message out of its slot, and no step puts one back. *)
THEOREM SentCorrect == Spec => []SentInOrder
<1> DEFINE Inv == QueueInv /\ HandInv /\ FreeInv /\ OnceInv /\ OrderInv
<1>1. Init => Inv
  <2> SUFFICES ASSUME Init PROVE FreeInv /\ OnceInv /\ OrderInv
    BY InitQueue
  <2>1. /\ \A s \in Slots : messages.slots[s] = Empty
        /\ messages.head \in Slots
    BY BufferAssumption DEF Init, NewBuffer, Slots
  <2>2. DOMAIN sent = {} /\ DOMAIN queued = {} /\ wpc = "connect" /\ owner = "running"
    BY DEF Init
  <2>3. FreeInv
    BY <2>1, <2>2 DEF FreeInv, OnlyQueued
  <2>4. OnceInv
    BY <2>1, <2>2 DEF OnceInv, SentOnce
  <2>5. OrderInv
    BY <2>2 DEF OrderInv
  <2>6. QED
    BY <2>3, <2>4, <2>5
<1>2. TypeOK /\ Inv /\ [Next]_vars => Inv'
  <2> SUFFICES ASSUME TypeOK, Inv, [Next]_vars PROVE Inv'
    OBVIOUS
  <2>1. Base
    BY DEF Base
  <2>2. CASE PutMessage
    <3>1. HandInv'
      BY <2>2 DEF HandInv, PutMessage, TypeOK
    <3>2. QED
      BY <2>1, <2>2, <3>1, PutQueue, FreePut, OncePut, OrderPut
  <2>3. CASE GetMessage
    BY <2>1, <2>3, GetQueue, FreeGet, OnceGet, OrderGet
  <2>4. CASE SendMessage
    BY <2>1, <2>4, RestQueue, FreeRest, OnceSend, OrderSend
  <2>5. CASE EmptyQueue
    BY <2>1, <2>5, EmptyQueueQueue, FreeRest, OnceRest, OrderRest
  <2>6. CASE \/ Notify \/ OnConnect \/ Lose \/ OnDisconnect
             \/ Connect \/ OuterLoop \/ Check \/ Sleep \/ InnerLoop \/ Leave
             \/ SpuriousWakeup \/ StopDisconnects \/ SetStopSignal \/ Join
             \/ UNCHANGED vars
    BY <2>1, <2>6, RestQueue, FreeRest, OnceRest, OrderRest
  <2>7. QED
    BY <2>2, <2>3, <2>4, <2>5, <2>6 DEF Next, WorkerStep
<1>3. Inv => SentInOrder
  <2>1. OnceInv => \A i, j \in DOMAIN sent : i < j => sent[i] # sent[j]
    BY DEF OnceInv, SentOnce
  <2>2. OrderInv /\ ~filled => \A i, j \in DOMAIN sent : i < j => sent[i] < sent[j]
    BY DEF OrderInv
  <2>3. QED
    BY <2>1, <2>2 DEF SentInOrder
<1>4. QED
  BY <1>1, <1>2, <1>3, MqttTypeCorrect, PTL DEF Spec
==============================================================================

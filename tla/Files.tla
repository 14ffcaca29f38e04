------------------------------- MODULE Files -------------------------------
(***************************************************************************)
(* The weather station's data files: piutils::fstor::FStorage, used by the *)
(* state machine's thread (the list of files, one file per day in a folder *)
(* per month), and the web thread that deletes files and their entries in  *)
(* the list, over a clock that is set and a process that is restarted.     *)
(***************************************************************************)
EXTENDS Integers

CONSTANTS
  Days,         (* the days the clock can show                             *)
  MonthOf,      (* their months ...                                        *)
  MDayOf,       (* ... and their days of the month                         *)
  NoPath, NoList,
  MaxClock,     (* bound: changes of the clock                             *)
  MaxRuns,      (* bound: starts of the process                            *)
  MaxFailures,  (* bound: calls of the file system that fail               *)
  MaxDeletes    (* bound: deletions through the web                        *)

Months == {MonthOf[d] : d \in Days}
Paths == [dir : Months, day : Days]

ASSUME FilesAssumption ==
  /\ MonthOf \in [Days -> Months] /\ DOMAIN MDayOf = Days
  /\ NoPath \notin Paths /\ NoList \notin [Paths -> Nat]
  /\ {MaxClock, MaxFailures, MaxDeletes} \subseteq Nat /\ MaxRuns \in Nat \ {0}

VARIABLES
  now, clocks,  (* the clock; history: its changes                         *)
  files, dirs,  (* the data folder: files, and folders of months           *)
  list,         (* datafiles.csv: how often a path is listed, or NoList    *)
  spc,          (* where the state machine's thread is with the storage    *)
  scan,         (* dfiles, the files it collected                          *)
  time, dir, path, fd,   (* _time, _curr_path, _file_path, _fd             *)
  seen,         (* the day write_data read                                 *)
  web, target,  (* where the web thread is with a deletion, and of what    *)
  exact,        (* its name is the text that the storage uses for the file *)
  runs, failures, deletes,  (* history: counters of the bounds             *)
  gone,         (* history: the open file was removed                      *)
  raced,        (* history: opened while their deletion was under way      *)
  aliased,      (* history: open files removed under another spelling      *)
  excused,      (* history: paths the list need not be right about         *)
  skewed        (* history: the month changed and the day of it did not    *)

diskVars == <<files, dirs, list>>
storVars == <<time, dir, path, fd, gone, raced, aliased, skewed>>
webVars == <<web, target, exact, deletes>>
envVars == <<now, clocks, runs>>
filesVars == <<diskVars, storVars, webVars, envVars, spc, scan, seen, failures, excused>>

FilesInit ==
  /\ now \in Days /\ clocks = 0 /\ runs = 1
  /\ files = {} /\ dirs = {} /\ list = NoList
  /\ spc = "off" /\ scan = {} /\ seen = now
  /\ time = now /\ dir = MonthOf[now] /\ path = NoPath /\ fd = NoPath
  /\ web = "idle" /\ target = NoPath /\ exact = TRUE /\ deletes = 0 /\ failures = 0
  /\ gone = FALSE /\ raced = {} /\ aliased = {} /\ excused = {} /\ skewed = FALSE

(* How many of the calls of a step fail.                                    *)
Fails(n) == failures + n <= MaxFailures /\ failures' = failures + n
-----------------------------------------------------------------------------
(* prepare_data_files_list: the files are collected, none when nftw fails,  *)
(* which is not looked at ...                                               *)
CollectDataFiles ==
  /\ spc = "off" /\ spc' = "listing"
  /\ \/ Fails(0) /\ scan' = files /\ excused' = {}
     \/ Fails(1) /\ scan' = {} /\ excused' = files
  /\ UNCHANGED <<diskVars, storVars, webVars, envVars, seen>>

ListOf(paths) == [p \in Paths |-> IF p \in paths THEN 1 ELSE 0]

(* ... and, with _list_mutex, written over the list: the list cannot be     *)
(* opened, or a line of it not written, which is not looked at.             *)
WriteList ==
  /\ spc = "listing" /\ spc' = "ready"
  /\ \/ Fails(0) /\ list' = ListOf(scan) /\ UNCHANGED excused
     \/ Fails(1) /\ excused' = Paths /\ UNCHANGED list
     \/ Fails(1) /\ \E p \in scan :
          list' = ListOf(scan \ {p}) /\ excused' = excused \cup {p}
  /\ UNCHANGED <<files, dirs, storVars, webVars, envVars, scan, seen>>

(* create_month_dir: n of one calls of mkdir fail.                          *)
CreateMonthDir(m, n) ==
  /\ dir' = m
  /\ n = 1 => m \notin dirs
  /\ dirs' = IF n = 1 THEN dirs ELSE dirs \cup {m}

(* create_file up to the entry in the list: n of one calls of open fail;    *)
(* open fails in a folder that is not there.                                *)
CreateFile(m, d, n) ==
  LET p == [dir |-> m, day |-> d]
      racing == IF web # "idle" /\ target = p THEN {p} ELSE {} IN
  /\ time' = d /\ path' = p /\ gone' = FALSE
  /\ \/ /\ n = 0 /\ m \in dirs'
        /\ fd' = p
        /\ files' = files \cup {p}
        /\ raced' = (raced \ {p}) \cup racing
        /\ aliased' = aliased \ {p}
        /\ excused' = excused \cup racing
     \/ /\ n = 1 \/ m \notin dirs'
        /\ fd' = NoPath
        /\ excused' = excused \cup {p}
        /\ UNCHANGED <<files, raced, aliased>>

(* initilize, called by the storage's start                                 *)
Start ==
  /\ spc = "ready"
  /\ \E n \in {0, 1} :
       /\ CreateMonthDir(MonthOf[now], n)
       /\ IF n = 1
            THEN /\ Fails(1)
                 /\ spc' = "idle" /\ time' = now
                 /\ UNCHANGED <<files, path, fd, gone, raced, aliased, excused>>
            ELSE /\ \E k \in {0, 1} : CreateFile(MonthOf[now], now, k) /\ Fails(k)
                 /\ spc' = "append"
  /\ skewed' = FALSE /\ seen' = now
  /\ UNCHANGED <<list, webVars, envVars, scan>>

(* Faulty variant: the folder of the month is left as it was.               *)
WriteDataByDay ==
  /\ spc = "idle" /\ fd # NoPath
  /\ seen' = now
  /\ UNCHANGED <<dir, dirs, skewed>>
  /\ IF MDayOf[now] # MDayOf[time]
       THEN /\ \E k \in {0, 1} : CreateFile(dir, now, k) /\ Fails(k)
            /\ spc' = "append"
       ELSE /\ spc' = "write"
            /\ UNCHANGED <<files, time, path, fd, gone, raced, aliased, excused, failures>>
  /\ UNCHANGED <<list, webVars, envVars, scan>>

(* write_data up to its write: another month has its folder, another day of *)
(* the month its file. A storage whose file is closed writes nothing.       *)
WriteData ==
  /\ spc = "idle" /\ fd # NoPath
  /\ seen' = now
  /\ \E n \in {0, 1}, k \in {0, 1} :
       /\ Fails(n + k)
       /\ IF MonthOf[now] # MonthOf[time]
            THEN CreateMonthDir(MonthOf[now], n)
            ELSE n = 0 /\ UNCHANGED <<dir, dirs>>
       /\ IF MDayOf[now] # MDayOf[time]
            THEN /\ CreateFile(dir', now, k)
                 /\ spc' = "append"
                 /\ skewed' = (skewed /\ MonthOf[now] = MonthOf[time])
            ELSE /\ k = 0
                 /\ spc' = "write"
                 /\ skewed' = (skewed \/ now # time)
                 /\ UNCHANGED <<files, time, path, fd, gone, raced, aliased, excused>>
  /\ UNCHANGED <<list, webVars, envVars, scan>>

(* Faulty variant: no file is added while one is deleted.                   *)
AppendListToday ==
  /\ spc = "append"
  /\ spc' = IF fd = NoPath THEN "idle" ELSE "write"
  /\ list' = IF list = NoList \/ web # "idle" THEN list ELSE [list EXCEPT ![path] = @ + 1]
  /\ UNCHANGED <<files, dirs, storVars, webVars, envVars, scan, seen, failures, excused>>

(* append_data_files_list: also for a file that was listed, or could not be *)
(* opened; it does not create a list, and that the list was not opened, or  *)
(* the line not written, is not looked at.                                  *)
AppendList ==
  /\ spc = "append"
  /\ spc' = IF fd = NoPath THEN "idle" ELSE "write"
  /\ \/ /\ Fails(0)
        /\ list' = IF list = NoList THEN NoList ELSE [list EXCEPT ![path] = @ + 1]
        /\ UNCHANGED excused
     \/ /\ list # NoList /\ Fails(1)
        /\ excused' = excused \cup {path}
        /\ UNCHANGED list
  /\ UNCHANGED <<files, dirs, storVars, webVars, envVars, scan, seen>>

(* The write itself.                                                        *)
Write ==
  /\ spc = "write" /\ spc' = "idle"
  /\ UNCHANGED <<diskVars, storVars, webVars, envVars, scan, seen, failures, excused>>

(* The storage's stop closes the file; the storage is not started again.    *)
Stop ==
  /\ spc = "idle" /\ spc' = "stopped"
  /\ fd' = NoPath /\ gone' = FALSE
  /\ UNCHANGED <<diskVars, time, dir, path, raced, aliased, skewed, webVars, envVars, scan, seen,
                 failures, excused>>
-----------------------------------------------------------------------------
(* files_delete, on the web thread                                          *)
WebStep ==
  UNCHANGED <<dirs, time, dir, path, fd, raced, skewed, envVars, spc, scan, seen>>

DeletionOf(p, own) ==
  /\ WebStep
  /\ web = "idle" /\ deletes < MaxDeletes /\ p \in files
  /\ web' = "remove" /\ target' = p /\ exact' = own /\ deletes' = deletes + 1
  /\ UNCHANGED <<files, list, gone, aliased, failures, excused>>

(* Faulty variant: the file that is written is not kept.                    *)
DeleteAny(p, own) == DeletionOf(p, own)

(* A file that is there is deleted, unless its name is the text of the      *)
(* current one (is_file_delete_blocked). Other texts name the same file:    *)
(* files_safe_name takes "2026_7//2026_7_07.csv" as it is.                  *)
FilesDelete(p, own) ==
  /\ spc = "off" \/ ~own \/ p # path
  /\ DeletionOf(p, own)

(* It is removed, by whatever name, or is not ...                           *)
Remove ==
  /\ WebStep
  /\ web = "remove"
  /\ \/ /\ Fails(0)
        /\ web' = "unlist"
        /\ files' = files \ {target}
        /\ gone' = (gone \/ fd = target)
        /\ aliased' = IF fd = target /\ ~exact THEN aliased \cup {target} ELSE aliased
        /\ excused' = IF spc = "listing" THEN excused \cup {target} ELSE excused
        /\ UNCHANGED <<target, exact>>
     \/ /\ Fails(1)
        /\ web' = "idle" /\ target' = NoPath /\ exact' = TRUE
        /\ UNCHANGED <<files, gone, aliased, excused>>
  /\ UNCHANGED <<list, deletes>>

(* ... and its entries in the list are (remove_data_files_list), if there   *)
(* is a storage and a list, and it is named as the list names it. The file  *)
(* that replaces the list is not created or renamed, or one of its lines is *)
(* not written, which is not looked at.                                     *)
RemoveEntries ==
  LET listed == spc # "off" /\ list # NoList /\ list[target] > 0 IN
  /\ WebStep
  /\ web = "unlist" /\ web' = "idle" /\ target' = NoPath /\ exact' = TRUE
  /\ \/ /\ Fails(0) /\ listed /\ exact
        /\ list' = [list EXCEPT ![target] = 0]
        /\ UNCHANGED excused
     \/ /\ Fails(0) /\ ~(listed /\ exact)
        /\ excused' = IF ~exact /\ spc # "off" THEN excused \cup {target} ELSE excused
        /\ UNCHANGED list
     \/ /\ Fails(1) /\ listed /\ exact
        /\ excused' = excused \cup {target}
        /\ UNCHANGED list
     \/ /\ Fails(1) /\ listed /\ exact
        /\ \E p \in Paths \ {target} :
             /\ list[p] > 0 /\ list' = [list EXCEPT ![target] = 0, ![p] = @ - 1]
             /\ excused' = excused \cup {p}
  /\ UNCHANGED <<files, gone, aliased, deletes>>

(* The list is a file of the same folder.                                   *)
DeleteList ==
  /\ WebStep
  /\ web = "idle" /\ deletes < MaxDeletes /\ list # NoList
  /\ list' = NoList /\ deletes' = deletes + 1
  /\ UNCHANGED <<files, gone, aliased, web, target, exact, failures, excused>>
-----------------------------------------------------------------------------
(* Days pass, and the clock is set when the network is there.               *)
SetClock ==
  /\ clocks < MaxClock /\ clocks' = clocks + 1
  /\ now' \in Days \ {now}
  /\ UNCHANGED <<diskVars, storVars, webVars, spc, scan, seen, runs, failures, excused>>

(* The process ends, at any time, and is started again.                     *)
Restart ==
  /\ runs < MaxRuns /\ runs' = runs + 1
  /\ spc' = "off" /\ scan' = {} /\ seen' = now
  /\ time' = now /\ dir' = MonthOf[now] /\ path' = NoPath /\ fd' = NoPath
  /\ web' = "idle" /\ target' = NoPath /\ exact' = TRUE
  /\ gone' = FALSE /\ raced' = {} /\ aliased' = {} /\ excused' = {}
  /\ skewed' = FALSE
  /\ UNCHANGED <<diskVars, now, clocks, failures, deletes>>

FilesNext ==
  \/ CollectDataFiles \/ WriteList \/ Start \/ WriteData \/ AppendList \/ Write \/ Stop
  \/ \E p \in Paths, own \in BOOLEAN : FilesDelete(p, own)
  \/ Remove \/ RemoveEntries \/ DeleteList
  \/ SetClock \/ Restart

FilesSpec == FilesInit /\ [][FilesNext]_filesVars
-----------------------------------------------------------------------------
FilesTypeOK ==
  /\ now \in Days /\ time \in Days /\ seen \in Days /\ dir \in Months
  /\ files \subseteq Paths /\ scan \subseteq Paths /\ dirs \subseteq Months
  /\ list = NoList \/ list \in [Paths -> Nat]
  /\ spc \in {"off", "listing", "ready", "append", "write", "idle", "stopped"}
  /\ {path, fd, target} \subseteq Paths \cup {NoPath}
  /\ web \in {"idle", "remove", "unlist"}
  /\ clocks \in 0..MaxClock /\ runs \in 1..MaxRuns
  /\ failures \in 0..MaxFailures /\ deletes \in 0..MaxDeletes
  /\ gone \in BOOLEAN /\ skewed \in BOOLEAN /\ exact \in BOOLEAN
  /\ raced \subseteq Paths /\ aliased \subseteq Paths /\ excused \subseteq Paths

(* The list names the files that are there, except for those that could not *)
(* be opened, that came or went while the web thread deleted them or while  *)
(* the list was made, that were deleted under another spelling of their     *)
(* name, and those whose line a failed call of the file system cost: the    *)
(* search of the folder, or the opening, writing or renaming of the list.   *)
ListInSync ==
  (spc \in {"ready", "write", "idle", "stopped"} /\ web = "idle" /\ list # NoList) =>
    \A p \in Paths \ excused : (list[p] > 0) = (p \in files)

(* The web does not remove the file that is written, unless the file was    *)
(* opened between the test and the removal, or its name is spelled in       *)
(* another way than the storage spells it.                                  *)
OpenFileKept == gone => fd \in raced \cup aliased

(* A line goes to the file of its day, in the folder of its month, unless   *)
(* the clock changed to the same day of another month.                      *)
LineInItsFile ==
  spc = "write" =>
    /\ fd # NoPath /\ fd = path
    /\ skewed \/ fd = [dir |-> MonthOf[seen], day |-> seen]

=============================================================================

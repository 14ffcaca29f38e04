------------------------------ MODULE Threaded ------------------------------
(***************************************************************************)
(* The base of every item with a thread of its own: start, stop, and the   *)
(* wait of the worker on the condition variable. A class that derives from *)
(* it has a worker of the form                                             *)
(*     while not told to stop: { wait until told or Ready; do its work }   *)
(* and this module has the part that all of them share.                    *)
(***************************************************************************)

VARIABLES
  worker,       (* m_thread: none when it is not joinable; top, check,     *)
                (* prewait and asleep are of its wait, any other is work   *)
  told,         (* m_stopSignal: nothing resets it                         *)
  missed,       (* history: a notification fell between check and sleep    *)
  caller        (* the thread that calls the item: it stays in stop        *)

threadVars == <<worker, told, missed, caller>>

ThreadInit == worker = "none" /\ told = FALSE /\ missed = FALSE /\ caller = "free"

Waiting == {"none", "top", "check", "prewait", "asleep", "ended"}

(* start: a thread that has not been joined is left alone.                  *)
Start ==
  /\ caller = "free"
  /\ worker' = IF worker = "none" THEN "top" ELSE worker
  /\ missed' = (worker # "none" /\ missed)
  /\ UNCHANGED <<told, caller>>

(* while( !is_stop_signal() )                                               *)
Loop ==
  /\ worker = "top" /\ worker' = IF told THEN "ended" ELSE "check"
  /\ UNCHANGED <<told, missed, caller>>

(* cv.wait: the predicate is read and the thread falls asleep with cv_m.    *)
Check(ready) ==
  /\ worker = "check" /\ worker' = IF told \/ ready THEN "work" ELSE "prewait"
  /\ UNCHANGED <<told, missed, caller>>

Sleep ==
  /\ worker = "prewait" /\ worker' = "asleep"
  /\ UNCHANGED <<told, missed, caller>>

SpuriousWakeup ==
  /\ worker = "asleep" /\ worker' = "check" /\ missed' = FALSE
  /\ UNCHANGED <<told, caller>>

(* cv.notify_one() without cv_m, of a caller that may be another thread.    *)
Notify ==
  /\ worker' = IF worker = "asleep" THEN "check" ELSE worker
  /\ missed' = IF worker = "asleep" THEN FALSE ELSE missed \/ worker = "prewait"

(* Faulty variant: the thread is not woken.                                 *)
TellSilently ==
  /\ caller = "free" /\ worker # "prewait"
  /\ caller' = "stopping"
  /\ told' = (told \/ worker # "none")
  /\ UNCHANGED <<worker, missed>>

(* stop tells the thread with cv_m, if there is one ...                     *)
Tell ==
  /\ caller = "free" /\ worker # "prewait"
  /\ caller' = "stopping"
  /\ told' = (told \/ worker # "none")
  /\ worker' = IF worker = "asleep" THEN "check" ELSE worker
  /\ missed' = IF worker = "asleep" THEN FALSE ELSE missed

(* ... and joins it.                                                        *)
Join ==
  /\ caller = "stopping" /\ worker \in {"none", "ended"}
  /\ caller' = "free" /\ worker' = "none"
  /\ UNCHANGED <<told, missed>>

Wait(ready) == Loop \/ Check(ready) \/ Sleep

=============================================================================

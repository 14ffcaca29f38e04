------------------------------ MODULE EventLoop ------------------------------
(***************************************************************************)
(* What the state machine of pi-smachine promises to the application: one  *)
(* event loop that takes events in the order in which they were queued,    *)
(* and a stack of distinct states that only changes while a CHANGE_STATE   *)
(* or POP_STATE event is being handled, one state at a time.               *)
(* Threads, wake-ups, callbacks and exceptions are left to StateMachine,   *)
(* which is shown to implement this module.                                *)
(***************************************************************************)
EXTENDS Naturals, Sequences

CONSTANTS
  Events,    (* events that can be queued, records with a type and a name  *)
  States,    (* states the factory can create                              *)
  NoEvent    (* the loop is between two events                             *)

VARIABLES
  pending,   (* events queued and not taken yet                            *)
  handling,  (* event being handled, or NoEvent                            *)
  stack,     (* state stack, the active state first                        *)
  ended      (* FINISH was handled                                         *)

vars == <<pending, handling, stack, ended>>

Holds(s) == \E i \in DOMAIN stack : stack[i] = s

Init ==
  /\ pending = <<>>
  /\ handling = NoEvent
  /\ stack = <<>>
  /\ ended = FALSE

(* An event is queued, behind the others or, when forced, instead of them. *)
Post ==
  /\ \E e \in Events, rest \in {pending, <<>>} : pending' = Append(rest, e)
  /\ UNCHANGED <<handling, stack, ended>>

Take ==
  /\ handling = NoEvent /\ ~ended /\ pending # <<>>
  /\ handling' = Head(pending)
  /\ pending' = Tail(pending)
  /\ UNCHANGED <<stack, ended>>

(* A state is entered only by a change to it, when it is not entered yet.  *)
Enter ==
  /\ handling # NoEvent
  /\ handling.type = "CHANGE"
  /\ handling.name \in States
  /\ ~Holds(handling.name)
  /\ stack' = <<handling.name>> \o stack
  /\ UNCHANGED <<pending, handling, ended>>

(* The active state is left by a pop, or by a change to a state below it.  *)
Leave ==
  /\ handling # NoEvent
  /\ stack # <<>>
  /\ \/ handling.type = "POP"
     \/ handling.type = "CHANGE" /\ Holds(handling.name) /\ Head(stack) # handling.name
  /\ stack' = Tail(stack)
  /\ UNCHANGED <<pending, handling, ended>>

Complete ==
  /\ handling # NoEvent
  /\ handling.type # "FINISH"
  /\ handling' = NoEvent
  /\ UNCHANGED <<pending, stack, ended>>

End ==
  /\ handling # NoEvent
  /\ handling.type = "FINISH"
  /\ handling' = NoEvent
  /\ ended' = TRUE
  /\ UNCHANGED <<pending, stack>>

Erase ==
  /\ ended
  /\ stack' = <<>>
  /\ UNCHANGED <<pending, handling, ended>>

Next == Post \/ Take \/ Enter \/ Leave \/ Complete \/ End \/ Erase

Spec == Init /\ [][Next]_vars
==============================================================================

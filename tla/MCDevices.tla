----------------------------- MODULE MCDevices -----------------------------
EXTENDS Devices

Transformation(op, times, first) ==
  [op |-> op, times |-> times, colours |-> <<1, 2>>, repeat |-> -1, first |-> first, leds |-> 1]

(* A group that starts at the second LED of a strip of two is written past  *)
(* its end.                                                                 *)
MCOffers == {Transformation("group", 1, 1), Transformation("right", 2, 0),
             Transformation("last", 1, 0)}
MCSettings == {[on |-> 1, off |-> 3, blinks |-> n] : n \in {0, 2}}
=============================================================================

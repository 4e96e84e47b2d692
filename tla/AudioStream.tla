------------------------------ MODULE AudioStream ------------------------------
(***************************************************************************)
(* What every provider promises of the audio of one request, whatever path *)
(* it takes from the model to the socket: the listener is given the frames *)
(* that the model made, in their order, without a gap and each once; the   *)
(* stream counts as whole only when all of them were given.                *)
(***************************************************************************)
EXTENDS Naturals, Sequences

VARIABLES
  made,   \* frames the model has made for the request
  given,  \* the frames the listener has been given
  status  \* idle, going, whole or broken

vars == <<made, given, status>>

Init == made = 0 /\ given = <<>> /\ status = "idle"

Open ==
  /\ status # "going"
  /\ made' = 0 /\ given' = <<>> /\ status' = "going"

Make == made' = made + 1 /\ status # "whole" /\ UNCHANGED <<given, status>>

Give ==
  /\ status = "going"
  /\ \E n \in (Len(given) + 1)..made : given' = [i \in 1..n |-> i]
  /\ UNCHANGED <<made, status>>

Complete ==
  /\ status = "going" /\ Len(given) = made
  /\ status' = "whole" /\ UNCHANGED <<made, given>>

Break == status = "going" /\ status' = "broken" /\ UNCHANGED <<made, given>>

(* The process is gone, and the stream with it.                              *)
Vanish == made' = 0 /\ given' = <<>> /\ status' = "idle"

Next == Open \/ Make \/ Give \/ Complete \/ Break \/ Vanish

Spec == Init /\ [][Next]_vars
================================================================================

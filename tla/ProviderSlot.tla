------------------------------ MODULE ProviderSlot ------------------------------
(***************************************************************************)
(* What the supervisor promises of the providers: there is one place for a *)
(* provider, and it is given to another one only when it is empty.  Who    *)
(* asks for a voice is promised the provider that has it, when that is     *)
(* ready; nobody takes it away before it is handed over, and the client is *)
(* served by that one process until it is answered.                        *)
(***************************************************************************)
CONSTANTS
  Providers, Installed, Clients,
  NoOne     \* no provider

VARIABLES
  stage,    \* empty, starting, ready, failed or stopping
  occupant, \* the provider that has the place, or NoOne
  wanted,   \* for each client the provider its voice belongs to, or NoOne
  served    \* "no", "promised", "slot": by the process in the place, or
            \* "gone": by one that the place was taken from

vars == <<stage, occupant, wanted, served>>

Init ==
  /\ stage = "empty" /\ occupant = NoOne
  /\ wanted = [c \in Clients |-> NoOne] /\ served = [c \in Clients |-> "no"]

Ask(c) ==
  /\ wanted[c] = NoOne
  /\ \E w \in Providers : wanted' = [wanted EXCEPT ![c] = w]
  /\ UNCHANGED <<stage, occupant, served>>

Answer(c) ==
  /\ wanted[c] # NoOne
  /\ wanted' = [wanted EXCEPT ![c] = NoOne]
  /\ served' = [served EXCEPT ![c] = "no"]
  /\ UNCHANGED <<stage, occupant>>

Using    == \E c \in Clients : served[c] = "slot"
Promised == \E c \in Clients : served[c] = "promised"

Gives(c) ==
  /\ served[c] = "no" /\ wanted[c] = occupant
  /\ served' = [served EXCEPT ![c] = "promised"]

Promise(c) ==
  /\ stage = "ready" /\ ~Promised /\ Gives(c)
  /\ UNCHANGED <<stage, occupant, wanted>>

Serve(c) ==
  /\ served[c] = "promised" /\ served' = [served EXCEPT ![c] = "slot"]
  /\ UNCHANGED <<stage, occupant, wanted>>

Start ==
  /\ stage = "empty" /\ stage' = "starting" /\ occupant' \in Installed
  /\ UNCHANGED <<wanted, served>>

(* For the client that had it started, or for a listing of its voices.       *)
Ready ==
  /\ stage = "starting" /\ stage' = "ready"
  /\ UNCHANGED served \/ \E c \in Clients : Gives(c)
  /\ UNCHANGED <<occupant, wanted>>

(* Only the work for a client makes a provider fail that was ready.          *)
Fail ==
  /\ stage = "ready" /\ Using /\ stage' = "failed"
  /\ UNCHANGED <<occupant, wanted, served>>

Stop ==
  /\ stage \in {"starting", "ready", "failed"} /\ ~Promised /\ stage' = "stopping"
  /\ UNCHANGED <<occupant, wanted, served>>

(* The place is empty again once the provider has stopped, or at once when   *)
(* somebody is still being served.  If that was an error, a client who waits *)
(* for it is answered.                                                       *)
Vacate ==
  /\ stage = "stopping" \/ (stage \in {"ready", "failed"} /\ Using)
  /\ ~Promised
  /\ stage' = "empty" /\ occupant' = NoOne
  /\ served' = [c \in Clients |-> IF served[c] = "slot" THEN "gone" ELSE served[c]]
  /\ \/ UNCHANGED wanted
     \/ \E c \in Clients : served[c] = "no" /\ wanted' = [wanted EXCEPT ![c] = NoOne]

Next ==
  \/ \E c \in Clients : Ask(c) \/ Answer(c) \/ Promise(c) \/ Serve(c)
  \/ Start \/ Ready \/ Fail \/ Stop \/ Vacate

Spec == Init /\ [][Next]_vars
=============================================================================

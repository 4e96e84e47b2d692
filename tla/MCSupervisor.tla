----------------------------- MODULE MCSupervisor -----------------------------
(* Values of Supervisor's constants for TLC. *)
EXTENDS Supervisor, TLC

CONSTANTS kokoro, qwen3, omnivoice, c1, c2, c3

OneProvider == <<kokoro>>
TwoProviders == <<kokoro, qwen3>>
ThreeProviders == <<kokoro, omnivoice, qwen3>>
ClientSymmetry == Permutations(Clients)
=============================================================================

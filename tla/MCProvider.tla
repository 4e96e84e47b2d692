------------------------------ MODULE MCProvider ------------------------------
(* The provider process, and next to it the chunking of texts, which has no  *)
(* state: a text that is not empty is an initial state where nothing runs.   *)
EXTENDS Provider, Chunker

MCInit == Init /\ text \in IF kind = "omnivoice" THEN Texts ELSE {<<>>}
MCNext == text = <<>> /\ Next /\ UNCHANGED text
MCSpec == MCInit /\ [][MCNext]_<<vars, text>> /\ Fairness
=============================================================================

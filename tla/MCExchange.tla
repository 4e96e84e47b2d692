------------------------------ MODULE MCExchange ------------------------------
(* Clients for TLC's instances of Exchange.                                  *)
EXTENDS Exchange

CONSTANTS c1, c2, c3
=============================================================================

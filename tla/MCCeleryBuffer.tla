---------------------------- MODULE MCCeleryBuffer ----------------------------
(* CeleryBuffer on a small instance: two callers of add(), three records,      *)
(* batches of two, and room for the timers two callers can start.              *)
EXTENDS CeleryBuffer
=============================================================================

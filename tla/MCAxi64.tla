------------------------------ MODULE MCAxi64 ------------------------------
(* Axi64 for TLC.                                                          *)
EXTENDS Axi64
=============================================================================

------------------------------ MODULE MCProcess ------------------------------
(* Instances of Process for TLC.                                           *)
EXTENDS ProcessLife
=============================================================================

------------------------------- MODULE MCSync10 -------------------------------
(* One document, which is there at first or not: documents do not meet.     *)
EXTENDS Sync10, TLC

CONSTANT d
=============================================================================

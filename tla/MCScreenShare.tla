---------------------------- MODULE MCScreenShare ----------------------------
(* ScreenShare with two browsers and one tablet connection, which has at    *)
(* most two rooms; a silent room expires with the second tick.              *)
EXTENDS ScreenShare, TLC

CONSTANTS tablet, v1, v2
=============================================================================

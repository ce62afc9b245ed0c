---------------------------- MODULE MCAutomation ----------------------------
(* Automation with one integration ID that two users may hold in turn.      *)
EXTENDS Automation

CONSTANTS i1, alice, bob, e1, e2

MCId == {i1}
MCUser == {alice, bob}
MCEvent == {e1, e2}
MCEventUser == (e1 :> alice) @@ (e2 :> alice)
=============================================================================

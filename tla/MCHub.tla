-------------------------------- MODULE MCHub --------------------------------
(* Hub with two connections of one user, on two devices, a notification     *)
(* from one of the devices, one from none, and one for a user who is not    *)
(* connected.                                                               *)
EXTENDS Hub, TLC

CONSTANTS a1, b1, devA, devB, alice, bob, n1, n2, n3

MCConn == {a1, b1}
MCUserOf == [c \in MCConn |-> alice]
MCDeviceOf == (a1 :> devA) @@ (b1 :> devB)
MCNote == {n1, n2, n3}
MCNoteUser == (n1 :> alice) @@ (n2 :> alice) @@ (n3 :> bob)
MCNoteFrom == (n1 :> devB) @@ (n2 :> NoDevice) @@ (n3 :> NoDevice)
=============================================================================

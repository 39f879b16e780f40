---------------------------- MODULE MCProvisioner ----------------------------
(* Instances of Provisioner for TLC.                                       *)
EXTENDS Provisioner
CONSTANTS c1, c2
NoOwnPools == [c \in Claims |-> 0]
\* The claim c2 asks for pool 1, which somebody may have made by hand.
HandPool == [c \in Claims |-> IF c = c2 THEN 1 ELSE 0]
=============================================================================

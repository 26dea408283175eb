------------------------------ MODULE MCNonMotor -------------------------------
(* NonMotorHandler on small instances. *)
EXTENDS NonMotorHandler

CONSTANTS Once     \* the objects that get one value; the others get two

MCMaxGen == [o \in Objs |-> IF o \in Once THEN 1 ELSE 2]
=============================================================================

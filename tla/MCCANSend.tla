------------------------------ MODULE MCCANSend ------------------------------
(* Small instances of CANSend.                                             *)
EXTENDS CANSend

NoOffset == [c \in Items |-> 0]
=============================================================================

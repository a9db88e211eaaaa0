------------------------------ MODULE MCDevices ------------------------------
(***************************************************************************)
(* Values of the constants of Devices for TLC.                             *)
(***************************************************************************)
EXTENDS Devices

(* A terminator of one byte and one of two; a frame may carry 0x55 as data. *)
MCTerminators == {<<10>>, <<10, 0>>}
MCData == {Sync, <<"data", 1>>}
=============================================================================

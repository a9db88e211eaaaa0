-------------------------------- MODULE MCUART --------------------------------
(***************************************************************************)
(* Values of the constants of UART for TLC: a terminator of one byte and   *)
(* one of two.                                                             *)
(***************************************************************************)
EXTENDS UART

MCTerminators == {<<10>>, <<10, 0>>}
=============================================================================

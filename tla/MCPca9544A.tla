------------------------------ MODULE MCPca9544A ------------------------------
(***************************************************************************)
(* Values of the constants of Pca9544A for TLC.                            *)
(***************************************************************************)
EXTENDS Pca9544A

(* A register address is written and one byte read after a repeated start. *)
MCCalls == {Write8Read(1, TRUE, TRUE)}
=============================================================================

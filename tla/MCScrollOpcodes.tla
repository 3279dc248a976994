--------------------------- MODULE MCScrollOpcodes ---------------------------
(***************************************************************************)
(* A small instance of ScrollOpcodes.                                      *)
(***************************************************************************)
EXTENDS ScrollOpcodes

MCStaticGas == [op \in Opcodes |-> IF op = "SELFDESTRUCT" THEN 0 ELSE 1]
=============================================================================

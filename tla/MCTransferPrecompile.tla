------------------------- MODULE MCTransferPrecompile -------------------------
(***************************************************************************)
(* A small instance of TransferPrecompile: alice starts the token or a     *)
(* dapp; rich's balance is close to the largest U256, so that the supply   *)
(* is above it as in the tests of the precompile.                          *)
(***************************************************************************)
EXTENDS TransferPrecompile

CONSTANTS alice, rich, dapp

MCAccounts  == {alice, rich, dapp, Token, Transfer}
MCContracts == {dapp, Token}
MCBalance   == [a \in MCAccounts |-> CASE a = rich -> 6 [] a = alice -> 2 [] a = Token -> 1
                                       [] OTHER -> 0]
=============================================================================

--------------------------- MODULE MCPurePrecompiles ---------------------------
(***************************************************************************)
(* A small instance of PurePrecompiles: every header, complete or cut off  *)
(* anywhere, and longer inputs for the limits on whole inputs.             *)
(***************************************************************************)
EXTENDS PurePrecompiles

MaxLength == BERNOULLI_PAIRS * PAIR_ELEMENT_LEN + 1

MCInputs == BoundedSeq(0 .. BYTE - 1, 3 * WORD) \cup {[i \in 1 .. n |-> 0] : n \in 0 .. MaxLength}
=============================================================================

------------------------------ MODULE MCL1Oracle ------------------------------
(***************************************************************************)
(* Small instances of L1Oracle.  The integers keep the proportions that    *)
(* FeeAssumption asks for; 20 * 20 saturates.                              *)
(***************************************************************************)
EXTENDS L1Oracle

\* Two lengths, a ratio that is missing, too small, or on either side of the threshold, and a
\* compressed size that is missing, small, or longer than the transaction.
MCDataSet == [zeros : {1}, nonzeros : {0, 2}, ratio : {None, 1, 2, 4}, compressed : {None, 1, 2, 3}]

\* One fork of each formula, and of each cap.
MCSpecs == {BERNOULLI, DARWIN, FEYNMAN, GALILEO, TSUKI_V2}
=============================================================================

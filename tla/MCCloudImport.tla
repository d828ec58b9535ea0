--------------------------- MODULE MCCloudImport ---------------------------
(* An instance of CloudImport for TLC: the batches of one export are alike.  *)
EXTENDS CloudImport, TLC

BatchSymmetry == Permutations(Txs)
=============================================================================

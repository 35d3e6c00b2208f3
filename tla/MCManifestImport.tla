--------------------------- MODULE MCManifestImport ---------------------------
(* Instances of ManifestImport for the model checker.                      *)
EXTENDS ManifestImport, TLC

AllSymmetry == Permutations(Imports) \cup Permutations(Workers)
==============================================================================

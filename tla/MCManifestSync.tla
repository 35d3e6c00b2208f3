---------------------------- MODULE MCManifestSync ----------------------------
\* Instances of ManifestSync for TLC.
EXTENDS ManifestSync
CONSTANT x1
OneUnacceptable == {<<x1, 2>>}
Symmetric == Permutations(BatchIds) \cup Permutations(Imports)
==============================================================================

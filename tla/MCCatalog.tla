------------------------------- MODULE MCCatalog -------------------------------
\* Instances of Catalog for TLC: two sources, the first with two items.
EXTENDS Catalog, TLC
CONSTANTS x1, x2
TwoSources == {<<"phone", x1>>, <<"phone", x2>>, <<"disk", x1>>}
OneSource  == {<<"phone", x1>>, <<"phone", x2>>}
Symmetric  == Permutations({x1, x2}) \cup Permutations(Hashes) \cup Permutations(Sizes) \cup
              Permutations(Keys) \cup Permutations(Requests)
\* Everything but the change rows of the last transaction.
NoFeed     == <<asset, occ, removed, records, request, applied, overtaken, disputed, merged>>
==============================================================================

------------------------- MODULE MCCatalogTorrents -------------------------
\* Small instances of CatalogTorrents.  Loads and callers are interchangeable.
EXTENDS CatalogTorrents, TLC

Symmetry == Permutations(Loads) \cup Permutations(Callers)
=============================================================================

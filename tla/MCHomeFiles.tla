---------------------------- MODULE MCHomeFiles -----------------------------
\* Small instances of HomeFiles.
EXTENDS HomeFiles
=============================================================================

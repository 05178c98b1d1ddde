------------------------- MODULE MCImportPromotion -------------------------
\* A small instance of ImportPromotion.
EXTENDS ImportPromotion, TLC

CONSTANTS v1, v2, v3, h1, h2

\* Two versions of different content, and a third one identical to the first.
MCHashOf == (v1 :> h1) @@ (v2 :> h2) @@ (v3 :> h1)
=============================================================================

--------------------------- MODULE MCBulkRemember ---------------------------
(* BulkRemember with model values for its items.                           *)
EXTENDS BulkRemember
CONSTANTS i1, i2, i3, i4
=============================================================================

----------------------------- MODULE MCMemAlloc -----------------------------
(* An instance of MemAlloc for TLC.                                        *)
EXTENDS MemAlloc

\* Nothing, a size to be rounded up, more than a page, and a size whose
\* rounding wraps around.
SmallQueries == {0, 3, 15, SizeMod - 1}
=============================================================================

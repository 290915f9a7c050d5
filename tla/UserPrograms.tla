---------------------------- MODULE UserPrograms ----------------------------
(***************************************************************************)
(* Three programs that a user runs from the shell, side by side: the prime *)
(* test of LAB3, the rotation of LAB5 and tee.  They share nothing.        *)
(***************************************************************************)
EXTENDS Integers

CONSTANTS
  IntMax, ULongMax, Typed,    \* INT_MAX, ULONG_MAX, the numbers typed in
  Sides, Garbage, MaxTurns,   \* pictures, and runs of the program over one
  FileCount, Length, Old      \* files of tee, and bytes of its input

VARIABLES
  ppc, word, divisor, verdict,
  bpc, disk, image, original, valid, turns,
  tpc, append_mode, ignore_interrupts_mode, openable, output_ok,
  at, opened, data, pending, writing, unlisted, torn, taken, out, errors

Prime == INSTANCE PrimeCheck WITH MaxInt <- IntMax, MaxULong <- ULongMax, Words <- Typed
Bmp == INSTANCE BmpRotation WITH MaxRuns <- MaxTurns
Filter == INSTANCE Tee

(* When the prime test is right, and when it says prime of a product.      *)
PrimeVerdict == Prime!PrimeVerdict

(* The file after n runs holds the picture turned n times.                 *)
TurnedPicture == Bmp!TurnedPicture

(* Every file has what was read, but for the byte under way.               *)
TeeCopies == Filter!TeeCopies
=============================================================================

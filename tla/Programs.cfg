\* The list program twice over the same files, the other programs once each
\* (bmp over its own output).
SPECIFICATION ProgramsSpec
CONSTANTS
  MaxInt = 3
  Inputs <- SomeInputs
  MaxTyped = 2
  TextFiles <- SomeTextFiles
  Base = 2
  Junk = Junk
  Sign = Sign
  NoFile = NoFile
  MaxNodes = 11
  PowerCount = 2
  MaxRuns = 2
  IntMax = 31
  ULongMax = 4095
  Typed <- SomeNumbers
  Sides <- SomeSides
  Garbage = Garbage
  MaxTurns = 5
  FileCount = 2
  Length = 3
  Old = Old
INVARIANTS FilesRoundTrip PrimeVerdict TurnedPicture TeeCopies
PROPERTIES ListSpec ForthSpec
\* The programs end.
CHECK_DEADLOCK FALSE

----------------------------- MODULE BmpRotation -----------------------------
(***************************************************************************)
(* LAB5: read a bmp file, turn the picture by 90 degrees, write it.  The   *)
(* program is run over its own output.  A pixel is a model value and takes *)
(* three bytes; rows are padded.                                           *)
(***************************************************************************)
EXTENDS Naturals

CONSTANTS
  Sides,      \* widths and heights of the pictures
  Garbage,    \* what is read from beyond the data that were loaded
  MaxRuns     \* bound on the runs of the program

VARIABLES
  bpc,        \* where main is
  disk,       \* the file: type, width, height, biSizeImage, bytes by offset
  image,      \* in_image, then out_image
  original,   \* the picture in the first file
  valid,      \* its header gives the size of its data
  turns       \* runs completed

vars == <<bpc, disk, image, original, valid, turns>>

Picture(w, h, p) == [width |-> w, height |-> h, pixels |-> p]
Cells(w, h) == 0 .. w * h - 1

\* Fault: the padding of a row of w bytes, not of w pixels.
PaddingOfBytes(w) == (4 - (w % 4)) % 4

(* A row of w pixels takes 3w bytes, so w % 4 more make a multiple of 4.   *)
(* The reader and the writer each compute the padding.                     *)
ReadPadding(w) == w % 4
WritePadding(w) == w % 4
Offset(padding, w, cell) == (3 * cell) + (padding * (cell \div w))

(* bmp_io.c lines 6-28 and 63-86.  The header's size is the size of the    *)
(* rows; more is written, three bytes for every byte of padding.           *)
FileOf(pic) ==
  LET w == pic.width  h == pic.height  padding == WritePadding(w)
      size == (w * h * 3) + (h * padding)
      written == (w + padding) * h * 3
      at == [o \in {Offset(padding, w, c) : c \in Cells(w, h)} |->
               CHOOSE c \in Cells(w, h) : Offset(padding, w, c) = o]
  IN [type |-> "BM", width |-> w, height |-> h, sizeImage |-> size,
      length |-> written, bytes |-> [o \in DOMAIN at |-> pic.pixels[at[o]]]]

(* Lines 30-60: biSizeImage bytes are loaded, which is 0 in some files.    *)
PictureOf(file) ==
  LET w == file.width  h == file.height
      from(c) == Offset(ReadPadding(w), w, c)
      loaded(o) == o + 3 <= file.sizeImage /\ o \in DOMAIN file.bytes
  IN Picture(w, h, [c \in Cells(w, h) |->
       IF loaded(from(c)) THEN file.bytes[from(c)] ELSE Garbage])

(* rotation.c: the pixel of row and col goes to row w - col - 1, column row.*)
Rotate(pic) ==
  LET w == pic.width  h == pic.height
  IN Picture(h, w, [c \in Cells(h, w) |->
                      pic.pixels[((c % h) * w) + ((w - 1) - (c \div h))]])

Nothing == Picture(0, 0, <<>>)

Init ==
  /\ bpc = "start" /\ turns = 0 /\ valid = FALSE
  /\ disk = [type |-> "none"] /\ image = Nothing /\ original = Nothing

(* A picture of distinct pixels; its file may say that its data take 0     *)
(* bytes, may be of another type, and may be missing.                      *)
Setup ==
  /\ bpc = "start"
  /\ \E w, h \in Sides : original' = Picture(w, h, [c \in Cells(w, h) |-> c])
  /\ \/ disk' = FileOf(original') /\ valid' = TRUE
     \/ disk' = [FileOf(original') EXCEPT !.sizeImage = 0] /\ valid' = FALSE
     \/ /\ \E t \in {"zero", "other"} : disk' = [FileOf(original') EXCEPT !.type = t]
        /\ valid' = FALSE
     \/ disk' = [type |-> "none"] /\ valid' = FALSE
  /\ bpc' = "read"
  /\ UNCHANGED <<image, turns>>

(* main.c lines 21-46.  Any type but 0 is taken for a bmp file (line 37).  *)
ReadOk ==
  /\ bpc = "read" /\ disk.type \notin {"none", "zero"}
  /\ image' = PictureOf(disk)
  /\ bpc' = "rotate"
  /\ UNCHANGED <<disk, original, valid, turns>>

ReadFails ==
  /\ bpc = "read" /\ disk.type \in {"none", "zero"}
  /\ bpc' = "failed"
  /\ UNCHANGED <<disk, image, original, valid, turns>>

(* Line 48.                                                                *)
RotatePicture ==
  /\ bpc = "rotate"
  /\ image' = Rotate(image)
  /\ bpc' = "write"
  /\ UNCHANGED <<disk, original, valid, turns>>

(* Lines 49-70.                                                            *)
WriteOk ==
  /\ bpc = "write"
  /\ disk' = FileOf(image)
  /\ turns' = turns + 1
  /\ bpc' = "done"
  /\ UNCHANGED <<image, original, valid>>

WriteFails ==
  /\ bpc = "write"
  /\ bpc' = "failed"
  /\ UNCHANGED <<disk, image, original, valid, turns>>

RunAgain ==
  /\ bpc = "done" /\ turns < MaxRuns
  /\ image' = Nothing
  /\ bpc' = "read"
  /\ UNCHANGED <<disk, original, valid, turns>>

Next == \/ Setup \/ ReadOk \/ ReadFails \/ RotatePicture \/ WriteOk
        \/ WriteFails \/ RunAgain

Spec == Init /\ [][Next]_vars

-----------------------------------------------------------------------------
\* Where the pixel comes from that is in row r and column c after n turns.
Source(n, r, c) ==
  LET w == original.width  h == original.height
  IN CASE n % 4 = 0 -> [row |-> r, col |-> c]
       [] n % 4 = 1 -> [row |-> c, col |-> w - 1 - r]
       [] n % 4 = 2 -> [row |-> h - 1 - r, col |-> w - 1 - c]
       [] n % 4 = 3 -> [row |-> h - 1 - c, col |-> r]

(* The file left after n runs is a bmp file with rows of whole words, and  *)
(* holds the first picture turned n times: every pixel is written where    *)
(* the next run reads it, and four runs give the picture back.             *)
TurnedPicture ==
  bpc = "done" /\ valid =>
    LET pic == PictureOf(disk)  w == pic.width
    IN /\ disk.sizeImage <= disk.length
       /\ disk.sizeImage % 4 = 0 /\ (disk.sizeImage \div disk.height) % 4 = 0
       /\ <<w, pic.height>> = IF turns % 2 = 0 THEN <<original.width, original.height>>
                              ELSE <<original.height, original.width>>
       /\ \A r \in 0 .. pic.height - 1, c \in 0 .. w - 1 :
            LET s == Source(turns, r, c)
            IN pic.pixels[r * w + c] = original.pixels[s.row * original.width + s.col]
=============================================================================

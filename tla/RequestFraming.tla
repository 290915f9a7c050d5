--------------------------- MODULE RequestFraming ---------------------------
(***************************************************************************)
(* One connection of the directory server of lab6, byte by byte: client.c  *)
(* writes its arguments as lines, TCP delivers the bytes in pieces of any  *)
(* length, read_request joins them until the empty line, and the worker    *)
(* cuts the request into paths.  PoolServer takes both loops as one step   *)
(* each; that it may is RequestSpec.                                       *)
(***************************************************************************)
EXTENDS Naturals, Sequences, SequencesExt

CONSTANTS
  Letters,     \* bytes of paths
  CR, LF,      \* '\r' and '\n'
  Requests,    \* argument lists of the client, argv[3] and on
  BufSize      \* most bytes one read returns (line 14)

ASSUME FramingAssumption ==
  /\ CR # LF /\ CR \notin Letters /\ LF \notin Letters
  /\ Requests \subseteq Seq(Seq(Letters))
  /\ BufSize \in Nat \ {0}

VARIABLES
  paths,                  \* the arguments of this client
  unsent,                 \* writes the client has still to make
  gone,                   \* it has closed its end
  wire,                   \* bytes written and not read yet
  pc,                     \* the worker: "read", "split", "done" or "refused"
  request,                \* the bytes joined so far
  path_start, path_end,   \* the indices of the splitting loop, from 1
  answered                \* paths handed to opendir and answered

clientVars == <<paths, unsent, gone>>
serverVars == <<request, path_start, path_end, answered>>
vars == <<clientVars, wire, pc, serverVars>>

-----------------------------------------------------------------------------
(* The client, client.c lines 40-44.                                       *)

Segments(args) ==
  [i \in 1 .. 2 * Len(args) + 1 |->
     IF i % 2 = 1 /\ i < 2 * Len(args) THEN args[(i + 1) \div 2] ELSE <<CR, LF>>]

WriteSegment ==
  /\ ~gone /\ unsent # <<>>
  /\ wire' = wire \o Head(unsent)
  /\ unsent' = Tail(unsent)
  /\ UNCHANGED <<paths, gone, pc, serverVars>>

(* A client may be killed at any time; client.c itself closes only after   *)
(* the server has.                                                         *)
Leave ==
  /\ ~gone
  /\ gone' = TRUE
  /\ UNCHANGED <<paths, unsent, wire, pc, serverVars>>

-----------------------------------------------------------------------------
(* read_request, lines 25-51.                                              *)

EndsInNewline(r, back) ==
  Len(r) >= back /\ r[Len(r) - back + 1] = CR /\ r[Len(r) - back + 2] = LF

\* Fault: the line before the last is not looked at (the test of line 42).
VerdictFirstLine(r) ==
  IF ~EndsInNewline(r, 2) THEN "read" ELSE IF Len(r) = 2 THEN "refused" ELSE "split"

(* Lines 36-45.  "\r\n\r\n" is neither the empty request nor longer than 4. *)
Verdict(r) ==
  IF ~EndsInNewline(r, 2) THEN "read"
  ELSE IF Len(r) = 2 THEN "refused"
  ELSE IF Len(r) > 4 /\ EndsInNewline(r, 4) THEN "split"
  ELSE "read"

\* Fault: the end is searched in the bytes of the last read only.
ReadLastPiece ==
  /\ pc = "read"
  /\ \E n \in 1 .. Len(wire) :
       /\ n <= BufSize
       /\ request' = request \o SubSeq(wire, 1, n)
       /\ pc' = IF n < 2 THEN "read" ELSE Verdict(request')
       /\ wire' = SubSeq(wire, n + 1, Len(wire))
  /\ UNCHANGED <<clientVars, path_start, path_end, answered>>

(* read() returns any part of what has arrived.                            *)
Read ==
  /\ pc = "read"
  /\ \E n \in 1 .. Len(wire) :
       /\ n <= BufSize
       /\ request' = request \o SubSeq(wire, 1, n)
       /\ pc' = Verdict(request')
       /\ wire' = SubSeq(wire, n + 1, Len(wire))
  /\ UNCHANGED <<clientVars, path_start, path_end, answered>>

(* read() returns 0: lines 48-50.                                          *)
EndOfInput ==
  /\ pc = "read" /\ wire = <<>> /\ gone
  /\ pc' = "refused"
  /\ UNCHANGED <<clientVars, wire, serverVars>>

-----------------------------------------------------------------------------
(* The splitting loop of the worker, lines 74-100.                         *)

\* Fault: only the '\r' is stepped over (1 for the 2 of lines 83 and 97).
AnswerPathShortStep ==
  /\ pc = "split"
  /\ \E cr \in path_end .. Len(request) :
       /\ request[cr] = CR /\ CR \notin {request[i] : i \in path_end .. cr - 1}
       /\ answered' = Append(answered, SubSeq(request, path_start, cr - 1))
       /\ path_start' = cr + 1
       /\ path_end' = cr + 2
  /\ UNCHANGED <<clientVars, wire, pc, request>>

(* A '\r' ends a path, which is answered whether opendir succeeds or not.  *)
(* Both branches step over "\r\n"; the loop then adds one more to          *)
(* path_end, so the first byte of a path is never compared with '\r' and   *)
(* the '\r' of the last, empty line is not taken for the end of a path.    *)
AnswerPath ==
  /\ pc = "split"
  /\ \E cr \in path_end .. Len(request) :
       /\ request[cr] = CR /\ CR \notin {request[i] : i \in path_end .. cr - 1}
       /\ answered' = Append(answered, SubSeq(request, path_start, cr - 1))
       /\ path_start' = cr + 2
       /\ path_end' = cr + 3
  /\ UNCHANGED <<clientVars, wire, pc, request>>

(* The loop ends and the worker closes the connection.                     *)
NoMorePaths ==
  /\ pc = "split"
  /\ CR \notin {request[i] : i \in path_end .. Len(request)}
  /\ pc' = "done"
  /\ UNCHANGED <<clientVars, wire, serverVars>>

Init ==
  /\ paths \in Requests
  /\ unsent = Segments(paths)
  /\ gone = FALSE
  /\ wire = <<>>
  /\ pc = "read"
  /\ request = <<>>
  /\ path_start = 1 /\ path_end = 1
  /\ answered = <<>>

Worker == Read \/ EndOfInput \/ AnswerPath \/ NoMorePaths

Next == WriteSegment \/ Leave \/ Worker

Spec == Init /\ [][Next]_vars

(* The worker runs; a client that does not leave writes all its lines.     *)
FairSpec == Spec /\ WF_vars(Worker) /\ WF_vars(WriteSegment)

-----------------------------------------------------------------------------
(* However the bytes are cut into reads, the paths answered are those the  *)
(* client sent, in its order, and all of them when the worker closes the   *)
(* connection; no path is read from beyond the request (lines 74-100).     *)
AnswersThePaths ==
  /\ IsPrefix(answered, paths)
  /\ path_start \in 1 .. Len(request) + 1
  /\ pc = "done" => answered = paths

(* The two loops implement the steps PoolServer takes in their place: a    *)
(* request is accepted only when its last line was sent, refused only when *)
(* it has no path or its client left, and every path is answered once.     *)
LinesSent == IF unsent = <<>> THEN Len(paths) + 1
             ELSE (Len(Segments(paths)) - Len(unsent)) \div 2
Service == INSTANCE RequestService
             WITH total <- Len(paths), lines <- LinesSent, left <- gone,
                  state <- CASE pc = "read" -> "reading"
                             [] pc = "split" -> "serving"
                             [] OTHER -> pc,
                  served <- Len(answered)
RequestSpec == Service!Spec

(* A request sent to its end is answered or refused: the worker does not   *)
(* wait for more (lines 31-46).                                            *)
WholeRequestSettled == (unsent = <<>>) ~> (pc \in {"done", "refused"})
=============================================================================

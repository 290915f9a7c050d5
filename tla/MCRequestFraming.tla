-------------------------- MODULE MCRequestFraming --------------------------
(* Instances of RequestFraming for TLC.                                    *)
EXTENDS RequestFraming

CONSTANTS a, b

\* All lists of at most three paths of one or two bytes.
PathLists == BoundedSeq({<<a>>, <<b>>, <<a, b>>, <<b, b>>}, 3)

\* client host port "": one argument, and that empty.
EmptyPath == { << <<>> >> }
=============================================================================

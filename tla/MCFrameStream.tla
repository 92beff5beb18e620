--------------------------- MODULE MCFrameStream ---------------------------
(***************************************************************************)
(* Small instances of FrameStream: frames of three bytes, so that a cut    *)
(* can fall before, inside and after every frame.  In FrameFormat a byte   *)
(* has three values, so that the checksum wraps as it does in the code.    *)
(***************************************************************************)
EXTENDS FrameFormat

\* A wire shorter than a frame makes every send() partial.
ShortWire == FrameSize - 1
LongWire == 2 * FrameSize

=============================================================================

--------------------------- MODULE MCExactTransport ---------------------------
(***************************************************************************)
(* Two frames, and tokens enough for any two of them, or for both answers  *)
(* and a stray one before, between or after them.                          *)
(***************************************************************************)
EXTENDS ExactTransport
=============================================================================

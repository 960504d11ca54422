-------------------------- MODULE MCSessionPublisher --------------------------
(* Two invocations race for one session; one of them knows the bytes it  *)
(* expects.  Two items of two chunks: a copy can be torn, and a failure    *)
(* can hit between two copies.                                             *)
EXTENDS SessionPublisher

CONSTANTS p1, p2

MCPublishers == {p1, p2}
MCChecked == {p1}
=============================================================================

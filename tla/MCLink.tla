------------------------------- MODULE MCLink -------------------------------
(* Link with two calls of the phone, either of which can be abandoned, and *)
(* two things that go wrong.                                               *)
EXTENDS Link
=============================================================================

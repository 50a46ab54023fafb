----------------------------- MODULE MCLoopback -----------------------------
(* Tests of six bytes over FIFOs of two, with a ring of six: blocks of one  *)
(* to five bytes enter the unrolled loop at each of its copies and go round *)
(* it.                                                                      *)
EXTENDS Loopback

=============================================================================

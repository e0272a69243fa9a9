------------------------------ MODULE MCNetRing ------------------------------
(***************************************************************************)
(* A ring of eight bytes for records of three and five: two that fill it   *)
(* to the last byte, records across the edge at every place, indices that  *)
(* wrap after two rounds, and lengths that need the second header byte.    *)
(***************************************************************************)
EXTENDS NetRing

MCFrames == {<<1>>, <<1, 0, 2>>}
=============================================================================

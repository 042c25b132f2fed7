-------------------------- MODULE MCOfftaskService --------------------------
(* Small instances of OfftaskService for TLC. *)
EXTENDS OfftaskService

\* A Spark order, one without an id, a gots order, and one of mode 5.
MixedOfid == <<7, 0, 9, 4>>
MixedMode == <<0, 1, 6, 5>>
=============================================================================

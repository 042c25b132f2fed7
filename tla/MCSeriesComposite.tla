-------------------------- MODULE MCSeriesComposite --------------------------
(* Small instances of SeriesComposite for TLC: a signed type of six values. *)
EXTENDS SeriesComposite

AllMethods == {-1, 0, 1}
TypeLo == -2
TypeHi == 3
TwoRanges == {[vmin |-> -2, vmax |-> 3], [vmin |-> 0, vmax |-> 2]}
=============================================================================

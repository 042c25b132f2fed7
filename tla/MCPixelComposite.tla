-------------------------- MODULE MCPixelComposite --------------------------
(* Small instances of PixelComposite for TLC. *)
EXTENDS PixelComposite

CONSTANTS Methods, Fills, Bounds

SomeCalls ==
  {[method |-> m, validmin |-> b[1], validmax |-> b[2], fillval |-> f] :
     m \in Methods, b \in Bounds, f \in Fills}

\* All values valid, and a range that leaves some out.
TwoBounds == {<<-3, 3>>, <<0, 2>>}

\* A signed output type of three bits, and fill values it holds.
SignedVals  == -3..3
SignedLo    == -4
SignedFills == {-3, 0, 3}

\* An unsigned output type, and a fill value it does not hold (as -9999 in a byte).
ByteVals  == 0..3
ByteFills == {-3}
=============================================================================

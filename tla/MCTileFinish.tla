----------------------------- MODULE MCTileFinish -----------------------------
(***************************************************************************)
(* Tiles of 3 x 2 pixels.  Regions of up to three runs in and around tile  *)
(* (1, 1) at its own zoom level; for the methods with levels, two lists,   *)
(* so that the tiles of level 2 and 3 are magnified 2 and 4 times, and     *)
(* none.  Styles: tables of none to five entries, with equal neighbours,   *)
(* out of order, and with values between the integers; Unit is 2, so that  *)
(* odd numbers are halves.                                                 *)
(***************************************************************************)
EXTENDS TileFinish

Seg(y, x0, x1) == [y |-> y, x0 |-> x0, x1 |-> x1]
RunsIn(Y, X) == {r \in {Seg(y, x0, x1) : y \in Y, x0 \in X, x1 \in X} : r.x0 <= r.x1}
Lists(S) == {<<>>} \cup {<<a>> : a \in S} \cup {l \in S \X S : SortedByRow(l)}
Threes(S) == {l \in S \X S \X S : SortedByRow(l)}

FlatRegions == {<<l>> : l \in Lists(RunsIn(1 .. 4, {2, 3, 5, 6})) \cup Threes(RunsIn(1 .. 4, {2, 4, 6}))}
DisjointRegions == {<<l>> : l \in {k \in Lists(RunsIn(1 .. 4, {2, 3, 5, 6})) : Apart(k)}}
LevelRegions ==
  {<<>>} \cup {<<<<Seg(1, 1, 2)>>, l>> : l \in {k \in Lists(RunsIn(0 .. 3, {0, 1, 3, 4})) : Apart(k)}}
SmallRegions ==
  [m \in ClipMethods |-> CASE m = "clip" -> FlatRegions
                          [] m = "zonal" -> DisjointRegions
                          [] OTHER -> LevelRegions]
FourTiles == {[z |-> z, y |-> Min({z, 1}), x |-> Min({z, 1})] : z \in 0 .. 3}

Picture(rows) == [p \in Pixel |-> rows[p[2] + 1][p[1] + 1]]
TwoPictures == {Picture(<<<<0, 1, 2>>, <<2, -1, 0>>>>), Picture(<<<<1, 2, 0>>, <<1, 3, 2>>>>)}

E(v, c) == [v |-> v, c |-> c]
FiveColors == [i \in 1 .. 5 |-> <<10 * i, 60 - 10 * i, 7 * i, 255>>]
Clear == <<0, 0, 0, 0>>
SomeNodata == {E(1, Clear), E(4, Clear)}
Garbage == {E(-2, <<1, 2, 3, 4>>), E(4, <<9, 9, 9, 9>>)}
Rubbish == {<<0, 0, 0, 0>>, <<77, 77, 77, 77>>}
OneEitherWay == -1 .. 1
SomeSpans == {[low |-> -2, high |-> 6, count |-> 5], [low |-> 0, high |-> 10, count |-> 3]}

R(a, b) == [low |-> a, high |-> b]
TableOf(s) == [i \in DOMAIN s |-> E(s[i], FiveColors[i])]
S(t, tab, nd, r, b) ==
  [type |-> t, table |-> TableOf(tab), nodata |-> E(nd, Clear), ranges |-> r, bands |-> b]
Lookups ==
  {S(t, tab, nd, <<>>, b) :
     t \in Searched, nd \in {3, 99}, b \in {<<>>, <<1>>, <<5>>},
     tab \in {<<>>, <<2>>, <<3>>, <<0, 4>>, <<-4, 0, 2, 5, 8>>, <<-3, -1, 1, 3, 5>>, <<0, 2, 3, 4>>,
              <<6, 2, 4>>, <<-2, 0, 4, 6>>}}
Stretches ==
  {S("gray", <<>>, nd, <<r>>, <<>>) : nd \in {3, 99}, r \in {R(0, 6), R(6, 0), R(2, 2), R(-3, 3)}}
  \cup {S("rgb", <<>>, 2, <<R(0, 6), R(0, 8), R(-2, 2)>>, <<0, 1, 0>>),
        S("rgba", <<>>, 99, <<R(0, 6), R(0, 8), R(-2, 2), R(0, 4)>>, <<0, 1, 0, 1>>),
        S("gray", <<>>, 2, <<>>, <<>>), S("rgb", <<>>, 2, <<R(0, 6)>>, <<>>),
        S("", <<>>, 0, <<>>, <<>>), S("other", <<>>, 0, <<>>, <<>>)}
SomeStyles == Lookups \cup Stretches

OneBand == [whole |-> TRUE, bands |-> << [p \in Dots |-> <<0, 2, 4, 6, -2, 8>>[p + 1]] >>]
TwoBands ==
  [whole |-> TRUE, bands |-> << [p \in Dots |-> <<2, -4, 0, 8, 6, 4>>[p + 1]],
                                [p \in Dots |-> <<4, 6, -2, 2, 0, 8>>[p + 1]] >>]
Reals ==
  [whole |-> FALSE, bands |-> << [p \in Dots |-> <<1, -3, 5, 3, 8, -4>>[p + 1]],
                                 [p \in Dots |-> <<7, 2, 0, 1, 3, 4>>[p + 1]],
                                 [p \in Dots |-> <<520, 2, -7, 1, 9, 0>>[p + 1]] >>]
SomeData == {OneBand, TwoBands, Reals}

Masks ==
  {S(t, tab, 2, <<>>, <<>>) : t \in {"exact"}, tab \in {<<0, 2, 4>>, <<-2, 0, 4, 6>>}}
  \cup {S("gray", <<>>, 2, <<R(0, 6)>>, <<>>)}
AllStyles == SomeStyles \cup Masks
=============================================================================

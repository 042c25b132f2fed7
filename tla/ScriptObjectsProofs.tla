------------------------- MODULE ScriptObjectsProofs -------------------------
(***************************************************************************)
(* Proofs about ScriptObjects, for all data sets, regions, tile sizes and  *)
(* datetimes and scripts of any length: what every callback preserves.     *)
(***************************************************************************)
EXTENDS ScriptObjects, FiniteSetTheorems, SequenceTheorems, TLAPS

-----------------------------------------------------------------------------
(* Lists. *)

LEMMA ListFacts ==
  ASSUME NEW s, IsList(s)
  PROVE  /\ Len(s) \in Nat /\ DOMAIN s = 1 .. Len(s)
         /\ s = [i \in 1 .. Len(s) |-> s[i]]
BY DEF IsList

LEMMA FunctionIsList ==
  ASSUME NEW n \in Nat, NEW f, f = [i \in 1 .. n |-> f[i]]
  PROVE  IsList(f) /\ Len(f) = n /\ DOMAIN f = 1 .. n
<1>1. DOMAIN f = 1 .. n
  OBVIOUS
<1>2. f \in [1 .. n -> {f[i] : i \in DOMAIN f}]
  BY <1>1
<1>3. f \in Seq({f[i] : i \in DOMAIN f})
  BY <1>2
<1> QED
  BY <1>1, <1>3 DEF IsList

LEMMA SequenceIsList ==
  ASSUME NEW S, NEW s \in Seq(S)
  PROVE  IsList(s)
<1>1. Len(s) \in Nat /\ s = [i \in 1 .. Len(s) |-> s[i]]
  OBVIOUS
<1> QED
  BY <1>1, FunctionIsList

LEMMA AppendList ==
  ASSUME NEW s, IsList(s), NEW x
  PROVE  /\ IsList(Append(s, x)) /\ Len(Append(s, x)) = Len(s) + 1
         /\ \A i \in 1 .. Len(s) : Append(s, x)[i] = s[i]
         /\ Append(s, x)[Len(s) + 1] = x
<1> DEFINE S == {s[i] : i \in DOMAIN s} \cup {x}
           t == Append(s, x)
<1>1. s \in Seq(S) /\ x \in S
  BY DEF IsList
<1>2. t \in Seq(S) /\ Len(t) = Len(s) + 1 /\ t[Len(s) + 1] = x
      /\ \A i \in 1 .. Len(s) : t[i] = s[i]
  BY <1>1, AppendProperties
<1>3. IsList(t)
  BY <1>2, SequenceIsList
<1> QED
  BY <1>2, <1>3

LEMMA ConcatList ==
  ASSUME NEW s, IsList(s), NEW u, IsList(u), NEW t, t = s \o u
  PROVE  /\ IsList(t) /\ Len(t) = Len(s) + Len(u)
         /\ \A i \in 1 .. Len(s) : t[i] = s[i]
         /\ \A i \in 1 .. Len(u) : t[Len(s) + i] = u[i]
<1> DEFINE S == {s[i] : i \in DOMAIN s} \cup {u[i] : i \in DOMAIN u}
<1>1. s \in Seq(S) /\ u \in Seq(S)
  BY DEF IsList
<1>2. t \in Seq(S) /\ Len(t) = Len(s) + Len(u)
      /\ \A i \in 1 .. Len(s) + Len(u) : t[i] = IF i <= Len(s) THEN s[i] ELSE u[i - Len(s)]
  BY <1>1, ConcatProperties
<1>3. IsList(t)
  BY <1>2, SequenceIsList
<1>4. Len(s) \in Nat /\ Len(u) \in Nat
  BY <1>1
<1>5. \A i \in 1 .. Len(u) : t[Len(s) + i] = u[i]
  BY <1>2, <1>4
<1> QED
  BY <1>2, <1>3, <1>4, <1>5

-----------------------------------------------------------------------------
(* Flat arrays. *)

\* The cells of so many bands.
LEMMA CellCount ==
  ASSUME NEW nband \in Nat, NEW size \in Nat
  PROVE  nband * size \in Nat
BY Z3

\* Quotient and remainder are what they were made of.
LEMMA DivisionIsUnique ==
  ASSUME NEW n \in Nat, NEW m \in Nat \ {0}, NEW r \in 0 .. m - 1, n * m \in Nat
  PROVE  (n * m + r) % m = r /\ (n * m + r) \div m = n
<1> DEFINE a == n * m + r
           d == a \div m
           e == a % m
<1>1. d \in Int /\ e \in 0 .. m - 1 /\ a = m * d + e
  BY Z3
<1>2. m * (d - n) = r - e
  BY <1>1, Z3
<1>3. d = n
  <2> HIDE DEF d, e
  <2>1. CASE d >= n + 1
    <3>1. m * (d - n) >= m
      BY <1>1, <2>1, Z3
    <3> QED
      BY <1>1, <1>2, <3>1
  <2>2. CASE d <= n - 1
    <3>1. m * (d - n) <= -m
      BY <1>1, <2>2, Z3
    <3> QED
      BY <1>1, <1>2, <3>1
  <2> QED
    BY <1>1, <2>1, <2>2
<1>4. e = r
  <2> HIDE DEF d, e
  <2> QED
    BY <1>1, <1>2, <1>3, Z3
<1> QED
  BY <1>3, <1>4

\* Band b and pixel p of a flat array: where they are, and that this is where the
\* band and the pixel of that place are found again.
LEMMA BlockFacts ==
  ASSUME NEW size \in Nat \ {0}, NEW nband \in Nat, NEW b \in 1 .. nband, NEW p \in 1 .. size
  PROVE  /\ Block(b, p, size) \in 1 .. nband * size
         /\ PixelOf(Block(b, p, size), size) = p
         /\ BandOf(Block(b, p, size), size) = b
<1> DEFINE q == b - 1
           x == p - 1
           y == q * size + x
<1>1. q \in Nat /\ x \in 0 .. size - 1 /\ b = q + 1 /\ p = x + 1
  OBVIOUS
<1>2. q * size \in Nat
  BY <1>1, CellCount
<1>3. y % size = x /\ y \div size = q
  <2> HIDE DEF q, x
  <2> QED
    BY <1>1, <1>2, DivisionIsUnique
<1>4. Block(b, p, size) = y + 1
  BY <1>1, <1>2 DEF Block
<1>5. y + 1 <= nband * size
  <2>1. (q + 1) * size <= nband * size
    BY <1>1, Z3
  <2>2. (q + 1) * size = q * size + size
    BY <1>1, Z3
  <2> DEFINE c == q * size
             d == nband * size
  <2>3. c \in Nat /\ d \in Nat /\ c + size <= d /\ y + 1 = c + (x + 1)
    BY <1>1, <1>2, <2>1, <2>2, CellCount, Z3
  <2> HIDE DEF c
  <2> QED
    BY <1>1, <2>3
<1>6. y \in Nat /\ (y + 1) - 1 = y
  BY <1>1, <1>2
<1> QED
  BY <1>1, <1>3, <1>4, <1>5, <1>6, CellCount DEF PixelOf, BandOf

-----------------------------------------------------------------------------
(* What calls do to objects and arrays: a call adds new objects with arrays of *)
(* their own (Grows), or changes what one object holds.                        *)

ToldBy(cell, rec, unrec) ==
    \A sp \in cell : \/ sp[1] \in unrec \cup {Unknown}
                     \/ \E entry \in rec : Explains(entry, sp[1])

GoodNew(new) ==
    /\ new.kind \in Kinds /\ new.type \in Types
    /\ new.size \in Nat \ {0} /\ new.nband \in Nat
    /\ IsList(new.arrays) /\ DOMAIN new.made = DOMAIN new.arrays
    /\ new.kind = "dataset" => 1 \in DOMAIN new.arrays
    /\ \A e \in DOMAIN new.arrays :
        new.arrays[e].type \in Types /\ IsList(new.arrays[e].cells)

ToldNew(new, rec, unrec) ==
    \A e \in DOMAIN new.arrays : \A i \in DOMAIN new.arrays[e].cells :
        ToldBy(new.arrays[e].cells[i], rec, unrec)

AlignedNew(new) ==
    /\ new.nband # 0
    /\ \A e \in DOMAIN new.arrays : Aligned(new.arrays[e], new, new.made[e])

Adds(news) ==
    LET n == Len(objs)
    IN /\ IsList(objs') /\ Len(objs') = n + Len(news)
       /\ \A o \in 1 .. n : objs'[o] = objs[o]
       /\ \A k \in DOMAIN news : objs'[n + k] =
            [kind |-> news[k].kind, type |-> news[k].type,
             size |-> news[k].size, nband |-> news[k].nband,
             bufs |-> Arrays(n + k, Len(news[k].arrays)),
             made |-> news[k].made]
       /\ \A a \in DOMAIN mem : a \in DOMAIN mem' /\ mem'[a] = mem[a]
       /\ \A k \in DOMAIN news : \A e \in DOMAIN news[k].arrays :
            /\ <<n + k, e>> \in DOMAIN mem'
            /\ mem'[<<n + k, e>>] = news[k].arrays[e]
       /\ \A a \in DOMAIN mem' : a \in DOMAIN mem \/
            \E k \in DOMAIN news : \E e \in DOMAIN news[k].arrays : a = <<n + k, e>>

Grows ==
    \E news :
        /\ IsList(news)
        /\ Adds(news)
        /\ \A k \in DOMAIN news :
            /\ GoodNew(news[k])
            /\ ToldNew(news[k], record', unrecorded')
            /\ Careless = {} => AlignedNew(news[k])

\* Objects have bands.
Wide == \A o \in DOMAIN objs : objs[o].nband # 0

AlignedInv == Careless = {} => PixelAligned /\ Wide

IInv == TypeOK /\ ShapeInv /\ OwnInv /\ Recorded /\ AlignedInv

LEMMA AllocateAdds ==
  ASSUME ShapeInv, NEW news, IsList(news),
         \A k \in DOMAIN news : IsList(news[k].arrays),
         Allocate(news)
  PROVE  Adds(news)
<1> DEFINE n == Len(objs)
           fresh == UNION {{<<n + k, e>> : e \in DOMAIN news[k].arrays} : k \in DOMAIN news}
           made == [k \in DOMAIN news |->
            [kind |-> news[k].kind, type |-> news[k].type,
             size |-> news[k].size, nband |-> news[k].nband,
             bufs |-> Arrays(n + k, Len(news[k].arrays)),
             made |-> news[k].made]]
<1>1. objs' = objs \o made
  BY DEF Allocate
<1>2. mem' = [a \in DOMAIN mem \cup fresh |->
                IF a \in DOMAIN mem THEN mem[a] ELSE news[a[1] - n].arrays[a[2]]]
  BY DEF Allocate
<1>3. IsList(objs) /\ n \in Nat /\ DOMAIN objs = 1 .. n
  BY ListFacts DEF ShapeInv
<1>4. Len(news) \in Nat /\ DOMAIN news = 1 .. Len(news)
  BY ListFacts
<1>5. IsList(made) /\ Len(made) = Len(news)
  <2> DEFINE m == Len(news)
  <2>1. made = [k \in 1 .. m |-> made[k]]
    BY <1>4
  <2> HIDE DEF made
  <2> QED
    BY <2>1, <1>4, FunctionIsList
<1>6. /\ IsList(objs') /\ Len(objs') = n + Len(news)
      /\ \A o \in 1 .. n : objs'[o] = objs[o]
      /\ \A k \in DOMAIN news : objs'[n + k] = made[k]
  <2> HIDE DEF made
  <2>1. IsList(objs')
    BY <1>1, <1>3, <1>5, ConcatList
  <2>2. Len(objs') = n + Len(news)
    BY <1>1, <1>3, <1>5, ConcatList
  <2>3. \A o \in 1 .. n : objs'[o] = objs[o]
    BY <1>1, <1>3, <1>5, ConcatList
  <2>4. \A k \in 1 .. Len(made) : objs'[n + k] = made[k]
    BY <1>1, <1>3, <1>5, ConcatList
  <2> QED
    BY <1>4, <1>5, <2>1, <2>2, <2>3, <2>4
<1>7. \A a \in DOMAIN mem : a[1] \in 1 .. n
  BY <1>3 DEF ShapeInv
<1>8. \A k \in DOMAIN news : \A e \in DOMAIN news[k].arrays :
        /\ <<n + k, e>> \in fresh
        /\ <<n + k, e>> \notin DOMAIN mem
        /\ (n + k) - n = k
  BY <1>3, <1>4, <1>7
<1>9. \A a \in fresh : \E k \in DOMAIN news : \E e \in DOMAIN news[k].arrays : a = <<n + k, e>>
  OBVIOUS
<1>10. \A k \in DOMAIN news : \A e \in DOMAIN news[k].arrays :
         <<n + k, e>> \in DOMAIN mem' /\ mem'[<<n + k, e>>] = news[k].arrays[e]
  <2> HIDE DEF fresh, n
  <2> TAKE k \in DOMAIN news
  <2> TAKE e \in DOMAIN news[k].arrays
  <2> QED
    BY <1>2, <1>8
<1>11. /\ \A a \in DOMAIN mem : a \in DOMAIN mem' /\ mem'[a] = mem[a]
       /\ \A a \in DOMAIN mem' : a \in DOMAIN mem \/ a \in fresh
  <2> HIDE DEF fresh, n
  <2> QED
    BY <1>2
<1> QED
  BY <1>6, <1>9, <1>10, <1>11 DEF Adds

-----------------------------------------------------------------------------
(* A call that adds objects keeps the invariant and what the others hold. *)

Onward ==
    /\ calls' \in 0 .. MaxCalls
    /\ record \subseteq record' /\ record' \subseteq Names \X Stated
    /\ unrecorded \subseteq unrecorded' /\ unrecorded' \subseteq Source

\* What could be told can be told later.
LEMMA ToldOnward ==
  ASSUME Onward, NEW cell, Told(cell)
  PROVE  ToldBy(cell, record', unrecorded')
BY DEF Onward, Told, ToldBy

\* Objects and arrays after a call that adds some.
LEMMA AddsFacts ==
  ASSUME TypeOK, ShapeInv, NEW news, IsList(news), Adds(news),
         \A k \in DOMAIN news : IsList(news[k].arrays)
  PROVE  /\ DOMAIN objs = 1 .. Len(objs) /\ Len(objs) \in Nat
         /\ DOMAIN news = 1 .. Len(news) /\ Len(news) \in Nat
         /\ DOMAIN objs' = 1 .. Len(objs) + Len(news)
         /\ \A o \in DOMAIN objs' : o \in DOMAIN objs \/
              \E k \in DOMAIN news : o = Len(objs) + k
         /\ \A o \in DOMAIN objs : o \in DOMAIN objs' /\ objs'[o] = objs[o]
         /\ \A k \in DOMAIN news :
              /\ DOMAIN news[k].arrays = 1 .. Len(news[k].arrays)
              /\ Len(news[k].arrays) \in Nat
<1>1. DOMAIN objs = 1 .. Len(objs) /\ Len(objs) \in Nat
  BY ListFacts DEF ShapeInv
<1>2. DOMAIN news = 1 .. Len(news) /\ Len(news) \in Nat
  BY ListFacts
<1>3. DOMAIN objs' = 1 .. Len(objs) + Len(news)
  <2>1. IsList(objs') /\ Len(objs') = Len(objs) + Len(news)
    BY DEF Adds
  <2> QED
    BY <2>1, ListFacts
<1>4. \A o \in DOMAIN objs' : o \in DOMAIN objs \/
        \E k \in DOMAIN news : o = Len(objs) + k
  <2> TAKE o \in DOMAIN objs'
  <2>1. CASE o > Len(objs)
    <3>1. o - Len(objs) \in DOMAIN news /\ o = Len(objs) + (o - Len(objs))
      BY <1>1, <1>2, <1>3, <2>1
    <3> QED
      BY <3>1
  <2> QED
    BY <1>1, <1>2, <1>3, <2>1
<1>5. \A o \in DOMAIN objs : o \in DOMAIN objs' /\ objs'[o] = objs[o]
  BY <1>1, <1>2, <1>3 DEF Adds
<1>6. \A k \in DOMAIN news :
        /\ DOMAIN news[k].arrays = 1 .. Len(news[k].arrays)
        /\ Len(news[k].arrays) \in Nat
  BY ListFacts
<1> QED
  BY <1>1, <1>2, <1>3, <1>4, <1>5, <1>6

LEMMA GrowsShape ==
  ASSUME TypeOK, ShapeInv, Onward, Grows
  PROVE  TypeOK' /\ ShapeInv'
<1> DEFINE n == Len(objs)
<1>1. PICK news : /\ IsList(news)
                  /\ Adds(news)
                  /\ \A k \in DOMAIN news : GoodNew(news[k])
  BY DEF Grows
<1>2. \A k \in DOMAIN news : IsList(news[k].arrays)
  BY <1>1 DEF GoodNew
<1>3. /\ DOMAIN objs = 1 .. n /\ n \in Nat
      /\ DOMAIN news = 1 .. Len(news) /\ Len(news) \in Nat
      /\ DOMAIN objs' = 1 .. n + Len(news)
      /\ \A o \in DOMAIN objs' : o \in DOMAIN objs \/ \E k \in DOMAIN news : o = n + k
      /\ \A o \in DOMAIN objs : o \in DOMAIN objs' /\ objs'[o] = objs[o]
      /\ \A k \in DOMAIN news :
           /\ DOMAIN news[k].arrays = 1 .. Len(news[k].arrays)
           /\ Len(news[k].arrays) \in Nat
  BY <1>1, <1>2, AddsFacts
<1> DEFINE Fine(x) ==
             /\ x.kind \in Kinds
             /\ x.type \in Types
             /\ x.size \in Nat /\ x.nband \in Nat
             /\ DOMAIN x.made = DOMAIN x.bufs
             /\ x.size # 0 /\ "made" \in DOMAIN x
             /\ x.kind = "dataset" => 1 \in DOMAIN x.bufs
             /\ IsList(x.bufs)
<1>4. \A o \in DOMAIN objs : Fine(objs[o])
  BY DEF TypeOK, ShapeInv, Datasets
<1>5. \A k \in DOMAIN news :
        /\ Fine(objs'[n + k])
        /\ \A e \in DOMAIN objs'[n + k].bufs : objs'[n + k].bufs[e] \in DOMAIN mem'
  <2> TAKE k \in DOMAIN news
  <2> DEFINE x == objs'[n + k]
             l == Len(news[k].arrays)
  <2>1. x = [kind |-> news[k].kind, type |-> news[k].type,
             size |-> news[k].size, nband |-> news[k].nband,
             bufs |-> Arrays(n + k, l), made |-> news[k].made]
    BY <1>1 DEF Adds
  <2>2. x.bufs = [e \in 1 .. l |-> <<n + k, e>>]
    BY <2>1 DEF Arrays
  <2>3. IsList(x.bufs) /\ DOMAIN x.bufs = 1 .. l
    <3> DEFINE y == x.bufs
    <3>1. y = [e \in 1 .. l |-> y[e]] /\ l \in Nat
      BY <2>2, <1>3
    <3> HIDE DEF y
    <3>2. IsList(y) /\ DOMAIN y = 1 .. l
      BY <3>1, FunctionIsList
    <3> QED
      BY <3>2 DEF y
  <2>4. /\ x.kind = news[k].kind /\ x.type = news[k].type /\ x.size = news[k].size
        /\ x.nband = news[k].nband /\ x.made = news[k].made
        /\ "made" \in DOMAIN x
    BY <2>1
  <2>5. \A e \in 1 .. l : x.bufs[e] \in DOMAIN mem'
    <3>1. \A e \in 1 .. l : <<n + k, e>> \in DOMAIN mem'
      BY <1>1, <1>3 DEF Adds
    <3> HIDE DEF x
    <3> QED
      BY <2>2, <3>1
  <2>6. GoodNew(news[k]) /\ DOMAIN news[k].arrays = 1 .. l
    BY <1>1, <1>3
  <2> HIDE DEF x, l
  <2>7. Fine(x)
    BY <2>3, <2>4, <2>6 DEF GoodNew
  <2> QED
    BY <2>3, <2>5, <2>7 DEF x
<1>6. \A o \in DOMAIN objs' : Fine(objs'[o])
  <2> HIDE DEF Fine
  <2> QED
    BY <1>3, <1>4, <1>5
<1>7. \A o \in DOMAIN objs' : \A e \in DOMAIN objs'[o].bufs : objs'[o].bufs[e] \in DOMAIN mem'
  <2> TAKE o \in DOMAIN objs'
  <2>1. CASE o \in DOMAIN objs
    BY <1>1, <1>3, <2>1 DEF TypeOK, Adds
  <2> QED
    BY <1>3, <1>5, <2>1
<1>8. TypeOK'
  BY <1>6, <1>7 DEF Onward, TypeOK
<1>9. \A a \in DOMAIN mem' :
        a \in (DOMAIN objs') \X Nat /\ mem'[a].type \in Types /\ IsList(mem'[a].cells)
  <2> TAKE a \in DOMAIN mem'
  <2>1. CASE a \in DOMAIN mem
    BY <1>1, <1>3, <2>1 DEF ShapeInv, Adds
  <2>2. CASE a \notin DOMAIN mem
    <3>1. PICK k \in DOMAIN news : \E e \in DOMAIN news[k].arrays : a = <<n + k, e>>
      BY <1>1, <2>2 DEF Adds
    <3>2. PICK e \in DOMAIN news[k].arrays : a = <<n + k, e>>
      BY <3>1
    <3>3. mem'[a] = news[k].arrays[e]
      BY <1>1, <3>2 DEF Adds
    <3>4. n + k \in DOMAIN objs' /\ e \in Nat
      BY <1>3
    <3> QED
      BY <1>1, <3>2, <3>3, <3>4 DEF GoodNew
  <2> QED
    BY <2>1, <2>2
<1>10. IsList(objs')
  BY <1>1 DEF Adds
<1>11. ShapeInv'
  BY <1>6, <1>9, <1>10 DEF ShapeInv, Datasets
<1> QED
  BY <1>8, <1>11

LEMMA GrowsOwn ==
  ASSUME TypeOK, ShapeInv, OwnInv, Grows
  PROVE  OwnInv'
<1> DEFINE n == Len(objs)
<1>1. PICK news : /\ IsList(news)
                  /\ Adds(news)
                  /\ \A k \in DOMAIN news : GoodNew(news[k])
  BY DEF Grows
<1>2. \A k \in DOMAIN news : IsList(news[k].arrays)
  BY <1>1 DEF GoodNew
<1>3. /\ \A o \in DOMAIN objs' : o \in DOMAIN objs \/ \E k \in DOMAIN news : o = n + k
      /\ \A o \in DOMAIN objs : objs'[o] = objs[o]
  BY <1>1, <1>2, AddsFacts
<1>4. ASSUME "array" \notin Careless,
             NEW o \in DOMAIN objs', NEW e \in DOMAIN objs'[o].bufs
      PROVE  objs'[o].bufs[e] = <<o, e>>
  <2>1. CASE o \in DOMAIN objs
    BY <1>3, <1>4, <2>1 DEF OwnInv
  <2>2. CASE o \notin DOMAIN objs
    <3>1. PICK k \in DOMAIN news : o = n + k
      BY <1>3, <2>2
    <3> DEFINE l == Len(news[k].arrays)
    <3>2. objs'[o] = [kind |-> news[k].kind, type |-> news[k].type,
                      size |-> news[k].size, nband |-> news[k].nband,
                      bufs |-> Arrays(o, l), made |-> news[k].made]
      BY <1>1, <3>1 DEF Adds
    <3>3. objs'[o].bufs = [j \in 1 .. l |-> <<o, j>>]
      BY <3>2 DEF Arrays
    <3> QED
      BY <1>4, <3>3
  <2> QED
    BY <2>1, <2>2
<1> QED
  BY <1>4 DEF OwnInv

LEMMA GrowsRecorded ==
  ASSUME Recorded, Onward, Grows
  PROVE  Recorded'
<1> DEFINE n == Len(objs)
<1>1. PICK news : /\ Adds(news)
                  /\ \A k \in DOMAIN news : ToldNew(news[k], record', unrecorded')
  BY DEF Grows
<1>2. ASSUME NEW a \in DOMAIN mem', NEW i \in DOMAIN mem'[a].cells
      PROVE  ToldBy(mem'[a].cells[i], record', unrecorded')
  <2>1. CASE a \in DOMAIN mem
    <3>1. mem'[a] = mem[a]
      BY <1>1, <2>1 DEF Adds
    <3>2. Told(mem[a].cells[i])
      BY <1>2, <2>1, <3>1 DEF Recorded
    <3> QED
      BY <3>1, <3>2, ToldOnward
  <2>2. CASE a \notin DOMAIN mem
    <3>1. PICK k \in DOMAIN news : \E e \in DOMAIN news[k].arrays : a = <<n + k, e>>
      BY <1>1, <2>2 DEF Adds
    <3>2. PICK e \in DOMAIN news[k].arrays : a = <<n + k, e>>
      BY <3>1
    <3>3. mem'[a] = news[k].arrays[e]
      BY <1>1, <3>2 DEF Adds
    <3> QED
      BY <1>1, <1>2, <3>3 DEF ToldNew
  <2> QED
    BY <2>1, <2>2
<1> QED
  BY <1>2 DEF Recorded, Told, ToldBy

LEMMA GrowsAligned ==
  ASSUME TypeOK, ShapeInv, AlignedInv, Grows
  PROVE  AlignedInv'
<1> DEFINE n == Len(objs)
<1>1. PICK news : /\ IsList(news)
                  /\ Adds(news)
                  /\ \A k \in DOMAIN news : GoodNew(news[k]) /\ (Careless = {} => AlignedNew(news[k]))
  BY DEF Grows
<1>2. \A k \in DOMAIN news : IsList(news[k].arrays)
  BY <1>1 DEF GoodNew
<1>3. /\ \A o \in DOMAIN objs' : o \in DOMAIN objs \/ \E k \in DOMAIN news : o = n + k
      /\ \A o \in DOMAIN objs : objs'[o] = objs[o]
      /\ \A k \in DOMAIN news :
           /\ DOMAIN news[k].arrays = 1 .. Len(news[k].arrays)
           /\ Len(news[k].arrays) \in Nat
  BY <1>1, <1>2, AddsFacts
<1>4. ASSUME Careless = {},
             NEW o \in DOMAIN objs', NEW e \in DOMAIN objs'[o].bufs
      PROVE  Aligned(mem'[objs'[o].bufs[e]], objs'[o], objs'[o].made[e])
  <2>1. CASE o \in DOMAIN objs
    <3>1. objs'[o] = objs[o] /\ e \in DOMAIN objs[o].bufs
      BY <1>3, <1>4, <2>1
    <3>2. mem'[objs[o].bufs[e]] = mem[objs[o].bufs[e]]
      BY <1>1, <2>1, <3>1 DEF TypeOK, Adds
    <3> QED
      BY <1>4, <2>1, <3>1, <3>2 DEF AlignedInv, PixelAligned
  <2>2. CASE o \notin DOMAIN objs
    <3>1. PICK k \in DOMAIN news : o = n + k
      BY <1>3, <2>2
    <3> DEFINE l == Len(news[k].arrays)
    <3>2. objs'[o] = [kind |-> news[k].kind, type |-> news[k].type,
                      size |-> news[k].size, nband |-> news[k].nband,
                      bufs |-> Arrays(o, l), made |-> news[k].made]
      BY <1>1, <3>1 DEF Adds
    <3>3. objs'[o].bufs = [j \in 1 .. l |-> <<o, j>>]
      BY <3>2 DEF Arrays
    <3>4. e \in 1 .. l /\ objs'[o].bufs[e] = <<o, e>>
      BY <3>3
    <3>5. mem'[<<o, e>>] = news[k].arrays[e]
      BY <1>1, <1>3, <3>1, <3>4 DEF Adds
    <3>6. Aligned(news[k].arrays[e], news[k], news[k].made[e])
      BY <1>1, <1>3, <1>4, <3>4 DEF AlignedNew
    <3>7. /\ objs'[o].kind = news[k].kind /\ objs'[o].type = news[k].type
          /\ objs'[o].size = news[k].size /\ objs'[o].nband = news[k].nband
          /\ objs'[o].made = news[k].made
      BY <3>2
    <3> QED
      BY <3>4, <3>5, <3>6, <3>7 DEF Aligned
  <2> QED
    BY <2>1, <2>2
<1>5. ASSUME Careless = {}, NEW o \in DOMAIN objs'
      PROVE  objs'[o].nband # 0
  <2>1. CASE o \in DOMAIN objs
    BY <1>3, <1>5, <2>1 DEF AlignedInv, Wide
  <2>2. CASE o \notin DOMAIN objs
    <3>1. PICK k \in DOMAIN news : o = n + k
      BY <1>3, <2>2
    <3>2. objs'[o] = [kind |-> news[k].kind, type |-> news[k].type,
                      size |-> news[k].size, nband |-> news[k].nband,
                      bufs |-> Arrays(o, Len(news[k].arrays)), made |-> news[k].made]
      BY <1>1, <3>1 DEF Adds
    <3> QED
      BY <1>1, <1>5, <3>2 DEF AlignedNew
  <2> QED
    BY <2>1, <2>2
<1> QED
  BY <1>4, <1>5 DEF AlignedInv, PixelAligned, Wide

\* What one object holds at most changes.
OneChanges ==
    \A o, q \in DOMAIN objs :
        Content(o)' # Content(o) /\ Content(q)' # Content(q) => o = q

LEMMA GrowsOne ==
  ASSUME TypeOK, ShapeInv, Grows
  PROVE  OneChanges
<1>1. PICK news : /\ IsList(news)
                  /\ Adds(news)
                  /\ \A k \in DOMAIN news : GoodNew(news[k])
  BY DEF Grows
<1>2. \A k \in DOMAIN news : IsList(news[k].arrays)
  BY <1>1 DEF GoodNew
<1>3. ASSUME NEW o \in DOMAIN objs
      PROVE  Content(o)' = Content(o)
  <2>1. objs'[o] = objs[o]
    BY <1>1, <1>2, AddsFacts
  <2>2. \A e \in DOMAIN objs[o].bufs : mem'[objs[o].bufs[e]] = mem[objs[o].bufs[e]]
    BY <1>1 DEF TypeOK, Adds
  <2> QED
    BY <2>1, <2>2 DEF Content
<1> QED
  BY <1>3 DEF OneChanges

LEMMA GrowsKeeps ==
  ASSUME IInv, Onward, Grows
  PROVE  IInv' /\ OneChanges
BY GrowsShape, GrowsOwn, GrowsRecorded, GrowsAligned, GrowsOne DEF IInv

-----------------------------------------------------------------------------
(* So does a call that changes an object in place, where no array is shared. *)

Changes(o, cells, made) ==
    /\ o \in DOMAIN objs
    /\ \A a \in DOMAIN cells :
        /\ \E e \in DOMAIN objs[o].bufs : a = objs[o].bufs[e]
        /\ IsList(cells[a])
        /\ \A i \in DOMAIN cells[a] : Told(cells[a][i])
    /\ InPlace(o, cells, made)
    /\ UNCHANGED records
    /\ Careless = {} => \A e \in DOMAIN objs[o].bufs :
        Aligned(mem'[objs[o].bufs[e]], objs[o], objs'[o].made[e])

LEMMA ChangesArrays ==
  ASSUME NEW o, NEW cells, NEW made, Changes(o, cells, made)
  PROVE  /\ DOMAIN mem' = DOMAIN mem
         /\ \A a \in DOMAIN mem : mem'[a].type = mem[a].type
         /\ \A a \in DOMAIN mem : a \in DOMAIN cells => mem'[a].cells = cells[a]
         /\ \A a \in DOMAIN mem : a \notin DOMAIN cells => mem'[a] = mem[a]
<1>1. mem' = [a \in DOMAIN mem |-> IF a \in DOMAIN cells
                                   THEN ArrayOf(mem[a].type, cells[a])
                                   ELSE mem[a]]
  BY DEF Changes, InPlace
<1> QED
  BY <1>1 DEF ArrayOf

LEMMA ChangesObjects ==
  ASSUME TypeOK, ShapeInv, NEW o, NEW cells, NEW made, Changes(o, cells, made)
  PROVE  /\ IsList(objs') /\ DOMAIN objs' = DOMAIN objs
         /\ \A q \in DOMAIN objs :
              /\ DOMAIN objs'[q] = DOMAIN objs[q]
              /\ objs'[q].kind = objs[q].kind /\ objs'[q].type = objs[q].type
              /\ objs'[q].size = objs[q].size /\ objs'[q].nband = objs[q].nband
              /\ objs'[q].bufs = objs[q].bufs
              /\ DOMAIN objs'[q].made = DOMAIN objs[q].made
              /\ q # o => objs'[q] = objs[q]
<1> DEFINE g == [e \in DOMAIN objs[o].made |->
                   IF e \in DOMAIN made THEN made[e] ELSE objs[o].made[e]]
           h == [objs[o] EXCEPT !.made = g]
<1>1. objs' = [objs EXCEPT ![o] = h] /\ o \in DOMAIN objs
  BY DEF Changes, InPlace
<1>4. /\ h.kind = objs[o].kind /\ h.type = objs[o].type /\ h.size = objs[o].size
      /\ h.nband = objs[o].nband /\ h.bufs = objs[o].bufs
      /\ DOMAIN h = DOMAIN objs[o]
  <2> HIDE DEF g
  <2> QED
    OBVIOUS
<1>5. DOMAIN h.made = DOMAIN objs[o].made
  <2>1. \A x : [objs[o] EXCEPT !.made = x].made = x \/ "made" \notin DOMAIN objs[o]
    OBVIOUS
  <2>2. CASE "made" \in DOMAIN objs[o]
    BY <2>1, <2>2
  <2>3. CASE "made" \notin DOMAIN objs[o]
    BY <2>3
  <2> QED
    BY <2>2, <2>3
<1>6. /\ DOMAIN objs' = DOMAIN objs
      /\ objs'[o] = h
      /\ \A q \in DOMAIN objs : q # o => objs'[q] = objs[q]
  <2> HIDE DEF h
  <2> QED
    BY <1>1
<1>7. IsList(objs')
  <2>1. IsList(objs)
    BY DEF ShapeInv
  <2>2. Len(objs) \in Nat /\ DOMAIN objs = 1 .. Len(objs)
    BY <2>1, ListFacts
  <2>3. objs' = [i \in 1 .. Len(objs) |-> objs'[i]]
    <3> HIDE DEF h
    <3> QED
      BY <1>1, <2>2
  <2> QED
    BY <2>2, <2>3, FunctionIsList
<1> HIDE DEF h
<1>8. \A q \in DOMAIN objs :
              /\ DOMAIN objs'[q] = DOMAIN objs[q]
              /\ objs'[q].kind = objs[q].kind /\ objs'[q].type = objs[q].type
              /\ objs'[q].size = objs[q].size /\ objs'[q].nband = objs[q].nband
              /\ objs'[q].bufs = objs[q].bufs
              /\ DOMAIN objs'[q].made = DOMAIN objs[q].made
              /\ q # o => objs'[q] = objs[q]
  BY <1>4, <1>5, <1>6
<1> QED
  BY <1>6, <1>7, <1>8

LEMMA ChangesKeeps ==
  ASSUME IInv, Onward, NEW o, NEW cells, NEW made, Changes(o, cells, made)
  PROVE  IInv' /\ ("array" \notin Careless => OneChanges)
<1>1. TypeOK /\ ShapeInv /\ OwnInv /\ Recorded /\ AlignedInv
  BY DEF IInv
<1>2. /\ IsList(objs') /\ DOMAIN objs' = DOMAIN objs
      /\ \A q \in DOMAIN objs :
           /\ DOMAIN objs'[q] = DOMAIN objs[q]
           /\ objs'[q].kind = objs[q].kind /\ objs'[q].type = objs[q].type
           /\ objs'[q].size = objs[q].size /\ objs'[q].nband = objs[q].nband
           /\ objs'[q].bufs = objs[q].bufs
           /\ DOMAIN objs'[q].made = DOMAIN objs[q].made
           /\ q # o => objs'[q] = objs[q]
  BY <1>1, ChangesObjects
<1>3. /\ DOMAIN mem' = DOMAIN mem
      /\ \A a \in DOMAIN mem : mem'[a].type = mem[a].type
      /\ \A a \in DOMAIN mem : a \in DOMAIN cells => mem'[a].cells = cells[a]
      /\ \A a \in DOMAIN mem : a \notin DOMAIN cells => mem'[a] = mem[a]
  BY ChangesArrays
<1>4. /\ o \in DOMAIN objs
      /\ \A a \in DOMAIN cells :
           /\ \E e \in DOMAIN objs[o].bufs : a = objs[o].bufs[e]
           /\ IsList(cells[a])
           /\ \A i \in DOMAIN cells[a] : Told(cells[a][i])
  BY DEF Changes
<1>5. TypeOK'
  BY <1>1, <1>2, <1>3 DEF TypeOK, Onward
<1>6. ShapeInv'
  BY <1>1, <1>2, <1>3, <1>4 DEF ShapeInv, Datasets
<1>7. OwnInv'
  BY <1>1, <1>2, <1>3 DEF OwnInv
<1>8. Recorded'
  <2>1. ASSUME NEW a \in DOMAIN mem', NEW i \in DOMAIN mem'[a].cells
        PROVE  ToldBy(mem'[a].cells[i], record', unrecorded')
    <3>1. Told(mem'[a].cells[i])
      BY <1>1, <1>2, <1>3, <1>4, <2>1 DEF Recorded
    <3> QED
      BY <3>1, ToldOnward
  <2> QED
    BY <2>1 DEF Recorded, Told, ToldBy
<1>9. ASSUME "array" \notin Careless, NEW q \in DOMAIN objs, q # o,
             NEW e \in DOMAIN objs[q].bufs
      PROVE  mem'[objs[q].bufs[e]] = mem[objs[q].bufs[e]]
  <2>1. objs[q].bufs[e] = <<q, e>> /\ <<q, e>> \in DOMAIN mem
    BY <1>1, <1>9 DEF OwnInv, TypeOK
  <2>2. <<q, e>> \notin DOMAIN cells
    BY <1>1, <1>4, <1>9 DEF OwnInv
  <2> QED
    BY <1>2, <1>3, <2>1, <2>2
<1>10. AlignedInv'
  <2>1. ASSUME Careless = {}, NEW q \in DOMAIN objs, NEW e \in DOMAIN objs[q].bufs
        PROVE  Aligned(mem'[objs[q].bufs[e]], objs'[q], objs'[q].made[e])
    <3>1. CASE q = o
      <4>1. Aligned(mem'[objs[o].bufs[e]], objs[o], objs'[o].made[e])
        BY <2>1, <3>1 DEF Changes
      <4> QED
        BY <1>2, <1>3, <3>1, <4>1 DEF Aligned
    <3>2. CASE q # o
      BY <1>1, <1>2, <1>3, <1>9, <2>1, <3>2 DEF AlignedInv, PixelAligned
    <3> QED
      BY <3>1, <3>2
  <2> QED
    BY <1>1, <1>2, <1>3, <2>1 DEF AlignedInv, PixelAligned, Wide
<1>11. ASSUME "array" \notin Careless, NEW q \in DOMAIN objs, q # o
       PROVE  Content(q)' = Content(q)
  BY <1>2, <1>3, <1>9, <1>11 DEF Content
<1>12. "array" \notin Careless => OneChanges
  BY <1>11 DEF OneChanges
<1> QED
  BY <1>5, <1>6, <1>7, <1>8, <1>10, <1>12 DEF IInv

-----------------------------------------------------------------------------
(* Good new objects. *)

GoodShape(shape) ==
    /\ shape.type \in Types /\ shape.size \in Nat \ {0} /\ shape.nband \in Nat
    /\ Careless = {} => shape.nband # 0

GoodArray(a, shape, made) ==
    /\ a.type = shape.type
    /\ a.cells = [i \in Cells(shape.nband, shape.size) |-> a.cells[i]]
    /\ \A i \in Cells(shape.nband, shape.size) : ToldBy(a.cells[i], record', unrecorded')
    /\ Careless = {} => \A b \in 1 .. shape.nband, p \in 1 .. shape.size :
        a.cells[Block(b, p, shape.size)] = ReadAt(MadeIn(made, b, p), p)

GoodObject(new) ==
    /\ GoodNew(new)
    /\ ToldNew(new, record', unrecorded')
    /\ Careless = {} => AlignedNew(new)

LEMMA ObjectIsGood ==
  ASSUME NEW kind \in Kinds \ {"png"}, NEW shape, GoodShape(shape),
         NEW arrays, IsList(arrays), NEW made, DOMAIN made = DOMAIN arrays,
         kind = "dataset" => 1 \in DOMAIN arrays,
         \A e \in DOMAIN arrays : GoodArray(arrays[e], shape, made[e])
  PROVE  GoodObject(Object(kind, shape, arrays, made))
<1> DEFINE new == Object(kind, shape, arrays, made)
           count == shape.nband * shape.size
<1>1. /\ new.kind = kind /\ new.type = shape.type /\ new.size = shape.size
      /\ new.nband = shape.nband /\ new.arrays = arrays /\ new.made = made
  BY DEF Object
<1> HIDE DEF new
<1>2. count \in Nat
  BY CellCount DEF GoodShape
<1>3. ASSUME NEW e \in DOMAIN arrays
      PROVE  /\ arrays[e].type \in Types
             /\ IsList(arrays[e].cells)
             /\ DOMAIN arrays[e].cells = 1 .. count
             /\ Len(arrays[e].cells) = count
  <2> DEFINE f == arrays[e].cells
  <2>1. f = [i \in 1 .. count |-> f[i]] /\ arrays[e].type \in Types
    BY <1>3 DEF GoodArray, GoodShape, Cells
  <2> HIDE DEF f, count
  <2>2. IsList(f) /\ Len(f) = count /\ DOMAIN f = 1 .. count
    BY <1>2, <2>1, FunctionIsList
  <2> QED
    BY <2>1, <2>2 DEF f
<1>4. GoodNew(new)
  BY <1>1, <1>3 DEF GoodNew, GoodShape
<1>5. ToldNew(new, record', unrecorded')
  BY <1>1, <1>3 DEF ToldNew, GoodArray, Cells
<1>6. Careless = {} => AlignedNew(new)
  <2>1. ASSUME Careless = {}, NEW e \in DOMAIN arrays
        PROVE  Aligned(arrays[e], new, made[e])
    <3>1. \A b \in 1 .. shape.nband, p \in 1 .. shape.size :
            arrays[e].cells[Block(b, p, shape.size)] = ReadAt(MadeIn(made[e], b, p), p)
      BY <2>1 DEF GoodArray
    <3>2. \A b, p : CellAt(new.kind, b, p, shape.size) = Block(b, p, shape.size)
      BY <1>1 DEF CellAt
    <3>3. arrays[e].type = shape.type /\ Len(arrays[e].cells) = shape.nband * shape.size
      BY <1>3, <2>1 DEF GoodArray
    <3> QED
      BY <1>1, <3>1, <3>2, <3>3 DEF Aligned
  <2> QED
    BY <1>1, <2>1 DEF AlignedNew, GoodShape
<1> QED
  BY <1>4, <1>5, <1>6 DEF GoodObject, new

LEMMA AllocateGrows ==
  ASSUME ShapeInv, NEW news, IsList(news), Allocate(news),
         \A k \in DOMAIN news : GoodObject(news[k])
  PROVE  Grows
<1>1. Adds(news)
  BY AllocateAdds DEF GoodObject, GoodNew
<1> QED
  BY <1>1 DEF Grows, GoodObject

LEMMA AllocateOne ==
  ASSUME ShapeInv, NEW new, GoodObject(new), Allocate(<<new>>)
  PROVE  Grows
<1> DEFINE news == <<new>>
<1>1. news \in Seq({new}) /\ DOMAIN news = {1} /\ news[1] = new
  OBVIOUS
<1>2. IsList(news)
  BY <1>1, SequenceIsList
<1> HIDE DEF news
<1>3. \A k \in DOMAIN news : GoodObject(news[k])
  BY <1>1
<1>4. Allocate(news)
  BY DEF news
<1> QED
  BY <1>2, <1>3, <1>4, AllocateGrows

LEMMA NewDatasetGrows ==
  ASSUME ShapeInv, NEW type \in Types, NEW size \in Nat \ {0}, NEW nband \in Nat,
         Careless = {} => nband # 0, NEW cells, NEW made,
         GoodArray(ArrayOf(type, cells),
                   [type |-> type, size |-> size, nband |-> nband], made),
         CPP_NewDataset(type, size, nband, cells, made)
  PROVE  Grows
<1> DEFINE shape == [type |-> type, size |-> size, nband |-> nband]
           arrays == <<ArrayOf(type, cells)>>
           mades == <<made>>
<1>1. GoodShape(shape)
  BY DEF GoodShape
<1>2. /\ arrays \in Seq({ArrayOf(type, cells)}) /\ DOMAIN arrays = {1}
      /\ arrays[1] = ArrayOf(type, cells)
      /\ DOMAIN mades = {1} /\ mades[1] = made
  OBVIOUS
<1>3. IsList(arrays)
  BY <1>2, SequenceIsList
<1>4. "dataset" \in Kinds \ {"png"}
  BY DEF Kinds
<1>5. \A e \in DOMAIN arrays : GoodArray(arrays[e], shape, mades[e])
  BY <1>2
<1>6. Allocate(<<Object("dataset", shape, arrays, mades)>>)
  BY DEF CPP_NewDataset
<1> HIDE DEF shape, arrays, mades
<1>7. GoodObject(Object("dataset", shape, arrays, mades))
  BY <1>1, <1>2, <1>3, <1>4, <1>5, ObjectIsGood
<1> QED
  BY <1>6, <1>7, AllocateOne

-----------------------------------------------------------------------------
(* Band and pixel of a cell. *)

\* Every cell of a flat array is that of its band and its pixel.
LEMMA CellFacts ==
  ASSUME NEW size \in Nat \ {0}, NEW nband \in Nat, NEW i \in Cells(nband, size)
  PROVE  /\ BandOf(i, size) \in 1 .. nband
         /\ PixelOf(i, size) \in 1 .. size
         /\ i = Block(BandOf(i, size), PixelOf(i, size), size)
<1> DEFINE a == i - 1
           d == a \div size
           e == a % size
<1>1. i \in 1 .. nband * size /\ nband * size \in Nat
  BY CellCount DEF Cells
<1>2. a \in 0 .. nband * size - 1 /\ a \in Nat
  BY <1>1
<1>3. d \in Int /\ d >= 0 /\ e \in 0 .. size - 1 /\ a = size * d + e
  <2> HIDE DEF a, d, e
  <2>1. d = a \div size /\ e = a % size
    BY DEF d, e
  <2>2. a \in Nat /\ size \in Nat \ {0}
    BY <1>2
  <2> QED
    BY <2>1, <2>2, Z3
<1>4. d <= nband - 1
  <2> HIDE DEF a, d, e
  <2>1. CASE d >= nband
    <3>1. size * d >= nband * size
      BY <1>3, <2>1, Z3
    <3>2. size * d \in Int
      BY <1>3, Z3
    <3> DEFINE sd == size * d
               ns == nband * size
    <3>3. a = sd + e /\ a <= ns - 1 /\ ns \in Nat /\ sd >= ns
      BY <1>1, <1>2, <1>3, <3>1
    <3> HIDE DEF sd, ns
    <3> QED
      BY <1>3, <3>2, <3>3 DEF sd
  <2> QED
    BY <1>3, <2>1
<1>5. BandOf(i, size) = d + 1 /\ PixelOf(i, size) = e + 1
  BY DEF BandOf, PixelOf
<1>6. Block(d + 1, e + 1, size) = i
  <2>1. (d + 1) - 1 = d
    BY <1>3
  <2>2. d * size = size * d /\ size * d \in Int
    BY <1>3, Z3
  <2> DEFINE sd == size * d
  <2>3. Block(d + 1, e + 1, size) = sd + (e + 1)
    BY <2>1, <2>2 DEF Block
  <2>4. a = sd + e
    BY <1>3
  <2> HIDE DEF sd, d, e
  <2> QED
    BY <1>1, <1>3, <2>2, <2>3, <2>4 DEF sd
<1> QED
  BY <1>3, <1>4, <1>5, <1>6

-----------------------------------------------------------------------------
(* Loading. *)

LEMMA ProductFacts ==
  ASSUME NEW name \in Names
  PROVE  /\ GoodShape(Product[name])
         /\ Product[name].type \in Types
         /\ Product[name].size \in Nat \ {0}
         /\ Product[name].nband \in Nat
BY ObjectsAssumption DEF GoodShape, Shape

LEMMA SourceFacts ==
  ASSUME NEW name \in Names, NEW moment \in Stated \cup Moments, NEW tile \in Tiles
  PROVE  SourcesOf(name, moment, tile) \subseteq Source
<1>1. \A b \in 1 .. Product[name].nband : b \in Nat
  BY ProductFacts
<1> QED
  BY <1>1 DEF SourcesOf, SourceOf, Source

\* The sources of a tile can be told.
ToldOf(name, moment, tile) ==
    \A s \in SourcesOf(name, moment, tile) :
        \/ s \in unrecorded'
        \/ \E entry \in record' : Explains(entry, s)

LEMMA LoadedIsGood ==
  ASSUME NEW name \in Names, NEW moment, NEW tile, ToldOf(name, moment, tile)
  PROVE  GoodArray(Loaded(name, moment, tile), Product[name], MadeOf(name, moment, tile))
<1> DEFINE shape == Product[name]
           size == Product[name].size
           nband == Product[name].nband
           a == Loaded(name, moment, tile)
           g == MadeOf(name, moment, tile)
<1>1. size \in Nat \ {0} /\ nband \in Nat
  BY ProductFacts
<1>2. a.type = shape.type
      /\ a.cells = [i \in Cells(nband, size) |->
            {<<SourceOf(name, moment, tile, BandOf(i, size)), PixelOf(i, size)>>}]
  BY DEF Loaded, ArrayOf
<1>3. g = [bp \in BandsOf(nband, size) |-> {SourceOf(name, moment, tile, bp[1])}]
  BY DEF MadeOf
<1> HIDE DEF a, g, size, nband
<1>4. a.cells = [i \in Cells(nband, size) |-> a.cells[i]]
  BY <1>2
<1>5. ASSUME NEW i \in Cells(nband, size)
      PROVE  ToldBy(a.cells[i], record', unrecorded')
  <2>1. BandOf(i, size) \in 1 .. nband
    BY <1>1, CellFacts
  <2>2. SourceOf(name, moment, tile, BandOf(i, size)) \in SourcesOf(name, moment, tile)
    BY <2>1 DEF SourcesOf, nband
  <2>3. a.cells[i] = {<<SourceOf(name, moment, tile, BandOf(i, size)), PixelOf(i, size)>>}
    BY <1>2
  <2> QED
    BY <2>2, <2>3 DEF ToldOf, ToldBy
<1>6. ASSUME NEW b \in 1 .. nband, NEW p \in 1 .. size
      PROVE  a.cells[Block(b, p, size)] = ReadAt(MadeIn(g, b, p), p)
  <2>1. /\ Block(b, p, size) \in Cells(nband, size)
        /\ PixelOf(Block(b, p, size), size) = p /\ BandOf(Block(b, p, size), size) = b
    BY <1>1, BlockFacts DEF Cells
  <2>2. a.cells[Block(b, p, size)] = {<<SourceOf(name, moment, tile, b), p>>}
    BY <1>2, <2>1
  <2>3. MadeIn(g, b, p) = {SourceOf(name, moment, tile, b)}
    BY <1>3 DEF MadeIn, BandsOf
  <2> QED
    BY <2>2, <2>3 DEF ReadAt
<1> QED
  BY <1>2, <1>4, <1>5, <1>6 DEF GoodArray, a, g, size, nband

LEMMA LoadOne ==
  ASSUME ShapeInv, NEW kind \in Kinds \ {"png"}, NEW name \in Names, NEW moment, NEW tile,
         ToldOf(name, moment, tile),
         Allocate(<<Object(kind, Product[name], <<Loaded(name, moment, tile)>>,
                           <<MadeOf(name, moment, tile)>>)>>)
  PROVE  Grows
<1> DEFINE arrays == <<Loaded(name, moment, tile)>>
           mades == <<MadeOf(name, moment, tile)>>
<1>1. /\ arrays \in Seq({Loaded(name, moment, tile)}) /\ DOMAIN arrays = {1}
      /\ arrays[1] = Loaded(name, moment, tile)
      /\ DOMAIN mades = {1} /\ mades[1] = MadeOf(name, moment, tile)
  OBVIOUS
<1>2. IsList(arrays)
  BY <1>1, SequenceIsList
<1>3. GoodArray(arrays[1], Product[name], mades[1])
  BY <1>1, LoadedIsGood
<1>4. GoodShape(Product[name])
  BY ProductFacts
<1>5. Allocate(<<Object(kind, Product[name], arrays, mades)>>)
  OBVIOUS
<1> HIDE DEF arrays, mades
<1>6. GoodObject(Object(kind, Product[name], arrays, mades))
  BY <1>1, <1>2, <1>3, <1>4, ObjectIsGood
<1> QED
  BY <1>5, <1>6, AllocateOne

\* A list of tiles as the elements of one object.
LEMMA LoadMany ==
  ASSUME NEW kind \in Kinds \ {"dataset", "png"}, NEW name \in Names, NEW dts, IsList(dts),
         \A e \in DOMAIN dts : ToldOf(name, dts[e], Here)
  PROVE  GoodObject(Object(kind, Product[name],
                           [e \in DOMAIN dts |-> Loaded(name, dts[e], Here)],
                           [e \in DOMAIN dts |-> MadeOf(name, dts[e], Here)]))
<1> DEFINE arrays == [e \in DOMAIN dts |-> Loaded(name, dts[e], Here)]
           mades == [e \in DOMAIN dts |-> MadeOf(name, dts[e], Here)]
           n == Len(dts)
<1>1. n \in Nat /\ DOMAIN dts = 1 .. n
  BY ListFacts
<1>2. IsList(arrays)
  <2>1. arrays = [e \in 1 .. n |-> arrays[e]]
    BY <1>1
  <2> HIDE DEF arrays
  <2> QED
    BY <1>1, <2>1, FunctionIsList
<1>3. DOMAIN arrays = DOMAIN dts /\ DOMAIN mades = DOMAIN dts
  OBVIOUS
<1>4. \A e \in DOMAIN arrays : GoodArray(arrays[e], Product[name], mades[e])
  BY LoadedIsGood
<1>5. GoodShape(Product[name])
  BY ProductFacts
<1> HIDE DEF arrays, mades
<1>6. GoodObject(Object(kind, Product[name], arrays, mades))
  BY <1>2, <1>3, <1>4, <1>5, ObjectIsGood
<1> QED
  BY <1>6 DEF arrays, mades

\* What every call is to keep.
Keeps == IInv' /\ ("array" \notin Careless => OneChanges)

LEMMA NothingKeeps ==
  ASSUME IInv, Onward, UNCHANGED <<objs, mem>>
  PROVE  Keeps
<1>1. objs' = objs /\ mem' = mem
  OBVIOUS
<1>2. TypeOK'
  BY <1>1 DEF IInv, TypeOK, Onward
<1>3. ShapeInv' /\ OwnInv' /\ AlignedInv'
  BY <1>1 DEF IInv, ShapeInv, Datasets, OwnInv, AlignedInv, PixelAligned, Wide
<1>4. Recorded'
  <2>1. \A a \in DOMAIN mem' : \A i \in DOMAIN mem'[a].cells :
          ToldBy(mem'[a].cells[i], record', unrecorded')
    BY <1>1, ToldOnward DEF IInv, Recorded
  <2> QED
    BY <2>1 DEF Recorded, Told, ToldBy
<1>5. OneChanges
  BY <1>1 DEF OneChanges, Content
<1> QED
  BY <1>2, <1>3, <1>4, <1>5 DEF Keeps, IInv

LEMMA CalledOnward ==
  ASSUME IInv, Called,
         record \subseteq record', record' \subseteq Names \X Stated,
         unrecorded \subseteq unrecorded', unrecorded' \subseteq Source
  PROVE  Onward
BY ObjectsAssumption DEF IInv, TypeOK, Called, Onward

LEMMA RecordedOnward ==
  ASSUME IInv, Called, UNCHANGED records
  PROVE  Onward
BY CalledOnward DEF records, IInv, TypeOK

LEMMA AskedOnward ==
  ASSUME IInv, Called, NEW name \in Names, NEW dts \in Seq(Stated),
         record' = record \cup Asked(name, dts), UNCHANGED unrecorded
  PROVE  Onward
<1>1. Asked(name, dts) \subseteq Names \X Stated
  BY DEF Asked
<1> QED
  BY <1>1, CalledOnward DEF IInv, TypeOK

LEMMA DatasetKeeps ==
  ASSUME IInv, NEW name \in Names, NEW t \in Stated, NEW tile \in Tiles,
         Dataset(name, t, tile)
  PROVE  Keeps
<1> DEFINE dts == <<t>>
<1>1. /\ dts \in Seq(Stated) /\ 1 \in DOMAIN dts /\ dts[1] = t
      /\ Called /\ record' = record \cup Asked(name, dts) /\ UNCHANGED unrecorded
  BY DEF Dataset
<1> HIDE DEF dts
<1>2. Onward
  BY <1>1, AskedOnward
<1>3. ToldOf(name, ResolvedAt[t], tile)
  <2>1. <<name, t>> \in record'
    BY <1>1 DEF Asked
  <2> QED
    BY <2>1 DEF ToldOf, SourcesOf, SourceOf, Explains
<1>4. CASE LoadDataset(name, ResolvedAt[t], tile)
  <2>1. Grows
    BY <1>3, <1>4, LoadOne DEF IInv, LoadDataset, Kinds
  <2> QED
    BY <1>2, <2>1, GrowsKeeps DEF Keeps
<1>5. CASE UNCHANGED <<objs, mem>>
  BY <1>2, <1>5, NothingKeeps
<1> QED
  BY <1>4, <1>5 DEF Dataset

LEMMA DatafileKeeps ==
  ASSUME IInv, NEW name \in Names, Datafile(name)
  PROVE  Keeps
<1> DEFINE dts == <<0>>
<1>1. /\ dts \in Seq(Stated) /\ 1 \in DOMAIN dts /\ dts[1] = 0
      /\ Called /\ record' = record \cup Asked(name, dts) /\ UNCHANGED unrecorded
  BY ObjectsAssumption DEF Datafile
<1> HIDE DEF dts
<1>2. Onward
  BY <1>1, AskedOnward
<1>3. ToldOf(name, 0, Here)
  <2>1. <<name, 0>> \in record'
    BY <1>1 DEF Asked
  <2> QED
    BY <2>1 DEF ToldOf, SourcesOf, SourceOf, Explains
<1>4. CASE LoadDataset(name, 0, Here)
  <2>1. Grows
    BY <1>3, <1>4, LoadOne DEF IInv, LoadDataset, Kinds
  <2> QED
    BY <1>2, <2>1, GrowsKeeps DEF Keeps
<1>5. CASE UNCHANGED <<objs, mem>>
  BY <1>2, <1>5, NothingKeeps
<1> QED
  BY <1>4, <1>5 DEF Datafile

LEMMA GotFacts ==
  ASSUME NEW dts \in Seq(Stated), NEW g \in Got(dts)
  PROVE  /\ IsList(g)
         /\ \A e \in DOMAIN g : \E i \in DOMAIN dts : g[e] = dts[i]
<1>1. PICK n \in 1 .. Len(dts) : g \in [1 .. n -> {dts[i] : i \in DOMAIN dts}]
  BY DEF Got
<1>2. n \in Nat /\ g = [e \in 1 .. n |-> g[e]]
  BY <1>1
<1>3. IsList(g)
  BY <1>2, FunctionIsList
<1> QED
  BY <1>1, <1>3

LEMMA LoadCollectionsGrows ==
  ASSUME ShapeInv, NEW name \in Names, NEW got, IsList(got), LoadCollections(name, got),
         \A k \in DOMAIN got :
            IsList(got[k]) /\ \A e \in DOMAIN got[k] : ToldOf(name, got[k][e], Here)
  PROVE  Grows
<1> DEFINE n == Len(got)
           news == [k \in DOMAIN got |->
             Object("collection", Product[name],
                    [e \in DOMAIN got[k] |-> Loaded(name, got[k][e], Here)],
                    [e \in DOMAIN got[k] |-> MadeOf(name, got[k][e], Here)])]
<1>1. n \in Nat /\ DOMAIN got = 1 .. n
  BY ListFacts
<1>2. IsList(news)
  <2>1. news = [k \in 1 .. n |-> news[k]]
    BY <1>1
  <2> HIDE DEF news
  <2> QED
    BY <1>1, <2>1, FunctionIsList
<1>3. ASSUME NEW k \in DOMAIN news
      PROVE  GoodObject(news[k])
  <2>1. "collection" \in Kinds \ {"dataset", "png"}
    BY DEF Kinds
  <2>2. IsList(got[k]) /\ \A e \in DOMAIN got[k] : ToldOf(name, got[k][e], Here)
    OBVIOUS
  <2>3. GoodObject(Object("collection", Product[name],
                    [e \in DOMAIN got[k] |-> Loaded(name, got[k][e], Here)],
                    [e \in DOMAIN got[k] |-> MadeOf(name, got[k][e], Here)]))
    BY <2>1, <2>2, LoadMany
  <2> QED
    BY <2>3
<1>4. Allocate(news)
  BY DEF LoadCollections, CPP_NewDatasetCollection
<1> HIDE DEF news
<1> QED
  BY <1>2, <1>3, <1>4, AllocateGrows

LEMMA GotIsTold ==
  ASSUME NEW name \in Names, NEW dts \in Seq(Stated), Asked(name, dts) \subseteq record',
         NEW g \in Got(dts), NEW e \in DOMAIN g
  PROVE  ToldOf(name, g[e], Here)
<1>1. PICK i \in DOMAIN dts : g[e] = dts[i]
  BY GotFacts
<1>2. <<name, g[e]>> \in record'
  BY <1>1 DEF Asked
<1> QED
  BY <1>2 DEF ToldOf, SourcesOf, SourceOf, Explains

LEMMA DatasetCollectionKeeps ==
  ASSUME IInv, NEW name \in Names, NEW dts \in DtLists, DatasetCollection(name, dts)
  PROVE  Keeps
<1>1. dts \in Seq(Stated)
  BY ObjectsAssumption
<1>2. Called /\ record' = record \cup Asked(name, dts) /\ UNCHANGED unrecorded
  BY DEF DatasetCollection
<1>3. Onward
  BY <1>1, <1>2, AskedOnward
<1>4. ASSUME NEW g \in Got(dts), LoadCollections(name, <<g>>)
      PROVE  Keeps
  <2> DEFINE got == <<g>>
  <2>1. got \in Seq({g}) /\ DOMAIN got = {1} /\ got[1] = g
    OBVIOUS
  <2>2. IsList(got)
    BY <2>1, SequenceIsList
  <2>3. Asked(name, dts) \subseteq record'
    BY <1>2
  <2>4. IsList(g) /\ \A e \in DOMAIN g : ToldOf(name, g[e], Here)
    BY <1>1, <2>3, GotFacts, GotIsTold
  <2>5. LoadCollections(name, got)
    BY <1>4
  <2> HIDE DEF got
  <2>6. \A k \in DOMAIN got :
            IsList(got[k]) /\ \A e \in DOMAIN got[k] : ToldOf(name, got[k][e], Here)
    BY <2>1, <2>4
  <2>7. Grows
    BY <2>2, <2>5, <2>6, LoadCollectionsGrows DEF IInv
  <2> QED
    BY <1>3, <2>7, GrowsKeeps DEF Keeps
<1>5. CASE UNCHANGED <<objs, mem>>
  BY <1>3, <1>5, NothingKeeps
<1> QED
  BY <1>4, <1>5 DEF DatasetCollection

LEMMA DatasetCollectionsKeeps ==
  ASSUME IInv, NEW name \in Names, NEW lists \in ListLists, DatasetCollections(name, lists)
  PROVE  Keeps
<1>1. lists \in Seq(DtLists) /\ \A j \in DOMAIN lists : lists[j] \in Seq(Stated)
  BY ObjectsAssumption
<1>2. Called /\ UNCHANGED unrecorded
  BY DEF DatasetCollections
<1>3. ASSUME NEW J, J \subseteq DOMAIN lists,
             record' = record \cup UNION {Asked(name, lists[j]) : j \in J}
      PROVE  Onward
  <2>1. \A j \in J : Asked(name, lists[j]) \subseteq Names \X Stated
    BY <1>1, <1>3 DEF Asked
  <2> QED
    BY <1>2, <1>3, <2>1, CalledOnward DEF IInv, TypeOK
<1>4. ASSUME NEW k \in DOMAIN lists,
             record' = record \cup UNION {Asked(name, lists[j]) : j \in 1 .. k},
             UNCHANGED <<objs, mem>>
      PROVE  Keeps
  <2>1. 1 .. k \subseteq DOMAIN lists
    BY <1>1
  <2>2. Onward
    BY <1>3, <1>4, <2>1
  <2> QED
    BY <1>4, <2>2, NothingKeeps
<1>5. ASSUME record' = record \cup UNION {Asked(name, lists[j]) : j \in DOMAIN lists},
             NEW got \in [DOMAIN lists -> UNION {Got(lists[j]) : j \in DOMAIN lists}],
             \A j \in DOMAIN lists : got[j] \in Got(lists[j]),
             LoadCollections(name, got)
      PROVE  Keeps
  <2>1. Onward
    BY <1>3, <1>5
  <2>2. IsList(got)
    <3>1. Len(lists) \in Nat /\ got = [j \in 1 .. Len(lists) |-> got[j]]
      BY <1>1, <1>5
    <3> QED
      BY <3>1, FunctionIsList
  <2>3. ASSUME NEW k \in DOMAIN got
        PROVE  IsList(got[k]) /\ \A e \in DOMAIN got[k] : ToldOf(name, got[k][e], Here)
    <3>1. k \in DOMAIN lists /\ lists[k] \in Seq(Stated) /\ got[k] \in Got(lists[k])
      BY <1>1, <1>5, <2>3
    <3>2. Asked(name, lists[k]) \subseteq record'
      BY <1>5, <3>1
    <3> QED
      BY <3>1, <3>2, GotFacts, GotIsTold
  <2>4. Grows
    BY <1>5, <2>2, <2>3, LoadCollectionsGrows DEF IInv
  <2> QED
    BY <2>1, <2>4, GrowsKeeps DEF Keeps
<1> QED
  BY <1>4, <1>5 DEF DatasetCollections

LEMMA UnrecordedOnward ==
  ASSUME IInv, Called, UNCHANGED record, NEW S, S \subseteq Source,
         unrecorded' = unrecorded \cup S
  PROVE  Onward
BY CalledOnward DEF IInv, TypeOK

LEMMA DatasetArrayKeeps ==
  ASSUME IInv, NEW name \in Names, NEW found \in Finds, DatasetArray(name, found)
  PROVE  Keeps
<1>1. Called /\ UNCHANGED record /\ found \in Seq(Moments)
  BY ObjectsAssumption DEF DatasetArray
<1>2. CASE UNCHANGED <<objs, mem, unrecorded>>
  <2>1. Onward
    BY <1>1, <1>2, RecordedOnward DEF records
  <2> QED
    BY <1>2, <2>1, NothingKeeps
<1> DEFINE S == UNION {SourcesOf(name, found[e], Here) : e \in DOMAIN found}
           new == Object("dsarray", Product[name],
                         [e \in DOMAIN found |-> Loaded(name, found[e], Here)],
                         [e \in DOMAIN found |-> MadeOf(name, found[e], Here)])
<1>3. CASE unrecorded' = unrecorded \cup S /\ Allocate(<<new>>)
  <2>1. \A e \in DOMAIN found : SourcesOf(name, found[e], Here) \subseteq Source
    <3>1. \A e \in DOMAIN found : found[e] \in Stated \cup Moments
      BY <1>1
    <3> QED
      BY <3>1, ObjectsAssumption, SourceFacts
  <2>2. S \subseteq Source
    BY <2>1
  <2>3. \A e \in DOMAIN found : ToldOf(name, found[e], Here)
    BY <1>3 DEF ToldOf
  <2> HIDE DEF S
  <2>4. Onward
    BY <1>1, <1>3, <2>2, UnrecordedOnward
  <2>5. IsList(found) /\ "dsarray" \in Kinds \ {"dataset", "png"}
    BY <1>1, SequenceIsList DEF Kinds
  <2>6. GoodObject(new)
    BY <2>3, <2>5, LoadMany
  <2> HIDE DEF new
  <2>7. Grows
    BY <1>3, <2>6, AllocateOne DEF IInv
  <2> QED
    BY <2>4, <2>7, GrowsKeeps DEF Keeps
<1> QED
  BY <1>2, <1>3 DEF DatasetArray

LEMMA GetTileDataKeeps ==
  ASSUME IInv, NEW name \in Names, NEW t \in Stated, NEW tile \in Tiles,
         GetTileData(name, t, tile)
  PROVE  Keeps
<1>1. Called /\ UNCHANGED record
  BY DEF GetTileData
<1>2. CASE UNCHANGED <<objs, mem, unrecorded>>
  <2>1. Onward
    BY <1>1, <1>2, RecordedOnward DEF records
  <2> QED
    BY <1>2, <2>1, NothingKeeps
<1> DEFINE S == SourcesOf(name, ResolvedAt[t], tile)
<1>3. CASE /\ unrecorded' = unrecorded \cup S
           /\ Allocate(<<Object("tiledata", Product[name],
                              <<Loaded(name, ResolvedAt[t], tile)>>,
                              <<MadeOf(name, ResolvedAt[t], tile)>>)>>)
  <2>1. S \subseteq Source
    BY SourceFacts DEF Moments
  <2>2. ToldOf(name, ResolvedAt[t], tile)
    BY <1>3 DEF ToldOf
  <2> HIDE DEF S
  <2>3. Onward
    BY <1>1, <1>3, <2>1, UnrecordedOnward
  <2>4. "tiledata" \in Kinds \ {"png"}
    BY DEF Kinds
  <2>5. Grows
    BY <1>3, <2>2, <2>4, LoadOne DEF IInv
  <2> QED
    BY <2>3, <2>5, GrowsKeeps DEF Keeps
<1> QED
  BY <1>2, <1>3 DEF GetTileData

LEMMA LoadKeeps ==
  ASSUME IInv, Load
  PROVE  Keeps
<1>1. Neighbours \subseteq Tiles
  BY ObjectsAssumption
<1> QED
  BY <1>1, DatasetKeeps, DatafileKeeps, GetTileDataKeeps, DatasetArrayKeeps,
     DatasetCollectionKeeps, DatasetCollectionsKeeps DEF Load

-----------------------------------------------------------------------------
(* New objects, filled with zeros. *)

LEMMA ZerosAreGood ==
  ASSUME NEW shape \in NewShapes
  PROVE  GoodShape(shape) /\ GoodArray(Zeros(shape), shape, NoSource(shape))
<1> DEFINE z == Zeros(shape)
           g == NoSource(shape)
<1>1. GoodShape(shape) /\ shape.size \in Nat \ {0} /\ shape.nband \in Nat
  BY ObjectsAssumption DEF GoodShape, Shape
<1>2. z.type = shape.type /\ z.cells = [i \in Cells(shape.nband, shape.size) |-> {}]
  BY DEF Zeros, ArrayOf
<1>3. g = [bp \in BandsOf(shape.nband, shape.size) |-> {}]
  BY DEF NoSource
<1> HIDE DEF z, g
<1>4. z.cells = [i \in Cells(shape.nband, shape.size) |-> z.cells[i]]
  BY <1>2
<1>5. \A i \in Cells(shape.nband, shape.size) : ToldBy(z.cells[i], record', unrecorded')
  BY <1>2 DEF ToldBy
<1>6. ASSUME NEW b \in 1 .. shape.nband, NEW p \in 1 .. shape.size
      PROVE  z.cells[Block(b, p, shape.size)] = ReadAt(MadeIn(g, b, p), p)
  <2>1. Block(b, p, shape.size) \in Cells(shape.nband, shape.size)
    BY <1>1, BlockFacts DEF Cells
  <2>2. MadeIn(g, b, p) = {}
    BY <1>3 DEF MadeIn
  <2> QED
    BY <1>2, <2>1, <2>2 DEF ReadAt
<1> QED
  BY <1>1, <1>2, <1>4, <1>5, <1>6 DEF GoodArray, z, g

LEMMA NewDatasetKeeps ==
  ASSUME IInv, NEW shape \in NewShapes, NewDataset(shape)
  PROVE  Keeps
<1> DEFINE arrays == <<Zeros(shape)>>
           mades == <<NoSource(shape)>>
<1>1. Called /\ UNCHANGED records /\ Allocate(<<Object("dataset", shape, arrays, mades)>>)
  BY DEF NewDataset
<1>2. /\ arrays \in Seq({Zeros(shape)}) /\ DOMAIN arrays = {1} /\ arrays[1] = Zeros(shape)
      /\ DOMAIN mades = {1} /\ mades[1] = NoSource(shape)
  OBVIOUS
<1> HIDE DEF arrays, mades
<1>3. IsList(arrays) /\ "dataset" \in Kinds \ {"png"}
  BY <1>2, SequenceIsList DEF Kinds
<1>4. GoodObject(Object("dataset", shape, arrays, mades))
  BY <1>2, <1>3, ZerosAreGood, ObjectIsGood
<1>5. Grows
  BY <1>1, <1>4, AllocateOne DEF IInv
<1> QED
  BY <1>1, <1>5, RecordedOnward, GrowsKeeps DEF Keeps

LEMMA NewDatasetCollectionKeeps ==
  ASSUME IInv, NEW shape \in NewShapes, NEW n \in 1 .. MaxElements,
         NewDatasetCollection(shape, n)
  PROVE  Keeps
<1> DEFINE arrays == [e \in 1 .. n |-> Zeros(shape)]
           mades == [e \in 1 .. n |-> NoSource(shape)]
           new == Object("collection", shape, arrays, mades)
           news == [k \in DOMAIN <<arrays>> |->
                      Object("collection", shape, <<arrays>>[k], <<mades>>[k])]
<1>1. Called /\ UNCHANGED records /\ Allocate(news)
  BY DEF NewDatasetCollection, CPP_NewDatasetCollection
<1>2. n \in Nat /\ "collection" \in Kinds \ {"dataset", "png"}
  BY ObjectsAssumption DEF Kinds
<1>3. IsList(arrays)
  <2>1. arrays = [e \in 1 .. n |-> arrays[e]]
    OBVIOUS
  <2> HIDE DEF arrays
  <2> QED
    BY <1>2, <2>1, FunctionIsList
<1>4. /\ DOMAIN mades = DOMAIN arrays
      /\ \A e \in DOMAIN arrays : GoodArray(arrays[e], shape, mades[e])
  BY ZerosAreGood
<1>5. GoodObject(new)
  <2> HIDE DEF arrays, mades
  <2> QED
    BY <1>2, <1>3, <1>4, ZerosAreGood, ObjectIsGood
<1>6. news = [k \in 1 .. 1 |-> new]
  <2> HIDE DEF arrays, mades
  <2> QED
    OBVIOUS
<1> HIDE DEF new, news
<1>7. IsList(news) /\ DOMAIN news = 1 .. 1
  <2>1. news = [k \in 1 .. 1 |-> news[k]]
    BY <1>6
  <2> QED
    BY <2>1, FunctionIsList
<1>8. Grows
  BY <1>1, <1>5, <1>6, <1>7, AllocateGrows DEF IInv
<1> QED
  BY <1>1, <1>8, RecordedOnward, GrowsKeeps DEF Keeps

LEMMA MakeKeeps ==
  ASSUME IInv, Make
  PROVE  Keeps
BY NewDatasetKeeps, NewDatasetCollectionKeeps DEF Make

-----------------------------------------------------------------------------
(* Reading. *)

LEMMA ObjectFacts ==
  ASSUME IInv, NEW o \in DOMAIN objs
  PROVE  /\ objs[o].kind \in Kinds /\ objs[o].type \in Types
         /\ objs[o].size \in Nat \ {0} /\ objs[o].nband \in Nat
         /\ GoodShape(objs[o])
         /\ IsList(objs[o].bufs) /\ DOMAIN objs[o].made = DOMAIN objs[o].bufs
         /\ "made" \in DOMAIN objs[o]
         /\ \A e \in DOMAIN objs[o].bufs : objs[o].bufs[e] \in DOMAIN mem
         /\ o \in Datasets => 1 \in DOMAIN objs[o].bufs
BY DEF IInv, TypeOK, ShapeInv, GoodShape, AlignedInv, Wide

\* What is read can be told, or is not what was meant.
LEMMA ReadIsTold ==
  ASSUME IInv, NEW a \in DOMAIN mem, NEW type, NEW i
  PROVE  Told(Read(a, type, i))
<1>1. Told({<<Unknown, 0>>})
  BY DEF Told
<1> QED
  BY <1>1 DEF IInv, Recorded, Read

LEMMA ToldNow ==
  ASSUME UNCHANGED records, NEW cell, Told(cell)
  PROVE  ToldBy(cell, record', unrecorded')
BY DEF records, Told, ToldBy

\* What careful scripts read of an object is what was asked for.
LEMMA ReadIsAligned ==
  ASSUME IInv, Careless = {}, NEW o \in Held, NEW e \in DOMAIN objs[o].bufs,
         NEW b \in 1 .. objs[o].nband, NEW p \in 1 .. objs[o].size
  PROVE  Read(objs[o].bufs[e], objs[o].type, Block(b, p, objs[o].size))
            = ReadAt(Made(o, e, b, p), p)
<1> DEFINE a == objs[o].bufs[e]
           size == objs[o].size
           nband == objs[o].nband
<1>1. o \in DOMAIN objs /\ objs[o].kind # "png"
  BY DEF Held
<1>2. size \in Nat \ {0} /\ nband \in Nat /\ a \in DOMAIN mem
  BY <1>1, ObjectFacts
<1>3. Aligned(mem[a], objs[o], objs[o].made[e])
  BY <1>1 DEF IInv, AlignedInv, PixelAligned
<1>4. mem[a].type = objs[o].type /\ Len(mem[a].cells) = nband * size
      /\ mem[a].cells[Block(b, p, size)] = ReadAt(Made(o, e, b, p), p)
  BY <1>1, <1>3 DEF Aligned, CellAt, Made
<1>5. DOMAIN mem[a].cells = 1 .. Len(mem[a].cells)
  BY <1>2, ListFacts DEF IInv, ShapeInv
<1>6. Block(b, p, size) \in 1 .. nband * size
  BY <1>2, BlockFacts
<1> QED
  BY <1>4, <1>5, <1>6 DEF Read

LEMMA DatasetFacts ==
  ASSUME IInv, NEW d \in Datasets
  PROVE  /\ d \in DOMAIN objs /\ d \in Held /\ 1 \in DOMAIN objs[d].bufs
         /\ Data(d) \in DOMAIN mem
         /\ objs[d].type \in Types /\ GoodShape(objs[d])
         /\ objs[d].size \in Nat \ {0} /\ objs[d].nband \in Nat
         /\ Careless = {} => objs[d].nband # 0
<1>1. d \in DOMAIN objs /\ objs[d].kind = "dataset"
  BY DEF Datasets
<1> QED
  BY <1>1, ObjectFacts DEF Held, Data, GoodShape

LEMMA PixelIsTold ==
  ASSUME IInv, UNCHANGED records, NEW d \in Datasets, NEW i
  PROVE  ToldBy(Pixel(d, i), record', unrecorded')
BY DatasetFacts, ReadIsTold, ToldNow DEF Pixel

LEMMA PixelIsAligned ==
  ASSUME IInv, Careless = {}, NEW d \in Datasets,
         NEW b \in 1 .. objs[d].nband, NEW p \in 1 .. objs[d].size
  PROVE  Pixel(d, Block(b, p, objs[d].size)) = ReadAt(Made(d, 1, b, p), p)
BY DatasetFacts, ReadIsAligned DEF Pixel, Data

-----------------------------------------------------------------------------
(* Datasets made of others. *)

LEMMA FilledKeeps ==
  ASSUME IInv, Called, UNCHANGED records,
         NEW type \in Types, NEW size \in Nat \ {0}, NEW nband \in Nat,
         Careless = {} => nband # 0, NEW cells, NEW made,
         cells = [i \in Cells(nband, size) |-> cells[i]],
         DOMAIN made = BandsOf(nband, size),
         \A i \in Cells(nband, size) : ToldBy(cells[i], record', unrecorded'),
         Careless = {} => \A b \in 1 .. nband, p \in 1 .. size :
            cells[Block(b, p, size)] = ReadAt(made[<<b, p>>], p),
         CPP_NewDataset(type, size, nband, cells, made)
  PROVE  Keeps
<1> DEFINE shape == [type |-> type, size |-> size, nband |-> nband]
           a == ArrayOf(type, cells)
<1>1. shape.type = type /\ shape.size = size /\ shape.nband = nband
      /\ a.type = type /\ a.cells = cells
  BY DEF ArrayOf
<1>2. \A b \in 1 .. nband, p \in 1 .. size : MadeIn(made, b, p) = made[<<b, p>>]
  BY DEF MadeIn, BandsOf
<1> HIDE DEF shape, a
<1>3. GoodArray(a, shape, made)
  <2>1. a.cells = [i \in Cells(shape.nband, shape.size) |-> a.cells[i]]
    BY <1>1
  <2>2. \A i \in Cells(shape.nband, shape.size) : ToldBy(a.cells[i], record', unrecorded')
    BY <1>1
  <2>3. Careless = {} => \A b \in 1 .. shape.nband, p \in 1 .. shape.size :
          a.cells[Block(b, p, shape.size)] = ReadAt(MadeIn(made, b, p), p)
    <3>1. ASSUME Careless = {}, NEW b \in 1 .. nband, NEW p \in 1 .. size
          PROVE  cells[Block(b, p, size)] = ReadAt(MadeIn(made, b, p), p)
      <4>1. cells[Block(b, p, size)] = ReadAt(made[<<b, p>>], p)
        BY <3>1
      <4> QED
        BY <1>2, <4>1
    <3> QED
      BY <1>1, <3>1
  <2> QED
    BY <1>1, <2>1, <2>2, <2>3 DEF GoodArray
<1>4. Grows
  BY <1>3, NewDatasetGrows DEF IInv, shape, a
<1> QED
  BY <1>4, RecordedOnward, GrowsKeeps DEF Keeps

\* Conversion, whatever it reads: of doubles that is what is there.
LEMMA ConvertToDataTypeKeeps ==
  ASSUME IInv, NEW d \in Datasets, NEW type, ConvertToDataType(d, type),
         "double" \in Careless \/ objs[d].type = Float64
  PROVE  Keeps
<1> DEFINE size == objs[d].size
           nband == objs[d].nband
           cells == [i \in Cells(nband, size) |-> Converted(d, i)]
           made == [bp \in BandsOf(nband, size) |-> Made(d, 1, bp[1], bp[2])]
<1>1. Called /\ UNCHANGED records /\ CPP_NewDataset(type, size, nband, cells, made)
  BY DEF ConvertToDataType
<1>2. type \in Types
  BY DEF ConvertToDataType, ValidType
<1>3. size \in Nat \ {0} /\ nband \in Nat
  BY DatasetFacts
<1>6. Careless = {} => nband # 0
  BY DatasetFacts
<1>4. /\ cells = [i \in Cells(nband, size) |-> cells[i]]
      /\ DOMAIN made = BandsOf(nband, size)
      /\ \A i \in Cells(nband, size) : ToldBy(cells[i], record', unrecorded')
  BY <1>1, DatasetFacts, ReadIsTold, ToldNow DEF Converted
<1>5. ASSUME Careless = {}, NEW b \in 1 .. nband, NEW p \in 1 .. size
      PROVE  cells[Block(b, p, size)] = ReadAt(made[<<b, p>>], p)
  <2>1. Block(b, p, size) \in Cells(nband, size)
    BY <1>3, BlockFacts DEF Cells
  <2>2. \A i : Converted(d, i) = Pixel(d, i)
    BY <1>5 DEF Converted, Pixel
  <2>3. cells[Block(b, p, size)] = Pixel(d, Block(b, p, size))
    BY <2>1, <2>2
  <2>4. made[<<b, p>>] = Made(d, 1, b, p)
    BY DEF BandsOf
  <2> QED
    BY <1>5, <2>3, <2>4, PixelIsAligned
<1> HIDE DEF cells, made, size, nband
<1> QED
  BY <1>1, <1>2, <1>3, <1>4, <1>5, <1>6, FilledKeeps

\* Drawing, from bands there are.
LEMMA RenderKeeps ==
  ASSUME IInv, NEW d \in Datasets, NEW type, NEW from,
         Render(d, type, from),
         Careless = {} => type = objs[d].type
            /\ \A b \in 1 .. 4 : from[b] \in 0 .. objs[d].nband
  PROVE  Keeps
<1> DEFINE size == objs[d].size
           cells == [i \in Cells(4, size) |->
            IF from[BandOf(i, size)] = 0
            THEN {}
            ELSE Read(Data(d), type,
                      Block(from[BandOf(i, size)], PixelOf(i, size), size))]
           made == [bp \in BandsOf(4, size) |->
            IF from[bp[1]] = 0 THEN {} ELSE Made(d, 1, from[bp[1]], bp[2])]
<1>1. Called /\ UNCHANGED records /\ CPP_NewDataset(Byte, size, 4, cells, made)
  BY DEF Render
<1>2. Byte \in Types /\ size \in Nat \ {0}
  BY DatasetFacts DEF Byte, Types
<1>3. \A i \in Cells(4, size) : ToldBy(cells[i], record', unrecorded')
  <2>1. ToldBy({}, record', unrecorded')
    BY DEF ToldBy
  <2>2. \A i : ToldBy(Read(Data(d), type, i), record', unrecorded')
    BY <1>1, DatasetFacts, ReadIsTold, ToldNow
  <2> QED
    BY <2>1, <2>2
<1>4. ASSUME Careless = {}, NEW b \in 1 .. 4, NEW p \in 1 .. size
      PROVE  cells[Block(b, p, size)] = ReadAt(made[<<b, p>>], p)
  <2>1. /\ Block(b, p, size) \in Cells(4, size)
        /\ PixelOf(Block(b, p, size), size) = p /\ BandOf(Block(b, p, size), size) = b
    BY <1>2, BlockFacts DEF Cells
  <2>2. made[<<b, p>>] = IF from[b] = 0 THEN {} ELSE Made(d, 1, from[b], p)
    BY DEF BandsOf
  <2>3. CASE from[b] = 0
    <3>1. cells[Block(b, p, size)] = {}
      BY <2>1, <2>3
    <3>2. made[<<b, p>>] = {}
      BY <2>2, <2>3
    <3> HIDE DEF cells, made
    <3> QED
      BY <3>1, <3>2 DEF ReadAt
  <2>4. CASE from[b] # 0
    <3>1. from[b] \in 1 .. objs[d].nband /\ type = objs[d].type
      BY <1>4, <2>4, DatasetFacts
    <3>2. Read(Data(d), objs[d].type, Block(from[b], p, size)) = ReadAt(Made(d, 1, from[b], p), p)
      BY <1>4, <3>1, PixelIsAligned DEF Pixel
    <3>3. cells[Block(b, p, size)] = Read(Data(d), type, Block(from[b], p, size))
      BY <2>1, <2>4
    <3> QED
      BY <2>2, <2>4, <3>1, <3>2, <3>3
  <2> QED
    BY <2>3, <2>4
<1>5. cells = [i \in Cells(4, size) |-> cells[i]] /\ DOMAIN made = BandsOf(4, size)
  OBVIOUS
<1>6. 4 \in Nat /\ (Careless = {} => 4 # 0)
  OBVIOUS
<1> HIDE DEF cells, made, size
<1> QED
  BY <1>1, <1>2, <1>3, <1>4, <1>5, <1>6, FilledKeeps

LEMMA DrawingKeeps ==
  ASSUME IInv, NEW d \in Datasets, NEW r \in BandArgs(d), NEW g \in BandArgs(d),
         NEW b \in BandArgs(d),
         RenderGray(d, r) \/ RenderRGB(d, r, g, b) \/ RenderPsuedColor(d, r)
  PROVE  Keeps
<1>1. objs[d].nband \in Nat
  BY DatasetFacts
<1>2. Careless = {} => r \in 0 .. objs[d].nband /\ g \in 0 .. objs[d].nband
                         /\ b \in 0 .. objs[d].nband /\ 0 \in 0 .. objs[d].nband
  BY <1>1 DEF BandArgs
<1>3. CASE RenderGray(d, r)
  <2> DEFINE from == [j \in 1 .. 4 |-> r]
  <2>1. Render(d, objs[d].type, from)
    BY <1>3 DEF RenderGray
  <2>2. Careless = {} => \A j \in 1 .. 4 : from[j] \in 0 .. objs[d].nband
    BY <1>2
  <2> HIDE DEF from
  <2> QED
    BY <2>1, <2>2, RenderKeeps
<1>4. CASE RenderRGB(d, r, g, b)
  <2> DEFINE from == <<r, g, b, 0>>
  <2>1. Render(d, ShortOrByte(d), from) /\ TypeServed(d)
    BY <1>4 DEF RenderRGB
  <2>2. Careless = {} => \A j \in 1 .. 4 : from[j] \in 0 .. objs[d].nband
    <3>1. from[1] = r /\ from[2] = g /\ from[3] = b /\ from[4] = 0
      OBVIOUS
    <3> HIDE DEF from
    <3>2. \A j \in 1 .. 4 : j = 1 \/ j = 2 \/ j = 3 \/ j = 4
      OBVIOUS
    <3> QED
      BY <1>2, <3>1, <3>2
  <2>3. Careless = {} => ShortOrByte(d) = objs[d].type
    BY <2>1 DEF TypeServed
  <2> HIDE DEF from
  <2> QED
    BY <2>1, <2>2, <2>3, RenderKeeps
<1>5. CASE RenderPsuedColor(d, r)
  <2> DEFINE from == [j \in 1 .. 4 |-> r]
  <2>1. Render(d, ShortOrByte(d), from) /\ TypeServed(d)
    BY <1>5 DEF RenderPsuedColor
  <2>2. Careless = {} => \A j \in 1 .. 4 : from[j] \in 0 .. objs[d].nband
    BY <1>2
  <2>3. Careless = {} => ShortOrByte(d) = objs[d].type
    BY <2>1 DEF TypeServed
  <2> HIDE DEF from
  <2> QED
    BY <2>1, <2>2, <2>3, RenderKeeps
<1> QED
  BY <1>3, <1>4, <1>5

LEMMA ExtractKeeps ==
  ASSUME IInv, NEW d \in Datasets, NEW band, Extract(d, band)
  PROVE  Keeps
<1> DEFINE size == objs[d].size
           offset == (band - 1) * size
           cells == [i \in Cells(1, size) |-> Pixel(d, offset + i)]
           made == [bp \in BandsOf(1, size) |-> Made(d, 1, band, bp[2])]
<1>1. /\ Called /\ UNCHANGED records /\ band \in 1 .. objs[d].nband
      /\ CPP_NewDataset(objs[d].type, size, 1, cells, made)
  BY DEF Extract
<1>2. objs[d].type \in Types /\ size \in Nat \ {0} /\ objs[d].nband \in Nat
  BY DatasetFacts
<1>3. \A i \in Cells(1, size) : ToldBy(cells[i], record', unrecorded')
  BY <1>1, PixelIsTold
<1>4. ASSUME Careless = {}, NEW b \in 1 .. 1, NEW p \in 1 .. size
      PROVE  cells[Block(b, p, size)] = ReadAt(made[<<b, p>>], p)
  <2>1. Block(b, p, size) \in Cells(1, size) /\ Block(b, p, size) = p
    <3>1. Block(b, p, size) \in Cells(1, size)
      BY <1>2, BlockFacts DEF Cells
    <3>2. b = 1 /\ 0 * size = 0
      BY <1>2
    <3> QED
      BY <1>2, <3>1, <3>2 DEF Block
  <2>2. cells[Block(b, p, size)] = Pixel(d, Block(band, p, size))
    BY <2>1 DEF Block
  <2>3. made[<<b, p>>] = Made(d, 1, band, p)
    BY DEF BandsOf
  <2>4. Pixel(d, Block(band, p, size)) = ReadAt(Made(d, 1, band, p), p)
    BY <1>1, <1>4, PixelIsAligned
  <2> HIDE DEF cells, made
  <2> QED
    BY <2>2, <2>3, <2>4
<1>5. cells = [i \in Cells(1, size) |-> cells[i]] /\ DOMAIN made = BandsOf(1, size)
  OBVIOUS
<1> HIDE DEF cells, made, size
<1> QED
  BY <1>1, <1>2, <1>3, <1>4, <1>5, FilledKeeps

LEMMA ToldUnion ==
  ASSUME NEW S, \A cell \in S : ToldBy(cell, record', unrecorded')
  PROVE  ToldBy(UNION S, record', unrecorded')
BY DEF ToldBy

LEMMA ReadAtUnion ==
  ASSUME NEW S, NEW p, NEW f, NEW g, \A x \in S : f[x] = ReadAt(g[x], p)
  PROVE  UNION {f[x] : x \in S} = ReadAt(UNION {g[x] : x \in S}, p)
<1>1. ASSUME NEW x \in S, NEW z \in f[x]
      PROVE  z \in ReadAt(UNION {g[y] : y \in S}, p)
  <2>1. PICK s \in g[x] : z = <<s, p>>
    BY <1>1 DEF ReadAt
  <2> QED
    BY <2>1 DEF ReadAt
<1>2. ASSUME NEW z \in ReadAt(UNION {g[y] : y \in S}, p)
      PROVE  z \in UNION {f[x] : x \in S}
  <2>1. PICK s \in UNION {g[y] : y \in S} : z = <<s, p>>
    BY <1>2 DEF ReadAt
  <2>2. PICK x \in S : s \in g[x]
    BY <2>1
  <2>3. z \in f[x]
    BY <2>1, <2>2 DEF ReadAt
  <2> QED
    BY <2>3
<1> QED
  BY <1>1, <1>2

LEMMA SubtractKeeps ==
  ASSUME IInv, NEW d \in Datasets, NEW q \in Datasets, Subtract(d, q)
  PROVE  Keeps
<1> DEFINE size == objs[d].size
           nband == objs[d].nband
           cells == [i \in Cells(nband, size) |-> Pixel(d, i) \cup Pixel(q, i)]
           made == [bp \in BandsOf(nband, size) |->
             Made(d, 1, bp[1], bp[2]) \cup Made(q, 1, bp[1], bp[2])]
<1>1. /\ Called /\ UNCHANGED records
      /\ objs[q].size = size /\ objs[q].nband = nband
      /\ CPP_NewDataset(objs[d].type, size, nband, cells, made)
  BY DEF Subtract, SameShape
<1>2. objs[d].type \in Types /\ size \in Nat \ {0} /\ nband \in Nat
      /\ (Careless = {} => nband # 0)
  BY DatasetFacts
<1>3. ASSUME NEW i \in Cells(nband, size)
      PROVE  ToldBy(cells[i], record', unrecorded')
  <2>1. ToldBy(Pixel(d, i), record', unrecorded') /\ ToldBy(Pixel(q, i), record', unrecorded')
    BY <1>1, PixelIsTold
  <2>2. cells[i] = Pixel(d, i) \cup Pixel(q, i)
    OBVIOUS
  <2> QED
    BY <2>1, <2>2 DEF ToldBy
<1>4. ASSUME Careless = {}, NEW b \in 1 .. nband, NEW p \in 1 .. size
      PROVE  cells[Block(b, p, size)] = ReadAt(made[<<b, p>>], p)
  <2>1. Block(b, p, size) \in Cells(nband, size)
    BY <1>2, BlockFacts DEF Cells
  <2>2. cells[Block(b, p, size)]
          = Pixel(d, Block(b, p, size)) \cup Pixel(q, Block(b, p, size))
    BY <2>1
  <2>3. Pixel(d, Block(b, p, size)) = ReadAt(Made(d, 1, b, p), p)
    BY <1>4, PixelIsAligned
  <2>4. Pixel(q, Block(b, p, size)) = ReadAt(Made(q, 1, b, p), p)
    BY <1>1, <1>4, PixelIsAligned
  <2>5. made[<<b, p>>] = Made(d, 1, b, p) \cup Made(q, 1, b, p)
    BY DEF BandsOf
  <2> HIDE DEF cells, made
  <2> QED
    BY <2>2, <2>3, <2>4, <2>5 DEF ReadAt
<1>5. cells = [i \in Cells(nband, size) |-> cells[i]] /\ DOMAIN made = BandsOf(nband, size)
  OBVIOUS
<1> HIDE DEF cells, made, size, nband
<1> QED
  BY <1>1, <1>2, <1>3, <1>4, <1>5, FilledKeeps

\* What careful scripts clip is of the engine's tile, as the region is.
LEMMA ClipKeeps ==
  ASSUME IInv, NEW d \in Datasets, "tile" \in Careless \/ OwnTile(d), Clip(d)
  PROVE  Keeps
<1> DEFINE size == objs[d].size
           nband == objs[d].nband
           cells == [i \in Cells(nband, size) |->
             IF KeptAt(PixelOf(i, size)) THEN Pixel(d, i) ELSE {}]
           made == [bp \in BandsOf(nband, size) |->
             {s \in Made(d, 1, bp[1], bp[2]) : bp[2] \in Region[s.tile]}]
<1>1. /\ Called /\ UNCHANGED records
      /\ CPP_NewDataset(objs[d].type, size, nband, cells, made)
  BY DEF Clip
<1>2. objs[d].type \in Types /\ size \in Nat \ {0} /\ nband \in Nat
      /\ (Careless = {} => nband # 0)
  BY DatasetFacts
<1>3. \A i \in Cells(nband, size) : ToldBy(cells[i], record', unrecorded')
  BY <1>1, PixelIsTold DEF ToldBy
<1>4. ASSUME Careless = {}, NEW b \in 1 .. nband, NEW p \in 1 .. size
      PROVE  cells[Block(b, p, size)] = ReadAt(made[<<b, p>>], p)
  <2>1. /\ Block(b, p, size) \in Cells(nband, size)
        /\ PixelOf(Block(b, p, size), size) = p
    BY <1>2, BlockFacts DEF Cells
  <2>2. Pixel(d, Block(b, p, size)) = ReadAt(Made(d, 1, b, p), p)
    BY <1>4, PixelIsAligned
  <2>3. made[<<b, p>>] = {s \in Made(d, 1, b, p) : p \in Region[s.tile]}
    BY DEF BandsOf
  <2>4. \A s \in Made(d, 1, b, p) : s.tile = Here
    BY <1>4 DEF OwnTile
  <2>5. cells[Block(b, p, size)]
          = IF p \in Region[Here] THEN Pixel(d, Block(b, p, size)) ELSE {}
    BY <2>1 DEF KeptAt
  <2> HIDE DEF cells, made
  <2>6. CASE p \in Region[Here]
    <3>1. made[<<b, p>>] = Made(d, 1, b, p)
      BY <2>3, <2>4, <2>6
    <3> QED
      BY <2>2, <2>5, <2>6, <3>1
  <2>7. CASE p \notin Region[Here]
    <3>1. made[<<b, p>>] = {}
      BY <2>3, <2>4, <2>7
    <3> QED
      BY <2>5, <2>7, <3>1 DEF ReadAt
  <2> QED
    BY <2>6, <2>7
<1>5. cells = [i \in Cells(nband, size) |-> cells[i]] /\ DOMAIN made = BandsOf(nband, size)
  OBVIOUS
<1> HIDE DEF cells, made, size, nband
<1> QED
  BY <1>1, <1>2, <1>3, <1>4, <1>5, FilledKeeps

\* A mask is of a band there is.
LEMMA BuildMaskKeeps ==
  ASSUME IInv, NEW d \in Datasets, BuildMask(d)
  PROVE  Keeps
<1> DEFINE size == objs[d].size
           cells == [i \in Cells(1, size) |-> Pixel(d, i)]
           made == [bp \in BandsOf(1, size) |-> Made(d, 1, 1, bp[2])]
<1>1. Called /\ UNCHANGED records /\ CPP_NewDataset(Byte, size, 1, cells, made)
  BY DEF BuildMask
<1>2. Byte \in Types /\ size \in Nat \ {0} /\ objs[d].nband \in Nat
  BY DatasetFacts DEF Byte, Types
<1>3. \A i \in Cells(1, size) : ToldBy(cells[i], record', unrecorded')
  BY <1>1, PixelIsTold
<1>4. ASSUME Careless = {}, NEW b \in 1 .. 1, NEW p \in 1 .. size
      PROVE  cells[Block(b, p, size)] = ReadAt(made[<<b, p>>], p)
  <2>1. Block(b, p, size) \in Cells(1, size) /\ b = 1 /\ 1 \in 1 .. objs[d].nband
    <3>1. Block(b, p, size) \in Cells(1, size)
      BY <1>2, BlockFacts DEF Cells
    <3>2. objs[d].nband # 0
      BY <1>4, DatasetFacts
    <3> QED
      BY <1>2, <3>1, <3>2
  <2>2. made[<<b, p>>] = Made(d, 1, 1, p) /\ cells[Block(b, p, size)] = Pixel(d, Block(1, p, size))
    BY <2>1 DEF BandsOf
  <2>3. Pixel(d, Block(1, p, size)) = ReadAt(Made(d, 1, 1, p), p)
    BY <1>4, <2>1, PixelIsAligned
  <2> HIDE DEF cells, made
  <2> QED
    BY <2>2, <2>3
<1>5. cells = [i \in Cells(1, size) |-> cells[i]] /\ DOMAIN made = BandsOf(1, size)
  OBVIOUS
<1> HIDE DEF cells, made, size
<1> QED
  BY <1>1, <1>2, <1>3, <1>4, <1>5, FilledKeeps

LEMMA ForEachPixelKeeps ==
  ASSUME IInv, NEW d \in Datasets, NEW k \in 1 .. MaxElements, ForEachPixel(d, k)
  PROVE  Keeps
<1> DEFINE size == objs[d].size
           bands == 1 .. objs[d].nband
           cells == [i \in Cells(k, size) |->
             UNION {Pixel(d, Block(b, PixelOf(i, size), size)) : b \in bands}]
           made == [bp \in BandsOf(k, size) |->
             UNION {Made(d, 1, b, bp[2]) : b \in bands}]
<1>1. /\ Called /\ UNCHANGED records
      /\ CPP_NewDataset(objs[d].type, size, k, cells, made)
  BY DEF ForEachPixel
<1>2. objs[d].type \in Types /\ size \in Nat \ {0} /\ k \in Nat /\ k # 0
  BY DatasetFacts, ObjectsAssumption
<1>3. \A i \in Cells(k, size) : ToldBy(cells[i], record', unrecorded')
  BY <1>1, PixelIsTold, ToldUnion
<1>4. ASSUME Careless = {}, NEW c \in 1 .. k, NEW p \in 1 .. size
      PROVE  cells[Block(c, p, size)] = ReadAt(made[<<c, p>>], p)
  <2> DEFINE f == [b \in bands |-> Pixel(d, Block(b, p, size))]
             g == [b \in bands |-> Made(d, 1, b, p)]
  <2>1. Block(c, p, size) \in Cells(k, size) /\ PixelOf(Block(c, p, size), size) = p
    BY <1>2, BlockFacts DEF Cells
  <2>2. \A b \in bands : f[b] = ReadAt(g[b], p)
    BY <1>4, PixelIsAligned
  <2>3. cells[Block(c, p, size)] = UNION {f[b] : b \in bands}
    BY <2>1
  <2>4. made[<<c, p>>] = UNION {g[b] : b \in bands}
    BY DEF BandsOf
  <2> HIDE DEF cells, made, f, g, bands
  <2> QED
    BY <2>2, <2>3, <2>4, ReadAtUnion
<1>5. cells = [i \in Cells(k, size) |-> cells[i]] /\ DOMAIN made = BandsOf(k, size)
  OBVIOUS
<1> HIDE DEF cells, made, size
<1> QED
  BY <1>1, <1>2, <1>3, <1>4, <1>5, FilledKeeps

LEMMA DA_ForEachPixelKeeps ==
  ASSUME IInv, NEW a \in DsArrays, NEW k \in 1 .. MaxElements, DA_ForEachPixel(a, k)
  PROVE  Keeps
<1> DEFINE size == objs[a].size
           all == (1 .. objs[a].nband) \X DOMAIN objs[a].bufs
           cells == [i \in Cells(k, size) |->
             UNION {Read(objs[a].bufs[be[2]], objs[a].type,
                         Block(be[1], PixelOf(i, size), size)) : be \in all}]
           made == [bp \in BandsOf(k, size) |->
             UNION {Made(a, be[2], be[1], bp[2]) : be \in all}]
<1>1. /\ Called /\ UNCHANGED records
      /\ CPP_NewDataset(objs[a].type, size, k, cells, made)
  BY DEF DA_ForEachPixel
<1>2. a \in DOMAIN objs /\ a \in Held
  BY DEF DsArrays, Held
<1>3. /\ objs[a].type \in Types /\ size \in Nat \ {0} /\ k \in Nat /\ k # 0
      /\ \A e \in DOMAIN objs[a].bufs : objs[a].bufs[e] \in DOMAIN mem
  BY <1>2, ObjectFacts, ObjectsAssumption
<1>4. \A i \in Cells(k, size) : ToldBy(cells[i], record', unrecorded')
  <2> TAKE i \in Cells(k, size)
  <2> DEFINE cs == {Read(objs[a].bufs[be[2]], objs[a].type,
                         Block(be[1], PixelOf(i, size), size)) : be \in all}
  <2>1. \A cell \in cs : ToldBy(cell, record', unrecorded')
    BY <1>1, <1>3, ReadIsTold, ToldNow
  <2>2. cells[i] = UNION cs
    OBVIOUS
  <2> HIDE DEF cs
  <2> QED
    BY <2>1, <2>2, ToldUnion
<1>5. ASSUME Careless = {}, NEW c \in 1 .. k, NEW p \in 1 .. size
      PROVE  cells[Block(c, p, size)] = ReadAt(made[<<c, p>>], p)
  <2> DEFINE f == [be \in all |-> Read(objs[a].bufs[be[2]], objs[a].type, Block(be[1], p, size))]
             g == [be \in all |-> Made(a, be[2], be[1], p)]
  <2>1. Block(c, p, size) \in Cells(k, size) /\ PixelOf(Block(c, p, size), size) = p
    BY <1>3, BlockFacts DEF Cells
  <2>2. \A be \in all : f[be] = ReadAt(g[be], p)
    BY <1>2, <1>5, ReadIsAligned
  <2>3. cells[Block(c, p, size)] = UNION {f[be] : be \in all}
    BY <2>1
  <2>4. made[<<c, p>>] = UNION {g[be] : be \in all}
    BY DEF BandsOf
  <2> HIDE DEF cells, made, f, g, all
  <2> QED
    BY <2>2, <2>3, <2>4, ReadAtUnion
<1>6. cells = [i \in Cells(k, size) |-> cells[i]] /\ DOMAIN made = BandsOf(k, size)
  OBVIOUS
<1> HIDE DEF cells, made, size
<1> QED
  BY <1>1, <1>3, <1>4, <1>5, <1>6, FilledKeeps

\* Lists of objects, as scripts pass them.
LEMMA PassedFacts ==
  ASSUME NEW S, NEW l \in Lists(S)
  PROVE  /\ Len(l) \in Nat \ {0} /\ DOMAIN l = 1 .. Len(l)
         /\ \A k \in DOMAIN l : l[k] \in S
         /\ 1 \in DOMAIN l /\ Len(l) \in DOMAIN l
<1>1. PICK n \in 1 .. MaxElements : l \in [1 .. n -> S]
  BY DEF Lists
<1>2. n \in Nat /\ n # 0
  BY ObjectsAssumption
<1>3. Len(l) = n /\ DOMAIN l = 1 .. n
  BY <1>1, <1>2
<1> QED
  BY <1>1, <1>2, <1>3

\* The bands of the members before one are counted one member after the other.
LEMMA BandsBeforeFacts ==
  ASSUME IInv, NEW ds \in Lists(Datasets), NEW k \in DOMAIN ds
  PROVE  /\ BandsBefore(ds, k) \in Nat /\ BandsBefore(ds, k + 1) \in Nat
         /\ BandsBefore(ds, k + 1) = BandsBefore(ds, k) + objs[ds[k]].nband
<1> DEFINE Of(j) == {<<j, b>> : b \in 1 .. objs[ds[j]].nband}
           fam(n) == {Of(j) : j \in 1 .. n - 1}
           n == objs[ds[k]].nband
<1>1. /\ Len(ds) \in Nat /\ DOMAIN ds = 1 .. Len(ds)
      /\ \A j \in DOMAIN ds : ds[j] \in Datasets
  BY PassedFacts
<1>2. \A j \in DOMAIN ds : objs[ds[j]].nband \in Nat
  BY <1>1, DatasetFacts
<1>3. ASSUME NEW j \in DOMAIN ds
      PROVE  IsFiniteSet(Of(j)) /\ Cardinality(Of(j)) = objs[ds[j]].nband
  <2> DEFINE m == objs[ds[j]].nband
  <2>1. m \in Nat
    BY <1>2
  <2> HIDE DEF m
  <2>2. IsFiniteSet(1 .. m) /\ Cardinality(1 .. m) = m
    BY <2>1, FS_Interval
  <2>3. IsFiniteSet({j}) /\ Cardinality({j}) = 1
    BY FS_Singleton
  <2>4. IsFiniteSet({j} \X (1 .. m)) /\ Cardinality({j} \X (1 .. m)) = 1 * m
    BY <2>2, <2>3, FS_Product
  <2>5. Of(j) = {j} \X (1 .. m)
    BY DEF m
  <2> HIDE DEF Of
  <2> QED
    BY <2>1, <2>4, <2>5 DEF m
<1> HIDE DEF Of
<1>4. ASSUME NEW l \in 1 .. Len(ds) + 1
      PROVE  IsFiniteSet(UNION fam(l))
  <2> DEFINE g == [j \in 1 .. l - 1 |-> Of(j)]
  <2>1. IsFiniteSet(1 .. l - 1)
    BY FS_Interval
  <2>2. g \in Surjection(1 .. l - 1, fam(l))
    BY DEF Surjection
  <2>3. IsFiniteSet(fam(l))
    BY <2>1, <2>2, FS_Surjection
  <2>4. \A T \in fam(l) : IsFiniteSet(T)
    BY <1>1, <1>3
  <2> HIDE DEF fam
  <2> QED
    BY <2>3, <2>4, FS_UNION
<1>5. UNION fam(k + 1) = (UNION fam(k)) \cup Of(k)
  <2>1. 1 .. (k + 1) - 1 = (1 .. k - 1) \cup {k}
    BY <1>1
  <2> QED
    BY <2>1
<1>6. (UNION fam(k)) \cap Of(k) = {}
  <2>1. \A j \in 1 .. k - 1 : j # k
    BY <1>1
  <2> QED
    BY <2>1 DEF Of
<1>7. \A l : BandsBefore(ds, l) = Cardinality(UNION fam(l))
  BY DEF BandsBefore, Of
<1> HIDE DEF fam
<1>8. /\ IsFiniteSet(UNION fam(k)) /\ IsFiniteSet(UNION fam(k + 1))
      /\ IsFiniteSet(Of(k)) /\ Cardinality(Of(k)) = n
  BY <1>1, <1>3, <1>4
<1>9. /\ Cardinality(UNION fam(k)) \in Nat /\ Cardinality(UNION fam(k + 1)) \in Nat
      /\ n \in Nat
  BY <1>2, <1>8, FS_CardinalityType
<1>10. Cardinality((UNION fam(k)) \cup Of(k))
          = Cardinality(UNION fam(k)) + Cardinality(Of(k)) - Cardinality({})
  BY <1>6, <1>8, FS_Union
<1>11. Cardinality({}) = 0
  BY FS_EmptySet
<1>12. /\ BandsBefore(ds, k) = Cardinality(UNION fam(k))
       /\ BandsBefore(ds, k + 1) = Cardinality(UNION fam(k + 1))
  BY <1>7
<1>13. Cardinality(UNION fam(k + 1)) = Cardinality(UNION fam(k)) + n
  <2>1. Cardinality(UNION fam(k + 1))
          = Cardinality(UNION fam(k)) + Cardinality(Of(k)) - Cardinality({})
    BY <1>5, <1>10
  <2>2. Cardinality(Of(k)) = n /\ Cardinality({}) = 0
    BY <1>8, <1>11
  <2>3. Cardinality(UNION fam(k + 1)) = Cardinality(UNION fam(k)) + n - 0
    BY <2>1, <2>2
  <2> QED
    BY <1>9, <2>3
<1> QED
  BY <1>9, <1>12, <1>13

\* Where a band lies in a stack is where it lay in its member, further on.
LEMMA BandIsMoved ==
  ASSUME NEW size \in Nat \ {0}, NEW b \in Nat, NEW before \in Nat, NEW p \in Nat
  PROVE  Block(b, p, size) - before * size = Block(b - before, p, size)
<1>1. (b - 1) * size - before * size = ((b - before) - 1) * size
  BY Z3
<1>2. (b - 1) * size \in Int /\ before * size \in Int /\ ((b - before) - 1) * size \in Int
  BY Z3
<1> DEFINE x == (b - 1) * size
           y == before * size
           z == ((b - before) - 1) * size
<1>3. Block(b, p, size) = x + p /\ Block(b - before, p, size) = z + p
  BY DEF Block
<1>4. x - y = z /\ x \in Int /\ y \in Int /\ z \in Int
  BY <1>1, <1>2
<1>5. (x + p) - y = z + p
  <2> HIDE DEF x, y, z
  <2> QED
    BY <1>4
<1> HIDE DEF x, z
<1> QED
  BY <1>3, <1>5

LEMMA StackDatasetsKeeps ==
  ASSUME IInv, NEW ds \in Lists(Datasets), StackDatasets(ds)
  PROVE  Keeps
<1> DEFINE size == objs[ds[1]].size
           total == BandsBefore(ds, Len(ds) + 1)
           cells == [i \in Cells(total, size) |->
             UNION {Pixel(ds[k], i - TargetOffset(ds, k, size)) :
                        k \in MembersAt(ds, BandOf(i, size))}]
           made == [bp \in BandsOf(total, size) |->
             UNION {Made(ds[k], 1, bp[1] - BandsBefore(ds, k), bp[2]) :
                        k \in MembersAt(ds, bp[1])}]
<1>1. /\ Called /\ UNCHANGED records
      /\ \A k \in DOMAIN ds : objs[ds[k]].size = size
      /\ CPP_NewDataset(objs[ds[1]].type, size, total, cells, made)
  BY DEF StackDatasets, SameShape
<1>2. /\ Len(ds) \in DOMAIN ds /\ 1 \in DOMAIN ds
      /\ \A k \in DOMAIN ds : ds[k] \in Datasets
      /\ \A b : MembersAt(ds, b) \subseteq DOMAIN ds
  BY PassedFacts DEF MembersAt
<1>3. objs[ds[1]].type \in Types /\ size \in Nat \ {0}
  BY <1>2, DatasetFacts
<1>4. total \in Nat
  BY <1>2, BandsBeforeFacts
<1>5. Careless = {} => total # 0
  <2>1. /\ BandsBefore(ds, Len(ds)) \in Nat
        /\ total = BandsBefore(ds, Len(ds)) + objs[ds[Len(ds)]].nband
    BY <1>2, BandsBeforeFacts
  <2>2. /\ objs[ds[Len(ds)]].nband \in Nat
        /\ Careless = {} => objs[ds[Len(ds)]].nband # 0
    BY <1>2, DatasetFacts
  <2> HIDE DEF total
  <2> QED
    BY <2>1, <2>2
<1> HIDE DEF total
<1>6. ASSUME NEW i \in Cells(total, size)
      PROVE  ToldBy(cells[i], record', unrecorded')
  <2> DEFINE cs == {Pixel(ds[k], i - TargetOffset(ds, k, size)) :
                      k \in MembersAt(ds, BandOf(i, size))}
  <2>1. \A cell \in cs : ToldBy(cell, record', unrecorded')
    BY <1>1, <1>2, PixelIsTold
  <2>2. cells[i] = UNION cs
    OBVIOUS
  <2> HIDE DEF cs
  <2> QED
    BY <2>1, <2>2, ToldUnion
<1>7. ASSUME Careless = {}, NEW b \in 1 .. total, NEW p \in 1 .. size
      PROVE  cells[Block(b, p, size)] = ReadAt(made[<<b, p>>], p)
  <2> DEFINE i == Block(b, p, size)
             members == MembersAt(ds, b)
             f == [k \in members |-> Pixel(ds[k], i - TargetOffset(ds, k, size))]
             g == [k \in members |-> Made(ds[k], 1, b - BandsBefore(ds, k), p)]
  <2>1. i \in Cells(total, size) /\ BandOf(i, size) = b
    BY <1>3, <1>4, BlockFacts DEF Cells
  <2>2. ASSUME NEW k \in members
        PROVE  f[k] = ReadAt(g[k], p)
    <3> DEFINE before == BandsBefore(ds, k)
               c == b - before
    <3>1. /\ k \in DOMAIN ds /\ before \in Nat /\ objs[ds[k]].nband \in Nat
          /\ before < b /\ b <= before + objs[ds[k]].nband
      BY <1>2, <2>2, BandsBeforeFacts, DatasetFacts DEF MembersAt
    <3>2. b \in Nat /\ p \in Nat
      BY <1>3, <1>4
    <3>3. c \in 1 .. objs[ds[k]].nband
      <4> HIDE DEF before
      <4> QED
        BY <3>1, <3>2
    <3>4. i - TargetOffset(ds, k, size) = Block(c, p, size)
      <4> HIDE DEF before
      <4>1. Block(b, p, size) - before * size = Block(b - before, p, size)
        BY <1>3, <3>1, <3>2, BandIsMoved
      <4> QED
        BY <4>1 DEF TargetOffset, before
    <3>5. Pixel(ds[k], Block(c, p, size)) = ReadAt(Made(ds[k], 1, c, p), p)
      BY <1>1, <1>2, <1>7, <3>1, <3>3, PixelIsAligned
    <3>6. f[k] = Pixel(ds[k], i - TargetOffset(ds, k, size)) /\ g[k] = Made(ds[k], 1, c, p)
      BY <2>2
    <3> QED
      BY <3>4, <3>5, <3>6
  <2>3. cells[i] = UNION {f[k] : k \in members}
    BY <2>1
  <2>4. made[<<b, p>>] = UNION {g[k] : k \in members}
    BY DEF BandsOf
  <2> HIDE DEF cells, made, f, g, members, i
  <2>5. cells[i] = ReadAt(made[<<b, p>>], p)
    BY <2>2, <2>3, <2>4, ReadAtUnion
  <2> QED
    BY <2>5 DEF i
<1>8. cells = [i \in Cells(total, size) |-> cells[i]] /\ DOMAIN made = BandsOf(total, size)
  OBVIOUS
<1> HIDE DEF cells, made, size
<1> QED
  BY <1>1, <1>3, <1>4, <1>5, <1>6, <1>7, <1>8, FilledKeeps

\* A picture: the cells of a pixel lie side by side.
LEMMA InterleavedFacts ==
  ASSUME NEW size \in Nat \ {0}, NEW c \in 1 .. 4, NEW p \in 1 .. size
  PROVE  /\ Interleaved(c, p) \in 1 .. 4 * size
         /\ ((Interleaved(c, p) - 1) \div 4) + 1 = p
         /\ ((Interleaved(c, p) - 1) % 4) + 1 = c
BY DEF Interleaved

LEMMA ChannelFacts ==
  ASSUME NEW nband \in Nat \ {0}, NEW c \in 1 .. 4
  PROVE  ChannelsOf(nband)[c] \in 0 .. nband
<1>1. CASE nband = 4
  BY <1>1 DEF ChannelsOf
<1>2. CASE nband = 3
  BY <1>2 DEF ChannelsOf
<1>3. CASE nband # 4 /\ nband # 3
  BY <1>3 DEF ChannelsOf
<1> QED
  BY <1>1, <1>2, <1>3

LEMMA Dataset2PngKeeps ==
  ASSUME IInv, NEW d \in Datasets, Dataset2Png(d)
  PROVE  Keeps
<1> DEFINE size == objs[d].size
           from == ChannelsOf(objs[d].nband)
           cells == [i \in Cells(4, size) |->
             LET p == ((i - 1) \div 4) + 1
                 band == from[((i - 1) % 4) + 1]
             IN IF band = 0 THEN {} ELSE Pixel(d, Block(band, p, size))]
           made == [bp \in BandsOf(4, size) |->
             IF from[bp[1]] = 0 THEN {} ELSE Made(d, 1, from[bp[1]], bp[2])]
           shape == [type |-> Byte, size |-> size, nband |-> 4]
           arrays == <<ArrayOf(Byte, cells)>>
           mades == <<made>>
           new == Object("png", shape, arrays, mades)
<1>1. /\ calls' = MaxCalls /\ UNCHANGED records
      /\ objs[d].nband # 0
      /\ Allocate(<<new>>)
  BY DEF Dataset2Png
<1>2. Byte \in Types /\ size \in Nat \ {0} /\ objs[d].nband \in Nat \ {0}
  BY <1>1, DatasetFacts DEF Byte, Types
<1>3. Onward
  BY <1>1, ObjectsAssumption DEF IInv, TypeOK, Onward, records
<1>4. ASSUME NEW i \in Cells(4, size)
      PROVE  ToldBy(cells[i], record', unrecorded')
  BY <1>1, PixelIsTold DEF ToldBy
<1>5. ASSUME Careless = {}, NEW c \in 1 .. 4, NEW p \in 1 .. size
      PROVE  cells[Interleaved(c, p)] = ReadAt(MadeIn(made, c, p), p)
  <2> DEFINE i == Interleaved(c, p)
  <2>1. /\ i \in Cells(4, size)
        /\ ((i - 1) \div 4) + 1 = p /\ ((i - 1) % 4) + 1 = c
    BY <1>2, InterleavedFacts DEF Cells
  <2>2. cells[i] = IF from[c] = 0 THEN {} ELSE Pixel(d, Block(from[c], p, size))
    BY <2>1
  <2>3. MadeIn(made, c, p) = IF from[c] = 0 THEN {} ELSE Made(d, 1, from[c], p)
    BY DEF BandsOf, MadeIn
  <2>4. from[c] \in 0 .. objs[d].nband
    BY <1>2, ChannelFacts
  <2> HIDE DEF cells, made, from, i
  <2>5. CASE from[c] = 0
    <3>1. cells[i] = {} /\ MadeIn(made, c, p) = {}
      BY <2>2, <2>3, <2>5
    <3> QED
      BY <3>1 DEF ReadAt, i
  <2>6. CASE from[c] # 0
    <3>1. from[c] \in 1 .. objs[d].nband
      BY <1>2, <2>4, <2>6
    <3>2. Pixel(d, Block(from[c], p, size)) = ReadAt(Made(d, 1, from[c], p), p)
      BY <1>5, <3>1, PixelIsAligned
    <3> QED
      BY <2>2, <2>3, <2>6, <3>2 DEF i
  <2> QED
    BY <2>5, <2>6
<1>6. cells = [i \in Cells(4, size) |-> cells[i]]
  OBVIOUS
<1> HIDE DEF cells, made, from
<1>7. /\ new.kind = "png" /\ new.type = Byte /\ new.size = size /\ new.nband = 4
      /\ new.arrays = arrays /\ new.made = mades
  BY DEF Object
<1>8. /\ DOMAIN arrays = {1} /\ arrays \in Seq({ArrayOf(Byte, cells)})
      /\ arrays[1].type = Byte /\ arrays[1].cells = cells
      /\ DOMAIN mades = {1} /\ mades[1] = made
  BY DEF ArrayOf
<1>9. IsList(arrays)
  BY <1>8, SequenceIsList
<1>10. IsList(cells) /\ Len(cells) = 4 * size /\ DOMAIN cells = 1 .. 4 * size
  BY <1>2, <1>6, FunctionIsList DEF Cells
<1> HIDE DEF arrays, mades, new, size
<1>11. GoodNew(new)
  BY <1>2, <1>7, <1>8, <1>9, <1>10 DEF GoodNew, Kinds
<1>12. ToldNew(new, record', unrecorded')
  BY <1>4, <1>7, <1>8, <1>10 DEF ToldNew, Cells
<1>13. Careless = {} => AlignedNew(new)
  <2>1. ASSUME Careless = {}
        PROVE  Aligned(arrays[1], new, mades[1])
    <3>1. \A c, p : CellAt("png", c, p, size) = Interleaved(c, p)
      BY DEF CellAt
    <3>2. \A c \in 1 .. 4, p \in 1 .. size :
            arrays[1].cells[CellAt("png", c, p, size)] = ReadAt(MadeIn(mades[1], c, p), p)
      BY <1>5, <1>8, <2>1, <3>1
    <3> QED
      BY <1>7, <1>8, <1>10, <3>2 DEF Aligned
  <2> QED
    BY <1>7, <1>8, <2>1 DEF AlignedNew
<1>14. Grows
  BY <1>1, <1>11, <1>12, <1>13, AllocateOne DEF GoodObject, IInv
<1> QED
  BY <1>3, <1>14, GrowsKeeps DEF Keeps

LEMMA ConvertKeeps ==
  ASSUME IInv, Convert
  PROVE  Keeps
<1>1. ASSUME NEW d \in Datasets, NEW type \in OutTypes, ConvertToDataType(d, type),
             "double" \in Careless \/ objs[d].type = Float64
      PROVE  Keeps
  BY <1>1, ConvertToDataTypeKeeps
<1>2. ASSUME NEW d \in Datasets, NEW r \in BandArgs(d), NEW g \in BandArgs(d),
             NEW b \in BandArgs(d),
             RenderGray(d, r) \/ RenderRGB(d, r, g, b) \/ RenderPsuedColor(d, r)
      PROVE  Keeps
  BY <1>2, DrawingKeeps
<1>3. ASSUME NEW d \in Datasets, NEW band \in BandArgs(d), Extract(d, band)
      PROVE  Keeps
  BY <1>3, ExtractKeeps
<1>4. ASSUME NEW d \in Datasets, "tile" \in Careless \/ OwnTile(d), Clip(d)
      PROVE  Keeps
  BY <1>4, ClipKeeps
<1>5. ASSUME NEW d \in Datasets,
             \/ BuildMask(d)
             \/ \E k \in 1 .. MaxElements : ForEachPixel(d, k)
             \/ \E q \in Datasets : Subtract(d, q)
             \/ Dataset2Png(d)
      PROVE  Keeps
  BY <1>5, BuildMaskKeeps, ForEachPixelKeeps, SubtractKeeps, Dataset2PngKeeps
<1>6. ASSUME NEW a \in DsArrays, NEW k \in 1 .. MaxElements, DA_ForEachPixel(a, k)
      PROVE  Keeps
  BY <1>6, DA_ForEachPixelKeeps
<1>7. ASSUME NEW ds \in Lists(Datasets), StackDatasets(ds)
      PROVE  Keeps
  BY <1>7, StackDatasetsKeeps
<1> QED
  BY <1>1, <1>2, <1>3, <1>4, <1>5, <1>6, <1>7 DEF Convert

-----------------------------------------------------------------------------
(* Changes in place. *)

MadeNow(o, made, e) == IF e \in DOMAIN made THEN made[e] ELSE objs[o].made[e]

LEMMA InPlaceKeeps ==
  ASSUME IInv, Called, UNCHANGED records,
         NEW o \in Held, NEW elements \in SUBSET DOMAIN objs[o].bufs,
         NEW cells, DOMAIN cells = {objs[o].bufs[e] : e \in elements},
         NEW made, DOMAIN made \subseteq elements,
         InPlace(o, cells, made),
         \A a \in DOMAIN cells :
            /\ cells[a] = [i \in DOMAIN mem[a].cells |-> cells[a][i]]
            /\ \A i \in DOMAIN mem[a].cells : Told(cells[a][i]),
         Careless = {} => \A e \in elements :
            \A b \in 1 .. objs[o].nband, p \in 1 .. objs[o].size :
                cells[objs[o].bufs[e]][Block(b, p, objs[o].size)]
                    = ReadAt(MadeIn(MadeNow(o, made, e), b, p), p)
  PROVE  Keeps
<1>1. /\ o \in DOMAIN objs /\ objs[o].kind # "png"
      /\ DOMAIN objs[o].made = DOMAIN objs[o].bufs
      /\ \A e \in DOMAIN objs[o].bufs : objs[o].bufs[e] \in DOMAIN mem
  BY ObjectFacts DEF Held
<1>2. ASSUME NEW a \in DOMAIN mem
      PROVE  IsList(mem[a].cells) /\ Len(mem[a].cells) \in Nat
             /\ DOMAIN mem[a].cells = 1 .. Len(mem[a].cells)
  BY ListFacts DEF IInv, ShapeInv
<1>3. \A a \in DOMAIN cells : a \in DOMAIN mem
  BY <1>1
<1>4. ASSUME NEW a \in DOMAIN cells
      PROVE  IsList(cells[a]) /\ Len(cells[a]) = Len(mem[a].cells)
             /\ DOMAIN cells[a] = DOMAIN mem[a].cells
  <2>1. cells[a] = [i \in 1 .. Len(mem[a].cells) |-> cells[a][i]]
    BY <1>2, <1>3
  <2> QED
    BY <1>2, <1>3, <2>1, FunctionIsList
<1>5. objs'[o].made = [e \in DOMAIN objs[o].made |-> MadeNow(o, made, e)]
  <2> DEFINE g == [e \in DOMAIN objs[o].made |-> MadeNow(o, made, e)]
             h == [objs[o] EXCEPT !.made = g]
  <2>1. objs' = [objs EXCEPT ![o] = h]
    BY DEF InPlace, MadeNow
  <2>2. h.made = g
    <3>1. \A x : [objs[o] EXCEPT !.made = x].made = x \/ "made" \notin DOMAIN objs[o]
      OBVIOUS
    <3> HIDE DEF g
    <3> QED
      BY <1>1, <3>1, ObjectFacts
  <2>3. objs'[o] = h
    <3> HIDE DEF h
    <3> QED
      BY <1>1, <2>1
  <2> HIDE DEF h
  <2> QED
    BY <2>2, <2>3
<1>6. mem' = [a \in DOMAIN mem |-> IF a \in DOMAIN cells
                                   THEN ArrayOf(mem[a].type, cells[a])
                                   ELSE mem[a]]
  BY DEF InPlace
<1>7. ASSUME Careless = {}, NEW e \in DOMAIN objs[o].bufs
      PROVE  Aligned(mem'[objs[o].bufs[e]], objs[o], objs'[o].made[e])
  <2> DEFINE a == objs[o].bufs[e]
             size == objs[o].size
             nband == objs[o].nband
  <2>1. a \in DOMAIN mem /\ Aligned(mem[a], objs[o], objs[o].made[e])
    BY <1>1, <1>7 DEF IInv, AlignedInv, PixelAligned
  <2>2. objs'[o].made[e] = MadeNow(o, made, e)
    BY <1>1, <1>5, <1>7
  <2>3. CASE e \in elements
    <3>1. a \in DOMAIN cells
      BY <2>3
    <3>2. mem'[a].type = mem[a].type /\ mem'[a].cells = cells[a]
      BY <1>6, <2>1, <3>1 DEF ArrayOf
    <3>3. \A b \in 1 .. nband, p \in 1 .. size :
            cells[a][Block(b, p, size)] = ReadAt(MadeIn(MadeNow(o, made, e), b, p), p)
      BY <1>7, <2>3
    <3>4. \A b, p : CellAt(objs[o].kind, b, p, size) = Block(b, p, size)
      BY <1>1 DEF CellAt
    <3>5. mem'[a].type = objs[o].type /\ Len(mem'[a].cells) = nband * size
      BY <1>4, <2>1, <3>1, <3>2 DEF Aligned
    <3>6. \A b \in 1 .. nband, p \in 1 .. size :
            mem'[a].cells[CellAt(objs[o].kind, b, p, size)]
                = ReadAt(MadeIn(objs'[o].made[e], b, p), p)
      BY <2>2, <3>2, <3>3, <3>4
    <3> QED
      BY <3>5, <3>6 DEF Aligned
  <2>4. CASE e \notin elements
    <3>1. MadeNow(o, made, e) = objs[o].made[e]
      BY <2>4 DEF MadeNow
    <3>2. a \notin DOMAIN cells
      <4>1. \A j \in DOMAIN objs[o].bufs : objs[o].bufs[j] = <<o, j>>
        BY <1>1, <1>7 DEF IInv, OwnInv
      <4> QED
        BY <2>4, <4>1
    <3>3. mem'[a] = mem[a]
      BY <1>6, <2>1, <3>2
    <3> QED
      BY <2>1, <2>2, <3>1, <3>3
  <2> QED
    BY <2>3, <2>4
<1>8. Changes(o, cells, made)
  BY <1>1, <1>4, <1>7 DEF Changes
<1>9. Onward
  BY RecordedOnward
<1> QED
  BY <1>8, <1>9, ChangesKeeps DEF Keeps

\* What elements of an object hold.
LEMMA HeldFacts ==
  ASSUME IInv, NEW o \in DOMAIN objs, NEW e \in DOMAIN objs[o].bufs
  PROVE  LET f == mem[objs[o].bufs[e]].cells
         IN  /\ Len(f) \in Nat /\ DOMAIN f = 1 .. Len(f)
             /\ \A i \in DOMAIN f : Told(f[i])
<1>1. objs[o].bufs[e] \in DOMAIN mem
  BY ObjectFacts
<1>2. IsList(mem[objs[o].bufs[e]].cells)
  BY <1>1 DEF IInv, ShapeInv
<1> QED
  BY <1>1, <1>2, ListFacts DEF IInv, Recorded

LEMMA HeldIsAligned ==
  ASSUME IInv, Careless = {}, NEW o \in Held, NEW e \in DOMAIN objs[o].bufs,
         NEW b \in 1 .. objs[o].nband, NEW p \in 1 .. objs[o].size
  PROVE  LET f == mem[objs[o].bufs[e]].cells
             i == Block(b, p, objs[o].size)
         IN  /\ DOMAIN f = 1 .. objs[o].nband * objs[o].size
             /\ i \in DOMAIN f
             /\ f[i] = ReadAt(Made(o, e, b, p), p)
<1> DEFINE f == mem[objs[o].bufs[e]].cells
           size == objs[o].size
           nband == objs[o].nband
<1>1. o \in DOMAIN objs /\ objs[o].kind # "png"
  BY DEF Held
<1>2. Aligned(mem[objs[o].bufs[e]], objs[o], objs[o].made[e])
  BY <1>1 DEF IInv, AlignedInv, PixelAligned
<1>3. Len(f) = nband * size /\ f[Block(b, p, size)] = ReadAt(Made(o, e, b, p), p)
  BY <1>1, <1>2 DEF Aligned, CellAt, Made
<1>4. DOMAIN f = 1 .. nband * size
  BY <1>1, <1>3, HeldFacts
<1>5. Block(b, p, size) \in 1 .. nband * size
  BY <1>1, ObjectFacts, BlockFacts
<1> QED
  BY <1>3, <1>4, <1>5

LEMMA DsMapKeeps ==
  ASSUME IInv, NEW d \in Datasets, DsMap(d)
  PROVE  Keeps
<1> DEFINE all == Cells(objs[d].nband, objs[d].size)
           cells == [a \in {Data(d)} |-> [i \in DOMAIN mem[a].cells |->
             IF i \in all THEN Pixel(d, i) ELSE mem[a].cells[i]]]
           f == mem[Data(d)].cells
<1>1. Called /\ UNCHANGED records /\ InPlace(d, cells, <<>>)
  BY DEF DsMap
<1>2. d \in Held /\ d \in DOMAIN objs /\ 1 \in DOMAIN objs[d].bufs /\ Data(d) = objs[d].bufs[1]
      /\ Data(d) \in DOMAIN mem
  BY DatasetFacts DEF Data
<1>3. cells[Data(d)] = [i \in DOMAIN f |-> IF i \in all THEN Pixel(d, i) ELSE f[i]]
  OBVIOUS
<1>4. \A i \in DOMAIN f : Told(f[i]) /\ Told(Pixel(d, i))
  BY <1>2, HeldFacts, ReadIsTold DEF Pixel
<1>5. ASSUME Careless = {}, NEW b \in 1 .. objs[d].nband, NEW p \in 1 .. objs[d].size
      PROVE  cells[Data(d)][Block(b, p, objs[d].size)] = ReadAt(Made(d, 1, b, p), p)
  <2>1. Block(b, p, objs[d].size) \in DOMAIN f
        /\ f[Block(b, p, objs[d].size)] = ReadAt(Made(d, 1, b, p), p)
    BY <1>2, <1>5, HeldIsAligned
  <2>2. Pixel(d, Block(b, p, objs[d].size)) = ReadAt(Made(d, 1, b, p), p)
    BY <1>5, PixelIsAligned
  <2> HIDE DEF cells, f, all
  <2> QED
    BY <1>3, <2>1, <2>2
<1>6. MadeNow(d, <<>>, 1) = objs[d].made[1] /\ DOMAIN <<>> \subseteq {1}
  BY DEF MadeNow
<1>7. DOMAIN cells = {objs[d].bufs[e] : e \in {1}}
  BY <1>2
<1>8. \A a \in DOMAIN cells :
        /\ cells[a] = [i \in DOMAIN mem[a].cells |-> cells[a][i]]
        /\ \A i \in DOMAIN mem[a].cells : Told(cells[a][i])
  BY <1>4
<1>9. \A b, p : MadeIn(MadeNow(d, <<>>, 1), b, p) = Made(d, 1, b, p)
  BY <1>6 DEF Made
<1>10. Careless = {} => \A e \in {1} :
         \A b \in 1 .. objs[d].nband, p \in 1 .. objs[d].size :
           cells[objs[d].bufs[e]][Block(b, p, objs[d].size)]
             = ReadAt(MadeIn(MadeNow(d, <<>>, e), b, p), p)
  <2> HIDE DEF cells
  <2> QED
    BY <1>2, <1>5, <1>9
<1>11. {1} \in SUBSET DOMAIN objs[d].bufs
  BY <1>2
<1> HIDE DEF cells
<1> QED
  BY <1>1, <1>2, <1>6, <1>7, <1>8, <1>10, <1>11, InPlaceKeeps

LEMMA FillRangeKeeps ==
  ASSUME IInv, NEW d \in Datasets, NEW band, FillRange(d, band)
  PROVE  Keeps
<1> DEFINE size == objs[d].size
           offset == (band - 1) * size
           cells == [a \in {Data(d)} |-> [i \in DOMAIN mem[a].cells |->
             IF i \in offset + 1 .. offset + size THEN {} ELSE mem[a].cells[i]]]
           made == [e \in {1} |-> [bp \in BandsOf(objs[d].nband, size) |->
             IF bp[1] = band THEN {} ELSE Made(d, e, bp[1], bp[2])]]
           f == mem[Data(d)].cells
<1>1. /\ Called /\ UNCHANGED records /\ band \in 1 .. objs[d].nband
      /\ InPlace(d, cells, made)
  BY DEF FillRange
<1>2. d \in Held /\ d \in DOMAIN objs /\ 1 \in DOMAIN objs[d].bufs /\ Data(d) = objs[d].bufs[1]
      /\ Data(d) \in DOMAIN mem /\ size \in Nat \ {0} /\ objs[d].nband \in Nat
  BY DatasetFacts DEF Data
<1>3. cells[Data(d)] = [i \in DOMAIN f |->
         IF i \in offset + 1 .. offset + size THEN {} ELSE f[i]]
  OBVIOUS
<1>4. \A i \in DOMAIN f : Told(f[i]) /\ Told({})
  BY <1>2, HeldFacts DEF Told
<1>5. ASSUME Careless = {}, NEW b \in 1 .. objs[d].nband, NEW p \in 1 .. size
      PROVE  cells[Data(d)][Block(b, p, size)] = ReadAt(MadeIn(made[1], b, p), p)
  <2> DEFINE i == Block(b, p, size)
  <2>1. i \in DOMAIN f /\ f[i] = ReadAt(Made(d, 1, b, p), p)
    BY <1>2, <1>5, HeldIsAligned
  <2>2. MadeIn(made[1], b, p) = IF b = band THEN {} ELSE Made(d, 1, b, p)
    BY DEF MadeIn, BandsOf
  <2>3. i \in offset + 1 .. offset + size <=> b = band
    <3> DEFINE l == (b - 1) * size
    <3>1. offset \in Nat /\ l \in Nat
      BY <1>1, <1>2, CellCount
    <3>2. i = l + p
      BY DEF Block
    <3>3. CASE b = band
      <4>1. offset = l
        BY <3>3
      <4> HIDE DEF l, offset, i
      <4> QED
        BY <1>2, <3>1, <3>2, <3>3, <4>1
    <3>4. CASE b < band
      <4>1. l + size <= offset
        BY <1>1, <1>2, <3>4, Z3
      <4> HIDE DEF l, offset, i
      <4> QED
        BY <1>1, <1>2, <3>1, <3>2, <3>4, <4>1
    <3>5. CASE b > band
      <4>1. offset + size <= l
        BY <1>1, <1>2, <3>5, Z3
      <4> HIDE DEF l, offset, i
      <4> QED
        BY <1>1, <1>2, <3>1, <3>2, <3>5, <4>1
    <3> QED
      BY <1>1, <1>2, <3>3, <3>4, <3>5
  <2> HIDE DEF cells, made, f, i, offset
  <2>4. CASE b = band
    <3>1. cells[Data(d)][i] = {} /\ MadeIn(made[1], b, p) = {}
      BY <1>3, <2>1, <2>2, <2>3, <2>4
    <3> QED
      BY <3>1 DEF ReadAt, i
  <2>5. CASE b # band
    BY <1>3, <2>1, <2>2, <2>3, <2>5 DEF i
  <2> QED
    BY <2>4, <2>5
<1>6. DOMAIN made \subseteq {1} /\ MadeNow(d, made, 1) = made[1]
  BY DEF MadeNow
<1>7. DOMAIN cells = {objs[d].bufs[e] : e \in {1}}
  BY <1>2
<1>8. \A a \in DOMAIN cells :
        /\ cells[a] = [i \in DOMAIN mem[a].cells |-> cells[a][i]]
        /\ \A i \in DOMAIN mem[a].cells : Told(cells[a][i])
  <2> HIDE DEF offset
  <2> QED
    BY <1>4
<1>9. Careless = {} => \A e \in {1} :
         \A b \in 1 .. objs[d].nband, p \in 1 .. objs[d].size :
           cells[objs[d].bufs[e]][Block(b, p, objs[d].size)]
             = ReadAt(MadeIn(MadeNow(d, made, e), b, p), p)
  <2> HIDE DEF cells, made
  <2> QED
    BY <1>2, <1>5, <1>6
<1>10. {1} \in SUBSET DOMAIN objs[d].bufs
  BY <1>2
<1> HIDE DEF cells, made
<1> QED
  BY <1>1, <1>2, <1>6, <1>7, <1>8, <1>9, <1>10, InPlaceKeeps


LEMMA FillKeeps ==
  ASSUME IInv, Fill
  PROVE  Keeps
BY FillRangeKeeps, DsMapKeeps DEF Fill

\* Careful scripts mask with one band: as many cells as pixels.
LEMMA MaskedKeeps ==
  ASSUME IInv, NEW o \in Held, NEW elements \in SUBSET DOMAIN objs[o].bufs,
         NEW q \in Held, NEW f \in DOMAIN objs[q].bufs, Masked(o, elements, q, f)
  PROVE  Keeps
<1> DEFINE size == objs[o].size
           mask == mem[objs[q].bufs[f]]
           cells == [a \in {objs[o].bufs[e] : e \in elements} |->
             [i \in DOMAIN mem[a].cells |->
                mem[a].cells[i] \cup mask.cells[PixelOf(i, size)]]]
           made == [e \in elements |-> [bp \in BandsOf(objs[o].nband, size) |->
             Made(o, e, bp[1], bp[2]) \cup Made(q, f, 1, bp[2])]]
<1>1. /\ Called /\ UNCHANGED records
      /\ Len(mask.cells) = size
      /\ "mask" \in Careless \/ objs[q].nband = 1
      /\ InPlace(o, cells, made)
  BY DEF Masked
<1>2. /\ o \in DOMAIN objs /\ q \in DOMAIN objs
      /\ size \in Nat \ {0} /\ objs[o].nband \in Nat
      /\ objs[q].size \in Nat \ {0}
  BY ObjectFacts DEF Held
<1>3. DOMAIN mask.cells = 1 .. size /\ \A i \in 1 .. size : Told(mask.cells[i])
  BY <1>1, <1>2, HeldFacts
<1>4. ASSUME NEW a \in DOMAIN cells
      PROVE  /\ cells[a] = [i \in DOMAIN mem[a].cells |-> cells[a][i]]
             /\ \A i \in DOMAIN mem[a].cells : Told(cells[a][i])
  <2>1. PICK e \in elements : a = objs[o].bufs[e]
    BY <1>4
  <2>2. /\ DOMAIN mem[a].cells = 1 .. Len(mem[a].cells) /\ Len(mem[a].cells) \in Nat
        /\ \A i \in DOMAIN mem[a].cells : Told(mem[a].cells[i])
    BY <1>2, <2>1, HeldFacts
  <2>3. cells[a] = [i \in DOMAIN mem[a].cells |->
                      mem[a].cells[i] \cup mask.cells[PixelOf(i, size)]]
    BY <1>4
  <2>4. ASSUME NEW i \in DOMAIN mem[a].cells
        PROVE  Told(cells[a][i])
    <3>1. PixelOf(i, size) \in 1 .. size
      BY <1>2, <2>2 DEF PixelOf
    <3>2. Told(mem[a].cells[i]) /\ Told(mask.cells[PixelOf(i, size)])
      BY <1>3, <2>2, <3>1
    <3>3. cells[a][i] = mem[a].cells[i] \cup mask.cells[PixelOf(i, size)]
      BY <2>3
    <3> HIDE DEF cells, mask
    <3> QED
      BY <3>2, <3>3 DEF Told
  <2> HIDE DEF cells
  <2> QED
    BY <2>3, <2>4
<1>5. ASSUME Careless = {}, NEW e \in elements,
             NEW b \in 1 .. objs[o].nband, NEW p \in 1 .. size
      PROVE  cells[objs[o].bufs[e]][Block(b, p, size)]
                = ReadAt(MadeIn(MadeNow(o, made, e), b, p), p)
  <2> DEFINE a == objs[o].bufs[e]
             i == Block(b, p, size)
  <2>1. i \in DOMAIN mem[a].cells /\ mem[a].cells[i] = ReadAt(Made(o, e, b, p), p)
    BY <1>5, HeldIsAligned
  <2>2. PixelOf(i, size) = p
    BY <1>2, BlockFacts
  <2>3. objs[q].nband = 1 /\ Aligned(mask, objs[q], objs[q].made[f])
    BY <1>1, <1>2, <1>5 DEF IInv, AlignedInv, PixelAligned
  <2>4. Len(mask.cells) = 1 * objs[q].size
    BY <2>3 DEF Aligned
  <2>5. objs[q].size = size
    <3>1. Len(mask.cells) = size
      BY <1>1
    <3> HIDE DEF mask
    <3> QED
      BY <1>2, <2>4, <3>1
  <2>6. mask.cells[Block(1, p, objs[q].size)] = ReadAt(Made(q, f, 1, p), p)
    BY <1>5, <2>3, <2>5, HeldIsAligned
  <2>7. Block(1, p, objs[q].size) = p
    <3>1. (1 - 1) * objs[q].size = 0
      BY <1>2
    <3> QED
      BY <1>2, <3>1 DEF Block
  <2>8. cells[a][i] = mem[a].cells[i] \cup mask.cells[p]
    BY <2>1, <2>2
  <2>9. MadeIn(MadeNow(o, made, e), b, p) = Made(o, e, b, p) \cup Made(q, f, 1, p)
    BY DEF MadeIn, MadeNow, BandsOf
  <2> HIDE DEF cells, made, mask, i
  <2>10. cells[a][i] = ReadAt(MadeIn(MadeNow(o, made, e), b, p), p)
    BY <2>1, <2>6, <2>7, <2>8, <2>9 DEF ReadAt
  <2> QED
    BY <2>10 DEF i
<1>6. DOMAIN made \subseteq elements /\ DOMAIN cells = {objs[o].bufs[e] : e \in elements}
  OBVIOUS
<1> HIDE DEF cells, made, mask
<1> QED
  BY <1>1, <1>4, <1>5, <1>6, InPlaceKeeps

LEMMA ChangeKeeps ==
  ASSUME IInv, Change
  PROVE  Keeps
<1>1. ASSUME NEW o \in Held, NEW q \in Held, NEW f \in DOMAIN objs[q].bufs,
             o \in Datasets /\ DsMask(o, q, f)
      PROVE  Keeps
  <2>1. {1} \in SUBSET DOMAIN objs[o].bufs
    BY <1>1, DatasetFacts
  <2> QED
    BY <1>1, <2>1, MaskedKeeps DEF DsMask
<1>2. ASSUME NEW o \in Held, NEW q \in Held, NEW f \in DOMAIN objs[q].bufs,
             DsCollectionMask(o, q, f)
      PROVE  Keeps
  <2> DEFINE elements == {e \in DOMAIN objs[o].bufs : \A j \in 1 .. e : Fits(o, j)}
  <2>1. elements \in SUBSET DOMAIN objs[o].bufs /\ Masked(o, elements, q, f)
    BY <1>2 DEF DsCollectionMask
  <2> HIDE DEF elements
  <2> QED
    BY <1>2, <2>1, MaskedKeeps
<1> QED
  BY <1>1, <1>2 DEF Change

-----------------------------------------------------------------------------
(* Collections. *)

LEMMA CompositeKeeps ==
  ASSUME IInv, NEW cs, \A k \in DOMAIN cs : cs[k] \in Collections, NEW last \in DOMAIN objs,
         NEW outType \in Types,
         Careless = {} => \A k \in DOMAIN cs :
            /\ objs[cs[k]].type = objs[last].type /\ objs[cs[k]].size = objs[last].size
            /\ objs[cs[k]].nband = objs[last].nband,
         Composite(cs, objs[last], outType)
  PROVE  Keeps
<1> DEFINE shape == objs[last]
           all == UNION {{<<k, e>> : e \in DOMAIN objs[cs[k]].bufs} : k \in DOMAIN cs}
           cells == [i \in Cells(shape.nband, shape.size) |->
             UNION {Read(objs[cs[ke[1]]].bufs[ke[2]], shape.type, i) : ke \in all}]
           made == [bp \in BandsOf(shape.nband, shape.size) |->
             UNION {Made(cs[ke[1]], ke[2], bp[1], bp[2]) : ke \in all}]
<1>1. /\ Called /\ UNCHANGED records
      /\ CPP_NewDataset(outType, shape.size, shape.nband, cells, made)
  BY DEF Composite
<1>2. /\ shape.size \in Nat \ {0} /\ shape.nband \in Nat
      /\ Careless = {} => shape.nband # 0
  BY ObjectFacts DEF GoodShape
<1>3. ASSUME NEW ke \in all
      PROVE  /\ ke[1] \in DOMAIN cs /\ cs[ke[1]] \in DOMAIN objs /\ cs[ke[1]] \in Held
             /\ ke[2] \in DOMAIN objs[cs[ke[1]]].bufs
             /\ objs[cs[ke[1]]].bufs[ke[2]] \in DOMAIN mem
  <2>1. PICK k \in DOMAIN cs : \E e \in DOMAIN objs[cs[k]].bufs : ke = <<k, e>>
    BY <1>3
  <2>2. PICK e \in DOMAIN objs[cs[k]].bufs : ke = <<k, e>>
    BY <2>1
  <2>3. cs[k] \in DOMAIN objs /\ objs[cs[k]].kind = "collection"
    BY DEF Collections
  <2>4. objs[cs[k]].bufs[e] \in DOMAIN mem
    BY <2>3, ObjectFacts
  <2> QED
    BY <2>2, <2>3, <2>4 DEF Held
<1>4. ASSUME NEW i \in Cells(shape.nband, shape.size)
      PROVE  ToldBy(cells[i], record', unrecorded')
  <2> DEFINE rs == {Read(objs[cs[ke[1]]].bufs[ke[2]], shape.type, i) : ke \in all}
  <2>1. \A cell \in rs : ToldBy(cell, record', unrecorded')
    BY <1>1, <1>3, ReadIsTold, ToldNow
  <2>2. cells[i] = UNION rs
    OBVIOUS
  <2> HIDE DEF rs
  <2> QED
    BY <2>1, <2>2, ToldUnion
<1>5. ASSUME Careless = {}, NEW b \in 1 .. shape.nband, NEW p \in 1 .. shape.size
      PROVE  cells[Block(b, p, shape.size)] = ReadAt(made[<<b, p>>], p)
  <2> DEFINE i == Block(b, p, shape.size)
             f == [ke \in all |-> Read(objs[cs[ke[1]]].bufs[ke[2]], shape.type, i)]
             g == [ke \in all |-> Made(cs[ke[1]], ke[2], b, p)]
  <2>1. i \in Cells(shape.nband, shape.size)
    BY <1>2, BlockFacts DEF Cells
  <2>2. ASSUME NEW ke \in all
        PROVE  f[ke] = ReadAt(g[ke], p)
    <3>1. /\ cs[ke[1]] \in Held /\ ke[2] \in DOMAIN objs[cs[ke[1]]].bufs
          /\ objs[cs[ke[1]]].type = shape.type /\ objs[cs[ke[1]]].size = shape.size
          /\ objs[cs[ke[1]]].nband = shape.nband
      BY <1>3, <1>5, <2>2
    <3>2. f[ke] = Read(objs[cs[ke[1]]].bufs[ke[2]], shape.type, i)
          /\ g[ke] = Made(cs[ke[1]], ke[2], b, p)
      BY <2>2
    <3> HIDE DEF all, f, g
    <3> QED
      BY <1>5, <3>1, <3>2, ReadIsAligned
  <2>3. cells[i] = UNION {f[ke] : ke \in all}
    BY <2>1
  <2>4. made[<<b, p>>] = UNION {g[ke] : ke \in all}
    BY DEF BandsOf
  <2> HIDE DEF cells, made, f, g, all, i
  <2>5. cells[i] = ReadAt(made[<<b, p>>], p)
    BY <2>2, <2>3, <2>4, ReadAtUnion
  <2> QED
    BY <2>5 DEF i
<1>6. /\ cells = [i \in Cells(shape.nband, shape.size) |-> cells[i]]
      /\ DOMAIN made = BandsOf(shape.nband, shape.size)
  OBVIOUS
<1> HIDE DEF cells, made, shape
<1> QED
  BY <1>1, <1>2, <1>4, <1>5, <1>6, FilledKeeps


\* What is in the elements forEachData makes.
NewCells(c, k) ==
    [e \in 1 .. Len(objs[c].bufs) |-> [i \in Cells(k, objs[c].size) |->
        UNION {Read(objs[c].bufs[e], objs[c].type,
                    Block(b, PixelOf(i, objs[c].size), objs[c].size)) :
                   b \in 1 .. objs[c].nband}]]

NewMade(c, k) ==
    [e \in 1 .. Len(objs[c].bufs) |-> [bp \in BandsOf(k, objs[c].size) |->
        UNION {Made(c, e, b, bp[2]) : b \in 1 .. objs[c].nband}]]

LEMMA NewCellsAreGood ==
  ASSUME IInv, UNCHANGED records, NEW c \in Collections, NEW k \in Nat \ {0},
         NEW e \in DOMAIN objs[c].bufs, NEW type, NEW shape,
         shape.type = type, shape.size = objs[c].size, shape.nband = k
  PROVE  GoodArray(ArrayOf(type, NewCells(c, k)[e]), shape, NewMade(c, k)[e])
<1> DEFINE size == objs[c].size
           bands == 1 .. objs[c].nband
           cells == NewCells(c, k)[e]
           made == NewMade(c, k)[e]
<1>1. /\ c \in DOMAIN objs /\ c \in Held
      /\ objs[c].bufs[e] \in DOMAIN mem /\ e \in 1 .. Len(objs[c].bufs)
      /\ size \in Nat \ {0}
  <2>1. c \in DOMAIN objs /\ objs[c].kind = "collection"
    BY DEF Collections
  <2>2. IsList(objs[c].bufs)
    BY <2>1, ObjectFacts
  <2> QED
    BY <2>1, <2>2, ObjectFacts, ListFacts DEF Held
<1>2. cells = [i \in Cells(k, size) |->
         UNION {Read(objs[c].bufs[e], objs[c].type,
                     Block(b, PixelOf(i, size), size)) : b \in bands}]
  BY <1>1 DEF NewCells
<1>3. made = [bp \in BandsOf(k, size) |-> UNION {Made(c, e, b, bp[2]) : b \in bands}]
  BY <1>1 DEF NewMade
<1> HIDE DEF cells, made
<1>4. ASSUME NEW i \in Cells(k, size)
      PROVE  ToldBy(cells[i], record', unrecorded')
  <2> DEFINE rs == {Read(objs[c].bufs[e], objs[c].type,
                         Block(b, PixelOf(i, size), size)) : b \in bands}
  <2>1. \A cell \in rs : ToldBy(cell, record', unrecorded')
    BY <1>1, ReadIsTold, ToldNow
  <2>2. cells[i] = UNION rs
    BY <1>2
  <2> HIDE DEF rs
  <2> QED
    BY <2>1, <2>2, ToldUnion
<1>5. ASSUME Careless = {}, NEW d \in 1 .. k, NEW p \in 1 .. size
      PROVE  cells[Block(d, p, size)] = ReadAt(MadeIn(made, d, p), p)
  <2> DEFINE f == [b \in bands |-> Read(objs[c].bufs[e], objs[c].type, Block(b, p, size))]
             g == [b \in bands |-> Made(c, e, b, p)]
  <2>1. Block(d, p, size) \in Cells(k, size) /\ PixelOf(Block(d, p, size), size) = p
    BY <1>1, BlockFacts DEF Cells
  <2>2. \A b \in bands : f[b] = ReadAt(g[b], p)
    BY <1>1, <1>5, ReadIsAligned
  <2>3. cells[Block(d, p, size)] = UNION {f[b] : b \in bands}
    BY <1>2, <2>1
  <2>4. MadeIn(made, d, p) = UNION {g[b] : b \in bands}
    BY <1>3 DEF BandsOf, MadeIn
  <2> HIDE DEF f, g, bands
  <2> QED
    BY <2>2, <2>3, <2>4, ReadAtUnion
<1> DEFINE a == ArrayOf(type, cells)
<1>6. a.type = type /\ a.cells = cells
  BY DEF ArrayOf
<1>7. cells = [i \in Cells(k, size) |-> cells[i]]
  BY <1>2
<1> HIDE DEF a
<1>8. GoodArray(a, shape, made)
  BY <1>4, <1>5, <1>6, <1>7 DEF GoodArray
<1> QED
  BY <1>8 DEF a, cells, made

\* The new collection, and the arrays it does not share with the old one.
Shared(c, type, k, same) ==
    [kind  |-> "collection",
     type  |-> IF 1 \in same THEN mem[objs[c].bufs[1]].type ELSE type,
     size  |-> objs[c].size,
     nband |-> IF 1 \in same
               THEN Len(mem[objs[c].bufs[1]].cells) \div objs[c].size
               ELSE k,
     bufs  |-> [e \in 1 .. Len(objs[c].bufs) |->
                  IF e \in same THEN objs[c].bufs[e] ELSE <<Len(objs) + 1, e>>],
     made  |-> [e \in 1 .. Len(objs[c].bufs) |->
                  IF e \in same THEN objs[c].made[e] ELSE NewMade(c, k)[e]]]

AddsShared(c, type, k, same) ==
    LET o == Len(objs) + 1
        n == Len(objs[c].bufs)
    IN  /\ IsList(objs') /\ Len(objs) \in Nat /\ Len(objs') = o
        /\ DOMAIN objs = 1 .. Len(objs) /\ DOMAIN objs' = 1 .. o
        /\ \A q \in DOMAIN objs : objs'[q] = objs[q]
        /\ objs'[o] = Shared(c, type, k, same)
        /\ DOMAIN mem' = DOMAIN mem \cup {<<o, e>> : e \in 1 .. n \ same}
        /\ \A a \in DOMAIN mem : mem'[a] = mem[a]
        /\ \A e \in 1 .. n \ same :
             mem'[<<o, e>>] = ArrayOf(type, NewCells(c, k)[e])
        /\ DOMAIN objs[c].bufs = 1 .. n /\ n \in Nat

LEMMA ForEachDataFacts ==
  ASSUME IInv, NEW c \in Collections, NEW type \in Types, NEW k \in Nat \ {0},
         NEW same \in SUBSET DOMAIN objs[c].bufs, ForEachData(c, type, k, same)
  PROVE  AddsShared(c, type, k, same)
<1> DEFINE o == Len(objs) + 1
           n == Len(objs[c].bufs)
           x == Shared(c, type, k, same)
<1>1. objs' = Append(objs, x)
  BY DEF ForEachData, NewMade, Shared
<1>2. mem' = [a \in DOMAIN mem \cup {<<o, e>> : e \in 1 .. n \ same} |->
                IF a \in DOMAIN mem THEN mem[a]
                ELSE ArrayOf(type, NewCells(c, k)[a[2]])]
  BY DEF ForEachData, NewCells
<1>3. IsList(objs) /\ Len(objs) \in Nat /\ DOMAIN objs = 1 .. Len(objs)
  BY ListFacts DEF IInv, ShapeInv
<1>4. c \in DOMAIN objs
  BY DEF Collections
<1>5. DOMAIN objs[c].bufs = 1 .. n /\ n \in Nat
  BY <1>4, ObjectFacts, ListFacts
<1>6. /\ IsList(objs') /\ Len(objs') = o /\ objs'[o] = x
      /\ \A q \in DOMAIN objs : objs'[q] = objs[q]
  <2> HIDE DEF x
  <2> QED
    BY <1>1, <1>3, AppendList
<1>7. DOMAIN objs' = 1 .. o
  BY <1>6, ListFacts
<1>8. \A e : <<o, e>> \notin DOMAIN mem
  <2>1. o \notin DOMAIN objs
    BY <1>3
  <2> QED
    BY <2>1 DEF IInv, ShapeInv
<1>9. /\ DOMAIN mem' = DOMAIN mem \cup {<<o, e>> : e \in 1 .. n \ same}
      /\ \A a \in DOMAIN mem : mem'[a] = mem[a]
      /\ \A e \in 1 .. n \ same : mem'[<<o, e>>] = ArrayOf(type, NewCells(c, k)[e])
  <2> HIDE DEF o, n
  <2> QED
    BY <1>2, <1>8
<1> QED
  BY <1>3, <1>5, <1>6, <1>7, <1>9 DEF AddsShared

\* New arrays for all: a new object like any other.
LEMMA ForEachDataGrows ==
  ASSUME IInv, NEW c \in Collections, NEW type \in Types, NEW k \in Nat \ {0},
         ForEachData(c, type, k, {})
  PROVE  Grows
<1> DEFINE o == Len(objs) + 1
           n == Len(objs[c].bufs)
           shape == [type |-> type, size |-> objs[c].size, nband |-> k]
           arrays == [e \in 1 .. n |-> ArrayOf(type, NewCells(c, k)[e])]
           mades == [e \in 1 .. n |-> NewMade(c, k)[e]]
           new == Object("collection", shape, arrays, mades)
           news == <<new>>
<1>0. AddsShared(c, type, k, {})
  <2>1. {} \in SUBSET DOMAIN objs[c].bufs
    OBVIOUS
  <2> QED
    BY <2>1, ForEachDataFacts
<1>1. /\ IsList(objs') /\ Len(objs) \in Nat /\ Len(objs') = o
      /\ DOMAIN objs = 1 .. Len(objs)
      /\ \A q \in DOMAIN objs : objs'[q] = objs[q]
      /\ DOMAIN mem' = DOMAIN mem \cup {<<o, e>> : e \in 1 .. n \ {}}
      /\ \A a \in DOMAIN mem : mem'[a] = mem[a]
      /\ \A e \in 1 .. n : mem'[<<o, e>>] = ArrayOf(type, NewCells(c, k)[e])
      /\ DOMAIN objs[c].bufs = 1 .. n /\ n \in Nat
  BY <1>0 DEF AddsShared
<1>2. objs'[o] = [kind |-> "collection", type |-> type, size |-> objs[c].size,
                  nband |-> k, bufs |-> [e \in 1 .. n |-> <<o, e>>], made |-> mades]
  <2>1. objs'[o] = Shared(c, type, k, {})
    BY <1>0 DEF AddsShared
  <2> QED
    BY <2>1 DEF Shared
<1>3. c \in DOMAIN objs /\ UNCHANGED records
  BY DEF Collections, ForEachData
<1>4. GoodShape(shape) /\ shape.type = type /\ shape.size = objs[c].size /\ shape.nband = k
  BY <1>3, ObjectFacts DEF GoodShape
<1>5. IsList(arrays) /\ Len(arrays) = n /\ DOMAIN arrays = 1 .. n
  <2>1. arrays = [e \in 1 .. n |-> arrays[e]]
    OBVIOUS
  <2> HIDE DEF arrays
  <2> QED
    BY <1>1, <2>1, FunctionIsList
<1>6. \A e \in DOMAIN arrays : GoodArray(arrays[e], shape, mades[e])
  <2> TAKE e \in DOMAIN arrays
  <2>1. arrays[e] = ArrayOf(type, NewCells(c, k)[e]) /\ mades[e] = NewMade(c, k)[e]
    OBVIOUS
  <2>2. e \in DOMAIN objs[c].bufs
    BY <1>1
  <2> HIDE DEF arrays, mades, shape
  <2> QED
    BY <1>3, <1>4, <2>1, <2>2, NewCellsAreGood
<1>7. DOMAIN mades = DOMAIN arrays /\ \A e \in 1 .. n : mem'[<<o, e>>] = arrays[e]
  BY <1>1
<1>8. /\ new.kind = "collection" /\ new.type = type /\ new.size = objs[c].size
      /\ new.nband = k /\ new.arrays = arrays /\ new.made = mades
  BY DEF Object
<1>9. DOMAIN news = {1} /\ Len(news) = 1 /\ news[1] = new /\ IsList(news)
  <2>1. news \in Seq({new}) /\ DOMAIN news = {1} /\ news[1] = new /\ Len(news) = 1
    OBVIOUS
  <2> HIDE DEF news
  <2> QED
    BY <2>1, SequenceIsList
<1> HIDE DEF arrays, mades, shape
<1>10. GoodObject(new)
  <2>1. "collection" \in Kinds \ {"png"} /\ "collection" # "dataset"
    BY DEF Kinds
  <2> QED
    BY <1>4, <1>5, <1>6, <1>7, <2>1, ObjectIsGood
<1> HIDE DEF new, news
<1>11. Adds(news)
  <2>1. \A q \in 1 .. Len(objs) : objs'[q] = objs[q]
    BY <1>1
  <2>2. \A j \in DOMAIN news : objs'[Len(objs) + j] =
          [kind |-> news[j].kind, type |-> news[j].type,
           size |-> news[j].size, nband |-> news[j].nband,
           bufs |-> Arrays(Len(objs) + j, Len(news[j].arrays)), made |-> news[j].made]
    BY <1>2, <1>5, <1>8, <1>9 DEF Arrays
  <2>3. \A j \in DOMAIN news : \A e \in DOMAIN news[j].arrays :
          /\ <<Len(objs) + j, e>> \in DOMAIN mem'
          /\ mem'[<<Len(objs) + j, e>>] = news[j].arrays[e]
    BY <1>1, <1>5, <1>7, <1>8, <1>9
  <2>4. \A a \in DOMAIN mem' : a \in DOMAIN mem \/
          \E j \in DOMAIN news : \E e \in DOMAIN news[j].arrays : a = <<Len(objs) + j, e>>
    BY <1>1, <1>5, <1>8, <1>9
  <2> QED
    BY <1>1, <1>9, <2>1, <2>2, <2>3, <2>4 DEF Adds
<1> QED
  BY <1>9, <1>10, <1>11 DEF Grows, GoodObject

\* Arrays kept by two objects: what is left is that objects are whole, and that
\* what they hold can be told.
LEMMA ForEachDataShares ==
  ASSUME IInv, "array" \in Careless, NEW c \in Collections, NEW type \in Types,
         NEW k \in Nat \ {0},
         NEW same \in SUBSET DOMAIN objs[c].bufs, ForEachData(c, type, k, same)
  PROVE  Keeps
<1> DEFINE o == Len(objs) + 1
           n == Len(objs[c].bufs)
           first == objs[c].bufs[1]
           x == objs'[o]
<1>0. AddsShared(c, type, k, same)
  BY ForEachDataFacts
<1>1. /\ IsList(objs') /\ Len(objs) \in Nat
      /\ DOMAIN objs = 1 .. Len(objs) /\ DOMAIN objs' = 1 .. o
      /\ \A q \in DOMAIN objs : objs'[q] = objs[q]
      /\ DOMAIN mem' = DOMAIN mem \cup {<<o, e>> : e \in 1 .. n \ same}
      /\ \A a \in DOMAIN mem : mem'[a] = mem[a]
      /\ \A e \in 1 .. n \ same : mem'[<<o, e>>] = ArrayOf(type, NewCells(c, k)[e])
      /\ DOMAIN objs[c].bufs = 1 .. n /\ n \in Nat
  BY <1>0 DEF AddsShared
<1>2. x = [kind  |-> "collection",
           type  |-> IF 1 \in same THEN mem[first].type ELSE type,
           size  |-> objs[c].size,
           nband |-> IF 1 \in same
                     THEN Len(mem[first].cells) \div objs[c].size
                     ELSE k,
           bufs  |-> [e \in 1 .. n |-> IF e \in same THEN objs[c].bufs[e]
                                                     ELSE <<o, e>>],
           made  |-> [e \in 1 .. n |-> IF e \in same
                                       THEN objs[c].made[e]
                                       ELSE NewMade(c, k)[e]]]
  <2>1. x = Shared(c, type, k, same)
    BY <1>0 DEF AddsShared
  <2> HIDE DEF x
  <2> QED
    BY <2>1 DEF Shared
<1>3. /\ x.kind = "collection" /\ x.size = objs[c].size
      /\ x.type = IF 1 \in same THEN mem[first].type ELSE type
      /\ x.nband = IF 1 \in same THEN Len(mem[first].cells) \div objs[c].size ELSE k
      /\ x.bufs = [e \in 1 .. n |-> IF e \in same THEN objs[c].bufs[e] ELSE <<o, e>>]
      /\ DOMAIN x.made = 1 .. n /\ "made" \in DOMAIN x
  BY <1>2
<1> HIDE DEF x
<1>4. /\ c \in DOMAIN objs /\ objs[c].size \in Nat \ {0}
      /\ \A e \in DOMAIN objs[c].bufs : objs[c].bufs[e] \in DOMAIN mem
      /\ UNCHANGED records /\ Called
  BY ObjectFacts DEF Collections, ForEachData
<1>5. ASSUME 1 \in same
      PROVE  mem[first].type \in Types
             /\ Len(mem[first].cells) \div objs[c].size \in Nat
  <2>1. first \in DOMAIN mem
    BY <1>4, <1>5
  <2>2. mem[first].type \in Types /\ IsList(mem[first].cells)
    BY <2>1 DEF IInv, ShapeInv
  <2> DEFINE l == Len(mem[first].cells)
  <2>3. l \in Nat
    BY <2>2, ListFacts
  <2> HIDE DEF l
  <2>4. l \div objs[c].size \in Nat
    BY <1>4, <2>3
  <2> QED
    BY <2>2, <2>4 DEF l
<1>6. x.type \in Types /\ x.nband \in Nat /\ x.kind \in Kinds
  BY <1>3, <1>5 DEF Kinds
<1>7. DOMAIN x.bufs = 1 .. n /\ IsList(x.bufs)
  <2> DEFINE y == x.bufs
  <2>1. y = [e \in 1 .. n |-> y[e]] /\ DOMAIN y = 1 .. n
    BY <1>3
  <2> HIDE DEF y
  <2>2. IsList(y)
    BY <1>1, <2>1, FunctionIsList
  <2> QED
    BY <2>1, <2>2 DEF y
<1>8. \A e \in DOMAIN x.bufs : x.bufs[e] \in DOMAIN mem'
  BY <1>1, <1>3, <1>4, <1>7
<1>9. \A q \in DOMAIN objs' : q \in DOMAIN objs \/ q = o
  BY <1>1
<1>10. ASSUME NEW e \in 1 .. n \ same
       PROVE  /\ mem'[<<o, e>>].type \in Types /\ IsList(mem'[<<o, e>>].cells)
              /\ \A i \in DOMAIN mem'[<<o, e>>].cells :
                    ToldBy(mem'[<<o, e>>].cells[i], record', unrecorded')
  <2> DEFINE shape == [type |-> type, size |-> objs[c].size, nband |-> k]
             a == ArrayOf(type, NewCells(c, k)[e])
             count == k * objs[c].size
  <2>1. shape.type = type /\ shape.size = objs[c].size /\ shape.nband = k
    OBVIOUS
  <2> HIDE DEF shape
  <2>2. GoodArray(a, shape, NewMade(c, k)[e])
    BY <1>1, <1>4, <2>1, NewCellsAreGood
  <2> HIDE DEF a
  <2>3. /\ a.type = type /\ a.cells = [i \in 1 .. count |-> a.cells[i]]
        /\ \A i \in 1 .. count : ToldBy(a.cells[i], record', unrecorded')
    BY <2>1, <2>2 DEF GoodArray, Cells
  <2>4. count \in Nat
    BY <1>4, CellCount
  <2> HIDE DEF count
  <2>5. IsList(a.cells) /\ DOMAIN a.cells = 1 .. count
    BY <2>3, <2>4, FunctionIsList
  <2>6. mem'[<<o, e>>] = a
    BY <1>1 DEF a
  <2> QED
    BY <2>3, <2>5, <2>6
<1>11. Onward
  BY <1>4, RecordedOnward
<1>12. TypeOK'
  <2>1. \A q \in DOMAIN objs' :
          /\ objs'[q].kind \in Kinds /\ objs'[q].type \in Types
          /\ objs'[q].size \in Nat /\ objs'[q].nband \in Nat
          /\ DOMAIN objs'[q].made = DOMAIN objs'[q].bufs
    BY <1>1, <1>3, <1>4, <1>6, <1>7, <1>9 DEF IInv, TypeOK, x
  <2>2. \A q \in DOMAIN objs' : \A e \in DOMAIN objs'[q].bufs : objs'[q].bufs[e] \in DOMAIN mem'
    BY <1>1, <1>8, <1>9 DEF IInv, TypeOK, x
  <2> QED
    BY <1>11, <2>1, <2>2 DEF TypeOK, Onward
<1>13. ShapeInv'
  <2>1. \A q \in DOMAIN objs' :
          /\ objs'[q].size # 0 /\ "made" \in DOMAIN objs'[q]
          /\ IsList(objs'[q].bufs)
          /\ objs'[q].kind = "dataset" => 1 \in DOMAIN objs'[q].bufs
    BY <1>1, <1>3, <1>4, <1>7, <1>9 DEF IInv, ShapeInv, Datasets, x
  <2>2. \A a \in DOMAIN mem' :
          a \in (DOMAIN objs') \X Nat /\ mem'[a].type \in Types /\ IsList(mem'[a].cells)
    <3> TAKE a \in DOMAIN mem'
    <3>1. CASE a \in DOMAIN mem
      BY <1>1, <3>1 DEF IInv, ShapeInv
    <3>2. CASE a \notin DOMAIN mem
      <4>1. PICK e \in 1 .. n \ same : a = <<o, e>>
        BY <1>1, <3>2
      <4>2. o \in DOMAIN objs' /\ e \in Nat
        BY <1>1
      <4> QED
        BY <1>10, <4>1, <4>2
    <3> QED
      BY <3>1, <3>2
  <2> QED
    BY <1>1, <2>1, <2>2 DEF ShapeInv, Datasets
<1>14. Recorded'
  <2>1. ASSUME NEW a \in DOMAIN mem', NEW i \in DOMAIN mem'[a].cells
        PROVE  ToldBy(mem'[a].cells[i], record', unrecorded')
    <3>1. CASE a \in DOMAIN mem
      <4>1. Told(mem[a].cells[i]) /\ mem'[a] = mem[a]
        BY <1>1, <2>1, <3>1 DEF IInv, Recorded
      <4> QED
        BY <1>11, <4>1, ToldOnward
    <3>2. CASE a \notin DOMAIN mem
      <4>1. PICK e \in 1 .. n \ same : a = <<o, e>>
        BY <1>1, <3>2
      <4> QED
        BY <1>10, <2>1, <4>1
    <3> QED
      BY <3>1, <3>2
  <2> QED
    BY <2>1 DEF Recorded, Told, ToldBy
<1>15. OwnInv' /\ AlignedInv'
  BY DEF OwnInv, AlignedInv
<1> QED
  BY <1>12, <1>13, <1>14, <1>15 DEF Keeps, IInv

LEMMA ForEachDataKeeps ==
  ASSUME IInv, NEW c \in Collections, NEW type \in Types, NEW k \in Nat \ {0},
         NEW same \in SUBSET DOMAIN objs[c].bufs, ForEachData(c, type, k, same)
  PROVE  Keeps
<1>1. CASE "array" \in Careless
  BY <1>1, ForEachDataShares
<1>2. CASE "array" \notin Careless
  <2>1. same = {} /\ Called /\ UNCHANGED records
    BY <1>2 DEF ForEachData
  <2>2. Grows /\ Onward
    BY <2>1, ForEachDataGrows, RecordedOnward
  <2> QED
    BY <2>2, GrowsKeeps DEF Keeps
<1> QED
  BY <1>1, <1>2

LEMMA MergeKeeps ==
  ASSUME IInv, Merge
  PROVE  Keeps
<1>1. ASSUME NEW c \in Collections, NEW type \in OutTypes \cap Types,
             Compose(c, type) \/ CompositeDsCollection(c, type)
      PROVE  Keeps
  <2> DEFINE cs == <<c>>
  <2>1. Composite(cs, objs[c], type)
    BY <1>1 DEF Compose, CompositeDsCollection
  <2>2. c \in DOMAIN objs /\ \A j \in DOMAIN cs : cs[j] = c
    BY DEF Collections
  <2> HIDE DEF cs
  <2> QED
    BY <2>1, <2>2, CompositeKeeps
<1>2. ASSUME NEW c \in Collections, NEW type \in OutTypes \cap Types,
             NEW k \in 1 .. MaxElements, NEW same \in SUBSET DOMAIN objs[c].bufs,
             ForEachData(c, type, k, same)
      PROVE  Keeps
  <2>1. k \in Nat \ {0}
    BY ObjectsAssumption
  <2> QED
    BY <1>2, <2>1, ForEachDataKeeps
<1>3. ASSUME NEW cs \in Lists(Collections), NEW type \in OutTypes \cap Types,
             CompositeDsCollections(cs, type)
      PROVE  Keeps
  <2> DEFINE last == cs[Len(cs)]
  <2>1. /\ Len(cs) \in DOMAIN cs /\ \A j \in DOMAIN cs : cs[j] \in Collections
        /\ 1 \in DOMAIN cs
    BY PassedFacts
  <2>2. last \in DOMAIN objs
    BY <2>1 DEF Collections
  <2>3. /\ \A j \in DOMAIN cs : objs[cs[j]].nband = objs[cs[1]].nband
        /\ "shape" \in Careless \/ \A j \in DOMAIN cs : SameShape(cs[j], cs[1])
        /\ Composite(cs, objs[last], type)
    BY <1>3 DEF CompositeDsCollections
  <2>4. Careless = {} => \A j \in DOMAIN cs :
          /\ objs[cs[j]].type = objs[last].type /\ objs[cs[j]].size = objs[last].size
          /\ objs[cs[j]].nband = objs[last].nband
    BY <2>1, <2>3 DEF SameShape
  <2> HIDE DEF last
  <2> QED
    BY <2>1, <2>2, <2>3, <2>4, CompositeKeeps
<1> QED
  BY <1>1, <1>2, <1>3 DEF Merge

-----------------------------------------------------------------------------
(* The theorems. *)

LEMMA InitIInv ==
  ASSUME Init
  PROVE  IInv
<1>1. objs = <<>> /\ mem = <<>> /\ record = {} /\ unrecorded = {} /\ calls = 0
  BY DEF Init
<1>2. DOMAIN objs = {} /\ DOMAIN mem = {}
  BY <1>1
<1>3. IsList(objs)
  <2>1. <<>> \in Seq({})
    OBVIOUS
  <2> QED
    BY <1>1, <2>1, SequenceIsList
<1>4. TypeOK
  BY <1>1, <1>2, ObjectsAssumption DEF TypeOK
<1> QED
  BY <1>2, <1>3, <1>4
  DEF IInv, ShapeInv, OwnInv, Recorded, AlignedInv, PixelAligned, Wide

LEMMA StepKeeps ==
  ASSUME IInv, [Next]_vars
  PROVE  Keeps
<1>1. CASE Next
  BY <1>1, LoadKeeps, MakeKeeps, ConvertKeeps, ChangeKeeps, FillKeeps, MergeKeeps DEF Next
<1>2. CASE UNCHANGED vars
  <2>1. Onward
    BY <1>2 DEF vars, records, IInv, TypeOK, Onward
  <2> QED
    BY <1>2, <2>1, NothingKeeps DEF vars
<1> QED
  BY <1>1, <1>2

\* What the theorems rest on holds in every state of every script.
THEOREM ObjectsInvariant == Spec => []IInv
<1>1. IInv /\ [Next]_vars => IInv'
  BY StepKeeps DEF Keeps
<1> QED
  BY <1>1, InitIInv, PTL DEF Spec

\* Every object has a known type and one history for each of its arrays, all of
\* which there are: whatever callbacks are called, in whatever order.
THEOREM TypeCorrect == Spec => []TypeOK
<1>1. IInv => TypeOK
  BY DEF IInv
<1> QED
  BY <1>1, ObjectsInvariant, PTL

\* Whatever a script does, careless or not, all that its arrays hold was read with
\* an entry in m_dsnameDtVec that tells of it, or by one of the two callbacks that
\* record nothing, or misread.
THEOREM ReadsAreRecorded == Spec => []Recorded
<1>1. IInv => Recorded
  BY DEF IInv
<1> QED
  BY <1>1, ObjectsInvariant, PTL

\* Scripts that see to what no callback does, and so convert nothing but doubles, get,
\* in every cell of every array, what they asked for at that band and pixel, however
\* bands are copied, converted, stacked, extracted, clipped, masked, drawn and composed.
THEOREM CellsAreAligned == Careless = {} => (Spec => []PixelAligned)
<1>1. Careless = {} /\ IInv => PixelAligned
  BY DEF IInv, AlignedInv
<1>2. ASSUME Careless = {}
      PROVE  IInv => PixelAligned
  BY <1>1, <1>2
<1>3. ASSUME Careless = {}
      PROVE  Spec => []PixelAligned
  BY <1>2, <1>3, ObjectsInvariant, PTL
<1> QED
  BY <1>3

\* Where scripts return arrays of their own from forEachData, no call changes what
\* two objects hold.
THEOREM OneObjectChangesAtMost == "array" \notin Careless => (Spec => OneObjectChanges)
<1>1. ASSUME "array" \notin Careless
      PROVE  Spec => OneObjectChanges
  <2>1. IInv /\ [Next]_vars =>
          [\A o, q \in DOMAIN objs :
              Content(o)' # Content(o) /\ Content(q)' # Content(q) => o = q]_vars
    BY <1>1, StepKeeps DEF Keeps, OneChanges
  <2> QED
    BY <2>1, ObjectsInvariant, PTL DEF Spec, OneObjectChanges
<1> QED
  BY <1>1
=============================================================================

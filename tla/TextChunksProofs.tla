-------------------------- MODULE TextChunksProofs --------------------------
(***************************************************************************)
(* Proofs that the two loops of TextChunks cut every text right.           *)
(***************************************************************************)
EXTENDS MCStreamingSpeech, WellFoundedInduction, TLAPS

-----------------------------------------------------------------------------
\* A set of natural numbers that has one has a least one.
LEMMA LeastNatural ==
  ASSUME NEW T, T \subseteq Nat, T # {}
  PROVE  \E n \in T : \A m \in T : n <= m
<1>1. PICK n \in T : \A m \in T : <<m, n>> \notin OpToRel(<, Nat)
  BY WFMin, NatLessThanWellFounded, Zenon
<1>2. \A m \in T : ~ (m < n)
  BY <1>1, Zenon DEF OpToRel
<1> QED BY <1>2

\* What holds before a loop and survives each of its N turns holds after all of them.
LEMMA TurnInduction ==
  ASSUME NEW N \in Nat, NEW T, 0 \in T, \A n \in 0..(N - 1) : n \in T => n + 1 \in T
  PROVE  0..N \subseteq T
<1> DEFINE B == {n \in 0..N : n \notin T}
<1> SUFFICES ASSUME B # {} PROVE FALSE
  OBVIOUS
<1>0. B \subseteq Nat
  OBVIOUS
<1>1. PICK n \in B : \A m \in B : n <= m
  <2> HIDE DEF B
  <2> QED BY <1>0, LeastNatural
<1>2. n # 0 /\ n - 1 \in 0..(N - 1) /\ n - 1 \notin B
  BY <1>1
<1>3. n - 1 \in T
  BY <1>2
<1>4. n - 1 + 1 \in T
  BY <1>2, <1>3
<1> QED BY <1>1, <1>4

\* There is a run of N turns from s0, each of them as step has it.
HasRun(N, S, s0, step) ==
  \E f \in [0..N -> S] : f[0] = s0 /\ \A n \in 1..N : f[n] = step[<<f[n - 1], n>>]

\* A loop whose turns go from states of S to states of S has a run.
LEMMA LoopRuns ==
  ASSUME NEW N \in Nat, NEW S, NEW s0 \in S, NEW step \in [S \X (1..N) -> S]
  PROVE  HasRun(N, S, s0, step)
<1> DEFINE Goes(g, k) == g[0] = s0 /\ \A n \in 1..k : g[n] = step[<<g[n - 1], n>>]
           T == {k \in 0..N : \E g \in [0..k -> S] : Goes(g, k)}
<1>1. 0 \in T
  <2>1. [n \in 0..0 |-> s0] \in [0..0 -> S] /\ Goes([n \in 0..0 |-> s0], 0)
    OBVIOUS
  <2> HIDE DEF Goes
  <2> QED BY <2>1
<1>2. ASSUME NEW k \in 0..(N - 1), k \in T PROVE k + 1 \in T
  <2>1. PICK g \in [0..k -> S] : Goes(g, k)
    BY <1>2
  <2> DEFINE h == [n \in 0..(k + 1) |-> IF n <= k THEN g[n] ELSE step[<<g[k], k + 1>>]]
  <2>2. <<g[k], k + 1>> \in S \X (1..N)
    BY <2>1
  <2>3. step[<<g[k], k + 1>>] \in S
    BY <2>2
  <2>4. h \in [0..(k + 1) -> S]
    BY <2>3
  <2>5. \A n \in 0..k : h[n] = g[n]
    OBVIOUS
  <2>6. h[k + 1] = step[<<h[k], k + 1>>]
    BY <2>5
  <2>7. h[0] = s0
    BY <2>1, <2>5
  <2>8. ASSUME NEW n \in 1..(k + 1) PROVE h[n] = step[<<h[n - 1], n>>]
    <3>1. CASE n = k + 1
      BY <3>1, <2>6
    <3>2. CASE n \in 1..k
      BY <3>2, <2>1, <2>5
    <3> QED BY <3>1, <3>2
  <2> HIDE DEF h
  <2>9. k + 1 \in 0..N
    OBVIOUS
  <2> QED BY <2>4, <2>7, <2>8, <2>9
<1> HIDE DEF T
<1>3. 0..N \subseteq T
  BY <1>1, <1>2, TurnInduction
<1>4. N \in T
  BY <1>3
<1> QED BY <1>4 DEF T, HasRun

\* A set of integers between two bounds that has one has a least one, which Min returns.
LEMMA MinIsLeast ==
  ASSUME NEW a \in Int, NEW b \in Int, NEW I \in SUBSET (a..b), I # {}
  PROVE  Min(I) \in I /\ \A i \in I : Min(I) <= i
<1> DEFINE T == {i - a : i \in I}
<1>1. \A i \in I : i \in Int /\ a <= i /\ i - a \in Nat
  OBVIOUS
<1>0. T \subseteq Nat /\ T # {}
  BY <1>1
<1>2. PICK n \in T : \A m \in T : n <= m
  <2> HIDE DEF T
  <2> QED BY <1>0, LeastNatural
<1>3. n + a \in I /\ \A i \in I : n + a <= i
  <2>1. PICK i \in I : n = i - a
    BY Zenon
  <2>2. \A j \in I : n <= j - a
    BY <1>2
  <2> QED BY <1>1, <2>1, <2>2
<1> QED BY <1>3 DEF Min

\* And a greatest one, which Max returns.
LEMMA MaxIsGreatest ==
  ASSUME NEW a \in Int, NEW b \in Int, NEW I \in SUBSET (a..b), I # {}
  PROVE  Max(I) \in I /\ \A i \in I : i <= Max(I)
<1> DEFINE T == {b - i : i \in I}
<1>1. T \subseteq Nat /\ T # {}
  OBVIOUS
<1>2. PICK n \in T : \A m \in T : n <= m
  <2> HIDE DEF T
  <2> QED BY <1>1, LeastNatural
<1>3. b - n \in I /\ \A i \in I : i <= b - n
  <2>1. PICK i \in I : n = b - i
    OBVIOUS
  <2>2. \A j \in I : n <= b - j
    BY <1>2
  <2> QED BY <2>1, <2>2
<1> QED BY <1>3 DEF Max

-----------------------------------------------------------------------------
\* What streams say.

Pieces == [from : Nat, to : Nat]

\* Piece gives pieces, with the ends it is given.
LEMMA PieceIsPiece ==
  ASSUME NEW a \in Nat, NEW b \in Nat
  PROVE  Piece(a, b) \in Pieces /\ Piece(a, b).from = a /\ Piece(a, b).to = b
BY DEF Piece, Pieces

\* c is a to b without the white space at its ends.
StripsTo(text, a, b, c) ==
  /\ c \in Pieces
  /\ a <= c.from /\ c.from <= c.to + 1 /\ c.to <= b
  /\ \A i \in a..b : text[i] # " " => i \in c.from..c.to
  /\ Blank(text, Piece(a, b)) => c.to < c.from
  /\ ~ Blank(text, Piece(a, b)) => ~ Blank(text, c)

\* strip keeps to what it is given, and leaves white space only.
LEMMA StripKeeps ==
  ASSUME NEW text, NEW a \in Nat \ {0}, NEW b \in Nat, a <= b + 1
  PROVE  StripsTo(text, a, b, Strip(text, Piece(a, b)))
<1> DEFINE c == Strip(text, Piece(a, b))
<1> DEFINE I == Said(text, Piece(a, b))
<1>0. I = {i \in a..b : text[i] # " "}
  BY PieceIsPiece DEF Said
<1>1. I \in SUBSET (a..b)
  BY <1>0
<1>4. \A i \in a..b : text[i] # " " => i \in I
  BY <1>0
<1>5. \A i \in I : text[i] # " "
  BY <1>0
<1> SUFFICES StripsTo(text, a, b, c)
  OBVIOUS
<1>6. c = Strip(text, Piece(a, b))
  OBVIOUS
<1> HIDE DEF c
<1>2. CASE I = {}
  <2>1. c = Piece(a, a - 1) /\ a - 1 \in Nat
    BY <1>2, <1>6, PieceIsPiece DEF Strip
  <2>2. c \in Pieces /\ c.from = a /\ c.to = a - 1
    BY <2>1, PieceIsPiece
  <2>3. \A i \in a..b : text[i] = " "
    BY <1>2, <1>4
  <2>4. Blank(text, Piece(a, b))
    BY <1>2 DEF Blank
  <2> HIDE DEF I
  <2>5. a <= c.from /\ c.from <= c.to + 1 /\ c.to <= b /\ c.to < c.from
    BY <2>2
  <2> QED BY <2>2, <2>3, <2>4, <2>5 DEF StripsTo
<1>3. CASE I # {}
  <2>1. c = Piece(Min(I), Max(I))
    BY <1>3, <1>6 DEF Strip
  <2>2. a \in Int /\ b \in Int
    OBVIOUS
  <2> HIDE DEF I
  <2>3. Min(I) \in I /\ \A i \in I : Min(I) <= i
    BY <1>1, <1>3, <2>2, MinIsLeast
  <2>4. Max(I) \in I /\ \A i \in I : i <= Max(I)
    BY <1>1, <1>3, <2>2, MaxIsGreatest
  <2>5. PICK lo \in a..b, hi \in a..b :
          lo = Min(I) /\ hi = Max(I) /\ lo \in I /\ lo <= hi /\ \A i \in I : i \in lo..hi
    <3>1. Min(I) \in a..b /\ Max(I) \in a..b
      BY <1>1, <2>3, <2>4
    <3>2. \A i \in I : i \in Min(I)..Max(I)
      <4> SUFFICES ASSUME NEW i \in I PROVE i \in Min(I)..Max(I)
        OBVIOUS
      <4>1. i \in a..b /\ Min(I) <= i /\ i <= Max(I)
        BY <1>1, <2>3, <2>4
      <4> QED BY <3>1, <4>1
    <3> QED BY <3>1, <3>2, <2>3, <2>4
  <2>6. c \in Pieces /\ c.from = lo /\ c.to = hi
    BY <2>1, <2>5, PieceIsPiece
  <2>7. \A i \in a..b : text[i] # " " => i \in c.from..c.to
    BY <1>4, <2>5, <2>6
  <2>8. lo \in Said(text, c)
    BY <1>5, <2>5, <2>6 DEF Said
  <2>9. ~ Blank(text, c) /\ ~ Blank(text, Piece(a, b))
    BY <1>3, <2>8 DEF Blank, I
  <2>10. a <= c.from /\ c.from <= c.to + 1 /\ c.to <= b
    BY <2>5, <2>6
  <2> QED BY <2>6, <2>7, <2>9, <2>10 DEF StripsTo
<1> QED BY <1>2, <1>3

\* A break is found in the first max characters; if there is none after the first
\* half of them, that half is letters to its end.
LEMMA BreakPointBreaks ==
  ASSUME NEW text, NEW max \in Nat \ {0}, NEW rest \in Pieces, NEW b,
         b = BreakPoint(text, rest, max)
  PROVE  /\ b \in rest.from..(rest.from + max - 1)
         /\ text[b] \notin Breaks
              => \A i \in (b - (max - 1 - max \div 2) + 1)..b : text[i] \notin Breaks
<1> DEFINE lo == rest.from + max \div 2 + 1
           hi == rest.from + max - 1
           I  == {i \in lo..hi : text[i] \in Breaks}
<1>1. rest.from \in Nat /\ max \div 2 \in Nat /\ lo \in Int /\ hi \in Int /\ rest.from <= lo
  BY DEF Pieces
<1>2. CASE I = {}
  <2>1. b = hi
    BY <1>2 DEF BreakPoint
  <2>2. b - (max - 1 - max \div 2) + 1 = lo
    BY <1>1, <2>1
  <2> QED BY <1>1, <1>2, <2>1, <2>2
<1>3. CASE I # {}
  <2>1. b = Max(I)
    BY <1>3 DEF BreakPoint
  <2>2. I \in SUBSET (lo..hi)
    OBVIOUS
  <2>3. b \in I
    <3> HIDE DEF I, lo, hi
    <3> QED BY <1>1, <1>3, <2>1, <2>2, MaxIsGreatest
  <2> QED BY <1>1, <2>3
<1> QED BY <1>2, <1>3

\* What Append does, element by element.
LEMMA AppendAppends ==
  ASSUME NEW S, NEW q \in Seq(S), NEW x \in S, NEW N \in Nat, N = Len(q)
  PROVE  /\ Append(q, x) \in Seq(S) /\ Len(Append(q, x)) = N + 1
         /\ \A i \in 1..N : Append(q, x)[i] = q[i]
         /\ Append(q, x)[N + 1] = x
OBVIOUS

\* What every turn of the loop keeps, of the chunks and of what is left of the text.
StreamStates == [chunks : Seq(Pieces), rest : Pieces]

RestIn(text, s) ==
  1 <= s.rest.from /\ s.rest.from <= s.rest.to + 1 /\ s.rest.to <= Len(text)

InOrder(s) ==
  /\ \A i, j \in 1..Len(s.chunks) : i < j => s.chunks[i].to < s.chunks[j].from
  /\ \A i \in 1..Len(s.chunks) : s.chunks[i].to < s.rest.from

NothingLost(text, s) ==
  \A p \in 1..Len(text) : text[p] # " " =>
    \/ p \in s.rest.from..s.rest.to
    \/ \E i \in 1..Len(s.chunks) : p \in s.chunks[i].from..s.chunks[i].to

Short(s, max) == \A i \in 1..Len(s.chunks) : Size(s.chunks[i]) <= max

LastSaysSomething(text, s) ==
  \/ ~ Blank(text, s.rest)
  \/ /\ s.rest.to < s.rest.from /\ Len(s.chunks) > 0
     /\ ~ Blank(text, s.chunks[Len(s.chunks)])

WordsWhole(text, s, max) ==
  /\ \A i \in 1..(Len(s.chunks) - 1) :
       CutInAWord(text, s.chunks[i], s.chunks[i + 1], max)
  /\ Len(s.chunks) > 0 => CutInAWord(text, s.chunks[Len(s.chunks)], s.rest, max)

StreamInv(text, s, max) ==
  /\ RestIn(text, s)
  /\ InOrder(s)
  /\ NothingLost(text, s)
  /\ Short(s, max)
  /\ LastSaysSomething(text, s)
  /\ WordsWhole(text, s, max)

\* A turn of the loop keeps all of it, and takes something.
LEMMA CutOffCutsRight ==
  ASSUME NEW text \in Seq(Chars), NEW max \in Nat \ {0}, NEW s \in StreamStates,
         StreamInv(text, s, max), Size(s.rest) > max
  PROVE  /\ CutOff(text, s, max) \in StreamStates
         /\ StreamInv(text, CutOff(text, s, max), max)
         /\ s.rest.from < CutOff(text, s, max).rest.from
<1>1. PICK N \in Nat, L \in Nat : N = Len(s.chunks) /\ L = Len(text)
  BY DEF StreamStates
<1>2. PICK a \in Nat, e \in Nat : a = s.rest.from /\ e = s.rest.to
  BY DEF StreamStates, Pieces
<1>3. s.chunks \in Seq(Pieces) /\ s.rest \in Pieces
  BY DEF StreamStates
<1>4. 1 <= a /\ e <= L /\ a + max <= e
  BY <1>1, <1>2 DEF StreamInv, RestIn, Size
<1>5. PICK b \in Nat : /\ b = BreakPoint(text, s.rest, max)
                       /\ a <= b /\ b <= a + max - 1
                       /\ text[b] \notin Breaks => \A i \in (b - (max - 1 - max \div 2) + 1)..b : text[i] \notin Breaks
  <2> DEFINE b == BreakPoint(text, s.rest, max)
  <2>1. /\ b \in a..(a + max - 1)
        /\ text[b] \notin Breaks => \A i \in (b - (max - 1 - max \div 2) + 1)..b : text[i] \notin Breaks
    BY <1>2, <1>3, BreakPointBreaks
  <2> HIDE DEF b
  <2>2. b \in Nat /\ a <= b /\ b <= a + max - 1
    BY <2>1
  <2> QED BY <2>1, <2>2 DEF b
<1>6. PICK c, d : c = Strip(text, Piece(a, b)) /\ d = Strip(text, Piece(b + 1, e))
  OBVIOUS
<1>7. StripsTo(text, a, b, c)
  BY <1>4, <1>5, <1>6, StripKeeps
<1>8. StripsTo(text, b + 1, e, d)
  <2>1. b + 1 \in Nat \ {0} /\ b + 1 <= e + 1
    BY <1>4, <1>5
  <2> QED BY <2>1, <1>6, StripKeeps
<1>9. c \in Pieces /\ d \in Pieces
  BY <1>7, <1>8 DEF StripsTo
<1>10. PICK cf \in Nat, ct \in Nat, df \in Nat, dt \in Nat :
         c.from = cf /\ c.to = ct /\ d.from = df /\ d.to = dt
  BY <1>9 DEF Pieces
<1>11. a <= cf /\ cf <= ct + 1 /\ ct <= b /\ b + 1 <= df /\ df <= dt + 1 /\ dt <= e
  BY <1>7, <1>8, <1>10 DEF StripsTo
<1>12. PICK cs, ts : cs \in Seq(Pieces) /\ cs = s.chunks /\ ts = Append(cs, c) /\ N = Len(cs)
  BY <1>1, <1>3
<1>13. PICK t : t = CutOff(text, s, max)
  OBVIOUS
<1>14. t = [chunks |-> ts, rest |-> d]
  BY <1>2, <1>5, <1>6, <1>12, <1>13 DEF CutOff
<1>15. ts \in Seq(Pieces) /\ Len(ts) = N + 1
  BY <1>9, <1>12, AppendAppends
<1>16. \A i \in 1..N : ts[i] = cs[i]
  BY <1>9, <1>12, AppendAppends
<1>17. ts[N + 1] = c
  BY <1>9, <1>12, AppendAppends
<1>18. t.chunks = ts /\ t.rest = d
  BY <1>14
<1>19. \A i \in 1..N : cs[i].from \in Nat /\ cs[i].to \in Nat
  <2>1. \A i \in 1..N : cs[i] \in Pieces
    BY <1>12
  <2> QED BY <2>1 DEF Pieces
<1>20. t \in StreamStates
  BY <1>9, <1>14, <1>15 DEF StreamStates
<1>21. RestIn(text, t)
  <2>1. 1 <= df /\ df <= dt + 1 /\ dt <= L
    BY <1>4, <1>5, <1>11
  <2> QED BY <1>1, <1>10, <1>18, <2>1 DEF RestIn
<1>22. InOrder(t)
  <2>1. \A i \in 1..N : cs[i].to < a
    BY <1>2, <1>12 DEF StreamInv, InOrder
  <2>2. \A i, j \in 1..N : i < j => cs[i].to < cs[j].from
    BY <1>12 DEF StreamInv, InOrder
  <2>3. \A i \in 1..N : cs[i].to < cf /\ cs[i].to < df
    BY <1>11, <1>19, <2>1
  <2>4. \A i \in 1..(N + 1) : ts[i].to < df
    <3> TAKE i \in 1..(N + 1)
    <3>1. CASE i \in 1..N
      BY <1>16, <2>3, <3>1
    <3>2. CASE i = N + 1
      BY <1>10, <1>11, <1>17, <3>2
    <3> QED BY <3>1, <3>2
  <2>5. \A i, j \in 1..(N + 1) : i < j => ts[i].to < ts[j].from
    <3> SUFFICES ASSUME NEW i \in 1..(N + 1), NEW j \in 1..(N + 1), i < j
                 PROVE  ts[i].to < ts[j].from
      OBVIOUS
    <3>1. i \in 1..N
      OBVIOUS
    <3>2. CASE j \in 1..N
      BY <1>16, <2>2, <3>1, <3>2
    <3>3. CASE j = N + 1
      BY <1>10, <1>16, <1>17, <2>3, <3>1, <3>3
    <3> QED BY <3>2, <3>3
  <2> QED BY <1>10, <1>15, <1>18, <2>4, <2>5 DEF InOrder
<1>23. NothingLost(text, t)
  <2>5. \A p \in a..e : p \in a..b \/ p \in (b + 1)..e
    OBVIOUS
  <2>6. N + 1 \in 1..(N + 1) /\ \A i \in 1..N : i \in 1..(N + 1)
    OBVIOUS
  <2> SUFFICES ASSUME NEW p \in 1..L, text[p] # " "
               PROVE  \/ p \in d.from..d.to
                      \/ \E i \in 1..(N + 1) : p \in ts[i].from..ts[i].to
    BY <1>1, <1>15, <1>18 DEF NothingLost
  <2>1. \/ p \in a..e
        \/ \E i \in 1..N : p \in cs[i].from..cs[i].to
    BY <1>1, <1>2, <1>12 DEF StreamInv, NothingLost
  <2>2. CASE \E i \in 1..N : p \in cs[i].from..cs[i].to
    <3>1. PICK i \in 1..N : p \in cs[i].from..cs[i].to
      BY <2>2
    <3>2. i \in 1..(N + 1) /\ p \in ts[i].from..ts[i].to
      BY <1>16, <2>6, <3>1, Zenon
    <3> QED BY <3>2, Zenon
  <2>3. CASE p \in a..b
    <3>1. p \in c.from..c.to
      BY <1>7, <2>3 DEF StripsTo
    <3>2. N + 1 \in 1..(N + 1) /\ p \in ts[N + 1].from..ts[N + 1].to
      BY <1>17, <2>6, <3>1, Zenon
    <3> QED BY <3>2, Zenon
  <2>4. CASE p \in (b + 1)..e
    BY <1>8, <2>4 DEF StripsTo
  <2> QED BY <2>1, <2>2, <2>3, <2>4, <2>5, Zenon
<1>24. Short(t, max)
  <2>1. \A i \in 1..N : Size(cs[i]) <= max
    BY <1>12 DEF StreamInv, Short
  <2>2. Size(c) <= max
    BY <1>5, <1>10, <1>11 DEF Size
  <2>3. \A i \in 1..(N + 1) : Size(ts[i]) <= max
    <3> TAKE i \in 1..(N + 1)
    <3>1. CASE i \in 1..N
      BY <1>16, <2>1, <3>1
    <3>2. CASE i = N + 1
      BY <1>17, <2>2, <3>2
    <3> QED BY <3>1, <3>2
  <2> QED BY <1>15, <1>18, <2>3 DEF Short
<1>25. LastSaysSomething(text, t)
  <2>1. ~ Blank(text, s.rest)
    BY <1>2, <1>4 DEF StreamInv, LastSaysSomething
  <2>2. PICK p \in a..e : text[p] # " "
    BY <1>2, <2>1 DEF Blank, Said
  <2>3. CASE p \in a..b
    <3>1. ~ Blank(text, Piece(a, b))
      BY <2>2, <2>3, PieceIsPiece DEF Blank, Said
    <3>2. ~ Blank(text, c)
      BY <1>7, <3>1 DEF StripsTo
    <3>3. ~ Blank(text, d) \/ d.to < d.from
      BY <1>8 DEF StripsTo
    <3> QED BY <1>15, <1>17, <1>18, <3>2, <3>3 DEF LastSaysSomething
  <2>4. CASE p \in (b + 1)..e
    <3>1. b + 1 \in Nat
      OBVIOUS
    <3>2. ~ Blank(text, Piece(b + 1, e))
      BY <2>2, <2>4, <3>1, PieceIsPiece DEF Blank, Said
    <3>3. ~ Blank(text, d)
      BY <1>8, <3>2 DEF StripsTo
    <3> QED BY <1>18, <3>3 DEF LastSaysSomething
  <2>5. p \in a..b \/ p \in (b + 1)..e
    OBVIOUS
  <2> QED BY <2>3, <2>4, <2>5
<1>26. WordsWhole(text, t, max)
  <2>1. \A i \in 1..(N - 1) : CutInAWord(text, cs[i], cs[i + 1], max)
    BY <1>12 DEF StreamInv, WordsWhole
  <2>2. CutInAWord(text, c, d, max)
    <3> SUFFICES ASSUME c.to + 1 = d.from, text[c.to] \notin Breaks
                 PROVE  \A i \in (c.to - (max - 1 - max \div 2) + 1)..c.to : text[i] \notin Breaks
      BY DEF CutInAWord
    <3>1. c.to = b
      BY <1>10, <1>11
    <3> QED BY <1>5, <3>1
  <2>3. ASSUME N > 0 PROVE CutInAWord(text, cs[N], c, max)
    <3>1. CutInAWord(text, cs[N], s.rest, max)
      BY <1>12, <2>3 DEF StreamInv, WordsWhole
    <3>2. N \in 1..N
      BY <2>3
    <3>3. PICK lt \in Nat : lt = cs[N].to
      BY <1>19, <3>2
    <3>4. lt < a
      BY <1>2, <1>12, <3>2, <3>3 DEF StreamInv, InOrder
    <3>5. lt + 1 = cf => cf = a
      BY <1>11, <3>4
    <3> QED BY <1>2, <1>10, <3>1, <3>3, <3>5 DEF CutInAWord
  <2>4. ASSUME NEW i \in 1..N PROVE CutInAWord(text, ts[i], ts[i + 1], max)
    <3>1. CASE i = N
      BY <1>16, <1>17, <2>3, <3>1
    <3>2. CASE i \in 1..(N - 1)
      <4>1. i + 1 \in 1..N
        BY <3>2
      <4> QED BY <1>16, <2>1, <3>2, <4>1
    <3> QED BY <3>1, <3>2
  <2>5. N + 1 - 1 = N
    OBVIOUS
  <2> QED BY <1>15, <1>17, <1>18, <2>2, <2>4, <2>5 DEF WordsWhole
<1>27. a < t.rest.from
  BY <1>5, <1>10, <1>11, <1>18
<1> QED BY <1>2, <1>13, <1>20, <1>21, <1>22, <1>23, <1>24, <1>25, <1>26, <1>27 DEF StreamInv

\* All of it holds of the text that is not cut yet.
LEMMA StreamBeginsRight ==
  ASSUME NEW text \in Seq(Chars), NEW max \in Nat \ {0},
         ~ Blank(text, Piece(1, Len(text))),
         NEW s, s = [chunks |-> <<>>, rest |-> Piece(1, Len(text))]
  PROVE  s \in StreamStates /\ StreamInv(text, s, max)
<1>1. PICK L \in Nat : L = Len(text)
  OBVIOUS
<1>2. PICK r \in Pieces : r = Piece(1, L) /\ r.from = 1 /\ r.to = L
  BY PieceIsPiece
<1>3. s.chunks = <<>> /\ s.rest = r /\ s.chunks \in Seq(Pieces) /\ Len(s.chunks) = 0
  BY <1>1, <1>2
<1>4. s \in StreamStates
  BY <1>1, <1>2 DEF StreamStates
<1>8. 1 <= r.from /\ r.from <= r.to + 1 /\ r.to <= L
  BY <1>2
<1>9. \A p \in 1..L : p \in r.from..r.to
  BY <1>2
<1>5. RestIn(text, s) /\ NothingLost(text, s)
  BY <1>1, <1>3, <1>8, <1>9, Zenon DEF RestIn, NothingLost
<1>6. InOrder(s) /\ Short(s, max) /\ WordsWhole(text, s, max)
  BY <1>3 DEF InOrder, Short, WordsWhole
<1>7. LastSaysSomething(text, s)
  BY <1>1, <1>2, <1>3 DEF LastSaysSomething
<1> QED BY <1>4, <1>5, <1>6, <1>7 DEF StreamInv

\* One turn of the loop of get_text_chunks.
StreamTurn(text, s, max) == IF Size(s.rest) > max THEN CutOff(text, s, max) ELSE s

\* g is the run of that loop.
StreamRun(text, g, max) ==
  /\ \A n \in 0..Len(text) : g[n] \in StreamStates /\ StreamInv(text, g[n], max)
  /\ g[0] = [chunks |-> <<>>, rest |-> Piece(1, Len(text))]
  /\ \A n \in 1..Len(text) : g[n] = StreamTurn(text, g[n - 1], max)

\* The loop is the run it says it is, and keeps what a turn keeps.
LEMMA StreamTurnsTurn ==
  ASSUME NEW text \in Seq(Chars), NEW max \in Nat \ {0},
         ~ Blank(text, Piece(1, Len(text)))
  PROVE  StreamRun(text, StreamTurns(text, max), max)
<1>0. PICK L \in Nat : L = Len(text)
  OBVIOUS
<1> DEFINE g == StreamTurns(text, max)
<1> DEFINE S  == {s \in StreamStates : StreamInv(text, s, max)}
           s0 == [chunks |-> <<>>, rest |-> Piece(1, L)]
           Turn(s) == StreamTurn(text, s, max)
<1>1. s0 \in S
  BY <1>0, StreamBeginsRight
<1>2. \A s \in S : Turn(s) \in S
  BY CutOffCutsRight DEF StreamTurn
<1> HIDE DEF S, s0, Turn, g
<1> DEFINE step == [p \in S \X (1..L) |-> Turn(p[1])]
<1>3. step \in [S \X (1..L) -> S]
  BY <1>2
<1>4. PICK f \in [0..L -> S] : f[0] = s0 /\ \A n \in 1..L : f[n] = step[<<f[n - 1], n>>]
  <2> HIDE DEF step
  <2>1. HasRun(L, S, s0, step)
    BY <1>1, <1>3, LoopRuns
  <2> QED BY <2>1 DEF HasRun
<1>5. \A n \in 1..L : f[n] = Turn(f[n - 1])
  <2> TAKE n \in 1..L
  <2>1. n - 1 \in 0..L
    BY <1>0
  <2>2. <<f[n - 1], n>> \in S \X (1..L)
    BY <2>1
  <2>3. step[<<f[n - 1], n>>] = Turn(f[n - 1])
    BY <2>2
  <2> QED BY <1>4, <2>3
<1>6. f = [n \in 0..L |-> IF n = 0 THEN s0 ELSE Turn(f[n - 1])]
  BY <1>4, <1>5
<1>7. g = CHOOSE h : h = [n \in 0..L |-> IF n = 0 THEN s0 ELSE Turn(h[n - 1])]
  BY <1>0, Zenon DEF StreamTurns, g, s0, Turn, StreamTurn
<1>8. g = [n \in 0..L |-> IF n = 0 THEN s0 ELSE Turn(g[n - 1])]
  BY <1>6, <1>7, Zenon
<1>9. g[0] = s0 /\ \A n \in 1..L : g[n] = Turn(g[n - 1])
  BY <1>8
<1>10. \A n \in 0..L : g[n] \in S
  <2> DEFINE T == {n \in 0..L : g[n] \in S}
  <2>1. 0 \in T
    BY <1>0, <1>1, <1>9
  <2>2. ASSUME NEW n \in 0..(L - 1), n \in T PROVE n + 1 \in T
    <3>1. n + 1 \in 1..L /\ n + 1 - 1 = n
      BY <1>0
    <3>2. g[n + 1] = Turn(g[n])
      BY <1>9, <3>1
    <3> QED BY <1>2, <2>2, <3>1, <3>2
  <2> HIDE DEF T
  <2>3. 0..L \subseteq T
    BY <1>0, <2>1, <2>2, TurnInduction
  <2> QED BY <2>3 DEF T
<1> QED BY <1>0, <1>9, <1>10 DEF StreamRun, S, s0, Turn, g

\* After as many turns as the text has characters, what is left is short enough.
LEMMA StreamTurnsEnd ==
  ASSUME NEW text \in Seq(Chars), NEW max \in Nat \ {0},
         ~ Blank(text, Piece(1, Len(text))),
         NEW s, s = StreamTurns(text, max)[Len(text)]
  PROVE  s \in StreamStates /\ StreamInv(text, s, max) /\ Size(s.rest) <= max
<1>1. PICK L, g : L \in Nat /\ L = Len(text) /\ g = StreamTurns(text, max)
  OBVIOUS
<1>2. /\ \A n \in 0..L : g[n] \in StreamStates /\ StreamInv(text, g[n], max)
      /\ \A n \in 1..L : g[n] = StreamTurn(text, g[n - 1], max)
  BY <1>1, StreamTurnsTurn DEF StreamRun
<1>3. ASSUME NEW n \in 0..L
      PROVE  /\ g[n].rest.from \in Nat /\ g[n].rest.to \in Nat /\ Size(g[n].rest) \in Int
             /\ g[n].rest.to <= L /\ g[n].rest.from >= 1
  BY <1>1, <1>2 DEF StreamStates, Pieces, StreamInv, RestIn, Size
<1> DEFINE T == {n \in 0..L : Size(g[n].rest) <= max \/ n < g[n].rest.from}
<1>4. 0 \in T
  BY <1>1, <1>3
<1>5. ASSUME NEW n \in 0..(L - 1), n \in T PROVE n + 1 \in T
  <2>1. n \in 0..L /\ n + 1 \in 0..L /\ n + 1 \in 1..L /\ n + 1 - 1 = n
    BY <1>1
  <2>2. g[n + 1] = StreamTurn(text, g[n], max)
    BY <1>2, <2>1
  <2>3. CASE Size(g[n].rest) > max
    <3>1. g[n].rest.from < g[n + 1].rest.from
      BY <1>2, <2>1, <2>2, <2>3, CutOffCutsRight DEF StreamTurn
    <3>2. n < g[n].rest.from
      BY <1>3, <1>5, <2>1, <2>3
    <3>3. n + 1 < g[n + 1].rest.from
      BY <1>3, <2>1, <3>1, <3>2
    <3> QED BY <2>1, <3>3
  <2>4. CASE ~ (Size(g[n].rest) > max)
    <3>1. g[n + 1] = g[n]
      BY <2>2, <2>4 DEF StreamTurn
    <3>2. Size(g[n + 1].rest) <= max
      BY <1>3, <2>1, <2>4, <3>1
    <3> QED BY <2>1, <3>2
  <2> QED BY <2>3, <2>4
<1>6. 0..L \subseteq T
  <2> HIDE DEF T
  <2> QED BY <1>1, <1>4, <1>5, TurnInduction
<1>7. L \in T /\ L \in 0..L
  BY <1>1, <1>6
<1>8. Size(g[L].rest) <= max
  BY <1>1, <1>3, <1>7 DEF Size
<1> QED BY <1>1, <1>2, <1>7, <1>8

\* Every text with something to say, however long and however it is laid out, is cut
\* right by get_text_chunks, whatever it may send at once.
THEOREM EveryStreamIsCutRight ==
  ASSUME NEW max \in Nat \ {0}, NEW text \in Seq(Chars),
         ~ Blank(text, Piece(1, Len(text)))
  PROVE  StreamCutRight(text, max)
<1>1. PICK L \in Nat : L = Len(text)
  OBVIOUS
<1>2. PICK s : s = StreamTurns(text, max)[Len(text)]
  OBVIOUS
<1>3. s \in StreamStates /\ StreamInv(text, s, max) /\ Size(s.rest) <= max
  BY <1>2, StreamTurnsEnd
<1>4. PICK cs, N : cs = s.chunks /\ cs \in Seq(Pieces) /\ N \in Nat /\ N = Len(cs)
  BY <1>3 DEF StreamStates
<1>5. PICK a \in Nat, e \in Nat : a = s.rest.from /\ e = s.rest.to
  BY <1>3 DEF StreamStates, Pieces
<1>6. PICK ks, K : ks = GetTextChunks(text, max) /\ K = Len(ks)
  OBVIOUS
<1>7. ks = IF Size(s.rest) > 0 THEN Append(s.chunks, s.rest) ELSE s.chunks
  BY <1>2, <1>6 DEF GetTextChunks
<1>8. /\ \A i, j \in 1..N : i < j => cs[i].to < cs[j].from
      /\ \A i \in 1..N : cs[i].to < s.rest.from
  BY <1>3, <1>4 DEF StreamInv, InOrder
<1>9. \A p \in 1..L : text[p] # " " =>
        p \in s.rest.from..s.rest.to \/ \E i \in 1..N : p \in cs[i].from..cs[i].to
  BY <1>1, <1>3, <1>4 DEF StreamInv, NothingLost
<1>10. \A i \in 1..N : Size(cs[i]) <= max
  BY <1>3, <1>4 DEF StreamInv, Short
<1>11. \A i \in 1..(N - 1) : CutInAWord(text, cs[i], cs[i + 1], max)
  BY <1>3, <1>4 DEF StreamInv, WordsWhole
<1>12. N > 0 => CutInAWord(text, cs[N], s.rest, max)
  BY <1>3, <1>4 DEF StreamInv, WordsWhole
<1>13. Said(text, Piece(1, L)) = {p \in 1..L : text[p] # " "}
  BY PieceIsPiece DEF Said
<1>14. SUFFICES
         /\ \A i, j \in 1..K : i < j => ks[i].to < ks[j].from
         /\ \A p \in Said(text, Piece(1, L)) : \E i \in 1..K : p \in ks[i].from..ks[i].to
         /\ \A i \in 1..K : Size(ks[i]) <= max
         /\ K > 0 /\ ~ Blank(text, ks[K])
         /\ \A i \in 1..(K - 1) : CutInAWord(text, ks[i], ks[i + 1], max)
  BY <1>1, <1>6, Zenon DEF StreamCutRight
<1>15. CASE Size(s.rest) > 0
  <2>1. a <= e
    BY <1>5, <1>15 DEF Size
  <2>2. ks = Append(cs, s.rest) /\ s.rest \in Pieces
    BY <1>3, <1>4, <1>7, <1>15 DEF StreamStates
  <2>3. K = N + 1 /\ ks[N + 1] = s.rest
    BY <1>4, <1>6, <2>2, AppendAppends
  <2>4. \A i \in 1..N : ks[i] = cs[i]
    BY <1>4, <2>2, AppendAppends
  <2>5. N + 1 \in 1..(N + 1) /\ \A i \in 1..N : i \in 1..(N + 1)
    BY <1>4
  <2>6. \A i \in 1..(N + 1) : i \in 1..N \/ i = N + 1
    BY <1>4
  <2>7. ASSUME NEW i \in 1..(N + 1), NEW j \in 1..(N + 1), i < j
        PROVE  ks[i].to < ks[j].from
    <3>1. i \in 1..N
      BY <1>4, <2>7
    <3> QED BY <1>8, <2>3, <2>4, <2>6, <2>7, <3>1
  <2>8. ASSUME NEW p \in Said(text, Piece(1, L))
        PROVE  \E i \in 1..(N + 1) : p \in ks[i].from..ks[i].to
    <3>1. p \in s.rest.from..s.rest.to \/ \E i \in 1..N : p \in cs[i].from..cs[i].to
      BY <1>9, <1>13
    <3> QED BY <2>3, <2>4, <2>5, <3>1, Zenon
  <2>9. \A i \in 1..(N + 1) : Size(ks[i]) <= max
    BY <1>3, <1>10, <2>3, <2>4, <2>6
  <2>10. N + 1 > 0 /\ ~ Blank(text, ks[N + 1])
    BY <1>3, <1>4, <1>5, <2>1, <2>3 DEF StreamInv, LastSaysSomething
  <2>11. ASSUME NEW i \in 1..N PROVE CutInAWord(text, ks[i], ks[i + 1], max)
    <3>1. CASE i = N
      BY <1>4, <1>12, <2>3, <2>4, <3>1
    <3>2. CASE i \in 1..(N - 1)
      <4>1. i + 1 \in 1..N
        BY <1>4, <3>2
      <4> QED BY <1>11, <2>4, <3>2, <4>1
    <3> QED BY <1>4, <3>1, <3>2
  <2>12. K - 1 = N
    BY <1>4, <2>3
  <2> QED BY <2>3, <2>7, <2>8, <2>9, <2>10, <2>11, <2>12
<1>16. CASE ~ (Size(s.rest) > 0)
  <2>1. e < a
    BY <1>5, <1>16 DEF Size
  <2>2. ks = cs /\ K = N
    BY <1>4, <1>6, <1>7, <1>16
  <2>3. s.rest.from..s.rest.to = {}
    BY <1>5, <2>1
  <2>4. Blank(text, s.rest)
    BY <2>3 DEF Blank, Said
  <2>5. N > 0 /\ ~ Blank(text, cs[N])
    BY <1>3, <1>4, <2>4 DEF StreamInv, LastSaysSomething
  <2>6. ASSUME NEW p \in Said(text, Piece(1, L))
        PROVE  \E i \in 1..N : p \in cs[i].from..cs[i].to
    BY <1>9, <1>13, <2>3
  <2> QED BY <1>8, <1>10, <1>11, <2>2, <2>5, <2>6
<1> QED BY <1>15, <1>16

\* What StreamsCutRight checks of short texts holds of all: a synthesis says its text
\* cut at breaks, the last chunk one that is said.
THEOREM StreamsAreCutRight == Spec => []StreamsCutRight
<1>1. ASSUME NEW max \in MaxLengths,
             NEW text \in UNION {[1..n -> Chars] : n \in 0..MaxText},
             ~ Blank(text, Piece(1, Len(text)))
      PROVE  StreamCutRight(text, max)
  <2>1. max \in Nat \ {0}
    BY ChunkAssumption
  <2>2. PICK n \in 0..MaxText : text \in [1..n -> Chars]
    OBVIOUS
  <2>3. text \in Seq(Chars)
    BY <2>2, ChunkAssumption
  <2> QED BY <1>1, <2>1, <2>3, EveryStreamIsCutRight
<1>2. StreamChunksRight
  BY <1>1 DEF StreamChunksRight
<1>3. StreamsCutRight
  BY <1>2 DEF StreamsCutRight
<1> QED BY <1>3, PTL

-----------------------------------------------------------------------------
\* What requests say.

\* e is where the words end, one space apart.
EndsRun(words, e) ==
  /\ \A n \in 0..Len(words) : e[n] \in Int
  /\ e[0] = -1
  /\ \A n \in 1..Len(words) : e[n] = e[n - 1] + 1 + words[n]

\* Ends is that run.
LEMMA EndsTurns ==
  ASSUME NEW words \in Seq(Nat \ {0})
  PROVE  EndsRun(words, Ends(words))
<1>0. PICK L \in Nat : L = Len(words)
  OBVIOUS
<1> DEFINE g == Ends(words)
           Turn(m, n) == m + 1 + words[n]
<1>2. \A m \in Int, n \in 1..L : Turn(m, n) \in Int
  BY <1>0
<1> HIDE DEF Turn, g
<1> DEFINE step == [p \in Int \X (1..L) |-> Turn(p[1], p[2])]
<1>3. step \in [Int \X (1..L) -> Int]
  BY <1>2
<1>4. PICK f \in [0..L -> Int] : f[0] = -1 /\ \A n \in 1..L : f[n] = step[<<f[n - 1], n>>]
  <2> HIDE DEF step
  <2>1. -1 \in Int
    OBVIOUS
  <2>2. HasRun(L, Int, -1, step)
    BY <1>3, <2>1, LoopRuns
  <2> QED BY <2>2 DEF HasRun
<1>5. \A n \in 1..L : f[n] = Turn(f[n - 1], n)
  <2> TAKE n \in 1..L
  <2>1. n - 1 \in 0..L
    OBVIOUS
  <2>2. <<f[n - 1], n>> \in Int \X (1..L)
    BY <2>1
  <2>3. step[<<f[n - 1], n>>] = Turn(f[n - 1], n)
    BY <2>2
  <2> QED BY <1>4, <2>3
<1>6. f = [n \in 0..L |-> IF n = 0 THEN -1 ELSE Turn(f[n - 1], n)]
  BY <1>4, <1>5
<1>7. g = CHOOSE h : h = [n \in 0..L |-> IF n = 0 THEN -1 ELSE Turn(h[n - 1], n)]
  BY <1>0, Zenon DEF Ends, g, Turn
<1>8. g = [n \in 0..L |-> IF n = 0 THEN -1 ELSE Turn(g[n - 1], n)]
  BY <1>6, <1>7, Zenon
<1>9. g[0] = -1 /\ \A n \in 1..L : g[n] = Turn(g[n - 1], n)
  BY <1>8
<1>10. \A n \in 0..L : g[n] \in Int
  <2> DEFINE T == {n \in 0..L : g[n] \in Int}
  <2>1. 0 \in T
    BY <1>9
  <2>2. ASSUME NEW n \in 0..(L - 1), n \in T PROVE n + 1 \in T
    <3>1. n + 1 \in 1..L /\ n + 1 - 1 = n
      OBVIOUS
    <3>2. g[n + 1] = Turn(g[n], n + 1)
      BY <1>9, <3>1
    <3>3. Turn(g[n], n + 1) \in Int
      BY <1>2, <2>2, <3>1
    <3>4. n + 1 \in 0..L
      OBVIOUS
    <3> QED BY <3>2, <3>3, <3>4
  <2> HIDE DEF T
  <2>3. 0..L \subseteq T
    BY <2>1, <2>2, TurnInduction
  <2> QED BY <2>3 DEF T
<1> QED BY <1>0, <1>9, <1>10 DEF EndsRun, Turn, g

\* A run of words has a length, and with the next word it is longer by the word and
\* the space before it.
LEMMA LengthGrows ==
  ASSUME NEW words \in Seq(Nat \ {0}), NEW a \in Nat \ {0}, NEW n \in Nat,
         a <= n, n < Len(words)
  PROVE  /\ Length(words, Piece(a, n)) \in Int
         /\ Length(words, Piece(a, n + 1)) = Length(words, Piece(a, n)) + words[n + 1] + 1
<1>1. PICK L \in Nat : L = Len(words)
  OBVIOUS
<1>2. PICK g : g = Ends(words) /\ EndsRun(words, g)
  BY EndsTurns
<1>3. n + 1 \in 1..L /\ n \in 0..L /\ a - 1 \in 0..L /\ n + 1 - 1 = n /\ n + 1 \in Nat
  BY <1>1
<1>4. PICK x \in Int, y \in Int, z \in Int : x = g[a - 1] /\ y = g[n] /\ z = g[n + 1]
  <2>1. \A i \in 0..L : g[i] \in Int
    BY <1>1, <1>2 DEF EndsRun
  <2>2. n + 1 \in 0..L
    BY <1>3
  <2> QED BY <1>3, <2>1, <2>2
<1>5. PICK w \in Nat : w = words[n + 1]
  BY <1>1, <1>3
<1>6. z = y + 1 + w
  <2>1. g[n + 1] = g[n + 1 - 1] + 1 + words[n + 1]
    BY <1>1, <1>2, <1>3 DEF EndsRun
  <2> QED BY <1>3, <1>4, <1>5, <2>1
<1>7. Size(Piece(a, n)) # 0 /\ Size(Piece(a, n + 1)) # 0
  BY <1>3 DEF Size, Piece
<1>8. Length(words, Piece(a, n)) = y - x - 1
  BY <1>2, <1>3, <1>4, <1>7, PieceIsPiece DEF Length
<1>9. Length(words, Piece(a, n + 1)) = z - x - 1
  BY <1>2, <1>3, <1>4, <1>7, PieceIsPiece DEF Length
<1>10. y - x - 1 \in Int /\ z - x - 1 = (y - x - 1) + w + 1
  BY <1>6
<1> QED BY <1>5, <1>8, <1>9, <1>10, Zenon

\* What every turn of the loop keeps: the chunks are the words before tmp_sent, each
\* in one, each as long as it may be.
RequestStates == [chunks : Seq(Pieces), from : Nat]

SentBegins(s, n) ==
  /\ s.from >= 1
  /\ n = 0 => s.from = 1
  /\ n > 0 => s.from <= n

WordsInOrder(s) ==
  /\ Len(s.chunks) = 0 => s.from = 1
  /\ Len(s.chunks) > 0 => s.chunks[1].from = 1 /\ s.chunks[Len(s.chunks)].to = s.from - 1
  /\ \A i \in 1..(Len(s.chunks) - 1) : s.chunks[i + 1].from = s.chunks[i].to + 1

ShortOrOneWord(words, piece, max) ==
  Size(piece) > 0 /\ (Length(words, piece) <= max \/ Size(piece) = 1)

Full(words, piece, max) == Length(words, Piece(piece.from, piece.to + 1)) > max

RequestInv(words, s, n, max) ==
  /\ SentBegins(s, n)
  /\ WordsInOrder(s)
  /\ \A i \in 1..Len(s.chunks) : ShortOrOneWord(words, s.chunks[i], max)
  /\ \A i \in 1..Len(s.chunks) : Full(words, s.chunks[i], max)
  /\ n > 0 => ShortOrOneWord(words, Piece(s.from, n), max)

\* A turn of the loop keeps all of it.
LEMMA AddWordAddsWord ==
  ASSUME NEW words \in Seq(Nat \ {0}), NEW max \in Nat \ {0}, NEW s \in RequestStates,
         NEW n \in 1..Len(words), RequestInv(words, s, n - 1, max)
  PROVE  /\ AddWord(words, s, n, max) \in RequestStates
         /\ RequestInv(words, AddWord(words, s, n, max), n, max)
<1>1. PICK L \in Nat : L = Len(words)
  OBVIOUS
<1>2. PICK cs, N : cs = s.chunks /\ cs \in Seq(Pieces) /\ N \in Nat /\ N = Len(cs)
  BY DEF RequestStates
<1>3. PICK a \in Nat : a = s.from /\ a >= 1 /\ (n - 1 = 0 => a = 1) /\ (n - 1 > 0 => a <= n - 1)
  BY DEF RequestStates, RequestInv, SentBegins
<1>4. n \in Nat /\ n - 1 \in Nat /\ n >= 1 /\ n <= L /\ n - 1 + 1 = n
  BY <1>1
<1>5. PICK sent \in Pieces : sent = Piece(a, n - 1) /\ sent.from = a /\ sent.to = n - 1
  BY <1>4, PieceIsPiece
<1>6. PICK t : t = AddWord(words, s, n, max)
  OBVIOUS
<1>7. t = IF Fits(words, sent, n, max) \/ Size(sent) = 0 THEN s
          ELSE [chunks |-> Append(s.chunks, sent), from |-> n]
  BY <1>3, <1>5, <1>6 DEF AddWord
<1>8. Size(sent) = n - a
  BY <1>4, <1>5 DEF Size
<1>9. Size(Piece(a, n)) = n - a + 1
  BY <1>3, <1>4, PieceIsPiece DEF Size
<1>10. CASE n = 1
  <2>1. a = 1 /\ Size(sent) = 0
    BY <1>3, <1>8, <1>10
  <2>2. t = s
    BY <1>7, <2>1
  <2>3. ShortOrOneWord(words, Piece(a, n), max)
    BY <1>9, <1>10, <2>1 DEF ShortOrOneWord
  <2>4. SentBegins(s, n)
    BY <1>3, <1>10, <2>1 DEF SentBegins
  <2> QED BY <1>3, <1>6, <2>2, <2>3, <2>4 DEF RequestInv
<1>11. CASE n > 1
  <2>1. a <= n - 1 /\ a >= 1 /\ Size(sent) > 0 /\ Size(sent) \in Nat
    BY <1>3, <1>4, <1>8, <1>11
  <2>2. /\ Length(words, sent) \in Int
        /\ Length(words, Piece(a, n)) = Length(words, sent) + words[n] + 1
    <3>1. PICK m \in Nat : m = n - 1 /\ m + 1 = n /\ a <= m /\ m < Len(words) /\ a \in Nat \ {0}
      BY <1>1, <1>4, <2>1
    <3>2. /\ Length(words, Piece(a, m)) \in Int
          /\ Length(words, Piece(a, m + 1)) = Length(words, Piece(a, m)) + words[m + 1] + 1
      BY <3>1, LengthGrows
    <3> QED BY <1>5, <3>1, <3>2
  <2>3. CASE Fits(words, sent, n, max)
    <3>1. t = s
      BY <1>7, <2>3
    <3>2. Length(words, Piece(a, n)) <= max
      BY <2>2, <2>3 DEF Fits
    <3>3. ShortOrOneWord(words, Piece(a, n), max)
      BY <1>9, <1>3, <1>4, <2>1, <3>2 DEF ShortOrOneWord
    <3>4. SentBegins(s, n)
      BY <1>3, <1>4, <2>1 DEF SentBegins
    <3> QED BY <1>3, <1>6, <3>1, <3>3, <3>4 DEF RequestInv
  <2>4. CASE ~ Fits(words, sent, n, max)
    <3>1. t = [chunks |-> Append(cs, sent), from |-> n]
      BY <1>2, <1>7, <2>1, <2>4
    <3>2. PICK ts : ts = Append(cs, sent)
      OBVIOUS
    <3>3. ts \in Seq(Pieces) /\ Len(ts) = N + 1 /\ ts[N + 1] = sent
      BY <1>2, <3>2, AppendAppends
    <3>4. \A i \in 1..N : ts[i] = cs[i]
      BY <1>2, <3>2, AppendAppends
    <3>5. t.chunks = ts /\ t.from = n
      BY <3>1, <3>2
    <3>6. t \in RequestStates
      BY <1>4, <3>1, <3>2, <3>3 DEF RequestStates
    <3>7. SentBegins(t, n)
      BY <1>4, <3>5 DEF SentBegins
    <3>8. WordsInOrder(t)
      <4>1. N = 0 => a = 1
        BY <1>2, <1>3 DEF RequestInv, WordsInOrder
      <4>2. N > 0 => cs[1].from = 1 /\ cs[N].to = a - 1
        BY <1>2, <1>3 DEF RequestInv, WordsInOrder
      <4>3. \A i \in 1..(N - 1) : cs[i + 1].from = cs[i].to + 1
        BY <1>2 DEF RequestInv, WordsInOrder
      <4>4. ts[1].from = 1
        <5>1. CASE N = 0
          BY <1>5, <3>3, <4>1, <5>1
        <5>2. CASE N > 0
          BY <1>2, <3>4, <4>2, <5>2
        <5> QED BY <1>2, <5>1, <5>2
      <4>5. ASSUME NEW i \in 1..N PROVE ts[i + 1].from = ts[i].to + 1
        <5>1. CASE i = N
          <6>1. N \in 1..N /\ N > 0
            BY <5>1
          <6>2. ts[i].to = a - 1
            BY <3>4, <4>2, <5>1, <6>1
          <6>3. ts[i + 1].from = a
            BY <1>5, <3>3, <5>1
          <6> QED BY <6>2, <6>3
        <5>2. CASE i \in 1..(N - 1)
          <6>1. i + 1 \in 1..N
            BY <1>2, <5>2
          <6> QED BY <3>4, <4>3, <5>2, <6>1
        <5> QED BY <1>2, <5>1, <5>2
      <4>6. PICK K \in Nat : K = Len(t.chunks) /\ K = N + 1 /\ K # 0 /\ K - 1 = N
        BY <1>2, <3>3, <3>5
      <4>7. t.chunks[K].to = t.from - 1
        BY <1>5, <3>3, <3>5, <4>6
      <4>8. t.chunks[1].from = 1
        BY <3>5, <4>4
      <4>9. \A i \in 1..(K - 1) : t.chunks[i + 1].from = t.chunks[i].to + 1
        BY <3>5, <4>5, <4>6
      <4> QED BY <4>6, <4>7, <4>8, <4>9, Zenon DEF WordsInOrder
    <3>9. ShortOrOneWord(words, sent, max)
      BY <1>3, <1>4, <1>5, <1>11 DEF RequestInv
    <3>10. Full(words, sent, max)
      <4>1. Length(words, sent) + words[n] + 1 > max
        <5>1. words[n] \in Nat
          OBVIOUS
        <5> QED BY <2>2, <2>4, <5>1 DEF Fits
      <4> QED BY <1>4, <1>5, <2>2, <4>1 DEF Full
    <3>11. ASSUME NEW i \in 1..(N + 1)
           PROVE  ShortOrOneWord(words, ts[i], max) /\ Full(words, ts[i], max)
      <4>1. CASE i \in 1..N
        BY <1>2, <3>4, <4>1 DEF RequestInv
      <4>2. CASE i = N + 1
        BY <3>3, <3>9, <3>10, <4>2
      <4> QED BY <1>2, <4>1, <4>2
    <3>12. ShortOrOneWord(words, Piece(n, n), max)
      <4>1. Size(Piece(n, n)) = 1
        BY <1>4, PieceIsPiece DEF Size
      <4> QED BY <4>1 DEF ShortOrOneWord
    <3> QED BY <1>6, <3>3, <3>5, <3>6, <3>7, <3>8, <3>11, <3>12 DEF RequestInv
  <2> QED BY <2>3, <2>4
<1> QED BY <1>4, <1>10, <1>11

\* g is the run of the loop of chunk_text.
RequestRun(words, g, max) ==
  /\ g[0] = [chunks |-> <<>>, from |-> 1]
  /\ \A n \in 0..Len(words) : g[n] \in RequestStates
  /\ \A n \in 1..Len(words) : g[n] = AddWord(words, g[n - 1], n, max)

\* The loop is the run it says it is.
LEMMA RequestTurnsTurn ==
  ASSUME NEW words \in Seq(Nat \ {0}), NEW max \in Nat \ {0}
  PROVE  RequestRun(words, RequestTurns(words, max), max)
<1>0. PICK L \in Nat : L = Len(words)
  OBVIOUS
<1> DEFINE g == RequestTurns(words, max)
           S == RequestStates
           s0 == [chunks |-> <<>>, from |-> 1]
           Turn(s, n) == AddWord(words, s, n, max)
<1>1. s0 \in S
  BY DEF RequestStates
<1>2. ASSUME NEW s \in S, NEW n \in 1..L PROVE Turn(s, n) \in S
  <2>1. n \in Nat /\ n - 1 \in Nat
    OBVIOUS
  <2>2. s.from \in Nat /\ s.chunks \in Seq(Pieces)
    BY DEF RequestStates
  <2>3. PICK sent \in Pieces : sent = Piece(s.from, n - 1)
    BY <2>1, <2>2, PieceIsPiece
  <2>4. Append(s.chunks, sent) \in Seq(Pieces)
    BY <2>2
  <2> QED BY <2>1, <2>3, <2>4 DEF AddWord, RequestStates
<1> HIDE DEF S, s0, Turn, g
<1> DEFINE step == [p \in S \X (1..L) |-> Turn(p[1], p[2])]
<1>3. step \in [S \X (1..L) -> S]
  BY <1>2
<1>4. PICK f \in [0..L -> S] : f[0] = s0 /\ \A n \in 1..L : f[n] = step[<<f[n - 1], n>>]
  <2> HIDE DEF step
  <2>1. HasRun(L, S, s0, step)
    BY <1>1, <1>3, LoopRuns
  <2> QED BY <2>1 DEF HasRun
<1>5. \A n \in 1..L : f[n] = Turn(f[n - 1], n)
  <2> TAKE n \in 1..L
  <2>1. n - 1 \in 0..L
    OBVIOUS
  <2>2. <<f[n - 1], n>> \in S \X (1..L)
    BY <2>1
  <2>3. step[<<f[n - 1], n>>] = Turn(f[n - 1], n)
    BY <2>2
  <2> QED BY <1>4, <2>3
<1>6. f = [n \in 0..L |-> IF n = 0 THEN s0 ELSE Turn(f[n - 1], n)]
  BY <1>4, <1>5
<1>7. g = CHOOSE h : h = [n \in 0..L |-> IF n = 0 THEN s0 ELSE Turn(h[n - 1], n)]
  BY <1>0, Zenon DEF RequestTurns, g, s0, Turn
<1>8. g = [n \in 0..L |-> IF n = 0 THEN s0 ELSE Turn(g[n - 1], n)]
  BY <1>6, <1>7, Zenon
<1>9. g[0] = s0 /\ \A n \in 1..L : g[n] = Turn(g[n - 1], n)
  BY <1>8
<1>10. \A n \in 0..L : g[n] \in S
  <2> DEFINE T == {n \in 0..L : g[n] \in S}
  <2>1. 0 \in T
    BY <1>1, <1>9
  <2>2. ASSUME NEW n \in 0..(L - 1), n \in T PROVE n + 1 \in T
    <3>1. n + 1 \in 1..L /\ n + 1 - 1 = n
      OBVIOUS
    <3>2. g[n + 1] = Turn(g[n], n + 1)
      BY <1>9, <3>1
    <3> QED BY <1>2, <2>2, <3>1, <3>2
  <2> HIDE DEF T
  <2>3. 0..L \subseteq T
    BY <2>1, <2>2, TurnInduction
  <2> QED BY <2>3 DEF T
<1> QED BY <1>0, <1>9, <1>10 DEF RequestRun, S, s0, Turn, g

\* The loop keeps what its turns keep.
LEMMA RequestTurnsKeep ==
  ASSUME NEW words \in Seq(Nat \ {0}), NEW max \in Nat \ {0},
         NEW s, s = RequestTurns(words, max)[Len(words)]
  PROVE  s \in RequestStates /\ RequestInv(words, s, Len(words), max)
<1>0. PICK L \in Nat : L = Len(words)
  OBVIOUS
<1>1. PICK g : g = RequestTurns(words, max) /\ RequestRun(words, g, max)
  BY RequestTurnsTurn
<1>2. g[0] = [chunks |-> <<>>, from |-> 1] /\ \A n \in 0..L : g[n] \in RequestStates
  BY <1>0, <1>1 DEF RequestRun
<1>3. \A n \in 1..L : g[n] = AddWord(words, g[n - 1], n, max)
  BY <1>0, <1>1 DEF RequestRun
<1> DEFINE T == {n \in 0..L : RequestInv(words, g[n], n, max)}
<1>4. 0 \in T
  <2>1. g[0].chunks = <<>> /\ g[0].from = 1 /\ Len(g[0].chunks) = 0
    BY <1>2
  <2>2. SentBegins(g[0], 0) /\ WordsInOrder(g[0])
    BY <2>1 DEF SentBegins, WordsInOrder
  <2>3. RequestInv(words, g[0], 0, max)
    BY <2>1, <2>2 DEF RequestInv
  <2> QED BY <2>3
<1>5. ASSUME NEW n \in 0..(L - 1), n \in T PROVE n + 1 \in T
  <2>1. PICK m \in 1..L : m = n + 1 /\ m - 1 = n /\ n \in 0..L /\ m \in 0..L
    OBVIOUS
  <2>2. g[m] = AddWord(words, g[n], m, max) /\ g[n] \in RequestStates
    BY <1>2, <1>3, <2>1
  <2>3. m \in 1..Len(words) /\ RequestInv(words, g[n], m - 1, max)
    BY <1>0, <1>5, <2>1
  <2>4. RequestInv(words, g[m], m, max)
    BY <2>2, <2>3, AddWordAddsWord
  <2> QED BY <2>1, <2>4
<1>6. 0..L \subseteq T
  <2> HIDE DEF T
  <2> QED BY <1>4, <1>5, TurnInduction
<1>7. L \in 0..L
  OBVIOUS
<1> QED BY <1>0, <1>1, <1>2, <1>6, <1>7

\* Every text of at least one word is cut right by chunk_text, whatever the model takes:
\* all of its words, in their order, in chunks that are full and none too long.
THEOREM EveryRequestIsCutRight ==
  ASSUME NEW max \in Nat \ {0}, NEW words \in Seq(Nat \ {0}), Len(words) > 0
  PROVE  RequestCutRight(words, max)
<1>0. PICK L \in Nat : L = Len(words) /\ L > 0
  OBVIOUS
<1>1. PICK s : s = RequestTurns(words, max)[Len(words)]
  OBVIOUS
<1>2. s \in RequestStates /\ RequestInv(words, s, L, max)
  BY <1>0, <1>1, RequestTurnsKeep
<1>3. PICK cs, N : cs = s.chunks /\ cs \in Seq(Pieces) /\ N \in Nat /\ N = Len(cs)
  BY <1>2 DEF RequestStates
<1>4. PICK a \in Nat : a = s.from /\ 1 <= a /\ a <= L
  BY <1>0, <1>2 DEF RequestStates, RequestInv, SentBegins
<1>5. PICK ks, K : ks = ChunkText(words, max) /\ K = Len(ks)
  OBVIOUS
<1>6. PICK all \in Pieces : all = Piece(1, L) /\ all.from = 1 /\ all.to = L
  BY PieceIsPiece
<1>7. ks = IF Length(words, all) <= max THEN <<all>> ELSE Append(cs, Piece(a, L))
  BY <1>0, <1>1, <1>3, <1>4, <1>5, <1>6 DEF ChunkText
<1>8. SUFFICES
        /\ K > 0 /\ ks[1].from = 1 /\ ks[K].to = L
        /\ \A i \in 1..K : ShortOrOneWord(words, ks[i], max)
        /\ \A i \in 1..(K - 1) : ks[i + 1].from = ks[i].to + 1 /\ Full(words, ks[i], max)
  BY <1>0, <1>5, Zenon DEF RequestCutRight, ShortOrOneWord, Full
<1>9. CASE Length(words, all) <= max
  <2>1. ks = <<all>> /\ K = 1 /\ ks[1] = all
    BY <1>5, <1>7, <1>9
  <2>2. ShortOrOneWord(words, all, max)
    BY <1>0, <1>6, <1>9 DEF ShortOrOneWord, Size
  <2> QED BY <1>6, <2>1, <2>2
<1>10. CASE ~ (Length(words, all) <= max)
  <2>1. PICK d \in Pieces : d = Piece(a, L) /\ d.from = a /\ d.to = L
    BY PieceIsPiece
  <2>2. ks = Append(cs, d)
    BY <1>7, <1>10, <2>1
  <2>3. K = N + 1 /\ ks[N + 1] = d
    BY <1>3, <1>5, <2>2, AppendAppends
  <2>4. \A i \in 1..N : ks[i] = cs[i]
    BY <1>3, <2>2, AppendAppends
  <2>5. /\ N = 0 => a = 1
        /\ N > 0 => cs[1].from = 1 /\ cs[N].to = a - 1
        /\ \A i \in 1..(N - 1) : cs[i + 1].from = cs[i].to + 1
    BY <1>2, <1>3, <1>4 DEF RequestInv, WordsInOrder
  <2>6. ks[1].from = 1
    <3>1. CASE N = 0
      BY <2>1, <2>3, <2>5, <3>1
    <3>2. CASE N > 0
      BY <1>3, <2>4, <2>5, <3>2
    <3> QED BY <1>3, <3>1, <3>2
  <2>7. ASSUME NEW i \in 1..N PROVE ks[i + 1].from = ks[i].to + 1
    <3>1. CASE i = N
      <4>1. N \in 1..N /\ N > 0
        BY <3>1
      <4>2. ks[i].to = a - 1
        BY <2>4, <2>5, <3>1, <4>1
      <4>3. ks[i + 1].from = a
        BY <2>1, <2>3, <3>1
      <4> QED BY <4>2, <4>3
    <3>2. CASE i \in 1..(N - 1)
      <4>1. i + 1 \in 1..N
        BY <1>3, <3>2
      <4> QED BY <2>4, <2>5, <3>2, <4>1
    <3> QED BY <1>3, <3>1, <3>2
  <2>8. ShortOrOneWord(words, d, max)
    BY <1>0, <1>2, <1>4, <2>1 DEF RequestInv
  <2>9. \A i \in 1..N : ShortOrOneWord(words, cs[i], max) /\ Full(words, cs[i], max)
    BY <1>2, <1>3 DEF RequestInv
  <2>10. \A i \in 1..(N + 1) : ShortOrOneWord(words, ks[i], max)
    <3> TAKE i \in 1..(N + 1)
    <3>1. CASE i \in 1..N
      BY <2>4, <2>9, <3>1
    <3>2. CASE i = N + 1
      BY <2>3, <2>8, <3>2
    <3> QED BY <1>3, <3>1, <3>2
  <2>11. K > 0 /\ K - 1 = N /\ ks[K].to = L
    BY <1>3, <2>1, <2>3
  <2> QED BY <2>3, <2>4, <2>6, <2>7, <2>9, <2>10, <2>11
<1> QED BY <1>9, <1>10

\* What RequestsCutRight checks of a few words holds of all: what a request says is its
\* words, in chunks that are full but the last.
THEOREM RequestsAreCutRight == Spec => []RequestsCutRight
<1>1. ASSUME NEW max \in MaxLengths,
             NEW words \in UNION {[1..n -> 1..(max + 1)] : n \in 1..MaxWords}
      PROVE  RequestCutRight(words, max)
  <2>1. max \in Nat \ {0}
    BY ChunkAssumption
  <2>2. PICK n \in 1..MaxWords : words \in [1..n -> 1..(max + 1)]
    OBVIOUS
  <2>3. n \in Nat /\ n > 0 /\ 1..(max + 1) \subseteq Nat \ {0}
    BY <2>1, ChunkAssumption
  <2>4. words \in Seq(Nat \ {0}) /\ Len(words) = n
    BY <2>2, <2>3
  <2> QED BY <2>1, <2>3, <2>4, EveryRequestIsCutRight
<1>2. RequestChunksRight
  BY <1>1 DEF RequestChunksRight
<1>3. RequestsCutRight
  BY <1>2 DEF RequestsCutRight
<1> QED BY <1>3, PTL
=============================================================================

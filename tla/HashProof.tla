------------------------------ MODULE HashProof ------------------------------
(***************************************************************************)
(* Theorems about the hash functions and what is made of them: the context *)
(* of a hash depends on the message alone, and so a digest, the output of  *)
(* an extendable-output function and a MAC are those of the whole message, *)
(* however it is cut.  The components share no state, so that each is      *)
(* proved of its own specification.                                        *)
(***************************************************************************)
EXTENDS Hash, Xof, Mac, SequenceTheorems, FiniteSetTheorems, WellFoundedInduction, TLAPS

\* The least of some numbers, which exists since numbers do not descend for ever.
LEMMA LeastNumber ==
  ASSUME NEW T \in SUBSET Nat, T # {}
  PROVE  \E x \in T : \A y \in T : x <= y
<1>1. IsWellFoundedOn(OpToRel(<, Nat), Nat)
  BY NatLessThanWellFounded
<1>2. PICK x \in T : \A y \in T : ~(<<y, x>> \in OpToRel(<, Nat))
  BY <1>1, WFMin
<1>3. ASSUME NEW y \in T, y < x PROVE <<y, x>> \in OpToRel(<, Nat)
  BY <1>3 DEF OpToRel
<1>4. \A y \in T : ~(y < x)
  BY <1>2, <1>3
<1> QED
  BY <1>4

-----------------------------------------------------------------------------
(* Sequences of anything, and division.                                    *)

IsSeq(s) == Len(s) \in Nat /\ s = [i \in 1 .. Len(s) |-> s[i]]

LEMMA FromSeq == ASSUME NEW S, NEW s \in Seq(S) PROVE IsSeq(s)
BY LenProperties DEF IsSeq

LEMMA SeqBy ==
  ASSUME NEW s, NEW n \in Nat, DOMAIN s = 1 .. n, s = [i \in DOMAIN s |-> s[i]]
  PROVE  IsSeq(s) /\ Len(s) = n
<1>1. s \in [1 .. n -> {s[i] : i \in 1 .. n}]
  OBVIOUS
<1>2. \A S : s \in [1 .. n -> S] => s \in Seq(S) /\ Len(s) = n
  OBVIOUS
<1>3. s \in Seq({s[i] : i \in 1 .. n}) /\ Len(s) = n
  BY <1>1, <1>2
<1> QED
  BY <1>3, FromSeq

\* Such a sequence is one over a set, which may be as large as one likes.
LEMMA InSeq ==
  ASSUME NEW s, IsSeq(s), NEW S, \A i \in 1 .. Len(s) : s[i] \in S
  PROVE  s \in Seq(S) /\ DOMAIN s = 1 .. Len(s)
<1>1. Len(s) \in Nat /\ s \in [1 .. Len(s) -> S]
  BY DEF IsSeq
<1>2. s \in Seq(S)
  BY <1>1
<1> QED
  BY <1>1, <1>2

LEMMA SameSeq ==
  ASSUME NEW s, IsSeq(s), NEW t, IsSeq(t), Len(s) = Len(t),
         \A i \in 1 .. Len(s) : s[i] = t[i]
  PROVE  s = t
BY DEF IsSeq

LEMMA NoCells == IsSeq(<<>>) /\ Len(<<>>) = 0 /\ \A s : IsSeq(s) /\ Len(s) = 0 => s = <<>>
<1>1. <<>> \in Seq({}) /\ Len(<<>>) = 0
  BY EmptySeq
<1>2. IsSeq(<<>>)
  BY <1>1 DEF IsSeq
<1>3. ASSUME NEW s, IsSeq(s), Len(s) = 0 PROVE s = <<>>
  BY <1>1, <1>2, <1>3, SameSeq
<1> QED
  BY <1>1, <1>2, <1>3

LEMMA OneCell == \A x : IsSeq(<<x>>) /\ Len(<<x>>) = 1 /\ <<x>>[1] = x
<1> TAKE x
<1>1. <<x>> \in Seq({x}) /\ Len(<<x>>) = 1 /\ <<x>>[1] = x
  OBVIOUS
<1> QED
  BY <1>1 DEF IsSeq
LEMMA TwoCells == \A x, y : IsSeq(<<x, y>>) /\ Len(<<x, y>>) = 2 /\ <<x, y>>[1] = x /\ <<x, y>>[2] = y
<1> TAKE x, y
<1>1. <<x, y>> \in Seq({x, y}) /\ Len(<<x, y>>) = 2 /\ <<x, y>>[1] = x /\ <<x, y>>[2] = y
  OBVIOUS
<1> QED
  BY <1>1 DEF IsSeq

LEMMA Joined ==
  ASSUME NEW s, IsSeq(s), NEW t, IsSeq(t)
  PROVE  /\ IsSeq(s \o t) /\ Len(s \o t) = Len(s) + Len(t)
         /\ \A i \in 1 .. Len(s) : (s \o t)[i] = s[i]
         /\ \A i \in 1 .. Len(t) : (s \o t)[Len(s) + i] = t[i]
<1> DEFINE S == {s[i] : i \in 1 .. Len(s)} \cup {t[i] : i \in 1 .. Len(t)}
<1>1. s \in Seq(S) /\ t \in Seq(S)
  BY InSeq
<1> HIDE DEF S
<1>2. Len(s) \in Nat /\ Len(t) \in Nat
  BY DEF IsSeq
<1>3. /\ s \o t \in Seq(S) /\ Len(s \o t) = Len(s) + Len(t)
      /\ \A i \in 1 .. Len(s) + Len(t) :
           (s \o t)[i] = IF i <= Len(s) THEN s[i] ELSE t[i - Len(s)]
  BY <1>1, ConcatProperties
<1>4. IsSeq(s \o t)
  BY <1>3, FromSeq
<1>5. ASSUME NEW i \in 1 .. Len(t) PROVE (s \o t)[Len(s) + i] = t[i]
  <2>1. Len(s) + i \in 1 .. Len(s) + Len(t) /\ ~(Len(s) + i <= Len(s)) /\ (Len(s) + i) - Len(s) = i
    BY <1>2
  <2> QED
    BY <1>3, <2>1
<1> QED
  BY <1>2, <1>3, <1>4, <1>5

LEMMA JoinedLeft ==
  ASSUME NEW s, IsSeq(s), NEW t, IsSeq(t), NEW u, IsSeq(u)
  PROVE  (s \o t) \o u = s \o (t \o u)
<1> DEFINE S == {s[i] : i \in 1 .. Len(s)} \cup {t[i] : i \in 1 .. Len(t)}
                  \cup {u[i] : i \in 1 .. Len(u)}
<1>1. s \in Seq(S) /\ t \in Seq(S) /\ u \in Seq(S)
  BY InSeq
<1> HIDE DEF S
<1> QED
  BY <1>1, ConcatAssociative
LEMMA JoinedNone == ASSUME NEW s, IsSeq(s) PROVE s \o <<>> = s /\ <<>> \o s = s
<1>1. s \in Seq({s[i] : i \in 1 .. Len(s)})
  BY InSeq
<1> QED
  BY <1>1, ConcatEmptySeq

LEMMA Cut ==
  ASSUME NEW s, NEW m \in Nat, NEW n \in Nat
  PROVE  /\ IsSeq(SubSeq(s, m, n)) /\ Len(SubSeq(s, m, n)) = IF m <= n THEN n - m + 1 ELSE 0
         /\ \A i \in 1 .. n - m + 1 : SubSeq(s, m, n)[i] = s[m + i - 1]
<1> DEFINE S == {s[i] : i \in m .. n}
<1>1. \A i \in m .. n : s[i] \in S
  OBVIOUS
<1> HIDE DEF S
<1>2. /\ SubSeq(s, m, n) \in Seq(S)
      /\ Len(SubSeq(s, m, n)) = IF m <= n THEN n - m + 1 ELSE 0
      /\ \A i \in 1 .. n - m + 1 : SubSeq(s, m, n)[i] = s[m + i - 1]
  BY <1>1, SubSeqProperties
<1> DEFINE c == SubSeq(s, m, n)
<1>3. IsSeq(c)
  <2> HIDE DEF c
  <2>1. c \in Seq(S)
    BY <1>2 DEF c
  <2> QED
    BY <2>1, FromSeq
<1> QED
  BY <1>2, <1>3

LEMMA Division ==
  ASSUME NEW a \in Nat, NEW d \in Nat, d > 0
  PROVE  /\ a \div d \in Nat /\ a % d \in 0 .. d - 1
         /\ a = (a \div d) * d + (a % d)
OBVIOUS
LEMMA Divided ==
  ASSUME NEW a \in Nat, NEW d \in Nat, d > 0, NEW q \in Nat, NEW r \in Nat, r < d, a = q * d + r
  PROVE  a \div d = q /\ a % d = r
<1> DEFINE p == a \div d
           s == a % d
<1>1. p \in Nat /\ s \in Nat /\ s < d /\ a = p * d + s
  BY Division
<1> HIDE DEF p, s
<1>2. ~(p < q)
  <2> SUFFICES ASSUME p < q PROVE FALSE
    OBVIOUS
  <2>1. PICK e \in Nat : q = p + 1 + e
    <3>1. q - p - 1 \in Nat /\ q = p + 1 + (q - p - 1)
      BY <1>1
    <3> QED
      BY <3>1
  <2>2. q * d = p * d + d + e * d /\ e * d \in Nat /\ p * d \in Nat
    BY <1>1, <2>1
  <2> QED
    BY <1>1, <2>2
<1>3. ~(q < p)
  <2> SUFFICES ASSUME q < p PROVE FALSE
    OBVIOUS
  <2>1. PICK e \in Nat : p = q + 1 + e
    <3>1. p - q - 1 \in Nat /\ p = q + 1 + (p - q - 1)
      BY <1>1
    <3> QED
      BY <3>1
  <2>2. p * d = q * d + d + e * d /\ e * d \in Nat /\ q * d \in Nat
    BY <1>1, <2>1
  <2> QED
    BY <1>1, <2>2
<1>4. p = q
  BY <1>1, <1>2, <1>3
<1>5. s = r
  <2>1. p * d \in Nat
    BY <1>1
  <2> QED
    BY <1>1, <1>4, <2>1
<1> QED
  BY <1>4, <1>5 DEF p, s

\* The same facts under names, so that a proof unfolds only what it needs.
IsJoin(z, s, t) ==
    /\ IsSeq(z) /\ Len(z) = Len(s) + Len(t)
    /\ \A i \in 1 .. Len(s) : z[i] = s[i]
    /\ \A i \in 1 .. Len(t) : z[Len(s) + i] = t[i]
LEMMA Joins == \A s, t : IsSeq(s) /\ IsSeq(t) => IsJoin(s \o t, s, t)
BY Joined DEF IsJoin

\* c is what s has after its first x cells up to the y-th.
IsCut(c, s, x, y) ==
    /\ IsSeq(c) /\ Len(c) = y - x
    /\ \A i \in 1 .. y - x : c[i] = s[x + i]
LEMMA Cuts == \A s : \A x, y \in Nat : x <= y => IsCut(SubSeq(s, x + 1, y), s, x, y)
<1> TAKE s
<1> TAKE x, y \in Nat
<1> HAVE x <= y
<1> DEFINE u == x + 1
           c == SubSeq(s, u, y)
<1>1. u \in Nat
  OBVIOUS
<1> HIDE DEF u
<1>2. /\ IsSeq(c) /\ Len(c) = IF u <= y THEN y - u + 1 ELSE 0
      /\ \A i \in 1 .. y - u + 1 : c[i] = s[u + i - 1]
  BY <1>1, Cut
<1> HIDE DEF c
<1>3. ASSUME NEW i \in 1 .. y - x PROVE c[i] = s[x + i]
  <2>1. i \in 1 .. y - u + 1 /\ u + i - 1 = x + i
    BY DEF u
  <2> QED
    BY <1>2, <2>1
<1>4. Len(c) = y - x
  BY <1>2 DEF u
<1>5. IsCut(c, s, x, y)
  BY <1>2, <1>3, <1>4 DEF IsCut
<1> QED
  BY <1>5 DEF c, u
\* From the first cell.
LEMMA Firsts == \A s : \A y \in Nat : IsCut(SubSeq(s, 1, y), s, 0, y)
<1> TAKE s
<1> TAKE y \in Nat
<1>1. 0 \in Nat /\ 0 <= y /\ 0 + 1 = 1
  OBVIOUS
<1>2. IsCut(SubSeq(s, 0 + 1, y), s, 0, y)
  BY <1>1, Cuts
<1> QED
  BY <1>1, <1>2
LEMMA SameCut == \A c, d, s, t, x, y, n : 
  IsCut(c, s, x, y) /\ IsCut(d, t, n + x, n + y) /\ n \in Nat /\ x \in Nat /\ y \in Nat
  /\ (\A i \in 1 .. y - x : s[x + i] = t[n + x + i]) => c = d
<1> TAKE c, d, s, t, x, y, n
<1> HAVE IsCut(c, s, x, y) /\ IsCut(d, t, n + x, n + y) /\ n \in Nat /\ x \in Nat /\ y \in Nat
         /\ (\A i \in 1 .. y - x : s[x + i] = t[n + x + i])
<1>1. IsSeq(c) /\ IsSeq(d) /\ Len(c) = y - x /\ Len(d) = y - x
  BY DEF IsCut
<1>2. ASSUME NEW i \in 1 .. y - x PROVE c[i] = d[i]
  <2>1. c[i] = s[x + i]
    BY DEF IsCut
  <2>2. i \in 1 .. (n + y) - (n + x)
    OBVIOUS
  <2>3. d[i] = t[n + x + i]
    BY <2>2 DEF IsCut
  <2> QED
    BY <2>1, <2>3
<1> QED
  BY <1>1, <1>2, SameSeq

-----------------------------------------------------------------------------
(* A message in pieces of B cells.                                         *)

PieceOf(B, cells, b) == SubSeq(cells, (b - 1) * B + 1, b * B)
PiecesOf(B, cells, n) == [b \in 1 .. n |-> SubSeq(cells, (b - 1) * B + 1, b * B)]
LEMMA PieceIs ==
  \A B \in Nat \ {0} : \A cells : \A b \in Nat \ {0} :
    IsCut(PieceOf(B, cells, b), cells, (b - 1) * B, (b - 1) * B + B)
<1> TAKE B \in Nat \ {0}
<1> TAKE cells
<1> TAKE b \in Nat \ {0}
<1> DEFINE from == (b - 1) * B
           to == b * B
<1>1. B \in Nat /\ B > 0
  OBVIOUS
<1>2. to = from + B /\ from \in Nat
  BY <1>1
<1>3. PieceOf(B, cells, b) = SubSeq(cells, from + 1, to)
  BY DEF PieceOf
<1> HIDE DEF from, to
<1>4. to \in Nat /\ from <= to
  BY <1>1, <1>2
<1>5. IsCut(SubSeq(cells, from + 1, to), cells, from, to)
  BY <1>2, <1>4, Cuts
<1>6. IsCut(PieceOf(B, cells, b), cells, from, from + B)
  BY <1>2, <1>3, <1>5
<1> QED
  BY <1>6 DEF from

LEMMA PiecesAre ==
  ASSUME NEW B \in Nat \ {0}, NEW cells, NEW n \in Nat
  PROVE  /\ IsSeq(PiecesOf(B, cells, n)) /\ Len(PiecesOf(B, cells, n)) = n
         /\ \A b \in 1 .. n : PiecesOf(B, cells, n)[b] = PieceOf(B, cells, b)
<1> DEFINE all == PiecesOf(B, cells, n)
<1>1. all = [b \in 1 .. n |-> PieceOf(B, cells, b)]
  BY DEF PiecesOf, PieceOf
<1> HIDE DEF all
<1>2. DOMAIN all = 1 .. n /\ all = [b \in DOMAIN all |-> all[b]]
  BY <1>1
<1>3. IsSeq(all) /\ Len(all) = n
  BY <1>2, SeqBy
<1> QED
  BY <1>1, <1>3 DEF all

\* Where the block before the last of k starts and ends.
LEMMA PieceInside ==
  ASSUME NEW B \in Nat \ {0}, NEW k \in Nat, NEW b \in 1 .. k
  PROVE  /\ (b - 1) * B \in Nat /\ b \in Nat \ {0}
         /\ (b - 1) * B + B <= k * B
<1> DEFINE from == (b - 1) * B
           after == (k - b) * B
           all == k * B
<1>1. B \in Nat
  OBVIOUS
<1>2. from \in Nat /\ after \in Nat /\ all = from + B + after
  BY <1>1
<1> HIDE DEF from, after, all
<1>3. from + B <= all /\ from \in Nat
  BY <1>1, <1>2
<1>4. b \in Nat \ {0}
  OBVIOUS
<1> QED
  BY <1>3, <1>4 DEF from, all

\* Two messages that agree up to the end of their k-th block.
LEMMA PiecesAgree ==
  ASSUME NEW B \in Nat \ {0}, NEW s, NEW t, NEW k \in Nat, \A i \in 1 .. k * B : s[i] = t[i]
  PROVE  PiecesOf(B, s, k) = PiecesOf(B, t, k)
<1> DEFINE x == PiecesOf(B, s, k)
           y == PiecesOf(B, t, k)
           end == k * B
<1>1. B \in Nat /\ B > 0
  OBVIOUS
<1>2. /\ IsSeq(x) /\ Len(x) = k /\ IsSeq(y) /\ Len(y) = k
      /\ \A b \in 1 .. k : x[b] = PieceOf(B, s, b) /\ y[b] = PieceOf(B, t, b)
  BY PiecesAre
<1>0. \A i \in 1 .. end : s[i] = t[i]
  OBVIOUS
<1>e. end \in Nat
  BY <1>1
<1> HIDE DEF x, y
<1>3. ASSUME NEW b \in 1 .. k PROVE x[b] = y[b]
  <2> DEFINE from == (b - 1) * B
  <2>1. from \in Nat /\ b \in Nat \ {0} /\ from + B <= end
    BY PieceInside
  <2>2. /\ IsCut(PieceOf(B, s, b), s, from, from + B)
        /\ IsCut(PieceOf(B, t, b), t, from, from + B)
    BY <2>1, PieceIs
  <2> HIDE DEF from, end
  <2>3. from + B \in Nat /\ 0 + from = from /\ 0 \in Nat
        /\ 0 + (from + B) = from + B
    BY <1>1, <2>1
  <2>4. \A i \in 1 .. (from + B) - from : s[from + i] = t[0 + from + i]
    BY <1>0, <1>1, <1>e, <2>1
  <2> DEFINE to == from + B
             zero == 0
  <2>5. /\ IsCut(PieceOf(B, s, b), s, from, to) /\ IsCut(PieceOf(B, t, b), t, zero + from, zero + to)
        /\ zero \in Nat /\ from \in Nat /\ to \in Nat
        /\ \A i \in 1 .. to - from : s[from + i] = t[zero + from + i]
    BY <2>1, <2>2, <2>3, <2>4
  <2> HIDE DEF to, zero
  <2>6. PieceOf(B, s, b) = PieceOf(B, t, b)
    BY <2>5, SameCut
  <2> QED
    BY <1>2, <2>6
<1>4. x = y
  BY <1>2, <1>3, SameSeq
<1> QED
  BY <1>4 DEF x, y

\* m blocks of the message after the j-th.
PiecesFrom(B, cells, j, more, m) ==
    IsSeq(more) /\ Len(more) = m /\ \A b \in 1 .. m : more[b] = PieceOf(B, cells, j + b)
LEMMA MorePieces == \A B \in Nat \ {0} : \A cells, more : \A j, m \in Nat :
  PiecesFrom(B, cells, j, more, m) => PiecesOf(B, cells, j) \o more = PiecesOf(B, cells, j + m)
<1> TAKE B \in Nat \ {0}
<1> TAKE cells, more
<1> TAKE j, m \in Nat
<1> HAVE PiecesFrom(B, cells, j, more, m)
<1>0. IsSeq(more) /\ Len(more) = m
  BY DEF PiecesFrom
<1> DEFINE x == PiecesOf(B, cells, j)
           y == PiecesOf(B, cells, j + m)
           z == x \o more
<1>1. /\ IsSeq(x) /\ Len(x) = j /\ IsSeq(y) /\ Len(y) = j + m
      /\ \A b \in 1 .. j : x[b] = PieceOf(B, cells, b)
      /\ \A b \in 1 .. j + m : y[b] = PieceOf(B, cells, b)
  BY PiecesAre
<1> HIDE DEF x, y
<1>2. IsJoin(z, x, more)
  BY <1>0, <1>1, Joins
<1> HIDE DEF z
<1>3. ASSUME NEW b \in 1 .. j + m PROVE z[b] = y[b]
  <2>1. CASE b <= j
    <3>1. b \in 1 .. j
      BY <2>1
    <3> QED
      BY <1>1, <1>2, <3>1 DEF IsJoin
  <2>2. CASE ~(b <= j)
    <3> DEFINE c == b - j
    <3>1. c \in 1 .. m /\ j + c = b
      BY <2>2
    <3> HIDE DEF c
    <3>2. z[j + c] = more[c]
      BY <1>0, <1>1, <1>2, <3>1 DEF IsJoin
    <3>3. more[c] = PieceOf(B, cells, j + c)
      BY <3>1 DEF PiecesFrom
    <3> QED
      BY <1>1, <3>1, <3>2, <3>3
  <2> QED
    BY <2>1, <2>2
<1>4. z = y
  BY <1>0, <1>1, <1>2, <1>3, SameSeq DEF IsJoin
<1> QED
  BY <1>4 DEF x, y, z
LEMMA OnePiece == \A B \in Nat \ {0} : \A cells, block : \A j \in Nat :
  block = PieceOf(B, cells, j + 1) => PiecesOf(B, cells, j) \o <<block>> = PiecesOf(B, cells, j + 1)
<1> TAKE B \in Nat \ {0}
<1> TAKE cells, block
<1> TAKE j \in Nat
<1> HAVE block = PieceOf(B, cells, j + 1)
<1> DEFINE more == <<block>>
<1>1. IsSeq(more) /\ Len(more) = 1 /\ more[1] = block
  BY OneCell
<1> HIDE DEF more
<1>2. ASSUME NEW b \in 1 .. 1 PROVE more[b] = PieceOf(B, cells, j + b)
  <2>1. b = 1
    OBVIOUS
  <2> QED
    BY <1>1, <2>1
<1>3. PiecesFrom(B, cells, j, more, 1) /\ 1 \in Nat
  BY <1>1, <1>2 DEF PiecesFrom
<1> DEFINE one == 1
<1> HIDE DEF one
<1>4. PiecesOf(B, cells, j) \o more = PiecesOf(B, cells, j + one)
  BY <1>3, MorePieces DEF one
<1> QED
  BY <1>4 DEF more, one

-----------------------------------------------------------------------------
(* HashEngines: SHA-256.                                                   *)

WholeBlocks(cells, n) == PiecesOf(HashBlock, cells, n)
CountOf(n) == [low |-> n % HashWord, high |-> (n \div HashWord) % HashWord]

\* The cells were given to ctx: the whole blocks were processed, the rest is at the
\* start of the buffer. What is after it there does not matter.
Absorbed(ctx, cells) ==
    /\ IsSeq(cells) /\ IsSeq(ctx.buffer) /\ Len(ctx.buffer) = HashBlock
    /\ ctx.state = WholeBlocks(cells, Len(cells) \div HashBlock)
    /\ \A i \in 1 .. Len(cells) % HashBlock :
         ctx.buffer[i] = cells[(Len(cells) \div HashBlock) * HashBlock + i]

\* They were, and counted.
Hashed(ctx, cells) == Absorbed(ctx, cells) /\ ctx.total = CountOf(Len(cells))

\* They were, and counted but for as many times HashWord of them.
HashedButFor(ctx, cells, lost) ==
    /\ Absorbed(ctx, cells)
    /\ \E counted \in Nat :
         counted + lost * HashWord = Len(cells) /\ ctx.total = CountOf(counted)

LEMMA HashNumbers ==
  /\ HashBlock \in Nat /\ HashBlock > 3 /\ HashWord \in Nat /\ HashWord > HashBlock
  /\ HashSize \in Nat /\ HashSize > 0 /\ HashSize <= HashBlock
  /\ ByteBits \in Nat /\ ByteBits > 0
  /\ \E w \in Nat : HashWord = w * HashBlock
<1>1. /\ HashBlock \in Nat /\ HashBlock > 3 /\ HashWord \in Nat /\ HashWord > HashBlock
      /\ HashSize \in Nat /\ HashSize > 0 /\ HashSize <= HashBlock
      /\ ByteBits \in Nat /\ ByteBits > 0 /\ HashWord % HashBlock = 0
  BY HashAssumption
<1>2. HashWord \div HashBlock \in Nat
      /\ HashWord = (HashWord \div HashBlock) * HashBlock + (HashWord % HashBlock)
  BY <1>1, Division
<1>3. HashWord = (HashWord \div HashBlock) * HashBlock
  <2>1. (HashWord \div HashBlock) * HashBlock \in Nat
    BY <1>1, <1>2
  <2> QED
    BY <1>1, <1>2, <2>1
<1> QED
  BY <1>1, <1>2, <1>3

\* The low word tells how far the buffer is filled.
LEMMA LowWord == ASSUME NEW n \in Nat PROVE (n % HashWord) % HashBlock = n % HashBlock
<1>1. HashBlock \in Nat /\ HashBlock > 0 /\ HashWord \in Nat /\ HashWord > 0
  BY HashNumbers
<1>2. PICK w \in Nat : HashWord = w * HashBlock
  BY HashNumbers
<1> DEFINE q == n \div HashWord
           low == n % HashWord
           c == low \div HashBlock
           r == low % HashBlock
<1>3. q \in Nat /\ low \in Nat /\ n = q * HashWord + low
  BY <1>1, Division
<1> HIDE DEF low, q
<1>4. c \in Nat /\ r \in Nat /\ r < HashBlock /\ low = c * HashBlock + r
  BY <1>1, <1>3, Division
<1> HIDE DEF c, r
<1>5. q * HashWord = (q * w) * HashBlock /\ q * w \in Nat
  BY <1>1, <1>2, <1>3
<1>6. n = (q * w + c) * HashBlock + r /\ q * w + c \in Nat
  <2>1. (q * w + c) * HashBlock = (q * w) * HashBlock + c * HashBlock
    BY <1>1, <1>4, <1>5
  <2>2. (q * w) * HashBlock \in Nat /\ c * HashBlock \in Nat
    BY <1>1, <1>4, <1>5
  <2> QED
    BY <1>3, <1>4, <1>5, <2>1, <2>2
<1>7. n % HashBlock = r
  BY <1>1, <1>4, <1>6, Divided
<1> QED
  BY <1>7 DEF r, low

\* The count with its carry.
CountWord(total, n) ==
    LET low == (total.low + n) % HashWord
    IN  [low |-> low, high |-> IF low < n THEN (total.high + 1) % HashWord ELSE total.high]
LEMMA CountedWord ==
  ASSUME NEW n \in Nat, NEW m \in Nat, m < HashWord
  PROVE  CountWord(CountOf(n), m) = CountOf(n + m)
<1> DEFINE W == HashWord
           q == n \div W
           low == n % W
           p == q \div W
           s == q % W
<1>1. W \in Nat /\ W > 1
  BY HashNumbers
<1>2. q \in Nat /\ low \in Nat /\ low < W /\ n = q * W + low
  BY <1>1, Division
<1>3. p \in Nat /\ s \in Nat /\ s < W /\ q = p * W + s
  BY <1>1, <1>2, Division
<1>4. CountOf(n).low = low /\ CountOf(n).high = s
  BY DEF CountOf
<1>5. CountOf(n + m) = [low |-> (n + m) % W, high |-> ((n + m) \div W) % W]
  BY DEF CountOf
<1>6. CountWord(CountOf(n), m) = [low |-> (low + m) % W,
                                  high |-> IF (low + m) % W < m THEN (s + 1) % W ELSE s]
  BY <1>4 DEF CountWord
<1> HIDE DEF W, q, low, p, s
<1>0. q * W \in Nat /\ p * W \in Nat
  BY <1>1, <1>2, <1>3
<1>7. CASE low + m < W
  <2>1. n + m = q * W + (low + m) /\ low + m \in Nat
    BY <1>0, <1>2
  <2>2. (n + m) \div W = q /\ (n + m) % W = low + m
    BY <1>1, <1>2, <1>7, <2>1, Divided
  <2>3. (low + m) % W = low + m
    BY <1>1, <1>7, <2>1
  <2>4. ~(low + m < m)
    BY <1>2
  <2> QED
    BY <1>5, <1>6, <2>2, <2>3, <2>4 DEF s
<1>8. CASE ~(low + m < W)
  <2> DEFINE r == low + m - W
  <2>1. r \in Nat /\ r < W /\ r < m /\ low + m = W + r
    BY <1>1, <1>2, <1>8, m < HashWord DEF W
  <2> HIDE DEF r
  <2>2. n + m = (q + 1) * W + r
    <3>1. (q + 1) * W = q * W + W
      BY <1>1, <1>2
    <3> QED
      BY <1>0, <1>1, <1>2, <2>1, <3>1
  <2>3. (n + m) \div W = q + 1 /\ (n + m) % W = r
    BY <1>1, <1>2, <2>1, <2>2, Divided
  <2>4. (low + m) % W = r
    <3>1. low + m = 1 * W + r
      BY <1>1, <2>1
    <3> QED
      BY <1>1, <1>2, <2>1, <3>1, Divided
  <2>5. (q + 1) % W = (s + 1) % W
    <3>1. CASE s + 1 < W
      <4>1. q + 1 = p * W + (s + 1)
        BY <1>0, <1>3
      <4>2. (q + 1) % W = s + 1
        BY <1>1, <1>2, <1>3, <3>1, <4>1, Divided
      <4> QED
        BY <1>1, <1>3, <3>1, <4>2
    <3>2. CASE ~(s + 1 < W)
      <4>1. s + 1 = W
        BY <1>1, <1>3, <3>2
      <4>2. q + 1 = (p + 1) * W + 0
        <5>1. (p + 1) * W = p * W + W
          BY <1>1, <1>3
        <5> QED
          BY <1>0, <1>1, <1>3, <4>1, <5>1
      <4>3. (q + 1) % W = 0
        BY <1>1, <1>2, <1>3, <4>2, Divided
      <4>4. s + 1 = 1 * W + 0
        BY <1>1, <4>1
      <4>5. (s + 1) % W = 0
        BY <1>1, <1>3, <4>4, Divided
      <4> QED
        BY <4>3, <4>5
    <3> QED
      BY <3>1, <3>2
  <2> QED
    BY <1>5, <1>6, <2>1, <2>3, <2>4, <2>5
<1> QED
  BY <1>7, <1>8
LEMMA Counted ==
  ASSUME NEW n \in Nat, NEW m \in Nat
  PROVE  Count(CountOf(n), m) = CountOf(n + (m % HashWord))
<1>1. HashWord \in Nat /\ HashWord > 0
  BY HashNumbers
<1> DEFINE added == m % HashWord
<1>2. added \in Nat /\ added < HashWord
  BY <1>1, Division
<1>3. Count(CountOf(n), m) = CountWord(CountOf(n), added)
  BY DEF Count, CountWord
<1> HIDE DEF added
<1>4. CountWord(CountOf(n), added) = CountOf(n + added)
  BY <1>2, CountedWord
<1> QED
  BY <1>3, <1>4 DEF added

\* The two words of the number of bits, as long as it has no third one.
LEMMA BitsOf ==
  ASSUME NEW n \in Nat, n * ByteBits < HashWord * HashWord
  PROVE  /\ BitsHigh(CountOf(n)) = (n * ByteBits) \div HashWord
         /\ BitsLow(CountOf(n)) = (n * ByteBits) % HashWord
<1> DEFINE W == HashWord
           B == ByteBits
           q == n \div W
           low == n % W
           a == (low * B) \div W
           c == (low * B) % W
<1>1. W \in Nat /\ W > 0 /\ B \in Nat /\ B > 0
  BY HashNumbers
<1>2. q \in Nat /\ low \in Nat /\ n = q * W + low
  BY <1>1, Division
<1>3. low * B \in Nat
  BY <1>1, <1>2
<1>4. a \in Nat /\ c \in Nat /\ c < W /\ low * B = a * W + c
  BY <1>1, <1>3, Division
<1>5. /\ BitsHigh(CountOf(n)) = a + (((q % W) * B) % W)
      /\ BitsLow(CountOf(n)) = c
  BY DEF BitsHigh, BitsLow, CountOf
<1>6. n * B < W * W
  OBVIOUS
<1> HIDE DEF W, B, q, low, a, c
<1>7. n * B = (q * B) * W + low * B /\ q * B \in Nat /\ (q * B) * W \in Nat
  BY <1>1, <1>2
<1>8. q * B < W
  <2> SUFFICES ASSUME W <= q * B PROVE FALSE
    BY <1>1, <1>7
  <2>1. PICK e \in Nat : q * B = W + e
    <3>1. q * B - W \in Nat /\ q * B = W + (q * B - W)
      BY <1>1, <1>7
    <3> QED
      BY <3>1
  <2>2. (q * B) * W = W * W + e * W /\ e * W \in Nat /\ W * W \in Nat
    BY <1>1, <2>1
  <2> QED
    BY <1>3, <1>6, <1>7, <2>2
<1>9. q < W
  <2>1. PICK e \in Nat : B = e + 1
    <3>1. B - 1 \in Nat /\ B = (B - 1) + 1
      BY <1>1
    <3> QED
      BY <3>1
  <2>2. q * B = q * e + q /\ q * e \in Nat
    BY <1>2, <2>1
  <2> QED
    BY <1>1, <1>2, <1>8, <2>2
<1>10. q % W = q /\ (q * B) % W = q * B
  BY <1>1, <1>2, <1>7, <1>8, <1>9
<1>11. n * B = (a + q * B) * W + c
  <2>1. (a + q * B) * W = a * W + (q * B) * W /\ a * W \in Nat
    BY <1>1, <1>4, <1>7
  <2> QED
    BY <1>4, <1>7, <2>1
<1>12. (n * B) \div W = a + q * B /\ (n * B) % W = c
  <2>1. n * B \in Nat /\ a + q * B \in Nat
    BY <1>1, <1>4, <1>7
  <2> QED
    BY <1>1, <1>4, <1>11, <2>1, Divided
<1> QED
  BY <1>5, <1>10, <1>12 DEF W, B

\* The buffer after a copy of cells into it.
IsPut(put, buffer, at, cells) ==
    /\ IsSeq(put) /\ Len(put) = Len(buffer)
    /\ \A i \in 1 .. Len(buffer) :
         put[i] = IF at < i /\ i <= at + Len(cells) THEN cells[i - at] ELSE buffer[i]
LEMMA Puts == \A buffer, at, cells :
  IsSeq(buffer) => IsPut(Put(buffer, at, cells), buffer, at, cells)
<1> TAKE buffer, at, cells
<1> HAVE IsSeq(buffer)
<1>1. Len(buffer) \in Nat /\ DOMAIN buffer = 1 .. Len(buffer)
  BY DEF IsSeq
<1> DEFINE put == Put(buffer, at, cells)
<1>2. put = [i \in 1 .. Len(buffer) |->
               IF at < i /\ i <= at + Len(cells) THEN cells[i - at] ELSE buffer[i]]
  BY <1>1 DEF Put
<1>3. DOMAIN put = 1 .. Len(buffer) /\ put = [i \in DOMAIN put |-> put[i]]
  BY <1>2
<1>4. \A i \in 1 .. Len(buffer) :
        put[i] = IF at < i /\ i <= at + Len(cells) THEN cells[i - at] ELSE buffer[i]
  BY <1>2
<1> HIDE DEF put
<1>5. IsSeq(put) /\ Len(put) = Len(buffer)
  BY <1>1, <1>3, SeqBy
<1>6. IsPut(put, buffer, at, cells)
  BY <1>4, <1>5 DEF IsPut
<1> QED
  BY <1>6 DEF put

\* The bytes of some blocks.
BytesIn(n) == n * HashBlock
LEMMA BytesAdd ==
  /\ \A n \in Nat : BytesIn(n) \in Nat
  /\ \A n, m \in Nat : BytesIn(n + m) = BytesIn(n) + BytesIn(m)
  /\ BytesIn(0) = 0 /\ BytesIn(1) = HashBlock
<1>1. HashBlock \in Nat
  BY HashNumbers
<1>2. ASSUME NEW n \in Nat PROVE BytesIn(n) \in Nat
  BY <1>1 DEF BytesIn
<1>3. ASSUME NEW n \in Nat, NEW m \in Nat PROVE BytesIn(n + m) = BytesIn(n) + BytesIn(m)
  BY <1>1 DEF BytesIn
<1>4. BytesIn(0) = 0 /\ BytesIn(1) = HashBlock
  BY <1>1 DEF BytesIn
<1> QED
  BY <1>2, <1>3, <1>4

\* The blocks of a message.
BlockOf(cells, b) == PieceOf(HashBlock, cells, b)
BlocksFrom(cells, j, more, m) == PiecesFrom(HashBlock, cells, j, more, m)
LEMMA HashBlockSize == HashBlock \in Nat \ {0}
BY HashNumbers
LEMMA Blocks ==
  \A cells : \A b \in Nat \ {0} :
    IsCut(BlockOf(cells, b), cells, (b - 1) * HashBlock, (b - 1) * HashBlock + HashBlock)
BY HashBlockSize, PieceIs DEF BlockOf
LEMMA BlocksAre ==
  ASSUME NEW cells, NEW n \in Nat
  PROVE  /\ IsSeq(WholeBlocks(cells, n)) /\ Len(WholeBlocks(cells, n)) = n
         /\ \A b \in 1 .. n : WholeBlocks(cells, n)[b] = BlockOf(cells, b)
BY HashBlockSize, PiecesAre DEF BlockOf, WholeBlocks
LEMMA BlocksAgree ==
  ASSUME NEW s, NEW t, NEW k \in Nat, \A i \in 1 .. k * HashBlock : s[i] = t[i]
  PROVE  WholeBlocks(s, k) = WholeBlocks(t, k)
BY HashBlockSize, PiecesAgree DEF WholeBlocks
LEMMA MoreBlocks == \A cells, more : \A j, m \in Nat :
  BlocksFrom(cells, j, more, m) => WholeBlocks(cells, j) \o more = WholeBlocks(cells, j + m)
BY HashBlockSize, MorePieces DEF WholeBlocks, BlocksFrom
LEMMA OneBlock == \A cells, block : \A j \in Nat :
  block = BlockOf(cells, j + 1) => WholeBlocks(cells, j) \o <<block>> = WholeBlocks(cells, j + 1)
BY HashBlockSize, OnePiece DEF WholeBlocks, BlockOf

\* Cells of the input as cells of the whole message.
LEMMA LaterCells ==
  ASSUME NEW s, IsSeq(s), NEW t, IsSeq(t), NEW x \in Nat, NEW y \in Nat, x <= y, y <= Len(t)
  PROVE  /\ IsCut(SubSeq(t, x + 1, y), s \o t, Len(s) + x, Len(s) + y)
         /\ SubSeq(t, x + 1, y) = SubSeq(s \o t, Len(s) + x + 1, Len(s) + y)
<1> DEFINE n == Len(s)
           all == s \o t
           u == n + x
           v == n + y
           c == SubSeq(t, x + 1, y)
           d == SubSeq(all, u + 1, v)
<1>1. n \in Nat /\ Len(t) \in Nat
  BY DEF IsSeq
<1>2. IsJoin(all, s, t)
  BY Joins
<1> HIDE DEF all
<1>3. \A i \in 1 .. Len(t) : all[n + i] = t[i]
  BY <1>2 DEF IsJoin
<1> HIDE DEF n
<1>4. u \in Nat /\ v \in Nat /\ u <= v /\ v - u = y - x
  BY <1>1
<1>5. IsCut(c, t, x, y)
  BY Cuts
<1>6. IsCut(d, all, u, v)
  <2> HIDE DEF u, v
  <2> QED
    BY <1>4, Cuts
<1>7. ASSUME NEW i \in 1 .. y - x PROVE t[x + i] = all[n + x + i]
  <2>1. x + i \in 1 .. Len(t) /\ n + x + i = n + (x + i)
    BY <1>1
  <2> QED
    BY <1>3, <2>1
<1> HIDE DEF c, d
<1>8. c = d
  BY <1>1, <1>5, <1>6, <1>7, SameCut
<1> QED
  BY <1>6, <1>8 DEF c, d, u, v, n, all

\* The whole blocks of the input after what was taken.
WholeOf(input, taken, blocks) ==
    [b \in 1 .. blocks |->
        SubSeq(input, taken + (b - 1) * HashBlock + 1, taken + b * HashBlock)]
LEMMA Wholes ==
  ASSUME NEW cells, IsSeq(cells), NEW input, IsSeq(input), NEW taken \in Nat, NEW j \in Nat,
         NEW blocks \in Nat, BytesIn(j) = Len(cells) + taken, taken + BytesIn(blocks) <= Len(input)
  PROVE  BlocksFrom(cells \o input, j, WholeOf(input, taken, blocks), blocks)
<1> DEFINE B == HashBlock
           whole == WholeOf(input, taken, blocks)
<1>1. B \in Nat /\ B > 0 /\ Len(cells) \in Nat /\ Len(input) \in Nat
  BY HashNumbers DEF IsSeq
<1>2. whole = [b \in 1 .. blocks |-> SubSeq(input, taken + (b - 1) * B + 1, taken + b * B)]
  BY DEF WholeOf
<1> HIDE DEF whole
<1>3. DOMAIN whole = 1 .. blocks /\ whole = [b \in DOMAIN whole |-> whole[b]]
  BY <1>2
<1>4. IsSeq(whole) /\ Len(whole) = blocks
  BY <1>3, SeqBy
<1>5. ASSUME NEW b \in 1 .. blocks PROVE whole[b] = BlockOf(cells \o input, j + b)
  <2> DEFINE n == Len(cells)
             from == (b - 1) * B
             to == b * B
             x == taken + from
             y == taken + to
  <2>1. from \in Nat /\ to \in Nat /\ to = from + B /\ y <= Len(input)
    <3>1. from \in Nat /\ from + B <= blocks * B /\ to = from + B
      BY <1>1, PieceInside
    <3>2. taken + blocks * B <= Len(input) /\ blocks * B \in Nat
      BY <1>1 DEF BytesIn
    <3> HIDE DEF from, to
    <3> QED
      BY <1>1, <3>1, <3>2 DEF B
  <2>2. ((j + b) - 1) * B = n + taken + from /\ (j + b) * B = n + taken + to
    <3>1. ((j + b) - 1) * B = j * B + from /\ (j + b) * B = j * B + to
      BY <1>1
    <3> HIDE DEF from, to
    <3> QED
      BY <3>1 DEF B, BytesIn
  <2>3. whole[b] = SubSeq(input, x + 1, y)
    BY <1>2
  <2>0. BlockOf(cells \o input, j + b) = SubSeq(cells \o input, ((j + b) - 1) * B + 1, (j + b) * B)
    BY Zenon DEF BlockOf, PieceOf
  <2> HIDE DEF from, to, B
  <2>4. x \in Nat /\ y \in Nat /\ x <= y /\ y <= Len(input)
    BY <1>1, <2>1
  <2>5. n + x + 1 = n + taken + from + 1 /\ n + y = n + taken + to
    BY <1>1, <2>1
  <2> HIDE DEF x, y
  <2>6. SubSeq(input, x + 1, y) = SubSeq(cells \o input, n + x + 1, n + y)
    BY <2>4, LaterCells
  <2> QED
    BY <2>0, <2>2, <2>3, <2>5, <2>6
<1> QED
  BY <1>4, <1>5 DEF BlocksFrom, PiecesFrom, BlockOf, whole, B

IsAll(all, cells, input) == IsSeq(cells) /\ IsSeq(input) /\ all = cells \o input
LEMMA AllJoins == \A all, cells, input : IsAll(all, cells, input) => IsJoin(all, cells, input)
BY Joins DEF IsAll

\* What an update makes of the context, piece by piece.
Left(ctx) == ctx.total.low % HashBlock
Completes(ctx, input) == Left(ctx) # 0 /\ Len(input) >= HashBlock - Left(ctx)
Taken(ctx, input) == IF Completes(ctx, input) THEN HashBlock - Left(ctx) ELSE 0
FirstBuffer(ctx, input) == Put(ctx.buffer, Left(ctx), SubSeq(input, 1, Taken(ctx, input)))
BlocksLeft(ctx, input) == (Len(input) - Taken(ctx, input)) \div HashBlock
RestOf(ctx, input) ==
    SubSeq(input, Taken(ctx, input) + BlocksLeft(ctx, input) * HashBlock + 1, Len(input))
LEMMA UpdateIs ==
  ASSUME NEW ctx, NEW input, input # <<>>
  PROVE  LET new == mbedtls_sha256_update(ctx, input) IN
         /\ new.total = Count(ctx.total, Len(input))
         /\ new.buffer = Put(FirstBuffer(ctx, input),
                             IF Completes(ctx, input) THEN 0 ELSE Left(ctx), RestOf(ctx, input))
         /\ new.state = ctx.state
                          \o (IF Completes(ctx, input) THEN <<FirstBuffer(ctx, input)>> ELSE <<>>)
                          \o WholeOf(input, Taken(ctx, input), BlocksLeft(ctx, input))
BY DEF mbedtls_sha256_update, Left, Completes, Taken, FirstBuffer, BlocksLeft, RestOf, WholeOf

\* What the context holds of the cells, with the numbers named.
HeldBy(ctx, cells, k, base, left) ==
    /\ IsSeq(cells) /\ IsSeq(ctx.buffer) /\ Len(ctx.buffer) = HashBlock
    /\ k \in Nat /\ base \in Nat /\ left \in Nat /\ left < HashBlock
    /\ base = BytesIn(k) /\ Len(cells) = base + left
    /\ ctx.state = WholeBlocks(cells, k)
    /\ \A i \in 1 .. left : ctx.buffer[i] = cells[base + i]
LEMMA AbsorbedHolds ==
  ASSUME NEW ctx, NEW cells, NEW lost \in Nat, HashedButFor(ctx, cells, lost)
  PROVE  \E k, base : HeldBy(ctx, cells, k, base, Left(ctx))
<1> DEFINE n == Len(cells)
           k == n \div HashBlock
           left == n % HashBlock
           base == k * HashBlock
<1>1. n \in Nat /\ HashBlock \in Nat /\ HashBlock > 0
  BY HashNumbers DEF HashedButFor, Absorbed, IsSeq
<1>2. k \in Nat /\ left \in 0 .. HashBlock - 1 /\ n = base + left
  BY <1>1, Division
<1>b. base \in Nat
  BY <1>1, <1>2
<1>3. PICK counted \in Nat : counted + lost * HashWord = n /\ ctx.total = CountOf(counted)
  BY DEF HashedButFor
<1>4. Left(ctx) = left
  <2>1. ctx.total.low = counted % HashWord
    BY <1>3 DEF CountOf
  <2>2. Left(ctx) = counted % HashBlock
    BY <1>3, <2>1, LowWord DEF Left
  <2>3. PICK w \in Nat : HashWord = w * HashBlock
    BY HashNumbers
  <2> DEFINE c == counted \div HashBlock
             r == counted % HashBlock
  <2>4. c \in Nat /\ r \in Nat /\ r < HashBlock /\ counted = c * HashBlock + r
    BY <1>1, <1>3, Division
  <2> HIDE DEF c, r, n
  <2>5. lost * HashWord = (lost * w) * HashBlock /\ lost * w \in Nat
    BY <1>1, <2>3
  <2>6. n = (c + lost * w) * HashBlock + r /\ c + lost * w \in Nat
    <3>1. (c + lost * w) * HashBlock = c * HashBlock + (lost * w) * HashBlock
      BY <1>1, <2>4, <2>5
    <3>2. (lost * w) * HashBlock \in Nat /\ c * HashBlock \in Nat
      BY <1>1, <2>4, <2>5
    <3> QED
      BY <1>3, <2>4, <2>5, <3>1, <3>2
  <2>7. n % HashBlock = r
    BY <1>1, <2>4, <2>6, Divided
  <2> QED
    BY <2>2, <2>7 DEF r
<1>5. /\ ctx.state = WholeBlocks(cells, k) /\ IsSeq(cells) /\ IsSeq(ctx.buffer)
      /\ Len(ctx.buffer) = HashBlock /\ \A i \in 1 .. left : ctx.buffer[i] = cells[base + i]
  BY DEF HashedButFor, Absorbed
<1>d. base = BytesIn(k)
  BY DEF BytesIn
<1> HIDE DEF k, left, base
<1>6. HeldBy(ctx, cells, k, base, left)
  <2>1. left \in Nat /\ left < HashBlock /\ k \in Nat /\ Len(cells) = base + left
    BY <1>1, <1>2
  <2> HIDE DEF n
  <2> QED
    BY <1>b, <1>d, <1>5, <2>1 DEF HeldBy
<1> QED
  BY <1>4, <1>6

\* Nothing is lost of a context that counted everything.
LEMMA HashedLosesNone ==
  ASSUME NEW ctx, NEW cells
  PROVE  Hashed(ctx, cells) <=> HashedButFor(ctx, cells, 0)
<1>1. HashWord \in Nat
  BY HashNumbers
<1>2. Absorbed(ctx, cells) => Len(cells) \in Nat
  BY DEF Absorbed, IsSeq
<1>3. \A c \in Nat : c + 0 * HashWord = c
  BY <1>1
<1>4. HashedButFor(ctx, cells, 0)
      <=> Absorbed(ctx, cells)
          /\ \E c \in Nat : c + 0 * HashWord = Len(cells) /\ ctx.total = CountOf(c)
  BY DEF HashedButFor
<1> QED
  BY <1>2, <1>3, <1>4 DEF Hashed
LEMMA HashedHolds ==
  ASSUME NEW ctx, NEW cells, Hashed(ctx, cells)
  PROVE  /\ ctx.total = CountOf(Len(cells)) /\ Len(cells) \in Nat
         /\ \E k, base : HeldBy(ctx, cells, k, base, Left(ctx))
<1>1. ctx.total = CountOf(Len(cells)) /\ Len(cells) \in Nat
  BY DEF Hashed, Absorbed, IsSeq
<1>2. HashedButFor(ctx, cells, 0)
  BY HashedLosesNone
<1> QED
  BY <1>1, <1>2, AbsorbedHolds
LEMMA HoldsAbsorbed ==
  ASSUME NEW ctx, NEW cells, NEW k, NEW base, NEW left, HeldBy(ctx, cells, k, base, left)
  PROVE  Absorbed(ctx, cells)
<1>1. /\ HashBlock \in Nat /\ HashBlock > 0 /\ k \in Nat /\ left \in Nat /\ left < HashBlock
      /\ base = k * HashBlock /\ Len(cells) = base + left /\ base \in Nat
  BY HashNumbers DEF HeldBy, BytesIn
<1> DEFINE n == Len(cells)
<1>2. n \in Nat /\ n = k * HashBlock + left
  BY <1>1
<1> HIDE DEF n
<1>3. n \div HashBlock = k /\ n % HashBlock = left
  BY <1>1, <1>2, Divided
<1> QED
  BY <1>1, <1>3 DEF HeldBy, Absorbed, n
LEMMA HoldsHashed ==
  ASSUME NEW ctx, NEW cells, NEW k, NEW base, NEW left, HeldBy(ctx, cells, k, base, left),
         ctx.total = CountOf(Len(cells))
  PROVE  Hashed(ctx, cells)
BY HoldsAbsorbed DEF Hashed

LEMMA Started == Hashed(mbedtls_sha256_starts, <<>>)
<1> DEFINE ctx == mbedtls_sha256_starts
<1>1. HashBlock \in Nat /\ HashBlock > 0 /\ HashWord \in Nat /\ HashWord > 0
  BY HashNumbers
<1>2. ctx = [total |-> [low |-> 0, high |-> 0],
             buffer |-> [i \in 1 .. HashBlock |-> Zero], state |-> <<>>]
  BY DEF mbedtls_sha256_starts
<1> HIDE DEF ctx
<1>3. /\ ctx.total = [low |-> 0, high |-> 0] /\ ctx.state = <<>>
      /\ ctx.buffer = [i \in 1 .. HashBlock |-> Zero]
  BY <1>2
<1>4. IsSeq(ctx.buffer) /\ Len(ctx.buffer) = HashBlock
  <2> DEFINE b == ctx.buffer
  <2>1. DOMAIN b = 1 .. HashBlock /\ b = [i \in DOMAIN b |-> b[i]]
    BY <1>3
  <2> HIDE DEF b
  <2>2. IsSeq(b) /\ Len(b) = HashBlock
    BY <1>1, <2>1, SeqBy
  <2> QED
    BY <2>2 DEF b
<1>5. 0 \div HashBlock = 0 /\ 0 % HashBlock = 0 /\ 0 \div HashWord = 0 /\ 0 % HashWord = 0
  BY <1>1
<1>6. IsSeq(<<>>) /\ Len(<<>>) = 0
  BY NoCells
<1>7. ctx.total = CountOf(0)
  BY <1>3, <1>5 DEF CountOf
<1>8. WholeBlocks(<<>>, 0) = <<>>
  <2>1. IsSeq(WholeBlocks(<<>>, 0)) /\ Len(WholeBlocks(<<>>, 0)) = 0
    BY BlocksAre
  <2> QED
    BY <2>1, NoCells
<1> DEFINE none == <<>>
           zero == 0
<1>9. HeldBy(ctx, none, zero, zero, zero) /\ ctx.total = CountOf(Len(none))
  <2>1. /\ ctx.state = WholeBlocks(none, zero) /\ zero = BytesIn(zero) /\ zero < HashBlock
        /\ Len(none) = zero + zero /\ zero \in Nat /\ IsSeq(none)
        /\ ctx.total = CountOf(Len(none))
    <3>1. 0 = BytesIn(0) /\ 0 < HashBlock /\ 0 \in Nat /\ 0 = 0 + 0
      BY <1>1, BytesAdd
    <3> QED
      BY <1>3, <1>6, <1>7, <1>8, <3>1
  <2>2. \A i \in 1 .. zero : ctx.buffer[i] = none[zero + i]
    OBVIOUS
  <2> HIDE DEF none, zero
  <2> QED
    BY <1>4, <2>1, <2>2 DEF HeldBy
<1> HIDE DEF zero
<1>0. Hashed(ctx, none)
  BY <1>9, HoldsHashed
<1> QED
  BY <1>0 DEF ctx

\* The blocks of the message so far are blocks of the longer one.
LEMMA BlocksStay ==
  ASSUME NEW ctx, NEW cells, NEW k, NEW base, NEW left, HeldBy(ctx, cells, k, base, left),
         NEW all, NEW input, IsJoin(all, cells, input)
  PROVE  ctx.state = WholeBlocks(all, k) /\ \A i \in 1 .. left : ctx.buffer[i] = all[base + i]
<1>1. /\ ctx.state = WholeBlocks(cells, k) /\ Len(cells) = base + left /\ base \in Nat
      /\ left \in Nat /\ k \in Nat /\ base = BytesIn(k)
      /\ \A i \in 1 .. left : ctx.buffer[i] = cells[base + i]
  BY DEF HeldBy
<1>2. \A i \in 1 .. Len(cells) : all[i] = cells[i]
  BY DEF IsJoin
<1>3. \A i \in 1 .. base : cells[i] = all[i]
  BY <1>1, <1>2
<1>4. WholeBlocks(cells, k) = WholeBlocks(all, k)
  BY <1>1, <1>3, BlocksAgree DEF BytesIn
<1>5. \A i \in 1 .. left : base + i \in 1 .. Len(cells)
  BY <1>1
<1> QED
  BY <1>1, <1>2, <1>4, <1>5

\* The input is too short to complete the block in the buffer.
LEMMA UpdatedShort ==
  ASSUME NEW ctx, NEW cells, NEW k, NEW base, HeldBy(ctx, cells, k, base, Left(ctx)),
         NEW all, NEW input, IsAll(all, cells, input), input # <<>>,
         ~Completes(ctx, input), Left(ctx) # 0, NEW new, new = mbedtls_sha256_update(ctx, input)
  PROVE  HeldBy(new, all, k, base, Left(ctx) + Len(input))
<1> DEFINE B == HashBlock
           left == Left(ctx)
           m == Len(input)
           first == FirstBuffer(ctx, input)
           rest == RestOf(ctx, input)
           zero == 0
<1>1. /\ B \in Nat /\ B > 0 /\ m \in Nat /\ k \in Nat /\ base \in Nat /\ left \in Nat
      /\ left < B /\ base = BytesIn(k) /\ Len(cells) = base + left /\ IsSeq(ctx.buffer)
      /\ Len(ctx.buffer) = B /\ IsSeq(cells)
  BY HashNumbers DEF HeldBy, IsSeq, IsAll
<1>2. Taken(ctx, input) = 0 /\ m < B - left
  BY <1>1 DEF Taken, Completes
<1>3. BlocksLeft(ctx, input) = 0
  <2>1. m = 0 * B + m /\ m < B /\ m - 0 = m
    BY <1>1, <1>2
  <2>2. m \div B = 0
    BY <1>1, <2>1, Divided
  <2> QED
    BY <1>2, <2>1, <2>2 DEF BlocksLeft
<1>4. rest = SubSeq(input, 1, m)
  <2>1. 0 + 0 * B + 1 = 1
    BY <1>1
  <2> QED
    BY <1>2, <1>3, <2>1 DEF RestOf
<1>5. first = Put(ctx.buffer, left, SubSeq(input, 1, zero))
  BY <1>2 DEF FirstBuffer
<1>6. new.buffer = Put(first, left, rest)
      /\ new.state = (ctx.state \o <<>>) \o WholeOf(input, zero, zero)
  BY <1>2, <1>3, UpdateIs
<1>7. IsJoin(all, cells, input)
  BY AllJoins
<1>8. ctx.state = WholeBlocks(all, k) /\ \A i \in 1 .. left : ctx.buffer[i] = all[base + i]
  <2>1. HeldBy(ctx, cells, k, base, left)
    OBVIOUS
  <2> HIDE DEF left
  <2> QED
    BY <1>7, <2>1, BlocksStay
<1>9. IsCut(rest, input, 0, m) /\ IsCut(SubSeq(input, 1, zero), input, 0, zero)
  BY <1>1, <1>4, Firsts
<1>10. IsPut(first, ctx.buffer, left, SubSeq(input, 1, zero))
  BY <1>1, <1>5, Puts
<1>11. IsPut(new.buffer, first, left, rest)
  <2>1. IsSeq(first)
    BY <1>10 DEF IsPut
  <2> QED
    BY <1>6, <2>1, Puts
<1>12. new.state = WholeBlocks(all, k)
  <2>1. IsSeq(WholeBlocks(all, k))
    BY <1>1, BlocksAre
  <2>2. WholeOf(input, zero, zero) = <<>>
    <3>1. WholeOf(input, zero, zero) = [b \in 1 .. zero |-> SubSeq(input, zero + (b - 1) * HashBlock + 1, zero + b * HashBlock)]
      BY DEF WholeOf
    <3>2. 1 .. zero = {}
      OBVIOUS
    <3> DEFINE w == WholeOf(input, zero, zero)
    <3>3. DOMAIN w = 1 .. zero /\ w = [b \in DOMAIN w |-> w[b]]
      BY <3>1
    <3> HIDE DEF w
    <3>4. IsSeq(w) /\ Len(w) = zero
      BY <3>3, SeqBy
    <3> QED
      BY <3>4, NoCells DEF w
  <2> QED
    BY <1>6, <1>8, <2>1, <2>2, JoinedNone
<1> HIDE DEF first, rest, B, left, m
<1>13. /\ IsSeq(new.buffer) /\ Len(new.buffer) = B /\ Len(first) = B /\ Len(rest) = m
       /\ Len(SubSeq(input, 1, zero)) = 0 /\ IsSeq(all) /\ Len(all) = base + (left + m)
  <2>1. Len(rest) = m - 0 /\ Len(SubSeq(input, 1, zero)) = 0 - 0
    BY <1>9 DEF IsCut
  <2>2. IsSeq(all) /\ Len(all) = Len(cells) + m
    BY <1>7 DEF IsJoin, m
  <2> QED
    BY <1>1, <1>10, <1>11, <2>1, <2>2 DEF IsPut
<1>14. ASSUME NEW i \in 1 .. left + m PROVE new.buffer[i] = all[base + i]
  <2>0. i \in 1 .. B
    BY <1>1, <1>2
  <2>1. /\ new.buffer[i] = IF left < i /\ i <= left + m THEN rest[i - left] ELSE first[i]
        /\ first[i] = IF left < i /\ i <= left + 0 THEN SubSeq(input, 1, zero)[i - left]
                      ELSE ctx.buffer[i]
    BY <1>1, <1>10, <1>11, <1>13, <2>0 DEF IsPut
  <2>2. CASE i <= left
    BY <1>1, <1>8, <2>1, <2>2
  <2>3. CASE ~(i <= left)
    <3> DEFINE c == i - left
    <3>1. c \in 1 .. m /\ c \in 1 .. m - 0 /\ 0 + c = c /\ Len(cells) + c = base + i
      BY <1>1, <2>3
    <3>2. new.buffer[i] = rest[c]
      BY <1>1, <2>1, <2>3
    <3> HIDE DEF c
    <3>3. rest[c] = input[c]
      BY <1>9, <3>1 DEF IsCut
    <3>4. all[Len(cells) + c] = input[c]
      BY <1>7, <3>1 DEF IsJoin, m
    <3> QED
      BY <3>1, <3>2, <3>3, <3>4
  <2> QED
    BY <2>2, <2>3
<1>15. left + m \in Nat /\ left + m < HashBlock
  BY <1>1, <1>2 DEF B
<1>16. HeldBy(new, all, k, base, left + m)
  BY <1>1, <1>12, <1>13, <1>14, <1>15 DEF HeldBy, B
<1> QED
  BY <1>16 DEF left, m

\* The cells that complete the block in the buffer.
LEMMA Filled ==
  ASSUME NEW ctx, NEW cells, NEW k, NEW base, NEW left, HeldBy(ctx, cells, k, base, left),
         NEW all, NEW input, IsAll(all, cells, input), Len(input) >= HashBlock - left
  PROVE  Put(ctx.buffer, left, SubSeq(input, 1, HashBlock - left)) = BlockOf(all, k + 1)
<1> DEFINE B == HashBlock
           buffer == ctx.buffer
           fill == B - left
           more == SubSeq(input, 1, fill)
           put == Put(buffer, left, more)
           block == BlockOf(all, k + 1)
<1>1. /\ B \in Nat /\ B > 0 /\ IsSeq(cells) /\ IsSeq(buffer) /\ Len(buffer) = B
      /\ k \in Nat /\ base \in Nat /\ left \in Nat /\ left < B
      /\ base = BytesIn(k) /\ Len(cells) = base + left
      /\ \A i \in 1 .. left : buffer[i] = cells[base + i]
  <2>1. B \in Nat /\ B > 0
    BY HashNumbers
  <2> QED
    BY <2>1, Zenon DEF HeldBy
<1>2. fill \in Nat /\ Len(input) \in Nat /\ left + fill = B /\ fill <= Len(input)
  BY <1>1 DEF IsSeq, IsAll
<1> HIDE DEF fill
<1>3. IsCut(block, all, base, base + B)
  <2> DEFINE b == k + 1
  <2>1. b \in Nat \ {0} /\ b - 1 = k
    BY <1>1
  <2> HIDE DEF b
  <2>2. IsCut(BlockOf(all, b), all, (b - 1) * B, (b - 1) * B + B)
    BY <2>1, Blocks
  <2> QED
    BY <1>1, <2>1, <2>2 DEF b, BytesIn
<1>4. IsJoin(all, cells, input)
  BY AllJoins
<1>5. IsCut(more, input, 0, fill)
  BY <1>2, Firsts
<1>6. IsPut(put, buffer, left, more)
  BY <1>1, Puts
<1> HIDE DEF B, block, more, put, buffer
<1>7. IsSeq(put) /\ Len(put) = B /\ IsSeq(block) /\ Len(block) = B /\ Len(more) = fill
  <2>1. Len(block) = (base + B) - base
    BY <1>3 DEF IsCut
  <2>2. Len(more) = fill - 0
    BY <1>5 DEF IsCut
  <2> QED
    BY <1>1, <1>2, <1>3, <1>6, <2>1, <2>2 DEF IsCut, IsPut, B
<1>8. ASSUME NEW i \in 1 .. B PROVE put[i] = block[i]
  <2>0. block[i] = all[base + i]
    <3>1. i \in 1 .. (base + B) - base
      BY <1>1
    <3> QED
      BY <1>3, <3>1 DEF IsCut
  <2>p. put[i] = IF left < i /\ i <= left + fill THEN more[i - left] ELSE buffer[i]
    BY <1>6, <1>7 DEF IsPut, B
  <2>1. CASE i <= left
    <3>1. put[i] = cells[base + i] /\ base + i \in 1 .. Len(cells)
      BY <1>1, <1>2, <2>p, <2>1
    <3> QED
      BY <1>4, <2>0, <3>1 DEF IsJoin
  <2>2. CASE ~(i <= left)
    <3> DEFINE c == i - left
    <3>1. c \in 1 .. fill /\ left + c = i /\ c \in 1 .. Len(input) /\ c \in 1 .. fill - 0
          /\ 0 + c = c
      BY <1>1, <1>2, <2>2 DEF fill, B
    <3>2. put[i] = more[c]
      BY <1>1, <1>2, <2>p, <2>2
    <3> HIDE DEF c
    <3>3. more[c] = input[c]
      BY <1>5, <3>1 DEF IsCut
    <3>4. all[Len(cells) + c] = input[c]
      BY <1>4, <3>1 DEF IsJoin
    <3>5. Len(cells) + c = base + i
      <4>1. Len(cells) = base + left /\ base \in Nat /\ left \in Nat
        BY <1>1
      <4>2. left + c = i /\ c \in Nat
        BY <1>2, <3>1
      <4> QED
        BY <4>1, <4>2
    <3> QED
      BY <2>0, <3>2, <3>3, <3>4, <3>5
  <2> QED
    BY <2>1, <2>2
<1>9. put = block
  BY <1>7, <1>8, SameSeq
<1> QED
  BY <1>9 DEF put, more, fill, block, buffer, B

\* What completes the block in the buffer, or nothing when it is empty.
BegunWith(first, begun, e, ctx, input, left, taken) ==
    /\ e \in {0, 1} /\ taken \in Nat /\ taken <= Len(input)
    /\ first = Put(ctx.buffer, left, SubSeq(input, 1, taken))
    /\ e = 1 => taken = HashBlock - left /\ begun = <<first>>
    /\ e = 0 => taken = 0 /\ left = 0 /\ begun = <<>>
LEMMA BeginsFirst ==
  ASSUME NEW ctx, NEW cells, NEW k, NEW base, NEW left, HeldBy(ctx, cells, k, base, left),
         NEW all, NEW input, IsAll(all, cells, input), NEW taken, NEW begun, NEW e, NEW first,
         BegunWith(first, begun, e, ctx, input, left, taken), e = 1
  PROVE  first = BlockOf(all, k + 1)
<1>1. first = Put(ctx.buffer, left, SubSeq(input, 1, HashBlock - left)) /\ taken = HashBlock - left
  BY DEF BegunWith
<1>2. Len(input) >= HashBlock - left
  <2>1. Len(input) \in Nat /\ HashBlock \in Nat /\ left \in Nat
    BY HashNumbers DEF IsAll, IsSeq, HeldBy
  <2> QED
    BY <1>1, <2>1 DEF BegunWith
<1> QED
  BY <1>1, <1>2, Filled
LEMMA Begins ==
  ASSUME NEW ctx, NEW cells, NEW k, NEW base, NEW left, HeldBy(ctx, cells, k, base, left),
         NEW all, NEW input, IsAll(all, cells, input), NEW taken, NEW begun, NEW e, NEW first,
         BegunWith(first, begun, e, ctx, input, left, taken)
  PROVE  ctx.state \o begun = WholeBlocks(all, k + e)
<1>0. k \in Nat /\ e \in {0, 1}
  BY DEF HeldBy, BegunWith
<1>2. ctx.state = WholeBlocks(all, k)
  BY AllJoins, BlocksStay
<1>3. e \in Nat /\ BlocksFrom(all, k, begun, e)
  <2>1. CASE e = 1
    <3>1. begun = <<first>>
      BY <2>1 DEF BegunWith
    <3>2. first = BlockOf(all, k + 1)
      BY <2>1, BeginsFirst
    <3>3. IsSeq(begun) /\ Len(begun) = 1 /\ begun[1] = first
      BY <3>1, OneCell
    <3>4. ASSUME NEW b \in 1 .. Len(begun) PROVE begun[b] = BlockOf(all, k + b)
      <4>1. b = 1
        BY <3>3
      <4> QED
        BY <3>2, <3>3, <4>1
    <3> QED
      BY <2>1, <3>3, <3>4 DEF BlocksFrom, PiecesFrom, BlockOf
  <2>2. CASE e = 0
    <3>1. begun = <<>>
      BY <2>2 DEF BegunWith
    <3>2. IsSeq(begun) /\ Len(begun) = 0
      BY <3>1, NoCells
    <3>3. \A b \in 1 .. Len(begun) : begun[b] = BlockOf(all, k + b)
      BY <3>2
    <3> QED
      BY <2>2, <3>2, <3>3 DEF BlocksFrom, PiecesFrom, BlockOf
  <2> QED
    BY <1>0, <2>1, <2>2
<1>4. WholeBlocks(all, k) \o begun = WholeBlocks(all, k + e)
  BY <1>0, <1>3, MoreBlocks
<1> QED
  BY <1>2, <1>4

\* The buffer then starts with the rest of the input.
PutsRest(buffer, first, input, x) ==
    /\ IsSeq(first) /\ x \in Nat /\ x <= Len(input) /\ Len(input) - x <= Len(first)
    /\ buffer = Put(first, 0, SubSeq(input, x + 1, Len(input)))
LEMMA BuffersRest ==
  ASSUME NEW cells, NEW input, NEW all, IsAll(all, cells, input), NEW x, NEW first,
         NEW buffer, PutsRest(buffer, first, input, x)
  PROVE  /\ IsSeq(buffer) /\ Len(buffer) = Len(first)
         /\ \A i \in 1 .. Len(input) - x : buffer[i] = all[Len(cells) + x + i]
<1> DEFINE n == Len(cells)
           m == Len(input)
           zero == 0
           rest == SubSeq(input, x + 1, m)
<1>1. n \in Nat /\ m \in Nat /\ x <= m /\ m <= Len(input) /\ Len(first) \in Nat
      /\ m - x <= Len(first) /\ x \in Nat /\ IsSeq(cells) /\ IsSeq(input) /\ IsSeq(first)
  BY DEF IsSeq, IsAll, PutsRest
<1>2. IsCut(rest, all, n + x, n + m)
  <2>1. IsCut(rest, cells \o input, n + x, n + m)
    BY <1>1, LaterCells
  <2> QED
    BY <2>1 DEF IsAll
<1>3. IsPut(buffer, first, zero, rest)
  BY <1>1, Puts DEF PutsRest
<1> HIDE DEF rest, n, m
<1>4. Len(rest) = m - x
  <2>1. Len(rest) = (n + m) - (n + x)
    BY <1>2 DEF IsCut
  <2> QED
    BY <1>1, <2>1
<1>5. ASSUME NEW i \in 1 .. m - x PROVE buffer[i] = all[n + x + i]
  <2>0. /\ i \in 1 .. Len(first) /\ i - zero = i /\ i <= zero + Len(rest) /\ zero < i
        /\ i \in 1 .. (n + m) - (n + x)
    BY <1>1, <1>4
  <2>1. buffer[i] = IF zero < i /\ i <= zero + Len(rest) THEN rest[i - zero] ELSE first[i]
    BY <1>3, <2>0 DEF IsPut
  <2>2. buffer[i] = rest[i]
    BY <2>0, <2>1
  <2>3. rest[i] = all[n + x + i]
    BY <1>2, <2>0 DEF IsCut
  <2> QED
    BY <2>2, <2>3
<1> QED
  BY <1>3, <1>5 DEF IsPut, m, n

\* The whole blocks and the rest.
EndsWith(new, first, begun, ctx, input, taken, blocks, y, r) ==
    /\ blocks \in Nat /\ r \in Nat /\ r < HashBlock /\ y \in Nat /\ y = BytesIn(blocks)
    /\ Len(input) - taken = y + r
    /\ new.buffer = Put(first, 0, SubSeq(input, taken + y + 1, Len(input)))
    /\ new.state = (ctx.state \o begun) \o WholeOf(input, taken, blocks)
LongPlaces(j, n, m, k, e, taken, blocks, y, r) ==
    /\ j \in Nat /\ n \in Nat /\ m \in Nat /\ blocks \in Nat /\ taken \in Nat /\ r \in Nat
    /\ y \in Nat /\ j = k + e /\ taken + y + r = m /\ r < HashBlock /\ y = BytesIn(blocks)
    /\ BytesIn(j) = n + taken /\ BytesIn(j + blocks) = n + (taken + y)
LEMMA AtPlaces ==
  ASSUME NEW ctx, NEW cells, NEW k, NEW base, NEW left, HeldBy(ctx, cells, k, base, left),
         NEW all, NEW input, IsAll(all, cells, input), NEW taken, NEW begun, NEW e, NEW first,
         BegunWith(first, begun, e, ctx, input, left, taken), NEW new, NEW blocks, NEW y, NEW r,
         EndsWith(new, first, begun, ctx, input, taken, blocks, y, r)
  PROVE  LongPlaces(k + e, Len(cells), Len(input), k, e, taken, blocks, y, r)
<1> DEFINE n == Len(cells)
           m == Len(input)
           j == k + e
<1>1. n \in Nat /\ m \in Nat /\ HashBlock \in Nat /\ HashBlock > 0
  BY HashNumbers DEF IsAll, IsSeq
<1>2. k \in Nat /\ base \in Nat /\ left \in Nat /\ base = BytesIn(k) /\ n = base + left
  BY DEF HeldBy
<1>3. /\ e \in {0, 1} /\ taken \in Nat
      /\ (e = 1 => taken = HashBlock - left) /\ (e = 0 => taken = 0 /\ left = 0)
  BY DEF BegunWith
<1>4. /\ blocks \in Nat /\ r \in Nat /\ r < HashBlock /\ y \in Nat /\ y = BytesIn(blocks)
      /\ m - taken = y + r
  BY DEF EndsWith
<1> HIDE DEF n, m
<1>5. j \in Nat /\ e \in Nat /\ taken + y + r = m
  BY <1>1, <1>2, <1>3, <1>4
<1>6. BytesIn(j) = BytesIn(k) + BytesIn(e)
  BY <1>2, <1>5, BytesAdd
<1>d. j = k + e
  OBVIOUS
<1> HIDE DEF j
<1>7. BytesIn(j + blocks) = BytesIn(j) + BytesIn(blocks)
  BY <1>4, <1>5, BytesAdd
<1>8. BytesIn(e) = IF e = 1 THEN HashBlock ELSE 0
  BY <1>3, BytesAdd
<1>9. BytesIn(j) = n + taken /\ BytesIn(j + blocks) = n + (taken + y)
  BY <1>1, <1>2, <1>3, <1>4, <1>6, <1>7, <1>8
<1>10. LongPlaces(j, n, m, k, e, taken, blocks, y, r)
  BY <1>1, <1>3, <1>4, <1>5, <1>9, <1>d DEF LongPlaces
<1> QED
  BY <1>10 DEF n, m, j
LEMMA LongState ==
  ASSUME NEW cells, NEW all, NEW input, IsAll(all, cells, input),
         NEW j, NEW m, NEW k, NEW e, NEW taken, NEW blocks, NEW y, NEW r,
         LongPlaces(j, Len(cells), Len(input), k, e, taken, blocks, y, r)
  PROVE  WholeBlocks(all, j) \o WholeOf(input, taken, blocks) = WholeBlocks(all, j + blocks)
<1> DEFINE whole == WholeOf(input, taken, blocks)
<1>1. /\ j \in Nat /\ taken \in Nat /\ blocks \in Nat /\ BytesIn(j) = Len(cells) + taken
      /\ BytesIn(blocks) = y /\ y \in Nat /\ r \in Nat /\ taken + y + r = Len(input)
  BY DEF LongPlaces
<1>2. IsSeq(cells) /\ IsSeq(input) /\ all = cells \o input
  BY DEF IsAll
<1>3. taken + BytesIn(blocks) <= Len(input)
  BY <1>1
<1>4. BlocksFrom(cells \o input, j, whole, blocks)
  BY <1>1, <1>2, <1>3, Wholes
<1>5. BlocksFrom(all, j, whole, blocks)
  BY <1>2, <1>4
<1> HIDE DEF whole
<1>6. WholeBlocks(all, j) \o whole = WholeBlocks(all, j + blocks)
  BY <1>1, <1>5, MoreBlocks
<1> QED
  BY <1>6 DEF whole

LEMMA LongUpdate ==
  ASSUME NEW ctx, NEW cells, NEW k, NEW base, NEW left, HeldBy(ctx, cells, k, base, left),
         NEW all, NEW input, IsAll(all, cells, input), NEW taken, NEW begun, NEW e, NEW first,
         BegunWith(first, begun, e, ctx, input, left, taken), NEW new, NEW blocks, NEW y, NEW r,
         EndsWith(new, first, begun, ctx, input, taken, blocks, y, r)
  PROVE  HeldBy(new, all, k + e + blocks, Len(cells) + (taken + y), r)
<1> DEFINE n == Len(cells)
           m == Len(input)
           j == k + e
           x == taken + y
           base2 == n + x
           whole == WholeOf(input, taken, blocks)
<1>1. LongPlaces(j, n, m, k, e, taken, blocks, y, r)
  BY AtPlaces
<1>5. ctx.state \o begun = WholeBlocks(all, j)
  BY Begins
<1>s. new.state = (ctx.state \o begun) \o whole
  BY DEF EndsWith
<1> HIDE DEF j
<1>6. WholeBlocks(all, j) \o whole = WholeBlocks(all, j + blocks)
  BY <1>1, LongState
<1>7. new.state = WholeBlocks(all, j + blocks)
  BY <1>s, <1>5, <1>6
<1>8. IsSeq(first) /\ Len(first) = HashBlock
  <2>0. first = Put(ctx.buffer, left, SubSeq(input, 1, taken))
    BY DEF BegunWith
  <2>1. IsSeq(ctx.buffer) /\ Len(ctx.buffer) = HashBlock
    BY DEF HeldBy
  <2>2. IsPut(first, ctx.buffer, left, SubSeq(input, 1, taken))
    BY <2>0, <2>1, Puts
  <2> QED
    BY <2>1, <2>2 DEF IsPut
<1>4. /\ x \in Nat /\ x <= m /\ m - x = r /\ base2 \in Nat /\ r \in Nat /\ r < HashBlock
      /\ n \in Nat /\ m \in Nat /\ HashBlock \in Nat /\ j + blocks \in Nat
      /\ base2 = BytesIn(j + blocks)
  <2>1. HashBlock \in Nat
    BY HashNumbers
  <2> HIDE DEF n, m
  <2> QED
    BY <1>1, <2>1 DEF LongPlaces
<1>9. /\ IsSeq(new.buffer) /\ Len(new.buffer) = HashBlock
      /\ \A i \in 1 .. r : new.buffer[i] = all[base2 + i]
  <2> DEFINE buffer == new.buffer
  <2>1. PutsRest(buffer, first, input, x)
    <3>1. buffer = Put(first, 0, SubSeq(input, x + 1, m))
      BY DEF EndsWith
    <3> HIDE DEF buffer, x
    <3> QED
      BY <1>4, <1>8, <3>1 DEF PutsRest
  <2> HIDE DEF buffer, x
  <2>2. /\ IsSeq(buffer) /\ Len(buffer) = Len(first)
        /\ \A i \in 1 .. m - x : buffer[i] = all[n + x + i]
    BY <2>1, BuffersRest
  <2>3. r = m - x
    BY <1>4
  <2> QED
    BY <1>8, <2>2, <2>3 DEF buffer
<1>10. IsSeq(all) /\ Len(all) = base2 + r
  <2>1. IsJoin(all, cells, input)
    BY AllJoins
  <2>2. IsSeq(all) /\ Len(all) = n + m
    BY <2>1 DEF IsJoin
  <2> HIDE DEF n, m, x
  <2> QED
    BY <1>4, <2>2
<1> HIDE DEF base2, x
<1>11. HeldBy(new, all, j + blocks, base2, r)
  BY <1>4, <1>7, <1>9, <1>10 DEF HeldBy
<1> QED
  BY <1>11 DEF base2, x, j

\* The input completes the block in the buffer, or there is none.
LEMMA UpdatedLong ==
  ASSUME NEW ctx, NEW cells, NEW k, NEW base, HeldBy(ctx, cells, k, base, Left(ctx)),
         NEW all, NEW input, IsAll(all, cells, input), input # <<>>,
         Completes(ctx, input) \/ Left(ctx) = 0
  PROVE  \E k2, base2, left2 :
           HeldBy(mbedtls_sha256_update(ctx, input), all, k2, base2, left2)
<1> DEFINE new == mbedtls_sha256_update(ctx, input)
           B == HashBlock
           left == Left(ctx)
           m == Len(input)
           first == FirstBuffer(ctx, input)
           taken == Taken(ctx, input)
           blocks == BlocksLeft(ctx, input)
           e == IF Completes(ctx, input) THEN 1 ELSE 0
           a == m - taken
           r == a % B
           y == BytesIn(blocks)
           begun == IF Completes(ctx, input) THEN <<first>> ELSE <<>>
<1>1. B \in Nat /\ B > 0 /\ left \in Nat /\ left < B /\ m \in Nat
  BY HashNumbers DEF HeldBy, IsAll, IsSeq
<1>2. /\ taken = IF Completes(ctx, input) THEN B - left ELSE 0
      /\ Completes(ctx, input) => m >= B - left
      /\ ~Completes(ctx, input) => left = 0
  BY DEF Taken, Completes
<1>4. first = Put(ctx.buffer, left, SubSeq(input, 1, taken))
  BY DEF FirstBuffer
<1>5. new.buffer = Put(first, 0, SubSeq(input, taken + y + 1, m))
      /\ new.state = (ctx.state \o begun) \o WholeOf(input, taken, blocks)
  BY <1>2, UpdateIs DEF RestOf, BytesIn
<1>6. blocks = a \div B
  BY DEF BlocksLeft
<1>0. HeldBy(ctx, cells, k, base, left)
  OBVIOUS
<1> HIDE DEF left, first, taken, blocks, m, new
<1>7. taken \in Nat /\ a \in Nat /\ taken <= m
  BY <1>1, <1>2
<1>3. BegunWith(first, begun, e, ctx, input, left, taken)
  BY <1>2, <1>4, <1>7 DEF BegunWith, m
<1> HIDE DEF begun, e
<1>d. m - taken = a
  OBVIOUS
<1> HIDE DEF a
<1>8. blocks \in Nat /\ r \in Nat /\ r < B /\ a = y + r
  <2>1. a \div B \in Nat /\ a % B \in 0 .. B - 1 /\ a = (a \div B) * B + (a % B)
    BY <1>1, <1>7, Division
  <2>2. y = (a \div B) * B
    BY <1>6 DEF BytesIn
  <2> QED
    BY <1>1, <1>6, <2>1, <2>2
<1>y. y \in Nat /\ y = BytesIn(blocks)
  BY <1>8, BytesAdd
<1> HIDE DEF r, y
<1>9. EndsWith(new, first, begun, ctx, input, taken, blocks, y, r)
  BY <1>5, <1>8, <1>d, <1>y DEF EndsWith, m
<1>10. HeldBy(new, all, k + e + blocks, Len(cells) + (taken + y), r)
  BY <1>0, <1>3, <1>9, LongUpdate
<1> QED
  BY <1>10 DEF new

\* mbedtls_sha256_update(): however a message is cut into chunks, of whatever length, the
\* context holds all its bytes: the whole blocks were processed in their order and the rest
\* is in the buffer. The count in two words is of them all as long as no call brings
\* HashWord bytes; of one that does, its whole words are missing from the count, and so
\* from the length mbedtls_sha256_finish() pads with.
THEOREM Sha256UpdateAppends ==
  ASSUME NEW ctx, NEW cells, NEW lost \in Nat, HashedButFor(ctx, cells, lost),
         NEW input, IsSeq(input)
  PROVE  HashedButFor(mbedtls_sha256_update(ctx, input), cells \o input,
                      lost + (Len(input) \div HashWord))
<1> DEFINE m == Len(input)
           q == m \div HashWord
           added == m % HashWord
           lost2 == lost + q
<1>1. IsSeq(cells) /\ IsSeq(input) /\ m \in Nat /\ Len(cells) \in Nat
  BY DEF HashedButFor, Absorbed, IsSeq
<1>w. HashWord \in Nat /\ HashWord > 0
  BY HashNumbers
<1>d. q \in Nat /\ added \in Nat /\ added < HashWord /\ m = q * HashWord + added
  BY <1>1, <1>w, Division
<1>2. CASE input = <<>>
  <2>1. mbedtls_sha256_update(ctx, input) = ctx
    BY <1>2 DEF mbedtls_sha256_update
  <2>2. m = 0
    BY <1>2
  <2>3. q = 0
    <3>1. m = 0 * HashWord + 0
      BY <1>w, <2>2
    <3> HIDE DEF m
    <3> QED
      BY <1>1, <1>w, <3>1, Divided
  <2> QED
    BY <1>1, <1>2, <2>1, <2>3, JoinedNone
<1>3. CASE input # <<>>
  <2> DEFINE new == mbedtls_sha256_update(ctx, input)
             all == cells \o input
  <2>2. PICK k, base : HeldBy(ctx, cells, k, base, Left(ctx))
    BY AbsorbedHolds
  <2>a. IsAll(all, cells, input)
    BY <1>1 DEF IsAll
  <2>3. \E counted \in Nat :
          counted + lost2 * HashWord = Len(all) /\ new.total = CountOf(counted)
    <3>1. new.total = Count(ctx.total, m)
      BY <1>3, UpdateIs
    <3>2. Len(all) = Len(cells) + m
      BY <1>1, Joined
    <3>3. PICK counted \in Nat :
            counted + lost * HashWord = Len(cells) /\ ctx.total = CountOf(counted)
      BY DEF HashedButFor
    <3>4. new.total = CountOf(counted + added)
      <4>1. ctx.total = CountOf(counted) /\ counted \in Nat
        BY <3>3
      <4> HIDE DEF m, new
      <4>2. Count(CountOf(counted), m) = CountOf(counted + (m % HashWord))
        BY <1>1, <4>1, Counted
      <4> QED
        BY <3>1, <4>1, <4>2 DEF added
    <3> HIDE DEF m, q, added, new, all
    <3>5. lost2 * HashWord = lost * HashWord + q * HashWord
      BY <1>d, <1>w
    <3>6. lost * HashWord \in Nat /\ q * HashWord \in Nat
      BY <1>d, <1>w
    <3> HIDE DEF lost2
    <3>7. counted + added \in Nat /\ (counted + added) + lost2 * HashWord = Len(all)
      BY <1>d, <3>2, <3>3, <3>5, <3>6
    <3> QED
      BY <3>4, <3>7
  <2>4. \E k2, base2, left2 : HeldBy(new, all, k2, base2, left2)
    <3>1. CASE Completes(ctx, input) \/ Left(ctx) = 0
      <4> HIDE DEF new, all
      <4> QED
        BY <1>3, <2>2, <2>a, <3>1, UpdatedLong DEF new
    <3>2. CASE ~Completes(ctx, input) /\ Left(ctx) # 0
      <4> HIDE DEF new, all
      <4> QED
        BY <1>3, <2>2, <2>a, <3>2, UpdatedShort DEF new
    <3> QED
      BY <3>1, <3>2
  <2> HIDE DEF new, all, lost2
  <2>5. PICK k2, base2, left2 : HeldBy(new, all, k2, base2, left2)
    BY <2>4
  <2>6. HashedButFor(new, all, lost2)
    BY <2>3, <2>5, HoldsAbsorbed DEF HashedButFor
  <2> QED
    BY <2>6 DEF new, all, lost2
<1> QED
  BY <1>2, <1>3

\* Below HashWord bytes in each call nothing is lost.
LEMMA Sha256UpdateCounts ==
  ASSUME NEW ctx, NEW cells, Hashed(ctx, cells), NEW input, IsSeq(input),
         Len(input) < HashWord
  PROVE  Hashed(mbedtls_sha256_update(ctx, input), cells \o input)
<1> DEFINE m == Len(input)
           q == m \div HashWord
<1>1. m \in Nat /\ m < HashWord /\ HashWord \in Nat /\ HashWord > 0
  BY HashNumbers DEF IsSeq
<1>2. HashedButFor(mbedtls_sha256_update(ctx, input), cells \o input, 0 + q)
  <2>1. HashedButFor(ctx, cells, 0) /\ 0 \in Nat
    BY HashedLosesNone
  <2> QED
    BY <2>1, Sha256UpdateAppends
<1>3. q = 0
  <2>1. m = 0 * HashWord + m
    BY <1>1
  <2> HIDE DEF m
  <2> QED
    BY <1>1, <2>1, Divided
<1>4. 0 + q = 0
  BY <1>3
<1> QED
  BY <1>2, <1>4, HashedLosesNone

\* A context is of one message only up to what comes after it in the buffer: the
\* message determines what an update and the end make of it.
LEMMA PlacesOf ==
  ASSUME NEW n \in Nat
  PROVE  /\ n \div HashBlock \in Nat /\ n % HashBlock \in 0 .. HashBlock - 1
         /\ n = BytesIn(n \div HashBlock) + (n % HashBlock)
<1>1. HashBlock \in Nat /\ HashBlock > 0
  BY HashNumbers
<1> QED
  BY <1>1, Division DEF BytesIn

\* The number of zeros of FIPS 180-4.
Padding(n) == CHOOSE k \in 0 .. HashBlock - 1 : (n + 1 + k + 2) % HashBlock = 0
ZerosAfter(r) == IF r + 3 <= HashBlock THEN HashBlock - 3 - r ELSE HashBlock + HashBlock - 3 - r
LEMMA PaddingIs ==
  ASSUME NEW n \in Nat, NEW k \in Nat, NEW r \in Nat, r < HashBlock, n = BytesIn(k) + r
  PROVE  Padding(n) = ZerosAfter(r)
<1> DEFINE B == HashBlock
           z == ZerosAfter(r)
           base == BytesIn(k)
<1>1. B \in Nat /\ B > 3 /\ base \in Nat
  BY HashNumbers, BytesAdd
<1>2. z \in 0 .. B - 1
  BY <1>1 DEF ZerosAfter
<1> HIDE DEF base
<1>3. ASSUME NEW p \in 0 .. B - 1, (n + 1 + p + 2) % B = 0 PROVE p = z
  <2> DEFINE a == n + 1 + p + 2
             q == a \div B
  <2>1. a \in Nat
    OBVIOUS
  <2>0. a % B = 0
    BY <1>3
  <2> HIDE DEF a
  <2>2. q \in Nat /\ a = q * B + (a % B) /\ a % B = 0
    BY <1>1, <2>0, <2>1, Division
  <2> HIDE DEF q
  <2>3. q * B = BytesIn(q) /\ BytesIn(q) \in Nat
    BY <2>2, BytesAdd DEF BytesIn
  <2>4. a = BytesIn(q)
    BY <2>1, <2>2, <2>3
  <2>5. BytesIn(q) = base + (r + p + 3)
    BY <1>1, <2>4 DEF a, base
  <2>6. PICK d \in Nat : q = k + d
    <3>1. q >= k
      <4> SUFFICES ASSUME q < k PROVE FALSE
        BY <2>2
      <4> DEFINE f == k - q
      <4>1. f \in Nat /\ q + f = k
        BY <2>2
      <4> HIDE DEF f
      <4>2. base = BytesIn(q) + BytesIn(f) /\ BytesIn(f) \in Nat
        BY <2>2, <4>1, BytesAdd DEF base
      <4> QED
        BY <1>1, <2>3, <2>5, <4>2
    <3>2. q - k \in Nat /\ q = k + (q - k)
      BY <2>2, <3>1
    <3> QED
      BY <3>2
  <2>7. BytesIn(q) = base + BytesIn(d) /\ BytesIn(d) \in Nat
    BY <2>6, BytesAdd DEF base
  <2>8. BytesIn(d) = r + p + 3
    BY <1>1, <2>5, <2>7
  <2>9. d = 1 \/ d = 2
    <3>1. d # 0
      <4> SUFFICES ASSUME d = 0 PROVE FALSE
        OBVIOUS
      <4>1. BytesIn(d) = 0
        BY BytesAdd
      <4> QED
        BY <2>8, <4>1
    <3>2. d < 3
      <4> SUFFICES ASSUME d >= 3 PROVE FALSE
        OBVIOUS
      <4> DEFINE f == d - 3
      <4>1. f \in Nat /\ d = 1 + 1 + 1 + f
        OBVIOUS
      <4> HIDE DEF f
      <4>2. BytesIn(1 + 1 + 1 + f) = B + B + B + BytesIn(f) /\ BytesIn(f) \in Nat
        BY <1>1, <4>1 DEF BytesIn
      <4> QED
        BY <1>1, <2>8, <4>1, <4>2
    <3> QED
      BY <3>1, <3>2
  <2>10. BytesIn(1) = B /\ BytesIn(2) = B + B
    BY <1>1 DEF BytesIn
  <2>11. CASE d = 1
    <3>1. B = r + p + 3
      BY <2>8, <2>10, <2>11
    <3> QED
      BY <1>1, <3>1 DEF ZerosAfter
  <2>12. CASE d = 2
    <3>1. B + B = r + p + 3
      BY <2>8, <2>10, <2>12
    <3> QED
      BY <1>1, <3>1 DEF ZerosAfter
  <2> QED
    BY <2>9, <2>11, <2>12
<1>4. (n + 1 + z + 2) % B = 0
  <2> DEFINE d == IF r + 3 <= B THEN 1 ELSE 2
  <2>1. BytesIn(1) = B /\ BytesIn(2) = B + B /\ d \in Nat
    BY <1>1 DEF BytesIn
  <2>2. BytesIn(d) = r + z + 3
    BY <1>1, <1>2, <2>1 DEF ZerosAfter
  <2> HIDE DEF d, z
  <2>3. BytesIn(k + d) = base + BytesIn(d)
    BY <2>1, BytesAdd DEF base
  <2>4. n + 1 + z + 2 = BytesIn(k + d)
    BY <1>1, <1>2, <2>2, <2>3 DEF base
  <2>5. n + 1 + z + 2 = (k + d) * B + 0 /\ n + 1 + z + 2 \in Nat
    <3>1. (k + d) * B \in Nat
      BY <1>1, <2>1
    <3> QED
      BY <1>2, <2>4, <3>1 DEF BytesIn
  <2> DEFINE a == n + 1 + z + 2
             c == k + d
             zero == 0
  <2>6. a \in Nat /\ c \in Nat /\ a = c * B + zero /\ zero \in Nat /\ zero < B
    BY <1>1, <2>1, <2>5
  <2> HIDE DEF a, c, zero
  <2>7. a % B = zero
    BY <1>1, <2>6, Divided
  <2> QED
    BY <2>7 DEF a, zero
<1>5. Padding(n) = z
  <2> HIDE DEF z
  <2> QED
    BY <1>2, <1>3, <1>4 DEF Padding
<1> QED
  BY <1>5

ZeroCells(n) == [i \in 1 .. n |-> Zero]
LEMMA ZerosAre == \A n \in Nat :
  IsSeq(ZeroCells(n)) /\ Len(ZeroCells(n)) = n /\ \A i \in 1 .. n : ZeroCells(n)[i] = Zero
<1> TAKE n \in Nat
<1> DEFINE z == ZeroCells(n)
<1>1. z = [i \in 1 .. n |-> Zero]
  BY DEF ZeroCells
<1> HIDE DEF z
<1>2. DOMAIN z = 1 .. n /\ z = [i \in DOMAIN z |-> z[i]] /\ \A i \in 1 .. n : z[i] = Zero
  BY <1>1
<1>3. IsSeq(z) /\ Len(z) = n
  BY <1>2, SeqBy
<1> QED
  BY <1>2, <1>3 DEF z

\* The message with its padding.
Padded(cells, z, high, low) == cells \o <<Mark>> \o ZeroCells(z) \o <<high, low>>
IsPadded(p, cells, z, high, low) ==
    /\ IsSeq(p) /\ Len(p) = Len(cells) + z + 3
    /\ \A i \in 1 .. Len(cells) : p[i] = cells[i]
    /\ p[Len(cells) + 1] = Mark
    /\ \A i \in 1 .. z : p[Len(cells) + 1 + i] = Zero
    /\ p[Len(cells) + z + 2] = high /\ p[Len(cells) + z + 3] = low
LEMMA PaddedIs == \A cells, high, low : \A z \in Nat :
  IsSeq(cells) => IsPadded(Padded(cells, z, high, low), cells, z, high, low)
<1> TAKE cells, high, low
<1> TAKE z \in Nat
<1> HAVE IsSeq(cells)
<1> DEFINE n == Len(cells)
           mark == <<Mark>>
           zeros == ZeroCells(z)
           bits == <<high, low>>
           a == cells \o mark
           b == a \o zeros
           p == b \o bits
<1>1. /\ IsSeq(mark) /\ Len(mark) = 1 /\ mark[1] = Mark
      /\ IsSeq(zeros) /\ Len(zeros) = z /\ (\A i \in 1 .. z : zeros[i] = Zero)
      /\ IsSeq(bits) /\ Len(bits) = 2 /\ bits[1] = high /\ bits[2] = low
      /\ n \in Nat
  BY OneCell, TwoCells, ZerosAre DEF IsSeq
<1> HIDE DEF mark, zeros, bits
<1>2. IsJoin(a, cells, mark)
  BY <1>1, Joins
<1> HIDE DEF a
<1>a. IsSeq(a)
  BY <1>2 DEF IsJoin
<1>3. IsJoin(b, a, zeros)
  BY <1>1, <1>a, Joins
<1> HIDE DEF b
<1>b. IsSeq(b)
  BY <1>3 DEF IsJoin
<1>4. IsJoin(p, b, bits)
  BY <1>1, <1>b, Joins
<1>5. p = Padded(cells, z, high, low)
  BY DEF p, b, a, bits, zeros, mark, Padded
<1> HIDE DEF p, n
<1>6. Len(a) = n + 1 /\ Len(b) = n + 1 + z /\ Len(p) = n + z + 3
  <2>1. Len(a) = n + 1
    BY <1>1, <1>2 DEF IsJoin, n
  <2>2. Len(b) = n + 1 + z
    BY <1>1, <1>3, <2>1 DEF IsJoin
  <2>3. Len(p) = n + 1 + z + 2
    BY <1>1, <1>4, <2>2 DEF IsJoin
  <2> QED
    BY <1>1, <2>1, <2>2, <2>3
<1>7. ASSUME NEW i \in 1 .. n PROVE p[i] = cells[i]
  <2>1. i \in 1 .. Len(a) /\ i \in 1 .. Len(b)
    BY <1>1, <1>6
  <2>2. a[i] = cells[i]
    BY <1>2 DEF IsJoin, n
  <2>3. b[i] = a[i]
    BY <1>3, <2>1 DEF IsJoin
  <2>4. p[i] = b[i]
    BY <1>4, <2>1 DEF IsJoin
  <2> QED
    BY <2>2, <2>3, <2>4
<1>8. p[n + 1] = Mark
  <2> DEFINE i == n + 1
  <2>1. i \in 1 .. Len(a) /\ i \in 1 .. Len(b)
    BY <1>1, <1>6
  <2>2. a[i] = Mark
    <3>1. 1 \in 1 .. Len(mark)
      BY <1>1
    <3> QED
      BY <1>1, <1>2, <3>1 DEF IsJoin, n
  <2> HIDE DEF i
  <2>3. b[i] = a[i]
    BY <1>3, <2>1 DEF IsJoin
  <2>4. p[i] = b[i]
    BY <1>4, <2>1 DEF IsJoin
  <2> QED
    BY <2>2, <2>3, <2>4 DEF i
<1>9. ASSUME NEW i \in 1 .. z PROVE p[n + 1 + i] = Zero
  <2> DEFINE c == Len(a) + i
  <2>1. c = n + 1 + i /\ c \in 1 .. Len(b)
    BY <1>1, <1>6
  <2>2. b[c] = zeros[i]
    BY <1>1, <1>3 DEF IsJoin
  <2> HIDE DEF c
  <2>3. p[c] = b[c]
    BY <1>4, <2>1 DEF IsJoin
  <2> QED
    BY <1>1, <2>1, <2>2, <2>3
<1>10. p[n + z + 2] = high /\ p[n + z + 3] = low
  <2>1. Len(b) + 1 = n + z + 2 /\ Len(b) + 2 = n + z + 3 /\ 1 \in 1 .. Len(bits) /\ 2 \in 1 .. Len(bits)
    BY <1>1, <1>6
  <2>2. p[Len(b) + 1] = bits[1] /\ p[Len(b) + 2] = bits[2]
    BY <1>4, <2>1 DEF IsJoin
  <2> QED
    BY <1>1, <2>1, <2>2
<1>11. IsSeq(p)
  BY <1>4 DEF IsJoin
<1>12. IsPadded(p, cells, z, high, low)
  BY <1>6, <1>7, <1>8, <1>9, <1>10, <1>11 DEF IsPadded, n
<1> QED
  BY <1>5, <1>12

\* What the end makes of the buffer, piece by piece.
MarkedBy(buffer, left) == Put(buffer, left, <<Mark>>)
FilledBy(buffer, left) == Put(MarkedBy(buffer, left), left + 1, ZeroCells(HashBlock - (left + 1)))
LastOf(buffer, left) ==
    IF left + 3 <= HashBlock
    THEN Put(MarkedBy(buffer, left), left + 1, ZeroCells(HashBlock - 2 - (left + 1)))
    ELSE Put(FilledBy(buffer, left), 0, ZeroCells(HashBlock - 2))
SizedBy(buffer, left, high, low) == Put(LastOf(buffer, left), HashBlock - 2, <<high, low>>)
IsCells(buffer) == IsSeq(buffer) /\ Len(buffer) = HashBlock
LEMMA PutsCells == \A buffer, at, cells : IsCells(buffer) =>
  /\ IsCells(Put(buffer, at, cells))
  /\ \A i \in 1 .. HashBlock :
       Put(buffer, at, cells)[i]
         = IF at < i /\ i <= at + Len(cells) THEN cells[i - at] ELSE buffer[i]
<1> TAKE buffer, at, cells
<1> HAVE IsCells(buffer)
<1> DEFINE put == Put(buffer, at, cells)
<1>1. IsPut(put, buffer, at, cells)
  BY Puts DEF IsCells
<1> HIDE DEF put
<1>2. IsCells(put) /\ \A i \in 1 .. HashBlock :
        put[i] = IF at < i /\ i <= at + Len(cells) THEN cells[i - at] ELSE buffer[i]
  BY <1>1 DEF IsPut, IsCells
<1> QED
  BY <1>2 DEF put

\* The two blocks: what was held, the mark and zeros; the number of bits last.
EndsIn(filled, sized, buffer, left, high, low) ==
    /\ IsCells(filled) /\ IsCells(sized)
    /\ \A i \in 1 .. HashBlock :
         /\ filled[i] = IF i <= left THEN buffer[i] ELSE IF i = left + 1 THEN Mark ELSE Zero
         /\ sized[i] = IF i = HashBlock THEN low ELSE IF i = HashBlock - 1 THEN high
                       ELSE IF left + 3 <= HashBlock
                       THEN IF i <= left THEN buffer[i] ELSE IF i = left + 1 THEN Mark ELSE Zero
                       ELSE Zero
LEMMA FinishBuffers ==
  ASSUME NEW buffer, IsCells(buffer), NEW left \in Nat, left < HashBlock, NEW high, NEW low
  PROVE  EndsIn(FilledBy(buffer, left), SizedBy(buffer, left, high, low), buffer, left, high, low)
<1> DEFINE B == HashBlock
           marked == MarkedBy(buffer, left)
           filled == FilledBy(buffer, left)
           last == LastOf(buffer, left)
           sized == SizedBy(buffer, left, high, low)
           mark == <<Mark>>
           bits == <<high, low>>
           used == left + 1
           x == B - 2
           zero == 0
<1>1. B \in Nat /\ B > 3
  BY HashNumbers
<1>2. Len(mark) = 1 /\ mark[1] = Mark /\ Len(bits) = 2 /\ bits[1] = high /\ bits[2] = low
  BY OneCell, TwoCells
<1>3. /\ marked = Put(buffer, left, mark) /\ filled = Put(marked, used, ZeroCells(B - used))
      /\ last = IF left + 3 <= B THEN Put(marked, used, ZeroCells(x - used))
                ELSE Put(filled, zero, ZeroCells(x))
      /\ sized = Put(last, x, bits)
  BY DEF MarkedBy, FilledBy, LastOf, SizedBy
<1> HIDE DEF marked, filled, last, sized, mark, bits
<1>4. IsCells(marked) /\ \A i \in 1 .. B : marked[i] = IF i = left + 1 THEN Mark ELSE buffer[i]
  <2>1. IsCells(marked) /\ \A i \in 1 .. B :
          marked[i] = IF left < i /\ i <= left + Len(mark) THEN mark[i - left] ELSE buffer[i]
    BY <1>3, PutsCells
  <2>2. \A i \in 1 .. B : (left < i /\ i <= left + Len(mark)) <=> i = left + 1
    BY <1>1, <1>2
  <2>3. (left + 1) - left = 1
    OBVIOUS
  <2> QED
    BY <1>2, <2>1, <2>2, <2>3
<1>u. used \in Nat /\ B - used \in Nat /\ x \in Nat
  BY <1>1
<1>d. used = left + 1 /\ x = B - 2
  OBVIOUS
<1> HIDE DEF used, x
<1>5. IsCells(filled) /\ \A i \in 1 .. B :
        filled[i] = IF i <= left THEN buffer[i] ELSE IF i = left + 1 THEN Mark ELSE Zero
  <2> DEFINE z == ZeroCells(B - used)
  <2>1. Len(z) = B - used /\ \A i \in 1 .. B - used : z[i] = Zero
    BY <1>u, ZerosAre
  <2>2. IsCells(filled) /\ \A i \in 1 .. B :
          filled[i] = IF used < i /\ i <= used + Len(z) THEN z[i - used] ELSE marked[i]
    BY <1>3, <1>4, PutsCells
  <2> HIDE DEF z
  <2>3. ASSUME NEW i \in 1 .. B
        PROVE  filled[i] = IF i <= left THEN buffer[i] ELSE IF i = left + 1 THEN Mark ELSE Zero
    <3>1. CASE used < i
      <4>1. i <= used + Len(z) /\ i - used \in 1 .. B - used /\ ~(i <= left) /\ i # left + 1
        BY <1>1, <1>u, <1>d, <2>1, <3>1
      <4> QED
        BY <2>1, <2>2, <3>1, <4>1
    <3>2. CASE ~(used < i)
      <4>1. i <= left + 1 /\ (i = left + 1 <=> ~(i <= left))
        BY <1>1, <1>u, <1>d, <3>2
      <4> QED
        BY <1>4, <2>2, <3>2, <4>1
    <3> QED
      BY <3>1, <3>2
  <2> QED
    BY <2>2, <2>3
<1>6. IsCells(last) /\ \A i \in 1 .. x :
        last[i] = IF left + 3 <= B
                  THEN IF i <= left THEN buffer[i] ELSE IF i = left + 1 THEN Mark ELSE Zero
                  ELSE Zero
  <2>1. CASE left + 3 <= B
    <3> DEFINE z == ZeroCells(x - used)
    <3>0. x - used \in Nat
      BY <1>1, <1>u, <1>d, <2>1
    <3>1. Len(z) = x - used /\ \A i \in 1 .. x - used : z[i] = Zero
      BY <3>0, ZerosAre
    <3>e. last = Put(marked, used, z)
      BY <1>3, <2>1
    <3>2. IsCells(last) /\ \A i \in 1 .. B :
            last[i] = IF used < i /\ i <= used + Len(z) THEN z[i - used] ELSE marked[i]
      BY <1>4, <3>e, PutsCells
    <3> HIDE DEF z
    <3>3. ASSUME NEW i \in 1 .. x
          PROVE  last[i] = IF i <= left THEN buffer[i] ELSE IF i = left + 1 THEN Mark ELSE Zero
      <4>0. i \in 1 .. B
        BY <1>1, <1>u, <1>d
      <4>1. CASE used < i
        <5>1. i <= used + Len(z) /\ i - used \in 1 .. x - used /\ ~(i <= left) /\ i # left + 1
          BY <1>1, <1>u, <1>d, <3>0, <3>1, <4>1
        <5> QED
          BY <3>1, <3>2, <4>0, <4>1, <5>1
      <4>2. CASE ~(used < i)
        <5>1. i <= left + 1 /\ (i = left + 1 <=> ~(i <= left))
          BY <1>1, <1>u, <1>d, <4>2
        <5> QED
          BY <1>4, <3>2, <4>0, <4>2, <5>1
      <4> QED
        BY <4>1, <4>2
    <3> QED
      BY <2>1, <3>2, <3>3
  <2>2. CASE ~(left + 3 <= B)
    <3> DEFINE z == ZeroCells(x)
    <3>1. Len(z) = x /\ \A i \in 1 .. x : z[i] = Zero
      BY <1>u, ZerosAre
    <3>e. last = Put(filled, zero, z)
      BY <1>3, <2>2
    <3> HIDE DEF zero
    <3>2. IsCells(last) /\ \A i \in 1 .. B :
            last[i] = IF zero < i /\ i <= zero + Len(z) THEN z[i - zero] ELSE filled[i]
      BY <1>5, <3>e, PutsCells
    <3> HIDE DEF z
    <3>3. ASSUME NEW i \in 1 .. x PROVE last[i] = Zero
      <4>1. i \in 1 .. B /\ zero < i /\ i <= zero + Len(z) /\ i - zero = i
        BY <1>1, <1>u, <1>d, <3>1 DEF zero
      <4> QED
        BY <3>1, <3>2, <4>1
    <3> QED
      BY <2>2, <3>2, <3>3
  <2> QED
    BY <2>1, <2>2
<1>7. IsCells(sized) /\ \A i \in 1 .. B :
        sized[i] = IF x < i /\ i <= x + Len(bits) THEN bits[i - x] ELSE last[i]
  BY <1>3, <1>6, PutsCells
<1>8. ASSUME NEW i \in 1 .. B
      PROVE  sized[i] = IF i = B THEN low ELSE IF i = B - 1 THEN high
                        ELSE IF left + 3 <= B
                        THEN IF i <= left THEN buffer[i]
                             ELSE IF i = left + 1 THEN Mark ELSE Zero
                        ELSE Zero
  <2>1. CASE i = B
    <3>1. x < i /\ i <= x + Len(bits) /\ i - x = 2
      BY <1>1, <1>2, <1>d, <2>1
    <3> QED
      BY <1>2, <1>7, <2>1, <3>1
  <2>2. CASE i = B - 1
    <3>1. x < i /\ i <= x + Len(bits) /\ i - x = 1 /\ i # B
      BY <1>1, <1>2, <1>d, <2>2
    <3> QED
      BY <1>2, <1>7, <2>2, <3>1
  <2>3. CASE i # B /\ i # B - 1
    <3>1. i \in 1 .. x /\ ~(x < i)
      BY <1>1, <1>d, <2>3
    <3>2. sized[i] = last[i]
      BY <1>7, <3>1
    <3> QED
      BY <1>6, <2>3, <3>1, <3>2
  <2> QED
    BY <2>1, <2>2, <2>3
<1> QED
  BY <1>5, <1>7, <1>8 DEF filled, sized, EndsIn

\* A buffer that holds the cells of a block is the block.
LEMMA SameBlock == \A buffer, cells : \A j \in Nat :
  IsCells(buffer) /\ (\A i \in 1 .. HashBlock : buffer[i] = cells[BytesIn(j) + i])
    => buffer = BlockOf(cells, j + 1)
<1> TAKE buffer, cells
<1> TAKE j \in Nat
<1> HAVE IsCells(buffer) /\ (\A i \in 1 .. HashBlock : buffer[i] = cells[BytesIn(j) + i])
<1> DEFINE b == j + 1
           block == BlockOf(cells, b)
           from == BytesIn(j)
<1>1. b \in Nat \ {0} /\ b - 1 = j /\ from \in Nat /\ HashBlock \in Nat
  BY HashNumbers, BytesAdd
<1>f. from = j * HashBlock
  BY DEF BytesIn
<1>d. \A i \in 1 .. HashBlock : buffer[i] = cells[from + i]
  OBVIOUS
<1> HIDE DEF b
<1>2. IsCut(block, cells, (b - 1) * HashBlock, (b - 1) * HashBlock + HashBlock)
  BY <1>1, Blocks
<1> HIDE DEF from, block
<1>3. IsCut(block, cells, from, from + HashBlock)
  BY <1>1, <1>2, <1>f
<1>4. (from + HashBlock) - from = HashBlock
  BY <1>1
<1>5. IsSeq(block) /\ Len(block) = HashBlock /\ \A i \in 1 .. HashBlock : block[i] = cells[from + i]
  BY <1>3, <1>4 DEF IsCut
<1>6. buffer = block
  BY <1>5, <1>d, SameSeq DEF IsCells
<1> QED
  BY <1>6 DEF block, b

\* The last blocks of the padded message.
FinishesAs(p, ctx, left, high, low) ==
    WholeBlocks(p, Len(p) \div HashBlock)
      = ctx.state \o (IF left + 3 <= HashBlock THEN <<>> ELSE <<FilledBy(ctx.buffer, left)>>)
          \o <<SizedBy(ctx.buffer, left, high, low)>>
LEMMA LastBlocks ==
  ASSUME NEW ctx, NEW cells, NEW k, NEW base, NEW left, HeldBy(ctx, cells, k, base, left),
         NEW high, NEW low, NEW p, IsPadded(p, cells, ZerosAfter(left), high, low)
  PROVE  FinishesAs(p, ctx, left, high, low)
<1> DEFINE B == HashBlock
           buffer == ctx.buffer
           n == Len(cells)
           z == ZerosAfter(left)
           filled == FilledBy(buffer, left)
           sized == SizedBy(buffer, left, high, low)
<1>1. /\ B \in Nat /\ B > 3 /\ IsCells(buffer) /\ k \in Nat /\ base \in Nat /\ left \in Nat
      /\ left < B /\ base = BytesIn(k) /\ n = base + left
      /\ (\A i \in 1 .. left : buffer[i] = cells[base + i])
      /\ ctx.state = WholeBlocks(cells, k)
  BY HashNumbers DEF HeldBy, IsCells
<1>2. z = IF left + 3 <= B THEN B - 3 - left ELSE B + B - 3 - left
  BY DEF ZerosAfter
<1>3. z \in Nat
  BY <1>1, <1>2
<1> HIDE DEF buffer, z, filled, sized
<1>4. /\ IsCells(filled) /\ IsCells(sized)
      /\ \A i \in 1 .. B :
           /\ filled[i] = IF i <= left THEN buffer[i] ELSE IF i = left + 1 THEN Mark ELSE Zero
           /\ sized[i] = IF i = B THEN low ELSE IF i = B - 1 THEN high
                         ELSE IF left + 3 <= B
                         THEN IF i <= left THEN buffer[i] ELSE IF i = left + 1 THEN Mark ELSE Zero
                         ELSE Zero
  <2>1. EndsIn(filled, sized, buffer, left, high, low)
    BY <1>1, FinishBuffers DEF filled, sized
  <2> QED
    BY <2>1 DEF EndsIn
<1>5. /\ IsSeq(p) /\ Len(p) = n + z + 3 /\ (\A i \in 1 .. n : p[i] = cells[i])
      /\ p[n + 1] = Mark /\ (\A i \in 1 .. z : p[n + 1 + i] = Zero)
      /\ p[n + z + 2] = high /\ p[n + z + 3] = low
  BY DEF IsPadded, z
<1>L. Len(p) = n + z + 3
  BY <1>5
<1>B. BytesIn(k + 1) = BytesIn(k) + B /\ BytesIn(k + 1) \in Nat
  <2>1. k \in Nat
    BY <1>1
  <2> QED
    BY <2>1, BytesAdd
<1>N. B \in Nat /\ base \in Nat /\ left \in Nat /\ n = base + left /\ base = BytesIn(k) /\ z \in Nat
  BY <1>1, <1>3
<1> HIDE DEF n, B
\* Places in the padded message, from the block that is being filled on.
<1>6. ASSUME NEW i \in Nat, i > 0, i <= left + z + 3
      PROVE  p[base + i] = IF i <= left THEN buffer[i] ELSE IF i = left + 1 THEN Mark
                           ELSE IF i <= left + z + 1 THEN Zero
                           ELSE IF i = left + z + 2 THEN high ELSE low
  <2>1. CASE i <= left
    <3>1. i \in 1 .. left /\ base + i \in 1 .. n
      BY <1>6, <1>N, <2>1
    <3> QED
      BY <1>1, <1>5, <2>1, <3>1
  <2>2. CASE i = left + 1
    <3>1. base + i = n + 1 /\ ~(i <= left)
      BY <1>N, <2>2
    <3> QED
      BY <1>5, <2>2, <3>1
  <2>3. CASE left + 1 < i /\ i <= left + z + 1
    <3> DEFINE c == i - left - 1
    <3>1. c \in 1 .. z /\ base + i = n + 1 + c /\ ~(i <= left) /\ i # left + 1
      BY <1>6, <1>N, <2>3
    <3> HIDE DEF c
    <3> QED
      BY <1>5, <2>3, <3>1
  <2>4. CASE i = left + z + 2
    <3>1. base + i = n + z + 2 /\ ~(i <= left) /\ i # left + 1 /\ ~(i <= left + z + 1)
      BY <1>N, <2>4
    <3> QED
      BY <1>5, <2>4, <3>1
  <2>5. CASE i = left + z + 3
    <3>1. base + i = n + z + 3 /\ ~(i <= left) /\ i # left + 1 /\ ~(i <= left + z + 1)
          /\ i # left + z + 2
      BY <1>N, <2>5
    <3> QED
      BY <1>5, <2>5, <3>1
  <2>6. i <= left \/ i = left + 1 \/ (left + 1 < i /\ i <= left + z + 1) \/ i = left + z + 2
        \/ i = left + z + 3
    BY <1>6, <1>N
  <2> HIDE DEF z
  <2> QED
    BY <2>1, <2>2, <2>3, <2>4, <2>5, <2>6, Zenon
<1>7. ctx.state = WholeBlocks(p, k)
  <2>1. \A i \in 1 .. base : cells[i] = p[i]
    <3>1. \A i \in 1 .. n : p[i] = cells[i]
      BY <1>5
    <3>2. \A i \in 1 .. base : i \in 1 .. n
      BY <1>N
    <3> QED
      BY <3>1, <3>2
  <2>2. base = k * HashBlock
    BY <1>1 DEF BytesIn
  <2>3. \A i \in 1 .. k * HashBlock : cells[i] = p[i]
    BY <2>1, <2>2
  <2>4. WholeBlocks(cells, k) = WholeBlocks(p, k)
    BY <1>1, <2>3, BlocksAgree
  <2> QED
    BY <1>1, <2>4
<1>8. CASE left + 3 <= B
  <2>1. left + z + 3 = B
    BY <1>1, <1>2, <1>3, <1>8
  <2>2. ASSUME NEW i \in 1 .. B PROVE sized[i] = p[base + i]
    <3>1. i \in Nat /\ i > 0 /\ i <= left + z + 3 /\ left + z + 2 = B - 1 /\ left + z + 1 = B - 2
      BY <1>1, <1>3, <2>1
    <3>2. p[base + i] = IF i <= left THEN buffer[i] ELSE IF i = left + 1 THEN Mark
                        ELSE IF i <= left + z + 1 THEN Zero
                        ELSE IF i = left + z + 2 THEN high ELSE low
      BY <1>6, <3>1
    <3>3. sized[i] = IF i = B THEN low ELSE IF i = B - 1 THEN high
                     ELSE IF i <= left THEN buffer[i] ELSE IF i = left + 1 THEN Mark ELSE Zero
      BY <1>4, <1>8
    <3> QED
      BY <1>1, <1>8, <3>1, <3>2, <3>3
  <2>3. sized = BlockOf(p, k + 1)
    BY <1>1, <1>4, <2>2, SameBlock DEF B
  <2>4. WholeBlocks(p, k) \o <<sized>> = WholeBlocks(p, k + 1)
    <3>1. k \in Nat
      BY <1>1
    <3> HIDE DEF B
    <3> QED
      BY <2>3, <3>1, OneBlock
  <2>5. Len(p) \div HashBlock = k + 1
    <3>1. Len(p) = BytesIn(k) + B
      <4>1. Len(p) = base + (left + z + 3)
        BY <1>L, <1>N
      <4> QED
        BY <1>N, <2>1, <4>1
    <3>2. BytesIn(k + 1) = BytesIn(k) + B /\ BytesIn(k + 1) \in Nat
      BY <1>B
    <3> DEFINE a == Len(p)
               c == k + 1
               zero == 0
    <3>3. a \in Nat /\ c \in Nat /\ zero \in Nat /\ zero < HashBlock /\ a = c * HashBlock + zero
          /\ HashBlock \in Nat /\ HashBlock > 0
      <4>1. c * HashBlock = BytesIn(c) /\ BytesIn(c) \in Nat
        BY <3>2 DEF BytesIn
      <4>2. a = BytesIn(c)
        BY <3>1, <3>2
      <4> HIDE DEF a, c
      <4> QED
        BY <1>1, <4>1, <4>2 DEF B, c
    <3> HIDE DEF a, c, zero
    <3>4. a \div HashBlock = c
      BY <3>3, Divided
    <3> QED
      BY <3>4 DEF a, c
  <2>6. (ctx.state \o <<>>) = ctx.state
    <3>1. IsSeq(WholeBlocks(p, k))
      BY <1>1, BlocksAre
    <3> QED
      BY <1>7, <3>1, JoinedNone
  <2> QED
    BY <1>7, <1>8, <2>4, <2>5, <2>6 DEF B, sized, buffer, FinishesAs
<1>9. CASE ~(left + 3 <= B)
  <2>1. left + z + 3 = B + B
    BY <1>1, <1>2, <1>3, <1>9
  <2>2. ASSUME NEW i \in 1 .. B PROVE filled[i] = p[base + i]
    <3>1. i \in Nat /\ i > 0 /\ i <= left + z + 3 /\ i <= left + z + 1
      BY <1>1, <1>3, <2>1
    <3>2. p[base + i] = IF i <= left THEN buffer[i] ELSE IF i = left + 1 THEN Mark
                        ELSE IF i <= left + z + 1 THEN Zero
                        ELSE IF i = left + z + 2 THEN high ELSE low
      BY <1>6, <3>1
    <3> QED
      BY <1>4, <3>1, <3>2
  <2>3. filled = BlockOf(p, k + 1)
    BY <1>1, <1>4, <2>2, SameBlock DEF B
  <2>4. WholeBlocks(p, k) \o <<filled>> = WholeBlocks(p, k + 1)
    BY <1>1, <2>3, OneBlock
  <2>b. BytesIn(k + 1) = base + B /\ BytesIn(k + 1) \in Nat /\ k + 1 \in Nat
    BY <1>1, BytesAdd DEF B
  <2>5. ASSUME NEW i \in 1 .. B PROVE sized[i] = p[BytesIn(k + 1) + i]
    <3> DEFINE c == B + i
    <3>1. c \in Nat /\ c > 0 /\ c <= left + z + 3 /\ base + c = BytesIn(k + 1) + i
          /\ ~(c <= left) /\ c # left + 1
          /\ (c <= left + z + 1 <=> i # B /\ i # B - 1) /\ (c = left + z + 2 <=> i = B - 1)
      BY <1>1, <1>3, <1>9, <2>1, <2>b
    <3> HIDE DEF c
    <3>2. p[base + c] = IF c <= left THEN buffer[c] ELSE IF c = left + 1 THEN Mark
                        ELSE IF c <= left + z + 1 THEN Zero
                        ELSE IF c = left + z + 2 THEN high ELSE low
      BY <1>6, <3>1
    <3>3. sized[i] = IF i = B THEN low ELSE IF i = B - 1 THEN high ELSE Zero
      BY <1>4, <1>9
    <3>4. B # B - 1
      BY <1>1
    <3> QED
      BY <3>1, <3>2, <3>3, <3>4
  <2>6. sized = BlockOf(p, k + 1 + 1)
    <3> DEFINE j == k + 1
    <3>1. j \in Nat /\ \A i \in 1 .. B : sized[i] = p[BytesIn(j) + i]
      BY <2>5, <2>b
    <3> HIDE DEF j
    <3>2. sized = BlockOf(p, j + 1)
      BY <1>4, <3>1, SameBlock DEF B
    <3> QED
      BY <3>2 DEF j
  <2>7. WholeBlocks(p, k + 1) \o <<sized>> = WholeBlocks(p, k + 1 + 1)
    <3> DEFINE j == k + 1
    <3>1. j \in Nat /\ sized = BlockOf(p, j + 1)
      BY <2>6, <2>b
    <3> HIDE DEF j
    <3>2. WholeBlocks(p, j) \o <<sized>> = WholeBlocks(p, j + 1)
      BY <3>1, OneBlock
    <3> QED
      BY <3>2 DEF j
  <2>8. Len(p) \div HashBlock = k + 1 + 1
    <3>1. Len(p) = base + (B + B)
      <4>1. n + z + 3 = base + (left + z + 3)
        BY <1>N
      <4> QED
        BY <1>L, <2>1, <4>1
    <3>2. BytesIn(k + 1 + 1) = base + (B + B) /\ BytesIn(k + 1 + 1) \in Nat
      <4> DEFINE j == k + 1
      <4>1. j \in Nat /\ BytesIn(j) = base + B
        BY <2>b
      <4> HIDE DEF j
      <4>2. BytesIn(j + 1) = BytesIn(j) + B /\ BytesIn(j + 1) \in Nat
        BY <4>1, BytesAdd DEF B
      <4> QED
        BY <1>1, <4>1, <4>2 DEF j
    <3> DEFINE a == Len(p)
               c == k + 1 + 1
               zero == 0
    <3>3. a \in Nat /\ c \in Nat /\ zero \in Nat /\ zero < HashBlock /\ a = c * HashBlock + zero
          /\ HashBlock \in Nat /\ HashBlock > 0
      <4>1. c * HashBlock = BytesIn(c) /\ BytesIn(c) \in Nat
        BY <3>2 DEF BytesIn
      <4>2. a = BytesIn(c) /\ c \in Nat
        BY <2>b, <3>1, <3>2
      <4> HIDE DEF a, c
      <4> QED
        BY <1>1, <4>1, <4>2 DEF B
    <3> HIDE DEF a, c, zero
    <3>4. a \div HashBlock = c
      BY <3>3, Divided
    <3> QED
      BY <3>4 DEF a, c
  <2> QED
    BY <1>7, <1>9, <2>4, <2>7, <2>8 DEF B, sized, filled, buffer, FinishesAs
<1> QED
  BY <1>8, <1>9

LEMMA FinishIs ==
  ASSUME NEW ctx, NEW left \in Nat, left = Left(ctx)
  PROVE  mbedtls_sha256_finish(ctx)
           = Digest(ctx.state
                      \o (IF left + 3 <= HashBlock THEN <<>> ELSE <<FilledBy(ctx.buffer, left)>>)
                      \o <<SizedBy(ctx.buffer, left, Length(BitsHigh(ctx.total)),
                                   Length(BitsLow(ctx.total)))>>)
<1>1. HashBlock \in Nat
  BY HashNumbers
<1>2. (left + 1) - 1 = left /\ (PadFits(left + 1) <=> left + 3 <= HashBlock)
  BY <1>1 DEF PadFits
<1> QED
  BY <1>2 DEF mbedtls_sha256_finish, Left, FilledBy, LastOf, SizedBy, MarkedBy, ZeroCells

LEMMA ReferenceIs ==
  ASSUME NEW cells
  PROVE  LET p == Padded(cells, Padding(Len(cells)), Length((Len(cells) * ByteBits) \div HashWord),
                         Length((Len(cells) * ByteBits) % HashWord))
         IN  Sha256Reference(cells) = Digest(WholeBlocks(p, Len(p) \div HashBlock))
BY DEF Sha256Reference, Padded, Padding, ZeroCells, WholeBlocks, PiecesOf

\* FIPS 180-4: the number of bits fits in two words.
Countable(n) == n * ByteBits < HashWord * HashWord
\* mbedtls_sha256_finish(): the digest is that of FIPS 180-4, wherever the message ends
\* in its last block.
THEOREM Sha256FinishIsReference ==
  ASSUME NEW ctx, NEW cells, Hashed(ctx, cells),
         Countable(Len(cells))
  PROVE  mbedtls_sha256_finish(ctx) = Sha256Reference(cells)
<1> DEFINE n == Len(cells)
           left == Left(ctx)
           bits == n * ByteBits
           high == Length(bits \div HashWord)
           low == Length(bits % HashWord)
           z == Padding(n)
           p == Padded(cells, z, high, low)
<1>1. ctx.total = CountOf(n) /\ n \in Nat /\ \E k, base : HeldBy(ctx, cells, k, base, left)
  BY HashedHolds
<1>2. PICK k, base : HeldBy(ctx, cells, k, base, left)
  BY <1>1
<1>3. high = Length(BitsHigh(ctx.total)) /\ low = Length(BitsLow(ctx.total))
  BY <1>1, BitsOf DEF Countable
<1>4. k \in Nat /\ left \in Nat /\ left < HashBlock /\ n = BytesIn(k) + left /\ IsSeq(cells)
  BY <1>2 DEF HeldBy
<1> HIDE DEF high, low, left, n
<1>5. z = ZerosAfter(left)
  BY <1>1, <1>4, PaddingIs
<1>6. z \in Nat
  BY <1>4, <1>5, HashNumbers DEF ZerosAfter
<1> HIDE DEF z
<1>7. IsPadded(p, cells, z, high, low)
  BY <1>4, <1>6, PaddedIs
<1>8. Sha256Reference(cells) = Digest(WholeBlocks(p, Len(p) \div HashBlock))
  BY ReferenceIs DEF p, z, high, low, n
<1> HIDE DEF p
<1>9. FinishesAs(p, ctx, left, high, low)
  <2>1. IsPadded(p, cells, ZerosAfter(left), high, low)
    BY <1>5, <1>7
  <2> QED
    BY <1>2, <2>1, LastBlocks
<1>10. mbedtls_sha256_finish(ctx)
         = Digest(ctx.state
                    \o (IF left + 3 <= HashBlock THEN <<>> ELSE <<FilledBy(ctx.buffer, left)>>)
                    \o <<SizedBy(ctx.buffer, left, high, low)>>)
  BY <1>3, <1>4, FinishIs DEF left
<1> QED
  BY <1>8, <1>9, <1>10 DEF FinishesAs

-----------------------------------------------------------------------------
(* cmac.c.                                                                 *)

\* Parts of a message: of a longer one, of what comes later, of a part, in a row.
LEMMA CutGrows == \A c, s, t, all, x, y :
  IsCut(c, s, x, y) /\ IsJoin(all, s, t) /\ IsSeq(s) /\ x \in Nat /\ y \in Nat /\ y <= Len(s)
    => IsCut(c, all, x, y)
<1> TAKE c, s, t, all, x, y
<1> HAVE IsCut(c, s, x, y) /\ IsJoin(all, s, t) /\ IsSeq(s) /\ x \in Nat /\ y \in Nat /\ y <= Len(s)
<1>1. ASSUME NEW i \in 1 .. y - x PROVE c[i] = all[x + i]
  <2>1. Len(s) \in Nat
    BY DEF IsSeq
  <2>2. x + i \in 1 .. Len(s)
    BY <2>1
  <2> QED
    BY <2>2 DEF IsCut, IsJoin
<1> QED
  BY <1>1 DEF IsCut
LEMMA CutLater == \A c, s, t, all, x, y :
  IsCut(c, t, x, y) /\ IsJoin(all, s, t) /\ IsSeq(s) /\ IsSeq(t) /\ x \in Nat /\ y \in Nat
    /\ y <= Len(t) => IsCut(c, all, Len(s) + x, Len(s) + y)
<1> TAKE c, s, t, all, x, y
<1> HAVE IsCut(c, t, x, y) /\ IsJoin(all, s, t) /\ IsSeq(s) /\ IsSeq(t) /\ x \in Nat /\ y \in Nat
         /\ y <= Len(t)
<1> DEFINE n == Len(s)
<1>1. n \in Nat /\ Len(t) \in Nat
  BY DEF IsSeq
<1> HIDE DEF n
<1>2. ASSUME NEW i \in 1 .. y - x PROVE c[i] = all[n + x + i]
  <2>1. x + i \in 1 .. Len(t) /\ n + x + i = n + (x + i)
    BY <1>1
  <2>2. all[n + (x + i)] = t[x + i]
    BY <2>1 DEF IsJoin, n
  <2> QED
    BY <2>1, <2>2 DEF IsCut
<1>3. (n + y) - (n + x) = y - x
  BY <1>1
<1>4. IsCut(c, all, n + x, n + y)
  BY <1>2, <1>3 DEF IsCut
<1> QED
  BY <1>4 DEF n
LEMMA CutInCut == \A c, d, s, x, y, u, v :
  IsCut(c, s, x, y) /\ IsCut(d, c, u, v) /\ x \in Nat /\ y \in Nat /\ u \in Nat /\ v \in Nat
    /\ v <= y - x => IsCut(d, s, x + u, x + v)
<1> TAKE c, d, s, x, y, u, v
<1> HAVE IsCut(c, s, x, y) /\ IsCut(d, c, u, v) /\ x \in Nat /\ y \in Nat /\ u \in Nat /\ v \in Nat
         /\ v <= y - x
<1>1. ASSUME NEW i \in 1 .. v - u PROVE d[i] = s[x + u + i]
  <2>1. u + i \in 1 .. y - x /\ x + u + i = x + (u + i)
    OBVIOUS
  <2> QED
    BY <2>1 DEF IsCut
<1>2. (x + v) - (x + u) = v - u
  OBVIOUS
<1> QED
  BY <1>1, <1>2 DEF IsCut
LEMMA CutsJoin == \A c, d, s, x, y, z :
  IsCut(c, s, x, y) /\ IsCut(d, s, y, z) /\ x \in Nat /\ y \in Nat /\ z \in Nat /\ x <= y /\ y <= z
    => IsCut(c \o d, s, x, z)
<1> TAKE c, d, s, x, y, z
<1> HAVE IsCut(c, s, x, y) /\ IsCut(d, s, y, z) /\ x \in Nat /\ y \in Nat /\ z \in Nat /\ x <= y
         /\ y <= z
<1> DEFINE e == c \o d
<1>1. IsSeq(c) /\ IsSeq(d) /\ Len(c) = y - x /\ Len(d) = z - y
  BY DEF IsCut
<1>2. IsJoin(e, c, d)
  BY <1>1, Joins
<1> HIDE DEF e
<1>3. ASSUME NEW i \in 1 .. z - x PROVE e[i] = s[x + i]
  <2>1. CASE i <= y - x
    <3>1. i \in 1 .. y - x
      BY <2>1
    <3> QED
      BY <1>1, <1>2, <3>1 DEF IsJoin, IsCut
  <2>2. CASE ~(i <= y - x)
    <3> DEFINE f == i - (y - x)
    <3>1. f \in 1 .. z - y /\ (y - x) + f = i /\ y + f = x + i
      BY <2>2
    <3> HIDE DEF f
    <3>2. e[(y - x) + f] = d[f]
      BY <1>1, <1>2, <3>1 DEF IsJoin
    <3>3. d[f] = s[y + f]
      BY <3>1 DEF IsCut
    <3> QED
      BY <3>1, <3>2, <3>3
  <2> QED
    BY <2>1, <2>2
<1>4. IsSeq(e) /\ Len(e) = z - x
  BY <1>1, <1>2 DEF IsJoin
<1>5. IsCut(e, s, x, z)
  BY <1>3, <1>4 DEF IsCut
<1> QED
  BY <1>5 DEF e
CutOf(s, x, y) == SubSeq(s, x + 1, y)
LEMMA CutIs == \A c, s, x, y :
  IsCut(c, s, x, y) /\ x \in Nat /\ y \in Nat /\ x <= y => c = CutOf(s, x, y)
<1> TAKE c, s, x, y
<1> HAVE IsCut(c, s, x, y) /\ x \in Nat /\ y \in Nat /\ x <= y
<1> DEFINE d == SubSeq(s, x + 1, y)
<1>1. IsCut(d, s, x, y)
  BY Cuts
<1> HIDE DEF d
<1>2. IsSeq(c) /\ IsSeq(d) /\ Len(c) = y - x /\ Len(d) = y - x
      /\ \A i \in 1 .. y - x : c[i] = d[i]
  BY <1>1 DEF IsCut
<1>3. c = d
  BY <1>2, SameSeq
<1> QED
  BY <1>3 DEF d, CutOf

\* The bytes of n cipher blocks.
CmacBytes(n) == n * CmacBlock
LEMMA CmacSize ==
  /\ CmacBlock \in Nat \ {0} /\ \A n \in Nat : CmacBytes(n) \in Nat
  /\ \A n, m \in Nat : CmacBytes(n + m) = CmacBytes(n) + CmacBytes(m)
  /\ CmacBytes(0) = 0 /\ CmacBytes(1) = CmacBlock
<1>1. CmacBlock \in Nat \ {0}
  BY MacAssumption
<1>2. ASSUME NEW n \in Nat PROVE CmacBytes(n) \in Nat
  BY <1>1 DEF CmacBytes
<1>3. ASSUME NEW n \in Nat, NEW m \in Nat
      PROVE  CmacBytes(n + m) = CmacBytes(n) + CmacBytes(m)
  BY <1>1 DEF CmacBytes
<1>4. CmacBytes(0) = 0 /\ CmacBytes(1) = CmacBlock
  BY <1>1 DEF CmacBytes
<1> QED
  BY <1>1, <1>2, <1>3, <1>4

\* The blocks before the last one, and what is left for it.
LEMMA BeforeLastIs ==
  ASSUME NEW n, NEW k \in Nat, NEW r \in 1 .. CmacBlock, n = CmacBytes(k) + r
  PROVE  BlocksBeforeLast(n) = k
<1> DEFINE C == CmacBlock
           a == n + C - 1
           q == k + 1
           s == r - 1
           base == CmacBytes(k)
<1>1. C \in Nat /\ C > 0 /\ base \in Nat /\ r \in Nat /\ s \in Nat /\ s < C
  BY CmacSize
<1>2. q \in Nat /\ q * C = base + C
  <2>1. CmacBytes(k + 1) = CmacBytes(k) + CmacBytes(1)
    BY CmacSize
  <2> QED
    BY <2>1, CmacSize DEF CmacBytes
<1>3. a \in Nat /\ a = base + C + s
  <2> HIDE DEF base
  <2> QED
    BY <1>1 DEF base
<1>4. a = q * C + s
  BY <1>2, <1>3
<1>5. BlocksBeforeLast(n) = IF a \div C = 0 THEN 0 ELSE (a \div C) - 1
  BY DEF BlocksBeforeLast
<1>q. q = k + 1
  OBVIOUS
<1> HIDE DEF a, q, s, C, base
<1>6. a \div C = q
  BY <1>1, <1>2, <1>3, <1>4, Divided
<1> QED
  BY <1>5, <1>6, <1>q
LEMMA NoneBeforeLast == BlocksBeforeLast(0) = 0
<1> DEFINE C == CmacBlock
           a == 0 + C - 1
           zero == 0
<1>1. C \in Nat /\ C > 0 /\ a \in Nat /\ a < C /\ a = zero * C + a /\ zero \in Nat
  BY CmacSize
<1>2. BlocksBeforeLast(0) = IF a \div C = 0 THEN 0 ELSE (a \div C) - 1
  BY DEF BlocksBeforeLast
<1> HIDE DEF a, C, zero
<1>3. a \div C = zero
  BY <1>1, Divided
<1> QED
  BY <1>2, <1>3 DEF zero
CmacPlaces(n, k, base, r) ==
    /\ k = BlocksBeforeLast(n) /\ k \in Nat /\ base = CmacBytes(k) /\ base \in Nat
    /\ r \in 0 .. CmacBlock /\ n = base + r /\ (n = 0 \/ r # 0) /\ (r = 0 => k = 0)
LEMMA CmacPlacesAre ==
  \A n \in Nat : CmacPlaces(n, BlocksBeforeLast(n), CmacBytes(BlocksBeforeLast(n)),
                            n - CmacBytes(BlocksBeforeLast(n)))
<1> TAKE n \in Nat
<1>1. CASE n = 0
  <2> DEFINE k == BlocksBeforeLast(n)
             base == CmacBytes(k)
  <2>1. k = 0 /\ base = 0 /\ CmacBlock \in Nat
    BY <1>1, NoneBeforeLast, CmacSize
  <2> HIDE DEF k, base
  <2>2. k \in Nat /\ base \in Nat /\ n - base = 0
    BY <1>1, <2>1
  <2>3. base = CmacBytes(k)
    BY DEF base
  <2>4. CmacPlaces(n, k, base, n - base)
    BY <1>1, <2>1, <2>2, <2>3 DEF CmacPlaces, k
  <2> QED
    BY <2>4 DEF k, base
<1>2. CASE n # 0
  <2> DEFINE C == CmacBlock
             a == n - 1
             q == a \div C
             s == a % C
             r == s + 1
  <2>1. C \in Nat /\ C > 0 /\ a \in Nat /\ n = a + 1
    BY <1>2, CmacSize
  <2> HIDE DEF a
  <2>2. q \in Nat /\ s \in 0 .. C - 1 /\ a = q * C + s
    BY <2>1, Division
  <2> HIDE DEF q, s
  <2>3. q * C = CmacBytes(q) /\ CmacBytes(q) \in Nat
    BY <2>2, CmacSize DEF CmacBytes
  <2>4. n = CmacBytes(q) + r /\ r \in 1 .. C
    BY <2>1, <2>2, <2>3
  <2> HIDE DEF r
  <2>5. BlocksBeforeLast(n) = q
    BY <2>2, <2>4, BeforeLastIs
  <2>6. n - CmacBytes(q) = r
    BY <2>1, <2>3, <2>4
  <2>7. CmacPlaces(n, q, CmacBytes(q), r)
    BY <2>1, <2>2, <2>3, <2>4, <2>5 DEF CmacPlaces
  <2> QED
    BY <2>5, <2>6, <2>7
<1> QED
  BY <1>1, <1>2
LEMMA CmacPlacesFit == \A n, k, r : k \in Nat /\ r \in 1 .. CmacBlock /\ n = CmacBytes(k) + r
  => CmacPlaces(n, k, CmacBytes(k), r)
<1> TAKE n, k, r
<1> HAVE k \in Nat /\ r \in 1 .. CmacBlock /\ n = CmacBytes(k) + r
<1>1. BlocksBeforeLast(n) = k
  BY BeforeLastIs
<1> QED
  BY <1>1, CmacSize DEF CmacPlaces

\* The context after the cells: all blocks but the last processed, it held back.
CmacOf(cells) ==
    LET k == BlocksBeforeLast(Len(cells)) IN
    [alg |-> "CMAC", state |-> PiecesOf(CmacBlock, cells, k),
     unprocessed |-> SubSeq(cells, CmacBytes(k) + 1, Len(cells))]
CmacHeld(c, cells, k, base, r) ==
    /\ IsSeq(cells) /\ CmacPlaces(Len(cells), k, base, r)
    /\ c = [alg |-> "CMAC", state |-> PiecesOf(CmacBlock, cells, k),
            unprocessed |-> SubSeq(cells, base + 1, Len(cells))]
LEMMA CmacHolds == \A cells : IsSeq(cells) =>
  \E k, base, r : CmacHeld(CmacOf(cells), cells, k, base, r)
<1> TAKE cells
<1> HAVE IsSeq(cells)
<1> DEFINE n == Len(cells)
           k == BlocksBeforeLast(n)
           base == CmacBytes(k)
           r == n - base
<1>1. CmacPlaces(n, k, base, r)
  BY CmacPlacesAre DEF IsSeq
<1>2. CmacHeld(CmacOf(cells), cells, k, base, r)
  BY <1>1 DEF CmacHeld, CmacOf
<1> HIDE DEF n, k, base, r
<1> QED
  BY <1>2
LEMMA HoldsCmac == \A c, cells, k, base, r : CmacHeld(c, cells, k, base, r) => c = CmacOf(cells)
<1> TAKE c, cells, k, base, r
<1> HAVE CmacHeld(c, cells, k, base, r)
<1>1. /\ k = BlocksBeforeLast(Len(cells)) /\ base = CmacBytes(k)
      /\ c = [alg |-> "CMAC", state |-> PiecesOf(CmacBlock, cells, k),
              unprocessed |-> SubSeq(cells, base + 1, Len(cells))]
  BY DEF CmacHeld, CmacPlaces
<1> QED
  BY <1>1, Zenon DEF CmacOf

\* What an update makes of the context, piece by piece.
CmacParts(c, input, held, flush, taken, rest, n, state, unprocessed) ==
    /\ c = [alg |-> "CMAC", state |-> state, unprocessed |-> unprocessed]
    /\ held = Len(unprocessed) /\ flush = Flushes(held, Len(input))
    /\ taken = (IF flush THEN CmacBlock - held ELSE 0)
    /\ rest = SubSeq(input, taken + 1, Len(input)) /\ n = BlocksBeforeLast(Len(rest))
CmacNow(state, unprocessed) == [alg |-> "CMAC", state |-> state, unprocessed |-> unprocessed]
CmacThen(input, flush, taken, rest, n, state, unprocessed) ==
    CmacNow(state \o (IF flush THEN <<unprocessed \o SubSeq(input, 1, taken)>> ELSE <<>>)
                  \o PiecesOf(CmacBlock, rest, n),
            (IF flush THEN <<>> ELSE unprocessed) \o SubSeq(rest, CmacBytes(n) + 1, Len(rest)))
LEMMA CmacUpdateIs == \A c, input, held, flush, taken, rest, n, state, unprocessed :
  CmacParts(c, input, held, flush, taken, rest, n, state, unprocessed)
    => mbedtls_cipher_cmac_update(c, input)
         = CmacThen(input, flush, taken, rest, n, state, unprocessed)
<1> TAKE c, input, held, flush, taken, rest, n, state, unprocessed
<1> HAVE CmacParts(c, input, held, flush, taken, rest, n, state, unprocessed)
<1>1. /\ c = [alg |-> "CMAC", state |-> state, unprocessed |-> unprocessed]
      /\ held = Len(c.unprocessed) /\ flush = Flushes(held, Len(input))
      /\ taken = (IF flush THEN CmacBlock - held ELSE 0)
      /\ rest = SubSeq(input, taken + 1, Len(input)) /\ n = BlocksBeforeLast(Len(rest))
  BY DEF CmacParts
<1>2. mbedtls_cipher_cmac_update(c, input)
           = [c EXCEPT
              !.state = @ \o (IF flush THEN <<c.unprocessed \o SubSeq(input, 1, taken)>> ELSE <<>>)
                          \o PiecesOf(CmacBlock, rest, n),
              !.unprocessed = (IF flush THEN <<>> ELSE @)
                                \o SubSeq(rest, CmacBytes(n) + 1, Len(rest))]
  BY <1>1 DEF mbedtls_cipher_cmac_update, CmacBytes, Pieces, PiecesOf
<1>3. c.state = state /\ c.unprocessed = unprocessed
  BY <1>1
<1> DEFINE x == state \o (IF flush THEN <<unprocessed \o SubSeq(input, 1, taken)>> ELSE <<>>)
                     \o PiecesOf(CmacBlock, rest, n)
           y == (IF flush THEN <<>> ELSE unprocessed) \o SubSeq(rest, CmacBytes(n) + 1, Len(rest))
<1>4. mbedtls_cipher_cmac_update(c, input) = [c EXCEPT !.state = x, !.unprocessed = y]
  BY <1>2, <1>3
<1>5. CmacThen(input, flush, taken, rest, n, state, unprocessed) = CmacNow(x, y)
  BY DEF CmacThen
<1> HIDE DEF x, y
<1>6. [c EXCEPT !.state = x, !.unprocessed = y] = CmacNow(x, y)
  <2>1. c = [alg |-> "CMAC", state |-> state, unprocessed |-> unprocessed]
    BY <1>1
  <2> DEFINE d == [c EXCEPT !.state = x]
  <2>2. d = [alg |-> "CMAC", state |-> x, unprocessed |-> unprocessed]
    BY <2>1
  <2> HIDE DEF d
  <2>3. [d EXCEPT !.unprocessed = y] = CmacNow(x, y)
    BY <2>2 DEF CmacNow
  <2> QED
    BY <2>3 DEF d
<1> QED
  BY <1>4, <1>5, <1>6

\* Whole blocks of a part that starts with the block after the j-th.
IsPart(part, all, j, m, z) ==
    /\ j \in Nat /\ m \in Nat /\ z \in Nat
    /\ IsCut(part, all, CmacBytes(j), z) /\ CmacBytes(m) <= z - CmacBytes(j)
PiecesJoin(part, all, j, m) ==
    PiecesOf(CmacBlock, all, j) \o PiecesOf(CmacBlock, part, m) = PiecesOf(CmacBlock, all, j + m)
LEMMA PartPieces == \A all, part, j, m, z :
  IsPart(part, all, j, m, z) => PiecesJoin(part, all, j, m)
<1> TAKE all, part, j, m, z
<1> HAVE IsPart(part, all, j, m, z)
<1>0. /\ j \in Nat /\ m \in Nat /\ z \in Nat
      /\ IsCut(part, all, CmacBytes(j), z) /\ CmacBytes(m) <= z - CmacBytes(j)
  BY DEF IsPart
<1> DEFINE B == CmacBlock
           more == PiecesOf(B, part, m)
           base == CmacBytes(j)
<1>1. B \in Nat \ {0} /\ base \in Nat /\ j \in Nat /\ m \in Nat /\ z \in Nat
  BY <1>0, CmacSize
<1>2. IsSeq(more) /\ Len(more) = m /\ \A b \in 1 .. m : more[b] = PieceOf(B, part, b)
  BY <1>1, PiecesAre
<1> HIDE DEF more
<1>3. ASSUME NEW b \in 1 .. m PROVE more[b] = PieceOf(B, all, j + b)
  <2> DEFINE from == (b - 1) * B
             to == from + B
             x == base + from
             y == base + to
             d == PieceOf(B, part, b)
  <2>1. from \in Nat /\ b \in Nat \ {0} /\ from + B <= m * B
    BY <1>1, PieceInside
  <2>2. IsCut(d, part, from, to)
    BY <1>1, <2>1, PieceIs
  <2>3. to \in Nat /\ to <= z - base
    <3>1. m * B = CmacBytes(m) /\ CmacBytes(m) \in Nat
      BY <1>1, CmacSize DEF CmacBytes
    <3> HIDE DEF from, base
    <3> QED
      BY <1>0, <1>1, <2>1, <3>1 DEF base
  <2>4. x = ((j + b) - 1) * B /\ y = x + B
    <3>1. ((j + b) - 1) * B = j * B + from /\ j * B = base
      BY <1>1 DEF CmacBytes
    <3> HIDE DEF from, base
    <3> QED
      BY <1>1, <2>1, <3>1
  <2> HIDE DEF d, from, to, B
  <2>5. IsCut(d, all, base + from, base + to)
    <3>1. IsCut(part, all, base, z)
      BY <1>0
    <3> HIDE DEF base
    <3> QED
      BY <1>1, <2>1, <2>2, <2>3, <3>1, CutInCut
  <2> DEFINE w == j + b
             v == (w - 1) * B
  <2>6. w \in Nat \ {0} /\ v \in Nat
    BY <1>1, <2>4, <2>1
  <2>7. IsCut(PieceOf(B, all, w), all, v, v + B)
    BY <1>1, <2>6, PieceIs
  <2>8. v = x /\ v + B = y
    BY <2>4
  <2> HIDE DEF w, v
  <2>9. IsCut(PieceOf(B, all, w), all, x, y) /\ IsCut(d, all, x, y)
    BY <2>5, <2>7, <2>8
  <2>10. x \in Nat /\ y \in Nat /\ x <= y
    BY <1>1, <2>6, <2>8
  <2> HIDE DEF x, y
  <2>11. PieceOf(B, all, w) = CutOf(all, x, y) /\ d = CutOf(all, x, y)
    BY <2>9, <2>10, CutIs
  <2> QED
    BY <1>2, <2>11 DEF d, w, B
<1>4. PiecesFrom(B, all, j, more, m)
  BY <1>2, <1>3 DEF PiecesFrom
<1> HIDE DEF B, base
<1>5. PiecesOf(B, all, j) \o more = PiecesOf(B, all, j + m)
  BY <1>1, <1>4, MorePieces
<1> QED
  BY <1>5 DEF more, B, PiecesJoin

\* The context after all of a message, given that the first j blocks of it were
\* processed and that the rest was not.
RestParts(all, j, z, rest, m) ==
    /\ IsSeq(all) /\ j \in Nat /\ z = Len(all) /\ CmacBytes(j) < z
    /\ IsCut(rest, all, CmacBytes(j), z) /\ m = BlocksBeforeLast(Len(rest))
LEMMA CmacRest == \A all, j, z, rest, m : RestParts(all, j, z, rest, m) =>
  CmacNow(PiecesOf(CmacBlock, all, j) \o PiecesOf(CmacBlock, rest, m),
          SubSeq(rest, CmacBytes(m) + 1, Len(rest))) = CmacOf(all)
<1> TAKE all, j, z, rest, m
<1> HAVE RestParts(all, j, z, rest, m)
<1>0. /\ IsSeq(all) /\ j \in Nat /\ z = Len(all) /\ CmacBytes(j) < z
      /\ IsCut(rest, all, CmacBytes(j), z) /\ m = BlocksBeforeLast(Len(rest))
  BY DEF RestParts
<1> DEFINE C == CmacBlock
           base == CmacBytes(j)
           n == Len(rest)
           more == CmacBytes(m)
           r == n - more
           at == CmacBytes(j + m)
           left == SubSeq(rest, more + 1, n)
<1>1. base \in Nat /\ z \in Nat /\ C \in Nat
  BY <1>0, CmacSize DEF IsSeq
<1>2. n = z - base /\ n \in Nat /\ n # 0
  <2>1. n = z - base
    BY <1>0 DEF IsCut
  <2>2. base < z
    BY <1>0
  <2> HIDE DEF n, base
  <2> QED
    BY <1>1, <2>1, <2>2
<1>3. CmacPlaces(n, m, more, r)
  <2> HIDE DEF n
  <2> QED
    BY <1>0, <1>2, CmacPlacesAre DEF n
<1>4. m \in Nat /\ more \in Nat /\ r \in 1 .. C /\ n = more + r
  <2> HIDE DEF n, r, more
  <2> QED
    BY <1>1, <1>2, <1>3 DEF CmacPlaces
<1>5. at = base + more
  BY <1>0, <1>4, CmacSize
<1>6. PiecesOf(C, all, j) \o PiecesOf(C, rest, m) = PiecesOf(C, all, j + m)
  <2>1. more <= z - base
    <3> HIDE DEF n, base, more, r
    <3> QED
      BY <1>1, <1>2, <1>4
  <2>2. IsPart(rest, all, j, m, z)
    BY <1>0, <1>1, <1>4, <2>1 DEF IsPart
  <2>3. PiecesJoin(rest, all, j, m)
    BY <2>2, PartPieces
  <2> QED
    BY <2>3 DEF PiecesJoin
<1>7. CmacPlaces(z, j + m, at, r)
  <2>1. z = at + r /\ j + m \in Nat
    <3> HIDE DEF n, base, more, r, at
    <3> QED
      BY <1>0, <1>1, <1>2, <1>4, <1>5
  <2>2. r \in 1 .. C
    BY <1>4
  <2> HIDE DEF r
  <2> QED
    BY <2>1, <2>2, CmacPlacesFit
<1>8. left = SubSeq(all, at + 1, z)
  <2>1. IsCut(left, rest, more, n)
    <3> HIDE DEF n, more, r
    <3> QED
      BY <1>2, <1>4, Cuts
  <2>2. IsCut(rest, all, base, z)
    BY <1>0
  <2>3. n <= z - base
    BY <1>2
  <2> HIDE DEF left, n, more, base, at, r
  <2>4. IsCut(left, all, base + more, base + n)
    BY <1>1, <1>2, <1>4, <2>1, <2>2, <2>3, CutInCut
  <2>5. base + more = at /\ base + n = z /\ at \in Nat /\ at <= z
    BY <1>1, <1>2, <1>4, <1>5
  <2>6. IsCut(left, all, at, z)
    BY <2>4, <2>5
  <2>7. left = CutOf(all, at, z)
    BY <1>1, <2>5, <2>6, CutIs
  <2> QED
    BY <2>7 DEF CutOf
<1> DEFINE c == [alg |-> "CMAC", state |-> PiecesOf(C, all, j) \o PiecesOf(C, rest, m), unprocessed |-> left]
<1>9. CmacHeld(c, all, j + m, at, r)
  BY <1>0, <1>6, <1>7, <1>8 DEF CmacHeld
<1> HIDE DEF c, r, at
<1>10. c = CmacOf(all)
  BY <1>9, HoldsCmac
<1> QED
  BY <1>10 DEF c, CmacNow

\* The blocks of a message are blocks of a longer one.
SamePieces(s, t, k) == PiecesOf(CmacBlock, s, k) = PiecesOf(CmacBlock, t, k)
LEMMA CmacStays == \A all, cells, input, k, base :
  IsJoin(all, cells, input) /\ IsSeq(cells) /\ k \in Nat /\ base = CmacBytes(k) /\ base <= Len(cells)
    => SamePieces(cells, all, k)
<1> TAKE all, cells, input, k, base
<1> HAVE IsJoin(all, cells, input) /\ IsSeq(cells) /\ k \in Nat /\ base = CmacBytes(k)
         /\ base <= Len(cells)
<1>1. Len(cells) \in Nat /\ base \in Nat /\ base = k * CmacBlock /\ CmacBlock \in Nat \ {0}
  BY CmacSize DEF IsSeq, CmacBytes
<1>2. \A i \in 1 .. Len(cells) : cells[i] = all[i]
  BY DEF IsJoin
<1>3. \A i \in 1 .. base : cells[i] = all[i]
  BY <1>1, <1>2
<1>4. \A i \in 1 .. k * CmacBlock : cells[i] = all[i]
  BY <1>1, <1>3
<1> QED
  BY <1>1, <1>4, PiecesAgree DEF SamePieces
\* One more block.
NextPiece(block, cells, j) == block = PieceOf(CmacBlock, cells, j + 1)
NowNext(block, cells, j) ==
    PiecesOf(CmacBlock, cells, j) \o <<block>> = PiecesOf(CmacBlock, cells, j + 1)
LEMMA CmacBlockSize == CmacBlock \in Nat \ {0}
BY MacAssumption
LEMMA CmacNextPiece == \A block, cells : \A j \in Nat :
  NextPiece(block, cells, j) => NowNext(block, cells, j)
BY CmacBlockSize, OnePiece DEF NextPiece, NowNext

\* The block held back is completed and processed, or there is none.
LEMMA CmacFlushed ==
  ASSUME NEW c, NEW cells, NEW k, NEW base, NEW r, CmacHeld(c, cells, k, base, r),
         NEW all, NEW input, IsAll(all, cells, input), input # <<>>,
         NEW flush, flush = Flushes(r, Len(input)), flush \/ r = 0
  PROVE  mbedtls_cipher_cmac_update(c, input) = CmacOf(all)
<1> DEFINE C == CmacBlock
           m == Len(input)
           n == Len(cells)
           z == Len(all)
           taken == IF flush THEN C - r ELSE 0
           j == IF flush THEN k + 1 ELSE k
           rest == SubSeq(input, taken + 1, m)
           mid == CmacBytes(j)
           held == SubSeq(cells, base + 1, n)
           state == PiecesOf(C, cells, k)
           begun == IF flush THEN <<held \o SubSeq(input, 1, taken)>> ELSE <<>>
           kept == IF flush THEN <<>> ELSE held
<1>1. /\ IsSeq(cells) /\ IsSeq(input) /\ IsJoin(all, cells, input)
      /\ CmacPlaces(n, k, base, r)
      /\ c = [alg |-> "CMAC", state |-> state, unprocessed |-> held]
  BY AllJoins DEF CmacHeld, IsAll
<1>2. C \in Nat /\ C > 0 /\ m \in Nat /\ n \in Nat /\ z = n + m /\ IsSeq(all) /\ m # 0
  BY <1>1, CmacSize, NoCells DEF IsSeq, IsJoin
<1>3. /\ k \in Nat /\ base \in Nat /\ base = CmacBytes(k) /\ r \in 0 .. C /\ n = base + r
      /\ (r = 0 => k = 0)
  BY <1>1 DEF CmacPlaces
<1>4. IsCut(held, cells, base, n) /\ IsSeq(held) /\ Len(held) = r
  <2>1. IsCut(held, cells, base, n)
    BY <1>2, <1>3, Cuts
  <2> HIDE DEF held, n
  <2>2. IsSeq(held) /\ Len(held) = n - base
    BY <2>1 DEF IsCut
  <2>3. n - base = r
    BY <1>2, <1>3
  <2> QED
    BY <2>1, <2>2, <2>3
<1>5. flush <=> r > 0 /\ m > C - r
  BY DEF Flushes
<1>6. taken \in Nat /\ taken < m /\ mid = n + taken /\ j \in Nat
  <2>1. CASE flush
    <3>1. CmacBytes(k + 1) = base + C
      BY <1>3, CmacSize
    <3>2. taken = C - r /\ j = k + 1
      BY <2>1
    <3> HIDE DEF m, n, C, taken, j
    <3> QED
      BY <1>2, <1>3, <1>5, <2>1, <3>1, <3>2
  <2>2. CASE ~flush
    <3>1. taken = 0 /\ j = k /\ r = 0
      BY <2>2
    <3> HIDE DEF m, n, C, taken, j
    <3> QED
      BY <1>2, <1>3, <3>1
  <2> QED
    BY <2>1, <2>2
<1>7. PiecesOf(C, cells, k) = PiecesOf(C, all, k)
  <2>1. base <= Len(cells)
    <3> HIDE DEF C
    <3> QED
      BY <1>2, <1>3
  <2>2. SamePieces(cells, all, k)
    BY <1>1, <1>3, <2>1, CmacStays
  <2> QED
    BY <2>2 DEF SamePieces
<1>8. state \o begun = PiecesOf(C, all, j)
  <2>1. CASE flush
    <3> DEFINE part == SubSeq(input, 1, taken)
               block == held \o part
    <3>1. taken = C - r /\ j = k + 1 /\ begun = <<block>>
      BY <2>1
    <3>2. IsCut(part, input, 0, taken)
      BY <1>6, Firsts
    <3>3. IsCut(part, all, n, n + taken)
      <4> DEFINE zero == 0
      <4>1. zero \in Nat /\ n + zero = n /\ IsCut(part, input, zero, taken) /\ taken <= m
        BY <1>2, <1>6, <3>2
      <4> HIDE DEF zero, part, taken, n, m
      <4>2. IsCut(part, all, n + zero, n + taken)
        BY <1>1, <1>6, <4>1, CutLater DEF n, m
      <4> QED
        BY <4>1, <4>2
    <3>4. IsCut(held, all, base, n)
      <4> HIDE DEF held, n
      <4>1. n <= Len(cells)
        BY <1>2 DEF n
      <4> QED
        BY <1>1, <1>2, <1>3, <1>4, <4>1, CutGrows
    <3>5. IsCut(block, all, base, n + taken)
      <4> HIDE DEF held, n, part, taken
      <4> DEFINE e == n + taken
      <4>0. n \in Nat /\ taken \in Nat /\ base \in Nat /\ r \in Nat /\ n = base + r
        BY <1>2, <1>3, <1>6
      <4>1. e \in Nat /\ n <= e /\ base <= n
        BY <4>0
      <4>2. IsCut(part, all, n, e)
        BY <3>3
      <4> HIDE DEF e
      <4>3. IsCut(block, all, base, e)
        BY <1>2, <1>3, <3>4, <4>1, <4>2, CutsJoin
      <4> QED
        BY <4>3 DEF e
    <3>6. PieceOf(C, all, k + 1) = SubSeq(all, base + 1, n + taken)
      <4>1. (k + 1) * C = n + taken
        BY <1>6, <3>1 DEF CmacBytes
      <4>2. ((k + 1) - 1) * C = base
        <5>1. (k + 1) - 1 = k
          BY <1>3
        <5> QED
          BY <1>3, <5>1 DEF CmacBytes
      <4>3. PieceOf(C, all, k + 1) = SubSeq(all, ((k + 1) - 1) * C + 1, (k + 1) * C)
        BY Zenon DEF PieceOf
      <4> QED
        BY <4>1, <4>2, <4>3
    <3>7. block = PieceOf(C, all, k + 1)
      <4> HIDE DEF block, n, taken, C
      <4> DEFINE e == n + taken
      <4>0. n \in Nat /\ taken \in Nat /\ base \in Nat /\ r \in Nat /\ n = base + r
        BY <1>2, <1>3, <1>6
      <4>1. e \in Nat /\ base <= e /\ IsCut(block, all, base, e)
        BY <3>5, <4>0
      <4> HIDE DEF e
      <4>2. block = CutOf(all, base, e)
        BY <1>3, <4>1, CutIs
      <4> QED
        BY <3>6, <4>2 DEF e, CutOf
    <3>8. PiecesOf(C, all, k) \o <<block>> = PiecesOf(C, all, k + 1)
      <4> HIDE DEF block
      <4>1. NextPiece(block, all, k)
        BY <3>7 DEF NextPiece
      <4>2. NowNext(block, all, k)
        BY <1>3, <4>1, CmacNextPiece
      <4> QED
        BY <4>2 DEF NowNext
    <3> QED
      BY <1>7, <3>1, <3>8
  <2>2. CASE ~flush
    <3>1. begun = <<>> /\ j = k
      BY <2>2
    <3>2. IsSeq(PiecesOf(C, all, k))
      BY <1>2, <1>3, PiecesAre
    <3> QED
      BY <1>7, <3>1, <3>2, JoinedNone
  <2> QED
    BY <2>1, <2>2
<1>9. kept = <<>>
  <2>1. CASE flush
    BY <2>1
  <2>2. CASE ~flush
    BY <1>4, <2>2, NoCells
  <2> QED
    BY <2>1, <2>2
<1>10. IsCut(rest, all, mid, z)
  <2>1. IsCut(rest, input, taken, m)
    <3> HIDE DEF taken, m
    <3> QED
      BY <1>2, <1>6, Cuts
  <2> HIDE DEF taken, m, n, rest, mid, z
  <2>2. IsCut(rest, all, n + taken, n + m)
    <3>1. m <= Len(input)
      BY <1>2 DEF m
    <3> QED
      BY <1>1, <1>2, <1>6, <2>1, <3>1, CutLater DEF n
  <2> QED
    BY <1>2, <1>6, <2>2
<1> DEFINE blocks == BlocksBeforeLast(Len(rest))
           more == PiecesOf(C, rest, blocks)
           tail == SubSeq(rest, CmacBytes(blocks) + 1, Len(rest))
<1>11. mbedtls_cipher_cmac_update(c, input) = CmacNow(state \o begun \o more, kept \o tail)
  <2>1. CmacParts(c, input, r, flush, taken, rest, blocks, state, held)
    <3>1. r = Len(held)
      BY <1>4
    <3>2. /\ taken = (IF flush THEN CmacBlock - r ELSE 0)
          /\ rest = SubSeq(input, taken + 1, Len(input)) /\ blocks = BlocksBeforeLast(Len(rest))
      OBVIOUS
    <3> HIDE DEF held, state, rest, blocks, taken
    <3> QED
      BY <1>1, <3>1, <3>2 DEF CmacParts
  <2>2. mbedtls_cipher_cmac_update(c, input)
          = CmacThen(input, flush, taken, rest, blocks, state, held)
    <3> HIDE DEF held, state, rest, blocks, taken
    <3> QED
      BY <2>1, CmacUpdateIs
  <2>3. CmacThen(input, flush, taken, rest, blocks, state, held)
          = CmacNow(state \o begun \o more, kept \o tail)
    <3> HIDE DEF held, state, rest, blocks, taken
    <3> QED
      BY DEF CmacThen
  <2> QED
    BY <2>2, <2>3
<1>12. kept \o tail = tail
  <2>1. IsSeq(tail)
    <3> DEFINE from == CmacBytes(blocks)
               len == Len(rest)
    <3>1. len \in Nat
      BY <1>10 DEF IsCut, IsSeq
    <3>2. from \in Nat
      <4>1. blocks \in Nat
        <5> HIDE DEF len
        <5>1. CmacPlaces(len, BlocksBeforeLast(len), CmacBytes(BlocksBeforeLast(len)),
                         len - CmacBytes(BlocksBeforeLast(len)))
          BY <3>1, CmacPlacesAre
        <5> QED
          BY <5>1 DEF CmacPlaces, len
      <4> QED
        BY <4>1, CmacSize
    <3> DEFINE one == from + 1
    <3>3. one \in Nat
      <4> HIDE DEF from
      <4> QED
        BY <3>2
    <3> HIDE DEF len, from, rest, one
    <3>4. IsSeq(SubSeq(rest, one, len))
      BY <3>1, <3>3, Cut
    <3> QED
      BY <3>4 DEF len, one, from
  <2> HIDE DEF tail, kept
  <2> QED
    BY <1>9, <2>1, JoinedNone
<1> DEFINE new == PiecesOf(C, all, j)
<1>13. CmacNow(new \o more, tail) = CmacOf(all)
  <2>1. mid < z
    <3> HIDE DEF mid, taken, n, m, z
    <3> QED
      BY <1>2, <1>6
  <2>2. RestParts(all, j, z, rest, blocks)
    <3>1. mid = CmacBytes(j) /\ z = Len(all) /\ blocks = BlocksBeforeLast(Len(rest))
      OBVIOUS
    <3> HIDE DEF blocks, rest, j, mid, z
    <3> QED
      BY <1>2, <1>6, <1>10, <2>1, <3>1 DEF RestParts
  <2> HIDE DEF blocks, rest, j, mid, z
  <2> QED
    BY <2>2, CmacRest
<1> HIDE DEF state, begun, more, kept, tail, new
<1>14. state \o begun = new
  BY <1>8 DEF new
<1> QED
  BY <1>11, <1>12, <1>13, <1>14

\* The input is held back too.
LEMMA CmacKept ==
  ASSUME NEW c, NEW cells, NEW k, NEW base, NEW r, CmacHeld(c, cells, k, base, r),
         NEW all, NEW input, IsAll(all, cells, input), input # <<>>,
         ~Flushes(r, Len(input)), r # 0
  PROVE  mbedtls_cipher_cmac_update(c, input) = CmacOf(all)
<1> DEFINE C == CmacBlock
           m == Len(input)
           n == Len(cells)
           z == Len(all)
           zero == 0
           held == SubSeq(cells, base + 1, n)
           state == PiecesOf(C, cells, k)
           rest == SubSeq(input, 0 + 1, m)
           tail == SubSeq(rest, CmacBytes(0) + 1, Len(rest))
<1>1. /\ IsSeq(cells) /\ IsSeq(input) /\ IsJoin(all, cells, input)
      /\ CmacPlaces(n, k, base, r)
      /\ c = [alg |-> "CMAC", state |-> state, unprocessed |-> held]
  BY AllJoins DEF CmacHeld, IsAll
<1>2. C \in Nat /\ C > 0 /\ m \in Nat /\ n \in Nat /\ z = n + m /\ IsSeq(all) /\ m # 0
  BY <1>1, CmacSize, NoCells DEF IsSeq, IsJoin
<1>3. /\ k \in Nat /\ base \in Nat /\ base = CmacBytes(k) /\ r \in 0 .. C /\ n = base + r
  BY <1>1 DEF CmacPlaces
<1>4. IsCut(held, cells, base, n) /\ IsSeq(held) /\ Len(held) = r
  <2>1. IsCut(held, cells, base, n)
    BY <1>2, <1>3, Cuts
  <2> HIDE DEF held, n
  <2>2. IsSeq(held) /\ Len(held) = n - base
    BY <2>1 DEF IsCut
  <2>3. n - base = r
    BY <1>2, <1>3
  <2> QED
    BY <2>1, <2>2, <2>3
<1>5. ~(m > C - r) /\ m <= C
  <2>1. ~(r > 0 /\ m > C - r)
    BY DEF Flushes
  <2> HIDE DEF m, C
  <2> QED
    BY <1>2, <1>3, <2>1
<1>6. IsCut(rest, input, zero, m) /\ Len(rest) = m /\ rest = input
  <2>1. rest = SubSeq(input, 1, m)
    OBVIOUS
  <2>2. IsCut(SubSeq(input, 1, m), input, 0, m)
    BY <1>2, Firsts
  <2>3. IsCut(rest, input, 0, m)
    BY <2>1, <2>2
  <2> HIDE DEF rest
  <2>4. Len(rest) = m - 0 /\ IsSeq(rest) /\ \A i \in 1 .. m - 0 : rest[i] = input[0 + i]
    BY <2>3 DEF IsCut
  <2>5. Len(rest) = m
    BY <1>2, <2>4
  <2>6. \A i \in 1 .. m : rest[i] = input[i]
    BY <1>2, <2>4
  <2>7. rest = input
    BY <1>1, <2>4, <2>5, <2>6, SameSeq
  <2> QED
    BY <2>3, <2>5, <2>7
<1>7. BlocksBeforeLast(Len(rest)) = 0
  <2>1. m = CmacBytes(zero) + m /\ m \in 1 .. C
    <3>1. CmacBytes(zero) = 0
      BY CmacSize
    <3> HIDE DEF m, C
    <3> QED
      BY <1>2, <1>5, <3>1
  <2> HIDE DEF rest, zero, m
  <2>2. BlocksBeforeLast(m) = zero
    <3>1. zero \in Nat
      BY DEF zero
    <3> QED
      BY <2>1, <3>1, BeforeLastIs
  <2> QED
    BY <1>6, <2>2 DEF zero
<1>8. tail = input
  <2>1. CmacBytes(0) + 1 = 0 + 1
    BY CmacSize
  <2>2. tail = SubSeq(rest, 0 + 1, m)
    BY <1>6, <2>1
  <2> HIDE DEF tail
  <2> QED
    BY <1>6, <2>2
<1>9. mbedtls_cipher_cmac_update(c, input)
        = CmacNow(state \o <<>> \o PiecesOf(C, rest, 0), held \o tail)
  <2> DEFINE flush == Flushes(r, Len(input))
             taken == IF flush THEN CmacBlock - r ELSE 0
             more == SubSeq(input, taken + 1, Len(input))
             blocks == BlocksBeforeLast(Len(more))
  <2>2. ~flush /\ taken = 0 /\ more = rest /\ blocks = 0
    BY <1>7
  <2>3. r = Len(held)
    BY <1>4
  <2>4. /\ flush = Flushes(r, Len(input)) /\ taken = (IF flush THEN CmacBlock - r ELSE 0)
        /\ more = SubSeq(input, taken + 1, Len(input)) /\ blocks = BlocksBeforeLast(Len(more))
    OBVIOUS
  <2> HIDE DEF flush, taken, more, blocks, held, state
  <2>5. CmacParts(c, input, r, flush, taken, more, blocks, state, held)
    BY <1>1, <2>3, <2>4 DEF CmacParts
  <2>6. mbedtls_cipher_cmac_update(c, input)
          = CmacThen(input, flush, taken, more, blocks, state, held)
    BY <2>5, CmacUpdateIs
  <2>7. CmacThen(input, flush, taken, more, blocks, state, held)
          = CmacNow(state \o <<>> \o PiecesOf(C, rest, 0), held \o tail)
    BY <2>2 DEF CmacThen
  <2> QED
    BY <2>6, <2>7
<1>10. state \o <<>> \o PiecesOf(C, rest, 0) = PiecesOf(C, all, k)
  <2>1. base <= Len(cells)
    <3> HIDE DEF C
    <3> QED
      BY <1>2, <1>3
  <2>2. SamePieces(cells, all, k)
    BY <1>1, <1>3, <2>1, CmacStays
  <2>5. PiecesOf(C, cells, k) = PiecesOf(C, all, k)
    BY <2>2 DEF SamePieces
  <2> HIDE DEF C
  <2>6. IsSeq(PiecesOf(C, all, k)) /\ IsSeq(PiecesOf(C, rest, zero)) /\ Len(PiecesOf(C, rest, zero)) = zero
    <3>1. zero \in Nat
      OBVIOUS
    <3> HIDE DEF rest, zero
    <3> QED
      BY <1>2, <1>3, <3>1, PiecesAre
  <2>7. PiecesOf(C, rest, 0) = <<>>
    BY <2>6, NoCells
  <2>8. state = PiecesOf(C, all, k)
    BY <2>5
  <2> HIDE DEF state, rest
  <2> QED
    BY <2>6, <2>7, <2>8, JoinedNone
<1>11. held \o input = SubSeq(all, base + 1, z)
  <2>1. IsCut(held, all, base, n)
    <3> HIDE DEF held, n
    <3>1. n <= Len(cells)
      BY <1>2 DEF n
    <3> QED
      BY <1>1, <1>2, <1>3, <1>4, <3>1, CutGrows
  <2>2. IsCut(input, all, n, z)
    <3>1. IsCut(input, input, zero, m)
      <4> HIDE DEF rest, zero
      <4> QED
        BY <1>6
    <3>0. zero \in Nat /\ m <= m /\ n + zero = n
      BY <1>2
    <3> HIDE DEF zero, n, m, z
    <3>2. IsCut(input, all, n + zero, n + m)
      BY <1>1, <1>2, <3>0, <3>1, CutLater DEF n, m
    <3> QED
      BY <1>2, <3>0, <3>2
  <2> DEFINE d == held \o input
  <2>3. base <= n /\ n <= z /\ z \in Nat /\ base <= z
    <3> HIDE DEF n, z, m
    <3> QED
      BY <1>2, <1>3
  <2> HIDE DEF held, n, z
  <2>4. IsCut(d, all, base, z)
    BY <1>2, <1>3, <2>1, <2>2, <2>3, CutsJoin
  <2> HIDE DEF d
  <2>5. d = CutOf(all, base, z)
    BY <1>3, <2>3, <2>4, CutIs
  <2> QED
    BY <2>5 DEF CutOf, d
<1>12. CmacPlaces(z, k, base, r + m)
  <2> DEFINE s == r + m
  <2>1. z = CmacBytes(k) + s /\ s \in 1 .. C
    <3> HIDE DEF z, m, n, C
    <3> QED
      BY <1>2, <1>3, <1>5
  <2> HIDE DEF s
  <2>2. CmacPlaces(z, k, CmacBytes(k), s)
    BY <1>3, <2>1, CmacPlacesFit
  <2> QED
    BY <1>3, <2>2 DEF s
<1> DEFINE new == mbedtls_cipher_cmac_update(c, input)
<1>13. new = CmacNow(PiecesOf(CmacBlock, all, k), SubSeq(all, base + 1, Len(all)))
  <2> HIDE DEF state, rest, tail, held
  <2> QED
    BY <1>8, <1>9, <1>10, <1>11
<1> HIDE DEF new
<1>14. CmacHeld(new, all, k, base, r + m)
  BY <1>2, <1>12, <1>13 DEF CmacHeld, CmacNow
<1>15. new = CmacOf(all)
  BY <1>14, HoldsCmac
<1> QED
  BY <1>15 DEF new

LEMMA CmacUpdated ==
  ASSUME NEW cells, IsSeq(cells), NEW input, IsSeq(input), input # <<>>
  PROVE  mbedtls_cipher_cmac_update(CmacOf(cells), input) = CmacOf(cells \o input)
<1> DEFINE c == CmacOf(cells)
           all == cells \o input
<1>1. PICK k, base, r : CmacHeld(c, cells, k, base, r)
  BY CmacHolds
<1>2. IsAll(all, cells, input)
  BY DEF IsAll
<1> HIDE DEF c, all
<1>3. mbedtls_cipher_cmac_update(c, input) = CmacOf(all)
  BY <1>1, <1>2, CmacFlushed, CmacKept
<1> QED
  BY <1>3 DEF c, all

\* A shorter tag is the beginning of the whole one.
LEMMA TagIs == \A state : \A size \in Nat :
  IsSeq(Tag(state, size)) /\ Len(Tag(state, size)) = size
  /\ \A i \in 1 .. size : Tag(state, size)[i] = <<state, i>>
<1> TAKE state
<1> TAKE size \in Nat
<1> DEFINE t == Tag(state, size)
<1>1. t = [i \in 1 .. size |-> <<state, i>>]
  BY DEF Tag
<1> HIDE DEF t
<1>2. DOMAIN t = 1 .. size /\ t = [i \in DOMAIN t |-> t[i]] /\ \A i \in 1 .. size : t[i] = <<state, i>>
  BY <1>1
<1>3. IsSeq(t) /\ Len(t) = size
  BY <1>2, SeqBy
<1> QED
  BY <1>2, <1>3 DEF t
LEMMA TagCut == \A state : \A all, size \in Nat :
  size <= all => Tag(state, size) = SubSeq(Tag(state, all), 1, size)
<1> TAKE state
<1> TAKE all, size \in Nat
<1> HAVE size <= all
<1> DEFINE a == Tag(state, all)
           s == Tag(state, size)
           c == SubSeq(a, 1, size)
<1>1. IsSeq(s) /\ Len(s) = size /\ \A i \in 1 .. size : s[i] = <<state, i>>
  BY TagIs
<1>2. \A i \in 1 .. all : a[i] = <<state, i>>
  BY TagIs
<1>3. IsCut(c, a, 0, size)
  BY Firsts
<1> HIDE DEF a, s, c
<1>4. IsSeq(c) /\ Len(c) = size /\ \A i \in 1 .. size : c[i] = a[i]
  BY <1>3 DEF IsCut
<1>5. \A i \in 1 .. size : s[i] = c[i]
  BY <1>1, <1>2, <1>4
<1>6. s = c
  BY <1>1, <1>4, <1>5, SameSeq
<1> QED
  BY <1>6 DEF a, s, c

\* The padded message: the cells, the mark, and the zeros.
CmacPadded(cells, z) == cells \o <<Mark>> \o ZeroCells(z)
MarkedAfter(p, cells, z) ==
    /\ IsSeq(p) /\ Len(p) = Len(cells) + 1 + z
    /\ \A i \in 1 .. Len(cells) : p[i] = cells[i]
    /\ p[Len(cells) + 1] = Mark
    /\ \A i \in 1 .. z : p[Len(cells) + 1 + i] = Zero
LEMMA CmacPaddedIs == \A cells, z, p :
  IsSeq(cells) /\ z \in Nat /\ p = CmacPadded(cells, z) => MarkedAfter(p, cells, z)
<1> TAKE cells, z, p
<1> HAVE IsSeq(cells) /\ z \in Nat /\ p = CmacPadded(cells, z)
<1> DEFINE n == Len(cells)
           one == <<Mark>>
           a == cells \o one
           o == ZeroCells(z)
<1>1. n \in Nat /\ IsSeq(one) /\ Len(one) = 1 /\ one[1] = Mark
  BY OneCell DEF IsSeq
<1>2. IsSeq(o) /\ Len(o) = z /\ \A i \in 1 .. z : o[i] = Zero
  BY ZerosAre
<1> HIDE DEF one, o
<1>3. IsJoin(a, cells, one)
  BY <1>1, Joins
<1> HIDE DEF a
<1>4. IsSeq(a)
  BY <1>3 DEF IsJoin
<1>5. p = a \o o
  BY DEF CmacPadded, a, one, o
<1>6. IsJoin(p, a, o)
  BY <1>2, <1>4, <1>5, Joins
<1>7. Len(a) = n + 1 /\ a[n + 1] = Mark /\ \A i \in 1 .. n : a[i] = cells[i]
  <2>1. 1 \in 1 .. Len(one)
    BY <1>1
  <2> QED
    BY <1>1, <1>3, <2>1 DEF IsJoin
<1>8. IsSeq(p) /\ Len(p) = n + 1 + z
  BY <1>2, <1>6, <1>7 DEF IsJoin
<1>9. \A i \in 1 .. n + 1 : p[i] = a[i]
  BY <1>6, <1>7 DEF IsJoin
<1>10. \A i \in 1 .. z : p[(n + 1) + i] = o[i]
  BY <1>2, <1>6, <1>7 DEF IsJoin
<1> HIDE DEF n
<1>11. \A i \in 1 .. n : p[i] = cells[i]
  <2>1. \A i \in 1 .. n : i \in 1 .. n + 1
    BY <1>1
  <2> QED
    BY <1>7, <1>9, <2>1
<1>12. p[n + 1] = Mark
  <2>1. n + 1 \in 1 .. n + 1
    BY <1>1
  <2> QED
    BY <1>7, <1>9, <2>1
<1>13. \A i \in 1 .. z : p[n + 1 + i] = Zero
  BY <1>2, <1>10
<1> QED
  BY <1>8, <1>11, <1>12, <1>13 DEF n, MarkedAfter

LEMMA CmacPadIs == \A part : IsSeq(part) => 
  /\ IsSeq(cmac_pad(part)) /\ Len(cmac_pad(part)) = CmacBlock
  /\ \A i \in 1 .. CmacBlock : cmac_pad(part)[i]
       = IF i <= Len(part) THEN part[i] ELSE IF i = Len(part) + 1 THEN Mark ELSE Zero
<1> TAKE part
<1> HAVE IsSeq(part)
<1> DEFINE q == cmac_pad(part)
<1>0. CmacBlock \in Nat /\ Len(part) \in Nat
  BY CmacBlockSize DEF IsSeq
<1>1. q = [j \in 1 .. CmacBlock |-> CASE j <= Len(part) -> part[j]
                                      [] j = Len(part) + 1 -> Mark
                                      [] OTHER -> Zero]
  BY DEF cmac_pad
<1> HIDE DEF q
<1>2. DOMAIN q = 1 .. CmacBlock /\ q = [i \in DOMAIN q |-> q[i]]
  BY <1>1
<1>3. IsSeq(q) /\ Len(q) = CmacBlock
  BY <1>0, <1>2, SeqBy
<1>4. ASSUME NEW i \in 1 .. CmacBlock
      PROVE  q[i] = IF i <= Len(part) THEN part[i] ELSE IF i = Len(part) + 1 THEN Mark ELSE Zero
  <2>1. q[i] = CASE i <= Len(part) -> part[i] [] i = Len(part) + 1 -> Mark [] OTHER -> Zero
    BY <1>1
  <2>2. CASE i <= Len(part)
    BY <1>0, <2>1, <2>2
  <2>3. CASE ~(i <= Len(part))
    BY <1>0, <2>1, <2>3
  <2> QED
    BY <2>2, <2>3
<1> QED
  BY <1>3, <1>4 DEF q

\* The reference, with the number of blocks named.
CmacWhole(cells) == cells # <<>> /\ Len(cells) % CmacBlock = 0
CmacFull(cells) == IF CmacWhole(cells) THEN cells
                   ELSE CmacPadded(cells, CmacBlock - 1 - (Len(cells) % CmacBlock))
LEMMA CmacReferenceIs ==
  ASSUME NEW cells, NEW k \in Nat, NEW base, base = CmacBytes(k), NEW end, end = CmacBytes(k + 1),
         Len(CmacFull(cells)) = end
  PROVE  CmacReference(cells)
           = Tag(Append(PiecesOf(CmacBlock, CmacFull(cells), k),
                        <<IF CmacWhole(cells) THEN "K1" ELSE "K2",
                          SubSeq(CmacFull(cells), base + 1, end)>>), CmacBlock)
<1> DEFINE p == CmacFull(cells)
           C == CmacBlock
           blocks == Len(p) \div C
           name == IF CmacWhole(cells) THEN "K1" ELSE "K2"
<1>1. CmacReference(cells)
        = Tag(Append(PiecesOf(C, p, blocks - 1), <<name, SubSeq(p, Len(p) - C + 1, Len(p))>>), C)
  BY DEF CmacReference, CmacFull, CmacWhole, CmacPadded, ZeroCells, Pieces, PiecesOf
<1>2. C \in Nat /\ C > 0 /\ base \in Nat /\ end = base + C /\ end \in Nat /\ end = (k + 1) * C + 0
  <2>1. end = base + C
    BY CmacSize
  <2>2. end = (k + 1) * C /\ base \in Nat /\ C \in Nat /\ C > 0
    BY CmacSize DEF CmacBytes
  <2> HIDE DEF C
  <2> QED
    BY <2>1, <2>2
<1>3. blocks = k + 1
  <2> DEFINE q == k + 1
             zero == 0
  <2>1. q \in Nat /\ zero \in Nat /\ zero < C /\ end = q * C + zero
    BY <1>2
  <2> HIDE DEF q, zero, C
  <2>2. end \div C = q
    BY <1>2, <2>1, Divided
  <2> QED
    BY <2>2 DEF q, C
<1> HIDE DEF blocks, C, name
<1>4. blocks - 1 = k /\ Len(p) - C = base
  BY <1>2, <1>3
<1> QED
  BY <1>1, <1>4 DEF C, name

\* The last block: a whole one, or the padded rest.
CmacLast(part) ==
    IF Len(part) < CmacBlock THEN <<"K2", cmac_pad(part)>> ELSE <<"K1", part>>
LEMMA CmacEnds ==
  ASSUME NEW c, NEW cells, NEW k, NEW base, NEW r, CmacHeld(c, cells, k, base, r),
         NEW end, end = CmacBytes(k + 1), NEW p, p = CmacFull(cells)
  PROVE  /\ IsSeq(p) /\ Len(p) = end
         /\ PiecesOf(CmacBlock, p, k) = PiecesOf(CmacBlock, cells, k)
         /\ <<IF CmacWhole(cells) THEN "K1" ELSE "K2", SubSeq(p, base + 1, end)>>
              = CmacLast(SubSeq(cells, base + 1, Len(cells)))
<1> DEFINE C == CmacBlock
           n == Len(cells)
           part == SubSeq(cells, base + 1, n)
           last == SubSeq(p, base + 1, end)
<1>1. /\ IsSeq(cells) /\ n \in Nat /\ k \in Nat /\ base \in Nat /\ base = CmacBytes(k)
      /\ r \in 0 .. C /\ n = base + r /\ (n = 0 \/ r # 0)
  BY DEF CmacHeld, CmacPlaces, IsSeq
<1>2. C \in Nat /\ C > 0 /\ end = base + C /\ end \in Nat
  <2>1. end = base + C /\ C \in Nat /\ C > 0
    BY <1>1, CmacSize
  <2> HIDE DEF C
  <2> QED
    BY <1>1, <2>1
<1>3. IsCut(part, cells, base, n) /\ IsCut(last, p, base, end)
  <2>1. base <= n /\ base <= end
    <3> HIDE DEF n, C
    <3> QED
      BY <1>1, <1>2
  <2> HIDE DEF n
  <2> QED
    BY <1>1, <1>2, <2>1, Cuts
<1>4. IsSeq(part) /\ Len(part) = r /\ \A i \in 1 .. r : part[i] = cells[base + i]
  <2>1. n - base = r
    <3> HIDE DEF n, C
    <3> QED
      BY <1>1
  <2>2. IsSeq(part) /\ Len(part) = n - base /\ \A i \in 1 .. n - base : part[i] = cells[base + i]
    BY <1>3 DEF IsCut
  <2> HIDE DEF part, n
  <2> QED
    BY <2>1, <2>2
<1>5. IsSeq(last) /\ Len(last) = C /\ \A i \in 1 .. C : last[i] = p[base + i]
  <2>1. end - base = C
    <3> HIDE DEF C
    <3> QED
      BY <1>1, <1>2
  <2>2. IsSeq(last) /\ Len(last) = end - base /\ \A i \in 1 .. end - base : last[i] = p[base + i]
    BY <1>3 DEF IsCut
  <2> HIDE DEF last, C
  <2> QED
    BY <2>1, <2>2
<1>6. CASE r = C
  <2>1. n = end
    <3> HIDE DEF n
    <3> QED
      BY <1>1, <1>2, <1>6
  <2>2. CmacWhole(cells)
    <3> DEFINE q == k + 1
               zero == 0
    <3>1. q \in Nat /\ zero \in Nat /\ zero < C /\ end = q * C + zero
      BY <1>1, <1>2 DEF CmacBytes
    <3> HIDE DEF q, zero, C
    <3>2. end % C = zero
      BY <1>2, <3>1, Divided
    <3>3. cells # <<>>
      <4>1. n # 0
        <5> HIDE DEF n
        <5> QED
          BY <1>1, <1>2, <2>1
      <4> QED
        BY <4>1, NoCells
    <3> QED
      BY <2>1, <3>2, <3>3 DEF CmacWhole, C, zero
  <2>3. p = cells
    BY <2>2 DEF CmacFull
  <2>4. part = last
    BY <2>1, <2>3
  <2>5. ~(Len(part) < CmacBlock)
    <3> HIDE DEF part
    <3>1. Len(part) = CmacBlock
      BY <1>4, <1>6
    <3> QED
      BY <1>2, <3>1
  <2> HIDE DEF part, last, C
  <2> QED
    BY <1>1, <2>1, <2>2, <2>3, <2>4, <2>5 DEF CmacLast, n, part, last
<1>7. CASE r # C
  <2> DEFINE z == C - 1 - r
  <2>1. r \in Nat /\ r < C /\ z \in Nat
    <3> HIDE DEF n, C
    <3>1. r \in Nat /\ r < C
      BY <1>1, <1>2, <1>7
    <3> QED
      BY <1>2, <3>1
  <2>2. n % C = r
    <3>1. n = k * C + r
      BY <1>1 DEF CmacBytes
    <3> HIDE DEF n, C
    <3> QED
      BY <1>1, <1>2, <2>1, <3>1, Divided
  <2>3. ~CmacWhole(cells)
    <3>1. CASE n = 0
      BY <1>1, <3>1, NoCells DEF CmacWhole
    <3>2. CASE r # 0
      BY <2>2, <3>2 DEF CmacWhole
    <3> QED
      BY <1>1, <3>1, <3>2
  <2>4. p = CmacPadded(cells, z)
    BY <2>2, <2>3 DEF CmacFull
  <2>5. /\ IsSeq(p) /\ Len(p) = n + 1 + z /\ p[n + 1] = Mark
        /\ \A i \in 1 .. n : p[i] = cells[i]
        /\ \A i \in 1 .. z : p[n + 1 + i] = Zero
    <3> HIDE DEF z
    <3>1. MarkedAfter(p, cells, z)
      BY <1>1, <2>1, <2>4, CmacPaddedIs
    <3> QED
      BY <3>1 DEF MarkedAfter
  <2>6. Len(p) = end
    <3>1. Len(p) = n + 1 + z
      BY <2>5
    <3>2. n = base + r /\ base \in Nat /\ end = base + C /\ C \in Nat
      BY <1>1, <1>2
    <3> HIDE DEF n, C
    <3> QED
      BY <2>1, <3>1, <3>2
  <2>7. PiecesOf(CmacBlock, p, k) = PiecesOf(CmacBlock, cells, k)
    <3>1. \A i \in 1 .. base : p[i] = cells[i]
      <4>1. \A i \in 1 .. n : p[i] = cells[i]
        BY <2>5
      <4>2. base <= n
        <5> HIDE DEF n, C
        <5> QED
          BY <1>1, <2>1
      <4> HIDE DEF n
      <4> QED
        BY <1>1, <4>1, <4>2
    <3>2. \A i \in 1 .. k * CmacBlock : p[i] = cells[i]
      BY <1>1, <3>1 DEF CmacBytes
    <3> QED
      BY <1>1, <3>2, CmacBlockSize, PiecesAgree
  <2> DEFINE pad == cmac_pad(part)
  <2>8. /\ IsSeq(pad) /\ Len(pad) = C
        /\ \A i \in 1 .. C : pad[i]
             = IF i <= Len(part) THEN part[i] ELSE IF i = Len(part) + 1 THEN Mark ELSE Zero
    <3> HIDE DEF part
    <3> QED
      BY <1>4, CmacPadIs
  <2> HIDE DEF pad, part, last, C, z
  <2>9. ASSUME NEW i \in 1 .. C PROVE pad[i] = last[i]
    <3>0. pad[i] = IF i <= r THEN part[i] ELSE IF i = r + 1 THEN Mark ELSE Zero
      BY <1>4, <2>8
    <3>9. last[i] = p[base + i]
      BY <1>5
    <3>1. CASE i <= r
      <4>1. i \in 1 .. r /\ base + i \in 1 .. n
        <5> HIDE DEF n
        <5> QED
          BY <1>1, <1>2, <2>1, <3>1
      <4> QED
        BY <1>4, <2>5, <3>0, <3>1, <3>9, <4>1
    <3>2. CASE i = r + 1
      <4>1. base + i = n + 1 /\ ~(i <= r)
        <5> HIDE DEF n
        <5> QED
          BY <1>1, <2>1, <3>2
      <4> QED
        BY <2>5, <3>0, <3>2, <3>9, <4>1
    <3>3. CASE i > r + 1
      <4> DEFINE d == i - r - 1
      <4>1. d \in 1 .. z /\ base + i = n + 1 + d /\ ~(i <= r) /\ i # r + 1
        <5> HIDE DEF n
        <5> QED
          BY <1>1, <1>2, <2>1, <3>3 DEF z
      <4> HIDE DEF d
      <4>2. p[n + 1 + d] = Zero
        BY <2>5, <4>1
      <4>3. pad[i] = Zero
        BY <3>0, <4>1
      <4> QED
        BY <3>9, <4>1, <4>2, <4>3
    <3> QED
      BY <1>2, <2>1, <3>1, <3>2, <3>3
  <2>10. pad = last
    BY <1>5, <2>8, <2>9, SameSeq
  <2>11. CmacLast(part) = <<"K2", pad>>
    BY <1>4, <2>1 DEF CmacLast, C, pad
  <2> QED
    BY <2>3, <2>5, <2>6, <2>7, <2>10, <2>11 DEF last, part
<1> QED
  BY <1>6, <1>7

\* RFC 4493.
LEMMA CmacFinished ==
  ASSUME NEW cells, IsSeq(cells), NEW size \in Nat, size <= CmacBlock
  PROVE  mbedtls_cipher_cmac_finish(CmacOf(cells), size) = SubSeq(CmacReference(cells), 1, size)
<1> DEFINE c == CmacOf(cells)
<1>1. PICK k, base, r : CmacHeld(c, cells, k, base, r)
  BY CmacHolds
<1> HIDE DEF c
<1> DEFINE end == CmacBytes(k + 1)
           p == CmacFull(cells)
           part == SubSeq(cells, base + 1, Len(cells))
           last == <<IF CmacWhole(cells) THEN "K1" ELSE "K2", SubSeq(p, base + 1, end)>>
           state == PiecesOf(CmacBlock, cells, k)
           whole == Append(state, last)
<1>2. IsSeq(p) /\ Len(p) = end /\ PiecesOf(CmacBlock, p, k) = state /\ last = CmacLast(part)
  BY <1>1, CmacEnds
<1>3. CmacReference(cells) = Tag(whole, CmacBlock)
  <2>1. k \in Nat /\ base = CmacBytes(k)
    BY <1>1 DEF CmacHeld, CmacPlaces
  <2>2. CmacReference(cells)
           = Tag(Append(PiecesOf(CmacBlock, p, k), last), CmacBlock)
    <3> HIDE DEF state, part
    <3> QED
      BY <1>2, <2>1, CmacReferenceIs
  <2> QED
    BY <1>2, <2>2
<1>4. c.state = state /\ c.unprocessed = part
  BY <1>1 DEF CmacHeld
<1>5. mbedtls_cipher_cmac_finish(c, size) = Tag(Append(c.state, CmacLast(c.unprocessed)), size)
  BY DEF mbedtls_cipher_cmac_finish, CmacLast
<1>6. mbedtls_cipher_cmac_finish(c, size) = Tag(whole, size)
  <2> HIDE DEF state, part, last
  <2> QED
    BY <1>2, <1>4, <1>5
<1> HIDE DEF whole
<1>7. Tag(whole, size) = SubSeq(Tag(whole, CmacBlock), 1, size)
  BY CmacBlockSize, TagCut
<1> QED
  BY <1>3, <1>6, <1>7 DEF c

-----------------------------------------------------------------------------
(* psa_crypto_mac.c: HMAC.                                                 *)

\* What is short enough to be counted.
LEMMA MacNumbers ==
  /\ \A n \in Nat : n <= HashBlock + HashWord + MaxMacced => Countable(n)
  /\ KeyLengths \subseteq 0 .. HashWord - 1
  /\ MaxMacced \in Nat /\ MinMac \in Nat \ {0}
<1> DEFINE big == HashBlock + HashWord + MaxMacced
           W2 == HashWord * HashWord
           B == ByteBits
<1>1. B \in Nat /\ big \in Nat /\ HashWord \in Nat
  BY HashNumbers, MacAssumption
<1>2. big * B < W2
  BY MacAssumption
<1>3. W2 \in Nat
  BY <1>1
<1> HIDE DEF big, W2, B
<1>4. ASSUME NEW n \in Nat, n <= big PROVE n * B < W2
  <2> DEFINE d == big - n
  <2>1. d \in Nat /\ big = n + d
    BY <1>1, <1>4
  <2> HIDE DEF d
  <2>2. big * B = n * B + d * B /\ d * B \in Nat /\ n * B \in Nat
    BY <1>1, <2>1
  <2> DEFINE x == big * B
             y == n * B
             w == d * B
  <2>3. x = y + w /\ w \in Nat /\ y \in Nat /\ x < W2
    BY <1>2, <2>2
  <2> HIDE DEF x, y, w
  <2>4. y < W2
    BY <1>3, <2>3
  <2> QED
    BY <2>4 DEF y
<1>5. KeyLengths \subseteq 0 .. HashWord - 1 /\ MaxMacced \in Nat /\ MinMac \in Nat \ {0}
  BY MacAssumption
<1> QED
  BY <1>4, <1>5 DEF big, W2, B, Countable

LEMMA DigestIs == \A state : IsSeq(Digest(state)) /\ Len(Digest(state)) = HashSize
<1> TAKE state
<1> DEFINE d == Digest(state)
<1>0. HashSize \in Nat
  BY HashNumbers
<1>1. d = [i \in 1 .. HashSize |-> <<state, i>>]
  BY DEF Digest
<1> HIDE DEF d
<1>2. DOMAIN d = 1 .. HashSize /\ d = [i \in DOMAIN d |-> d[i]]
  BY <1>1
<1>3. IsSeq(d) /\ Len(d) = HashSize
  BY <1>0, <1>2, SeqBy
<1> QED
  BY <1>3 DEF d
LEMMA ShaIsSeq == \A cells : IsSeq(Sha256Reference(cells)) /\ Len(Sha256Reference(cells)) = HashSize
BY DigestIs DEF Sha256Reference

\* The calls that HMAC makes.
LEMMA HmacCalls ==
  /\ mbedtls_psa_hash_setup(HmacHash) = mbedtls_sha256_starts
  /\ \A ctx, input : HashMore(ctx, input) = mbedtls_sha256_update(ctx, input)
  /\ \A ctx : mbedtls_psa_hash_finish(HmacHash, ctx) = mbedtls_sha256_finish(ctx)
  /\ \A input : mbedtls_psa_hash_compute(HmacHash, input)
                  = mbedtls_sha256_finish(mbedtls_sha256_update(mbedtls_sha256_starts, input))
BY DEF HmacHash, mbedtls_psa_hash_setup, HashMore, mbedtls_psa_hash_update,
       mbedtls_psa_hash_finish, mbedtls_psa_hash_compute

\* A context of a message is one of the message with more.
LEMMA HashedMore == \A ctx, cells, input :
  Hashed(ctx, cells) /\ IsSeq(input) /\ Len(input) < HashWord
    => Hashed(HashMore(ctx, input), cells \o input)
BY Sha256UpdateCounts, HmacCalls
LEMMA HashedFirst == \A input :
  IsSeq(input) /\ Len(input) < HashWord
    => Hashed(HashMore(mbedtls_psa_hash_setup(HmacHash), input), input)
<1> TAKE input
<1> HAVE IsSeq(input) /\ Len(input) < HashWord
<1> DEFINE none == <<>>
<1>1. Hashed(mbedtls_psa_hash_setup(HmacHash), none)
  BY Started, HmacCalls
<1>2. none \o input = input
  BY JoinedNone
<1> HIDE DEF none
<1>3. Hashed(HashMore(mbedtls_psa_hash_setup(HmacHash), input), none \o input)
  BY <1>1, HashedMore
<1> QED
  BY <1>2, <1>3
LEMMA HashedEnd == \A ctx, cells :
  Hashed(ctx, cells) /\ Countable(Len(cells))
    => mbedtls_psa_hash_finish(HmacHash, ctx) = Sha256Reference(cells)
BY Sha256FinishIsReference, HmacCalls

\* The key of HMAC and its two pads.
ReferenceKey(key) == IF Len(key) > HashBlock THEN Sha256Reference(key) ELSE key
PadOf(name, key) == Xored(name, ReferenceKey(key))
LEMMA HmacKeyIs == \A key : IsSeq(key) /\ Len(key) < HashWord => HmacKey(key) = ReferenceKey(key)
<1> TAKE key
<1> HAVE IsSeq(key) /\ Len(key) < HashWord
<1> DEFINE ctx == HashMore(mbedtls_psa_hash_setup(HmacHash), key)
<1>1. Hashed(ctx, key)
  BY HashedFirst
<1>2. Countable(Len(key))
  <2>1. Len(key) \in Nat /\ HashWord \in Nat /\ HashBlock \in Nat /\ MaxMacced \in Nat
    BY HashNumbers, MacNumbers DEF IsSeq
  <2>2. Len(key) <= HashBlock + HashWord + MaxMacced
    BY <2>1
  <2> QED
    BY <2>1, <2>2, MacNumbers
<1>3. mbedtls_psa_hash_finish(HmacHash, ctx) = Sha256Reference(key)
  BY <1>1, <1>2, HashedEnd
<1>4. mbedtls_psa_hash_compute(HmacHash, key) = Sha256Reference(key)
  BY <1>3, HmacCalls
<1> QED
  BY <1>4 DEF HmacKey, ReferenceKey
LEMMA PadIs == \A name, key : IsSeq(PadOf(name, key)) /\ Len(PadOf(name, key)) = HashBlock
<1> TAKE name, key
<1> DEFINE k == ReferenceKey(key)
           p == Xored(name, k)
<1>0. HashBlock \in Nat
  BY HashNumbers
<1>1. p = [i \in 1 .. HashBlock |->
             IF i <= Len(k) THEN <<name, k[i]>> ELSE <<name, Zero>>]
  BY DEF Xored
<1> HIDE DEF p, k
<1>2. DOMAIN p = 1 .. HashBlock /\ p = [i \in DOMAIN p |-> p[i]]
  BY <1>1
<1>3. IsSeq(p) /\ Len(p) = HashBlock
  BY <1>0, <1>2, SeqBy
<1> QED
  BY <1>3 DEF PadOf, p, k
LEMMA PadReference == \A name, key : IsSeq(key) =>
  PadOf(name, key) = [i \in 1 .. HashBlock |->
    <<name, IF i \in DOMAIN ReferenceKey(key) THEN ReferenceKey(key)[i] ELSE Zero>>]
<1> TAKE name, key
<1> HAVE IsSeq(key)
<1> DEFINE k == ReferenceKey(key)
<1>1. IsSeq(k)
  BY ShaIsSeq DEF ReferenceKey
<1> HIDE DEF k
<1>2. Len(k) \in Nat /\ DOMAIN k = 1 .. Len(k)
  BY <1>1 DEF IsSeq
<1>3. ASSUME NEW i \in 1 .. HashBlock
      PROVE  (IF i <= Len(k) THEN <<name, k[i]>> ELSE <<name, Zero>>)
               = <<name, IF i \in DOMAIN k THEN k[i] ELSE Zero>>
  <2>1. HashBlock \in Nat
    BY HashNumbers
  <2>2. (i <= Len(k)) <=> i \in DOMAIN k
    BY <1>2, <2>1
  <2> QED
    BY <2>2
<1>4. Xored(name, k) = [i \in 1 .. HashBlock |-> <<name, IF i \in DOMAIN k THEN k[i] ELSE Zero>>]
  BY <1>3 DEF Xored
<1> QED
  BY <1>4 DEF PadOf, k
LEMMA HmacReferenceIs == \A key, cells : IsSeq(key) =>
  HmacReference(key, cells)
    = Sha256Reference(PadOf("opad", key) \o Sha256Reference(PadOf("ipad", key) \o cells))
<1> TAKE key, cells
<1> HAVE IsSeq(key)
<1> DEFINE pad(name) == [i \in 1 .. HashBlock |->
             <<name, IF i \in DOMAIN ReferenceKey(key) THEN ReferenceKey(key)[i] ELSE Zero>>]
<1>1. PadOf("opad", key) = pad("opad") /\ PadOf("ipad", key) = pad("ipad")
  BY PadReference
<1>2. HmacReference(key, cells) = Sha256Reference(pad("opad") \o Sha256Reference(pad("ipad") \o cells))
  BY DEF HmacReference, ReferenceKey
<1> HIDE DEF pad
<1> QED
  BY <1>1, <1>2

\* The context of HMAC after the cells.
HmacHeld(c, key, cells) ==
    /\ IsSeq(key) /\ Len(key) < HashWord /\ IsSeq(cells)
    /\ c = [alg |-> "HMAC", opad |-> PadOf("opad", key), ctx |-> c.ctx]
    /\ Hashed(c.ctx, PadOf("ipad", key) \o cells)
LEMMA HmacStarts == \A key : IsSeq(key) /\ Len(key) < HashWord
  => HmacHeld(psa_hmac_setup_internal(key), key, <<>>)
<1> TAKE key
<1> HAVE IsSeq(key) /\ Len(key) < HashWord
<1> DEFINE c == psa_hmac_setup_internal(key)
           ipad == PadOf("ipad", key)
<1>1. c = [alg |-> "HMAC", opad |-> PadOf("opad", key),
           ctx |-> HashMore(mbedtls_psa_hash_setup(HmacHash), ipad)]
  BY HmacKeyIs DEF psa_hmac_setup_internal, PadOf
<1>2. IsSeq(ipad) /\ Len(ipad) < HashWord
  BY PadIs, HashNumbers
<1> HIDE DEF c, ipad
<1>3. Hashed(c.ctx, ipad)
  BY <1>1, <1>2, HashedFirst
<1>4. ipad \o <<>> = ipad /\ IsSeq(<<>>)
  BY <1>2, JoinedNone, NoCells
<1>5. c = [alg |-> "HMAC", opad |-> PadOf("opad", key), ctx |-> c.ctx]
  BY <1>1
<1> QED
  BY <1>3, <1>4, <1>5 DEF HmacHeld, c, ipad
LEMMA HmacMore == \A c, key, cells, input :
  HmacHeld(c, key, cells) /\ IsSeq(input) /\ Len(input) < HashWord
    => HmacHeld(psa_hmac_update_internal(c, input), key, cells \o input)
<1> TAKE c, key, cells, input
<1> HAVE HmacHeld(c, key, cells) /\ IsSeq(input) /\ Len(input) < HashWord
<1> DEFINE d == psa_hmac_update_internal(c, input)
           ipad == PadOf("ipad", key)
           opad == PadOf("opad", key)
           new == HashMore(c.ctx, input)
<1>1. /\ IsSeq(key) /\ Len(key) < HashWord /\ IsSeq(cells)
      /\ c = [alg |-> "HMAC", opad |-> opad, ctx |-> c.ctx]
      /\ Hashed(c.ctx, ipad \o cells)
  BY DEF HmacHeld
<1>2. IsSeq(ipad)
  BY PadIs
<1> HIDE DEF ipad, opad
<1>3. (ipad \o cells) \o input = ipad \o (cells \o input)
  <2>1. IsSeq(cells) /\ IsSeq(input)
    BY <1>1
  <2> QED
    BY <1>2, <2>1, JoinedLeft
<1> DEFINE all == ipad \o cells
<1>4. Hashed(new, all \o input)
  <2> HIDE DEF all
  <2> QED
    BY <1>1, HashedMore DEF all
<1>5. d = [alg |-> "HMAC", opad |-> opad, ctx |-> new]
  <2>1. d = [c EXCEPT !.ctx = new]
    BY DEF psa_hmac_update_internal
  <2> HIDE DEF d, new
  <2> QED
    BY <1>1, <2>1
<1> HIDE DEF d, new
<1>6. d.ctx = new /\ d = [alg |-> "HMAC", opad |-> opad, ctx |-> d.ctx]
  BY <1>5
<1>7. IsSeq(cells \o input)
  BY <1>1, Joined
<1>8. HmacHeld(d, key, cells \o input)
  BY <1>1, <1>3, <1>4, <1>6, <1>7 DEF HmacHeld, opad, ipad
<1> QED
  BY <1>8 DEF d
LEMMA HmacEnds == \A c, key, cells, size :
  HmacHeld(c, key, cells) /\ Len(cells) <= HashWord + MaxMacced
    => psa_hmac_finish_internal(c, size) = SubSeq(HmacReference(key, cells), 1, size)
<1> TAKE c, key, cells, size
<1> HAVE HmacHeld(c, key, cells) /\ Len(cells) <= HashWord + MaxMacced
<1> DEFINE ipad == PadOf("ipad", key)
           opad == PadOf("opad", key)
           all == ipad \o cells
           inner == Sha256Reference(all)
           both == opad \o inner
           outer == HashMore(HashMore(mbedtls_psa_hash_setup(HmacHash), opad), inner)
<1>1. /\ IsSeq(key) /\ Len(key) < HashWord /\ IsSeq(cells)
      /\ c = [alg |-> "HMAC", opad |-> opad, ctx |-> c.ctx]
      /\ Hashed(c.ctx, all)
  BY DEF HmacHeld
<1>2. /\ IsSeq(ipad) /\ Len(ipad) = HashBlock /\ IsSeq(opad) /\ Len(opad) = HashBlock
      /\ IsSeq(inner) /\ Len(inner) = HashSize
  BY PadIs, ShaIsSeq
<1>3. /\ HashBlock \in Nat /\ HashWord \in Nat /\ HashBlock < HashWord /\ HashSize \in Nat
      /\ HashSize <= HashBlock /\ MaxMacced \in Nat /\ Len(cells) \in Nat
  BY <1>1, HashNumbers, MacNumbers DEF IsSeq
<1> HIDE DEF ipad, opad
<1>4. Len(all) = HashBlock + Len(cells)
  BY <1>1, <1>2, Joined
<1> HIDE DEF all
<1>5. Len(all) \in Nat /\ Len(all) <= HashBlock + HashWord + MaxMacced
  BY <1>3, <1>4
<1>6. mbedtls_psa_hash_finish(HmacHash, c.ctx) = inner
  BY <1>1, <1>5, MacNumbers, HashedEnd
<1> HIDE DEF inner
<1>7. Hashed(HashMore(mbedtls_psa_hash_setup(HmacHash), opad), opad)
  BY <1>2, <1>3, HashedFirst
<1>8. Hashed(outer, both)
  <2>1. Len(inner) < HashWord
    BY <1>2, <1>3
  <2> QED
    BY <1>2, <1>7, <2>1, HashedMore
<1>9. Len(both) \in Nat /\ Len(both) <= HashBlock + HashWord + MaxMacced
  <2>1. Len(both) = HashBlock + HashSize
    BY <1>2, Joined
  <2> HIDE DEF both
  <2> QED
    BY <1>3, <2>1
<1> HIDE DEF both, outer
<1>10. mbedtls_psa_hash_finish(HmacHash, outer) = Sha256Reference(both)
  BY <1>8, <1>9, MacNumbers, HashedEnd
<1>11. HmacReference(key, cells) = Sha256Reference(both)
  BY <1>1, HmacReferenceIs DEF both, inner, all, ipad, opad
<1>12. c.opad = opad
  BY <1>1
<1>13. psa_hmac_finish_internal(c, size)
         = SubSeq(mbedtls_psa_hash_finish(HmacHash, outer), 1, size)
  BY <1>6, <1>12 DEF psa_hmac_finish_internal, outer
<1> QED
  BY <1>10, <1>11, <1>13

-----------------------------------------------------------------------------
(* MAC operations.                                                         *)

\* The driver's context of an operation after the cells.
MacHeld(c, alg, key, cells) ==
    \/ alg = "HMAC" /\ HmacHeld(c, key, cells)
    \/ alg = "CMAC" /\ IsSeq(cells) /\ c = CmacOf(cells)
LEMMA MacHeldIs ==
  /\ \A c, alg, key, cells : MacHeld(c, alg, key, cells)
       => IsSeq(cells) /\ c.alg = alg /\ c # NoMacContext
  /\ \A c, key, cells : MacHeld(c, "CMAC", key, cells) => Len(c.unprocessed) <= CmacBlock
<1>1. ASSUME NEW c, NEW alg, NEW key, NEW cells, MacHeld(c, alg, key, cells)
      PROVE  IsSeq(cells) /\ c.alg = alg /\ c # NoMacContext
  <2>0. NoMacContext.alg = "NONE"
    BY DEF NoMacContext
  <2>1. CASE alg = "HMAC" /\ HmacHeld(c, key, cells)
    <3>1. IsSeq(cells) /\ c.alg = "HMAC"
      BY <2>1 DEF HmacHeld
    <3> QED
      BY <2>0, <2>1, <3>1
  <2>2. CASE alg = "CMAC" /\ IsSeq(cells) /\ c = CmacOf(cells)
    <3>1. c.alg = "CMAC"
      BY <2>2 DEF CmacOf
    <3> QED
      BY <2>0, <2>2, <3>1
  <2> QED
    BY <1>1, <2>1, <2>2 DEF MacHeld
<1>2. ASSUME NEW c, NEW key, NEW cells, MacHeld(c, "CMAC", key, cells)
      PROVE  Len(c.unprocessed) <= CmacBlock
  <2>1. IsSeq(cells) /\ c = CmacOf(cells)
    BY <1>2 DEF MacHeld
  <2>2. PICK k, base, r : CmacHeld(c, cells, k, base, r)
    BY <2>1, CmacHolds
  <2> DEFINE n == Len(cells)
             part == SubSeq(cells, base + 1, n)
  <2>3. /\ n \in Nat /\ base \in Nat /\ r \in 0 .. CmacBlock /\ n = base + r
        /\ c.unprocessed = part
    BY <2>2 DEF CmacHeld, CmacPlaces, IsSeq
  <2>4. IsCut(part, cells, base, n)
    <3> HIDE DEF n
    <3>1. base <= n
      BY <2>3
    <3> QED
      BY <2>3, <3>1, Cuts
  <2> HIDE DEF n, part
  <2>5. Len(part) = n - base
    BY <2>4 DEF IsCut
  <2> QED
    BY <2>3, <2>5, CmacBlockSize
<1> QED
  BY <1>1, <1>2

\* The keys that the calls are given.
LEMMA MacKeyIs == \A alg \in MacAlgs : \A key \in MacKeys(alg) :
  IsSeq(key) /\ (alg = "HMAC" => Len(key) < HashWord)
<1> TAKE alg \in MacAlgs
<1> TAKE key \in MacKeys(alg)
<1>1. CASE alg = "HMAC"
  <2>1. PICK n \in KeyLengths : key = KeyBytes(n)
    BY <1>1 DEF MacKeys
  <2>2. n \in Nat /\ n < HashWord
    BY MacNumbers, HashNumbers
  <2>3. key = [i \in 1 .. n |-> <<"key", i>>]
    BY <2>1 DEF KeyBytes
  <2>4. DOMAIN key = 1 .. n /\ key = [i \in DOMAIN key |-> key[i]]
    BY <2>3
  <2>5. IsSeq(key) /\ Len(key) = n
    BY <2>2, <2>4, SeqBy
  <2> QED
    BY <2>2, <2>5
<1>2. CASE alg # "HMAC"
  <2>1. key = <<"key">>
    BY <1>2 DEF MacKeys
  <2> QED
    BY <1>2, <2>1, OneCell
<1> QED
  BY <1>1, <1>2

\* What the driver's calls make of the context.
LEMMA MacStarts == \A alg \in MacAlgs : \A key \in MacKeys(alg) :
  MacHeld(mac_setup(alg, key), alg, key, <<>>)
<1> TAKE alg \in MacAlgs
<1> TAKE key \in MacKeys(alg)
<1>1. CASE alg = "HMAC"
  BY <1>1, MacKeyIs, HmacStarts DEF MacHeld, mac_setup
<1>2. CASE alg = "CMAC"
  <2> DEFINE none == <<>>
             zero == 0
             held == SubSeq(none, zero + 1, zero)
             state == PiecesOf(CmacBlock, none, zero)
  <2>1. IsSeq(none) /\ Len(none) = zero /\ zero \in Nat /\ zero <= zero
    BY NoCells
  <2>2. CmacBytes(zero) = zero /\ BlocksBeforeLast(zero) = zero
    BY CmacSize, NoneBeforeLast
  <2>3. held = none
    <3>1. IsSeq(held) /\ Len(held) = 0
      <4>1. IsCut(held, none, zero, zero)
        <5> HIDE DEF none, zero
        <5> QED
          BY <2>1, Cuts
      <4>2. zero - zero = 0
        OBVIOUS
      <4> HIDE DEF held, zero, none
      <4> QED
        BY <4>1, <4>2 DEF IsCut
    <3> QED
      BY <3>1, NoCells
  <2>4. state = none
    <3>1. IsSeq(state) /\ Len(state) = zero
      <4> HIDE DEF none, zero
      <4> QED
        BY <2>1, CmacBlockSize, PiecesAre
    <3> QED
      BY <3>1, NoCells
  <2>5. CmacOf(none) = [alg |-> "CMAC", state |-> state, unprocessed |-> held]
    <3> HIDE DEF none, zero
    <3> QED
      BY <2>1, <2>2 DEF CmacOf
  <2>6. mac_setup(alg, key) = [alg |-> "CMAC", state |-> none, unprocessed |-> none]
    BY <1>2 DEF mac_setup, cmac_setup
  <2> HIDE DEF held, state
  <2> QED
    BY <1>2, <2>1, <2>3, <2>4, <2>5, <2>6 DEF MacHeld
<1> QED
  BY <1>1, <1>2 DEF MacAlgs
LEMMA MacMore == \A c, alg, key, cells, input :
  MacHeld(c, alg, key, cells) /\ IsSeq(input) /\ Len(input) < HashWord /\ input # <<>>
    => MacHeld(mbedtls_psa_mac_update(c, input), alg, key, cells \o input)
<1> TAKE c, alg, key, cells, input
<1> HAVE MacHeld(c, alg, key, cells) /\ IsSeq(input) /\ Len(input) < HashWord /\ input # <<>>
<1>0. c.alg = alg /\ IsSeq(cells)
  BY MacHeldIs
<1>1. CASE alg = "HMAC" /\ HmacHeld(c, key, cells)
  <2>1. mbedtls_psa_mac_update(c, input) = psa_hmac_update_internal(c, input)
    BY <1>0, <1>1 DEF mbedtls_psa_mac_update
  <2> QED
    BY <1>1, <2>1, HmacMore DEF MacHeld
<1>2. CASE alg = "CMAC" /\ IsSeq(cells) /\ c = CmacOf(cells)
  <2>1. mbedtls_psa_mac_update(c, input) = mbedtls_cipher_cmac_update(c, input)
    BY <1>0, <1>2 DEF mbedtls_psa_mac_update
  <2>2. mbedtls_cipher_cmac_update(c, input) = CmacOf(cells \o input)
    BY <1>2, CmacUpdated
  <2>3. IsSeq(cells \o input)
    BY <1>0, Joined
  <2> QED
    BY <1>2, <2>1, <2>2, <2>3 DEF MacHeld
<1> QED
  BY <1>1, <1>2 DEF MacHeld
LEMMA MacEnds == \A c, alg, key, cells : \A size \in Nat :
  MacHeld(c, alg, key, cells) /\ size <= FullMac(alg) /\ Len(cells) <= HashWord + MaxMacced
    => psa_mac_finish_internal(c, size) = MacReference(alg, key, cells, size)
<1> TAKE c, alg, key, cells
<1> TAKE size \in Nat
<1> HAVE MacHeld(c, alg, key, cells) /\ size <= FullMac(alg) /\ Len(cells) <= HashWord + MaxMacced
<1>0. c.alg = alg /\ IsSeq(cells)
  BY MacHeldIs
<1>1. CASE alg = "HMAC" /\ HmacHeld(c, key, cells)
  <2>1. psa_mac_finish_internal(c, size) = psa_hmac_finish_internal(c, size)
    BY <1>0, <1>1 DEF psa_mac_finish_internal
  <2>2. psa_hmac_finish_internal(c, size) = SubSeq(HmacReference(key, cells), 1, size)
    BY <1>1, HmacEnds
  <2> QED
    BY <1>1, <2>1, <2>2 DEF MacReference
<1>2. CASE alg = "CMAC" /\ IsSeq(cells) /\ c = CmacOf(cells)
  <2>1. psa_mac_finish_internal(c, size) = mbedtls_cipher_cmac_finish(c, size)
    BY <1>0, <1>2 DEF psa_mac_finish_internal
  <2>2. size <= CmacBlock
    BY <1>2 DEF FullMac
  <2>3. mbedtls_cipher_cmac_finish(c, size) = SubSeq(CmacReference(cells), 1, size)
    BY <1>2, <2>2, CmacFinished
  <2> QED
    BY <1>2, <2>1, <2>3 DEF MacReference
<1> QED
  BY <1>1, <1>2 DEF MacHeld

\* A message made of n cells.
LEMMA InputIs == \A input : \A n \in Nat :
  DOMAIN input = 1 .. n /\ input = [i \in DOMAIN input |-> input[i]]
    => IsSeq(input) /\ Len(input) = n /\ (input = <<>> <=> n = 0)
<1> TAKE input
<1> TAKE n \in Nat
<1> HAVE DOMAIN input = 1 .. n /\ input = [i \in DOMAIN input |-> input[i]]
<1>1. IsSeq(input) /\ Len(input) = n
  BY SeqBy
<1> QED
  BY <1>1, NoCells
LEMMA AtOnceIs == \A alg \in MacAlgs : \A key \in MacKeys(alg) : \A input : \A size \in Nat :
  IsSeq(input) /\ Len(input) < HashWord /\ size <= FullMac(alg)
    => mbedtls_psa_mac_compute(alg, key, input, size) = MacReference(alg, key, input, size)
<1> TAKE alg \in MacAlgs
<1> TAKE key \in MacKeys(alg)
<1> TAKE input
<1> TAKE size \in Nat
<1> HAVE IsSeq(input) /\ Len(input) < HashWord /\ size <= FullMac(alg)
<1> DEFINE c == mac_setup(alg, key)
           none == <<>>
           d == IF input = <<>> THEN c ELSE mbedtls_psa_mac_update(c, input)
<1>1. MacHeld(c, alg, key, none)
  BY MacStarts
<1>2. none \o input = input
  BY JoinedNone
<1>3. MacHeld(d, alg, key, input)
  <2>1. CASE input = <<>>
    BY <1>1, <2>1
  <2>2. CASE input # <<>>
    <3> HIDE DEF c, none
    <3>1. MacHeld(mbedtls_psa_mac_update(c, input), alg, key, none \o input)
      BY <1>1, <2>2, MacMore
    <3> QED
      BY <1>2, <2>2, <3>1
  <2> QED
    BY <2>1, <2>2
<1>4. mbedtls_psa_mac_compute(alg, key, input, size) = psa_mac_finish_internal(d, size)
  BY DEF mbedtls_psa_mac_compute
<1> HIDE DEF d
<1>5. Len(input) <= HashWord + MaxMacced
  <2>1. Len(input) \in Nat /\ HashWord \in Nat /\ MaxMacced \in Nat
    BY HashNumbers, MacNumbers DEF IsSeq
  <2> QED
    BY <2>1
<1> QED
  BY <1>3, <1>4, <1>5, MacEnds

\* An operation in use holds the bytes it accepted, one that is not holds none, and
\* the MAC that the last call gave or verified is the one of its message.
MacUsed ==
    /\ mctx.alg \in MacAlgs /\ mkey \in MacKeys(mctx.alg)
    /\ mop.mac_size \in MinMac .. FullMac(mctx.alg)
    /\ Len(mgiven) <= MaxMacced
    /\ MacHeld(mctx, mctx.alg, mkey, mgiven)
MacInv ==
    /\ mop \in [id : BOOLEAN, is_sign : BOOLEAN, mac_size : Nat]
    /\ ~mop.id => mctx = NoMacContext
    /\ mop.id => MacUsed
    /\ MacDoneExact

LEMMA MacInvImplies == ASSUME MacInv PROVE MacCorrect
<1>1. MacTypeOK
  <2>1. mop.id <=> mctx # NoMacContext
    BY MacHeldIs DEF MacInv, MacUsed
  <2>2. mop.id => mop.mac_size \in MinMac .. FullMac(mctx.alg)
    BY DEF MacInv, MacUsed
  <2>3. mop.id /\ mctx.alg = "CMAC" => Len(mctx.unprocessed) <= CmacBlock
    BY MacHeldIs DEF MacInv, MacUsed
  <2> QED
    BY <2>1, <2>2, <2>3 DEF MacTypeOK
<1>2. MacExact
  <2> SUFFICES ASSUME mop.id
               PROVE  psa_mac_finish_internal(mctx, mop.mac_size)
                        = MacReference(mctx.alg, mkey, mgiven, mop.mac_size)
    BY DEF MacExact
  <2>1. MacUsed /\ mop.mac_size \in Nat
    BY DEF MacInv
  <2>2. FullMac(mctx.alg) \in Nat
    BY HashNumbers, CmacBlockSize DEF FullMac
  <2>3. mop.mac_size <= FullMac(mctx.alg)
    BY <2>1, <2>2, MacNumbers DEF MacUsed
  <2>4. Len(mgiven) <= HashWord + MaxMacced
    <3>1. Len(mgiven) \in Nat /\ HashWord \in Nat /\ MaxMacced \in Nat /\ Len(mgiven) <= MaxMacced
      BY <2>1, MacHeldIs, HashNumbers, MacNumbers DEF MacUsed, IsSeq
    <3> QED
      BY <3>1
  <2> QED
    BY <2>1, <2>3, <2>4, MacEnds DEF MacUsed
<1> QED
  BY <1>1, <1>2 DEF MacInv, MacCorrect

LEMMA MacStart == ASSUME MacInit PROVE MacInv
BY DEF MacInit, MacInv, NoMac, MacDoneExact

\* What a call records.
LEMMA MacDoneIs ==
  ASSUME NEW status, NEW alg, NEW key, NEW given, NEW size, NEW mac,
         MacDone(status, alg, key, given, size, mac),
         status = "OK" => mac = MacReference(alg, key, given, size)
  PROVE  MacDoneExact'
<1>1. CASE status # "OK"
  BY <1>1 DEF MacDone, MacDoneExact
<1>2. CASE status = "OK"
  <2>1. mdone' = [alg |-> alg, key |-> key, given |-> given, size |-> size, mac |-> mac]
    BY <1>2 DEF MacDone
  <2>2. /\ mdone'.alg = alg /\ mdone'.key = key /\ mdone'.given = given /\ mdone'.size = size
        /\ mdone'.mac = mac
    BY <2>1
  <2> QED
    BY <1>2, <2>2 DEF MacDoneExact
<1> QED
  BY <1>1, <1>2
LEMMA MacDoneNone == ASSUME mdone' = NoCode PROVE MacDoneExact'
BY DEF MacDoneExact

LEMMA MacAbortKeeps == ASSUME MacInv, psa_mac_abort, MacDoneExact' PROVE MacInv'
<1>1. mop' = (IF mop.id THEN NoMac ELSE mop) /\ mctx' = NoMacContext
  BY DEF psa_mac_abort
<1>2. mop' \in [id : BOOLEAN, is_sign : BOOLEAN, mac_size : Nat] /\ ~mop'.id
  BY <1>1 DEF MacInv, NoMac
<1> QED
  BY <1>1, <1>2 DEF MacInv
LEMMA MacSame ==
  ASSUME MacInv, UNCHANGED <<mop, mctx, mkey, mgiven>>, MacDoneExact' PROVE MacInv'
<1>1. mop' = mop /\ mctx' = mctx /\ mkey' = mkey /\ mgiven' = mgiven
  OBVIOUS
<1>2. MacUsed => MacUsed'
  BY <1>1 DEF MacUsed
<1> QED
  BY <1>1, <1>2 DEF MacInv

\* What psa_mac_finalize_alg_and_key_validation() lets through.
LEMMA MacValid == \A alg, size :
  psa_mac_finalize_alg_and_key_validation(alg, size) = "OK"
    => size >= MinMac /\ size <= FullMac(alg)
BY DEF psa_mac_finalize_alg_and_key_validation, First, Check

LEMMA MacSetupKeeps ==
  ASSUME MacInv, NEW alg \in MacAlgs, NEW size \in MacSizes, NEW is_sign \in BOOLEAN,
         NEW key \in MacKeys(alg), psa_mac_setup(alg, size, key, is_sign)
  PROVE  MacInv'
<1>0. size \in Nat /\ MinMac \in Nat /\ FullMac(alg) \in Nat
  BY MacNumbers, CmacBlockSize, HashNumbers DEF MacSizes, FullMac
<1> DEFINE valid == psa_mac_finalize_alg_and_key_validation(alg, size)
<1>1. PICK policy \in {"OK", "NOT_PERMITTED"}, driver \in Memory :
        /\ CASE mop.id -> psa_mac_abort
             [] ~mop.id /\ First3(policy, valid, driver) = "OK" ->
                  /\ mop' = [id |-> TRUE, is_sign |-> is_sign, mac_size |-> size]
                  /\ mctx' = mac_setup(alg, key)
                  /\ mkey' = key /\ mgiven' = <<>>
             [] OTHER ->
                  /\ mop' = IF policy # "OK" THEN mop
                            ELSE [mop EXCEPT !.mac_size = size,
                                             !.is_sign = IF valid = "OK" THEN is_sign ELSE @]
                  /\ UNCHANGED <<mctx, mkey, mgiven>>
        /\ mdone' = NoCode
  BY DEF psa_mac_setup
<1>2. MacDoneExact'
  BY <1>1, MacDoneNone
<1>3. CASE mop.id
  BY <1>1, <1>2, <1>3, MacAbortKeeps
<1>4. CASE ~mop.id /\ First3(policy, valid, driver) = "OK"
  <2>1. /\ mop' = [id |-> TRUE, is_sign |-> is_sign, mac_size |-> size]
        /\ mctx' = mac_setup(alg, key) /\ mkey' = key /\ mgiven' = <<>>
    BY <1>1, <1>4
  <2>2. valid = "OK"
    BY <1>4 DEF First3, First
  <2>3. size \in MinMac .. FullMac(alg)
    <3> HIDE DEF valid
    <3>1. size >= MinMac /\ size <= FullMac(alg)
      BY <2>2, MacValid DEF valid
    <3> QED
      BY <1>0, <3>1
  <2>4. MacHeld(mctx', alg, key, <<>>)
    BY <2>1, MacStarts
  <2>5. mctx'.alg = alg
    BY <2>4, MacHeldIs
  <2>6. Len(<<>>) <= MaxMacced
    BY NoCells, MacNumbers
  <2>7. MacUsed'
    BY <2>1, <2>3, <2>4, <2>5, <2>6 DEF MacUsed
  <2>8. mop' \in [id : BOOLEAN, is_sign : BOOLEAN, mac_size : Nat] /\ mop'.id
    BY <1>0, <2>1
  <2> QED
    BY <1>2, <2>7, <2>8 DEF MacInv
<1>5. CASE ~mop.id /\ ~(First3(policy, valid, driver) = "OK")
  <2>1. /\ mop' = IF policy # "OK" THEN mop
                  ELSE [mop EXCEPT !.mac_size = size,
                                   !.is_sign = IF valid = "OK" THEN is_sign ELSE @]
        /\ mctx' = mctx
    BY <1>1, <1>5
  <2> HIDE DEF valid
  <2>2. mop' \in [id : BOOLEAN, is_sign : BOOLEAN, mac_size : Nat] /\ ~mop'.id
    BY <1>0, <1>5, <2>1 DEF MacInv
  <2>3. mctx' = NoMacContext
    BY <1>5, <2>1 DEF MacInv
  <2> QED
    BY <1>2, <2>2, <2>3 DEF MacInv
<1> QED
  BY <1>3, <1>4, <1>5

LEMMA MacUpdateKeeps ==
  ASSUME MacInv, NEW n \in 0 .. MaxMacced - Len(mgiven), n < HashWord, psa_mac_update(n)
  PROVE  MacInv'
<1> DEFINE input == [i \in 1 .. n |-> <<"byte", Len(mgiven) + i>>]
<1>1. PICK copy \in Memory, driver \in Memory :
        /\ CASE First(Check(mop.id, "BAD_STATE"), copy) # "OK" \/ n = 0 ->
                  UNCHANGED <<mop, mctx, mkey, mgiven>>
             [] mop.id /\ n # 0 /\ copy = "OK" /\ driver # "OK" -> psa_mac_abort
             [] OTHER -> /\ mctx' = mbedtls_psa_mac_update(mctx, input)
                         /\ mgiven' = mgiven \o input
                         /\ UNCHANGED <<mop, mkey>>
        /\ mdone' = NoCode
  BY DEF psa_mac_update
<1>2. MacDoneExact'
  BY <1>1, MacDoneNone
<1> DEFINE refused == First(Check(mop.id, "BAD_STATE"), copy) # "OK" \/ n = 0
           fails == mop.id /\ n # 0 /\ copy = "OK" /\ driver # "OK"
<1>3. ~refused <=> mop.id /\ n # 0 /\ copy = "OK"
  BY DEF First, Check, Memory, MacInv
<1>4. CASE refused
  <2>1. UNCHANGED <<mop, mctx, mkey, mgiven>>
    BY <1>1, <1>3, <1>4
  <2> QED
    BY <1>2, <2>1, MacSame
<1>5. CASE fails
  <2>1. psa_mac_abort
    BY <1>1, <1>3, <1>5
  <2> QED
    BY <1>2, <2>1, MacAbortKeeps
<1>6. CASE ~refused /\ ~fails
  <2>1. /\ mctx' = mbedtls_psa_mac_update(mctx, input) /\ mgiven' = mgiven \o input
        /\ mop' = mop /\ mkey' = mkey
    BY <1>1, <1>6
  <2>2. mop.id /\ n # 0 /\ MacUsed
    BY <1>3, <1>6 DEF MacInv
  <2>3. MacHeld(mctx, mctx.alg, mkey, mgiven) /\ IsSeq(mgiven)
    BY <2>2, MacHeldIs DEF MacUsed
  <2>4. Len(mgiven) \in Nat /\ n \in Nat /\ MaxMacced \in Nat /\ Len(mgiven) + n <= MaxMacced
    BY <2>3, MacNumbers DEF IsSeq
  <2>5. IsSeq(input) /\ Len(input) = n /\ input # <<>>
    <3>1. DOMAIN input = 1 .. n /\ input = [i \in DOMAIN input |-> input[i]]
      OBVIOUS
    <3> HIDE DEF input
    <3> QED
      BY <2>2, <2>4, <3>1, InputIs
  <2> HIDE DEF input
  <2>6. MacHeld(mctx', mctx.alg, mkey, mgiven')
    BY <2>1, <2>3, <2>5, MacMore
  <2>7. mctx'.alg = mctx.alg
    BY <2>6, MacHeldIs
  <2>8. Len(mgiven') <= MaxMacced
    <3>1. Len(mgiven \o input) = Len(mgiven) + Len(input)
      BY <2>3, <2>5, Joined
    <3> QED
      BY <2>1, <2>4, <2>5, <3>1
  <2>9. MacUsed'
    BY <2>1, <2>2, <2>6, <2>7, <2>8 DEF MacUsed
  <2> QED
    BY <1>2, <2>1, <2>2, <2>9 DEF MacInv
<1> QED
  BY <1>4, <1>5, <1>6

LEMMA MacSignKeeps ==
  ASSUME MacInv, NEW size, psa_mac_sign_finish(size) PROVE MacInv'
<1>1. PICK memory \in Memory, driver \in Memory :
        /\ mop' = IF mop.id THEN NoMac ELSE [mop EXCEPT !.mac_size = 0]
        /\ mctx' = NoMacContext /\ mkey' = <<>> /\ mgiven' = <<>>
        /\ MacDone(First(SignChecks(memory, size), driver), mctx.alg, mkey, mgiven,
                   mop.mac_size, psa_mac_finish_internal(mctx, mop.mac_size))
  BY DEF psa_mac_sign_finish
<1>2. First(SignChecks(memory, size), driver) = "OK" => mop.id
  BY DEF First, First4, First3, Check, SignChecks
<1>3. mop.id => psa_mac_finish_internal(mctx, mop.mac_size)
                  = MacReference(mctx.alg, mkey, mgiven, mop.mac_size)
  BY MacInvImplies DEF MacCorrect, MacExact
<1>4. MacDoneExact'
  BY <1>1, <1>2, <1>3, MacDoneIs
<1>5. mop' \in [id : BOOLEAN, is_sign : BOOLEAN, mac_size : Nat] /\ ~mop'.id
  BY <1>1 DEF MacInv, NoMac
<1> QED
  BY <1>1, <1>4, <1>5 DEF MacInv

LEMMA VerifiedIs == \A mac, actual : VerifyMac(mac, actual) = "OK" => mac = actual
BY DEF VerifyMac, First, Check
LEMMA MacVerifyKeeps ==
  ASSUME MacInv, NEW mac, psa_mac_verify_finish(mac) PROVE MacInv'
<1> DEFINE actual == psa_mac_finish_internal(mctx, mop.mac_size)
<1>1. PICK memory \in Memory, driver \in Memory :
        /\ psa_mac_abort
        /\ MacDone(First(First4(Check(mop.id, "BAD_STATE"), Check(~mop.is_sign, "BAD_STATE"),
                                memory, driver),
                         VerifyMac(mac, actual)),
                   mctx.alg, mkey, mgiven, mop.mac_size, mac)
  BY DEF psa_mac_verify_finish
<1> DEFINE before == First4(Check(mop.id, "BAD_STATE"), Check(~mop.is_sign, "BAD_STATE"),
                            memory, driver)
           verified == VerifyMac(mac, actual)
<1>2. before = "OK" => mop.id
  BY DEF First, First4, Check
<1> HIDE DEF before, verified, actual
<1>3. First(before, verified) = "OK" => before = "OK" /\ verified = "OK"
  BY DEF First
<1>4. verified = "OK" => mac = actual
  BY VerifiedIs DEF verified
<1>5. mop.id => actual = MacReference(mctx.alg, mkey, mgiven, mop.mac_size)
  BY MacInvImplies DEF MacCorrect, MacExact, actual
<1>6. First(before, verified) = "OK" => mac = MacReference(mctx.alg, mkey, mgiven, mop.mac_size)
  BY <1>2, <1>3, <1>4, <1>5
<1>7. MacDone(First(before, verified), mctx.alg, mkey, mgiven, mop.mac_size, mac)
  BY <1>1 DEF before, verified
<1>8. MacDoneExact'
  BY <1>6, <1>7, MacDoneIs
<1> QED
  BY <1>1, <1>8, MacAbortKeeps

LEMMA MacAtOnceKeeps ==
  ASSUME MacInv, NEW alg \in MacAlgs, NEW size \in Nat, NEW key \in MacKeys(alg),
         NEW n \in 0 .. HashWord - 1, NEW output_size, NEW check,
         MacAtOnce(alg, size, key, n, output_size, check)
  PROVE  MacInv'
<1> DEFINE input == [i \in 1 .. n |-> <<"byte", i>>]
           mac == mbedtls_psa_mac_compute(alg, key, input, size)
           given == IF check = <<>> THEN mac ELSE check
           valid == psa_mac_finalize_alg_and_key_validation(alg, size)
<1>1. PICK policy \in {"OK", "NOT_PERMITTED"}, memory \in Memory, driver \in Memory :
        /\ MacJudged(First4(memory, policy, valid,
                            First(Check(size <= output_size, "BUFFER_TOO_SMALL"), driver)),
                     mac, alg, size, key, input, check)
        /\ UNCHANGED <<mop, mctx, mkey, mgiven>>
  BY DEF MacAtOnce
<1> DEFINE status == First4(memory, policy, valid,
                            First(Check(size <= output_size, "BUFFER_TOO_SMALL"), driver))
           verified == VerifyMac(given, mac)
<1>2. MacDone(First(status, verified), alg, key, input, size, given)
  BY <1>1 DEF MacJudged
<1>3. status = "OK" => valid = "OK"
  BY DEF First, First3, First4
<1>4. First(status, verified) = "OK" => status = "OK" /\ verified = "OK"
  BY DEF First
<1>5. verified = "OK" => given = mac
  BY VerifiedIs
<1>6. valid = "OK" => mac = MacReference(alg, key, input, size)
  <2> SUFFICES ASSUME valid = "OK" PROVE mac = MacReference(alg, key, input, size)
    OBVIOUS
  <2>1. size <= FullMac(alg)
    BY MacValid
  <2>2. n \in Nat /\ n < HashWord
    BY HashNumbers
  <2>3. DOMAIN input = 1 .. n /\ input = [i \in DOMAIN input |-> input[i]]
    OBVIOUS
  <2> HIDE DEF input
  <2>4. IsSeq(input) /\ Len(input) < HashWord
    BY <2>2, <2>3, InputIs
  <2> QED
    BY <2>1, <2>4, AtOnceIs
<1> HIDE DEF mac, given, valid, status, verified, input
<1>7. First(status, verified) = "OK" => given = MacReference(alg, key, input, size)
  BY <1>3, <1>4, <1>5, <1>6
<1>8. MacDoneExact'
  BY <1>2, <1>7, MacDoneIs
<1> QED
  BY <1>1, <1>8, MacSame

LEMMA MacStep == ASSUME MacInv, MacNext PROVE MacInv'
<1>0. MinMac \in Nat /\ HashSize \in Nat /\ CmacBlock \in Nat /\ MinMac # 0
  BY MacNumbers, HashNumbers, CmacBlockSize
<1>1. ASSUME NEW alg \in MacAlgs, NEW size \in MacSizes, NEW is_sign \in BOOLEAN,
             NEW key \in MacKeys(alg), psa_mac_setup(alg, size, key, is_sign)
      PROVE  MacInv'
  BY <1>1, MacSetupKeeps
<1>2. ASSUME NEW n \in 0 .. MaxMacced - Len(mgiven), n < HashWord, psa_mac_update(n)
      PROVE  MacInv'
  BY <1>2, MacUpdateKeeps
<1>3. ASSUME NEW size, psa_mac_sign_finish(size) PROVE MacInv'
  BY <1>3, MacSignKeeps
<1>4. ASSUME NEW mac, psa_mac_verify_finish(mac) PROVE MacInv'
  BY <1>4, MacVerifyKeeps
<1>5. ASSUME MacAbort PROVE MacInv'
  BY <1>5, MacDoneNone, MacAbortKeeps DEF MacAbort
<1>6. ASSUME NEW alg \in MacAlgs, NEW size \in MacSizes, NEW n \in 0 .. HashWord - 1,
             NEW output_size \in {MinMac, CmacBlock}, NEW key \in MacKeys(alg),
             psa_mac_compute(alg, size, key, n, output_size)
      PROVE  MacInv'
  <2>1. size \in Nat
    BY <1>0 DEF MacSizes
  <2> QED
    BY <1>6, <2>1, MacAtOnceKeeps DEF psa_mac_compute
<1>7. ASSUME NEW alg \in MacAlgs, NEW size \in MinMac .. HashSize, NEW n \in 0 .. HashWord - 1,
             NEW key \in MacKeys(alg), NEW mac, psa_mac_verify(alg, size, key, n, mac)
      PROVE  MacInv'
  <2>1. size \in Nat
    BY <1>0
  <2> QED
    BY <1>7, <2>1, MacAtOnceKeeps DEF psa_mac_verify
<1> QED
  BY <1>1, <1>2, <1>3, <1>4, <1>5, <1>6, <1>7 DEF MacNext

\* psa_mac_*(), psa_crypto_mac.c and cmac.c: whatever the lengths of the blocks, the
\* keys and the chunks, and whatever fails, what an operation gives or accepts is the
\* HMAC or the CMAC of the bytes it took, at the length it was set up for.
THEOREM MacIsOfWholeMessage == MacSpec => []MacCorrect
<1>1. MacInit => MacInv
  BY MacStart
<1>2. MacInv /\ [MacNext]_macVars => MacInv'
  <2> SUFFICES ASSUME MacInv, [MacNext]_macVars PROVE MacInv'
    OBVIOUS
  <2>1. CASE MacNext
    BY <2>1, MacStep
  <2>2. CASE UNCHANGED macVars
    <3>1. UNCHANGED <<mop, mctx, mkey, mgiven>> /\ mdone' = mdone
      BY <2>2 DEF macVars
    <3>2. MacDoneExact'
      BY <3>1 DEF MacInv, MacDoneExact
    <3> QED
      BY <3>1, <3>2, MacSame
  <2> QED
    BY <2>1, <2>2
<1>3. MacInv => MacCorrect
  BY MacInvImplies
<1> QED
  BY <1>1, <1>2, <1>3, PTL DEF MacSpec

-----------------------------------------------------------------------------
(* HashEngines: SHA-3.                                                     *)

\* A context of sha3.c by its fields.
Context4(i, b, s, f) == [index |-> i, block |-> b, state |-> s, finished |-> f]
\* What the cells leave in their block number b, counted from 0.
PartOf(cells, b) ==
    [i \in 0 .. Rate - 1 |->
       IF b * Rate + i + 1 <= Len(cells) THEN {cells[b * Rate + i + 1]} ELSE {}]
PartsOf(cells, n) == [b \in 1 .. n |-> PartOf(cells, b - 1)]
Unfinished == FALSE
\* The context after the cells, however they were cut.
SpongeOf(cells) ==
    Context4(Len(cells) % Rate, PartOf(cells, Len(cells) \div Rate),
             PartsOf(cells, Len(cells) \div Rate), Unfinished)

LEMMA RateNumbers ==
  /\ Rate \in Nat /\ Rate > 0 /\ Lane \in Nat /\ Lane > 0
  /\ HashSize \in Nat /\ HashSize > 0 /\ HashSize <= Rate
  /\ \E w \in Nat : Rate = w * Lane
<1>1. /\ Rate \in Nat /\ Lane \in Nat /\ Lane > 0 /\ Rate % Lane = 0
      /\ HashSize \in Nat /\ HashSize > 0 /\ HashSize <= Rate
  BY HashAssumption
<1>2. Rate \div Lane \in Nat /\ Rate = (Rate \div Lane) * Lane + (Rate % Lane)
  BY <1>1, Division
<1>3. (Rate \div Lane) * Lane \in Nat
  BY <1>1, <1>2
<1>4. Rate = (Rate \div Lane) * Lane
  BY <1>1, <1>2, <1>3
<1> QED
  BY <1>1, <1>2, <1>4

LEMMA PartsAre == \A cells : \A n \in Nat :
  /\ IsSeq(PartsOf(cells, n)) /\ Len(PartsOf(cells, n)) = n
  /\ \A b \in 1 .. n : PartsOf(cells, n)[b] = PartOf(cells, b - 1)
<1> TAKE cells
<1> TAKE n \in Nat
<1> DEFINE p == PartsOf(cells, n)
<1>1. DOMAIN p = 1 .. n /\ p = [b \in DOMAIN p |-> p[b]] /\ \A b \in 1 .. n : p[b] = PartOf(cells, b - 1)
  BY DEF PartsOf
<1> HIDE DEF p
<1>2. IsSeq(p) /\ Len(p) = n
  BY <1>1, SeqBy
<1> QED
  BY <1>1, <1>2 DEF p

\* Two messages leave the same in a block whose places are the same in both.
LEMMA SamePart == \A s, t : \A b \in Nat :
  IsSeq(s) /\ IsSeq(t) /\ b * Rate + Rate <= Len(s) /\ Len(s) <= Len(t)
  /\ (\A i \in 1 .. Len(s) : s[i] = t[i]) => PartOf(s, b) = PartOf(t, b)
<1> TAKE s, t
<1> TAKE b \in Nat
<1> HAVE IsSeq(s) /\ IsSeq(t) /\ b * Rate + Rate <= Len(s) /\ Len(s) <= Len(t)
         /\ (\A i \in 1 .. Len(s) : s[i] = t[i])
<1>1. Rate \in Nat /\ b * Rate \in Nat /\ Len(s) \in Nat /\ Len(t) \in Nat
  BY RateNumbers DEF IsSeq
<1> DEFINE base == b * Rate
<1>2. base \in Nat /\ base + Rate <= Len(s)
  BY <1>1
<1> HIDE DEF base
<1>3. ASSUME NEW i \in 0 .. Rate - 1
      PROVE  base + i + 1 \in 1 .. Len(s) /\ base + i + 1 <= Len(t)
  BY <1>1, <1>2
<1>4. ASSUME NEW i \in 0 .. Rate - 1
      PROVE  (IF base + i + 1 <= Len(s) THEN {s[base + i + 1]} ELSE {})
              = (IF base + i + 1 <= Len(t) THEN {t[base + i + 1]} ELSE {})
  <2> DEFINE p == base + i + 1
  <2>1. p \in 1 .. Len(s) /\ p <= Len(t)
    BY <1>3
  <2> HIDE DEF p
  <2>2. s[p] = t[p] /\ p <= Len(s)
    BY <1>1, <2>1
  <2> QED
    BY <2>1, <2>2 DEF p
<1> QED
  BY <1>4 DEF PartOf, base

LEMMA SameParts == \A s, t : \A n \in Nat :
  IsSeq(s) /\ IsSeq(t) /\ n * Rate <= Len(s) /\ Len(s) <= Len(t)
  /\ (\A i \in 1 .. Len(s) : s[i] = t[i]) => PartsOf(s, n) = PartsOf(t, n)
<1> TAKE s, t
<1> TAKE n \in Nat
<1> HAVE IsSeq(s) /\ IsSeq(t) /\ n * Rate <= Len(s) /\ Len(s) <= Len(t)
         /\ (\A i \in 1 .. Len(s) : s[i] = t[i])
<1>1. ASSUME NEW b \in 1 .. n PROVE PartOf(s, b - 1) = PartOf(t, b - 1)
  <2>1. Rate \in Nat \ {0} /\ n \in Nat
    BY RateNumbers
  <2>2. (b - 1) * Rate + Rate <= n * Rate /\ b - 1 \in Nat /\ (b - 1) * Rate \in Nat
        /\ n * Rate \in Nat /\ Len(s) \in Nat
    BY <2>1, PieceInside DEF IsSeq
  <2>3. (b - 1) * Rate + Rate <= Len(s)
    BY <2>1, <2>2
  <2> QED
    BY <2>2, <2>3, SamePart
<1> QED
  BY <1>1 DEF PartsOf

FilledFrom(i, b, more) ==
    [j \in DOMAIN b |-> IF i <= j /\ j < i + Len(more)
                        THEN b[j] \cup {more[j - i + 1]} ELSE b[j]]
LEMMA AbsorbAtIs == \A i, b, s, f, more :
  AbsorbAt(Context4(i, b, s, f), more) = Context4(i, FilledFrom(i, b, more), s, f)
<1> TAKE i, b, s, f, more
<1> DEFINE c == Context4(i, b, s, f)
           x == FilledFrom(i, b, more)
<1>1. c.index = i /\ c.block = b
  BY DEF Context4
<1>2. \A y : [c EXCEPT !.block = y] = Context4(i, y, s, f)
  BY DEF Context4
<1> HIDE DEF c
<1>3. AbsorbAt(c, more) = [c EXCEPT !.block = x]
  BY <1>1 DEF AbsorbAt, FilledFrom
<1> HIDE DEF x
<1> QED
  BY <1>2, <1>3 DEF c, x
LEMMA KeccakIs == \A k, b, s, f :
  keccak_f1600(Context4(k, b, s, f)) = Context4(k, Nothing, Append(s, b), f)
<1> TAKE k, b, s, f
<1> DEFINE c == Context4(k, b, s, f)
           longer == Append(s, b)
<1>1. c.state = s /\ c.block = b
  BY DEF Context4
<1>2. \A y, z : [Context4(k, b, y, f) EXCEPT !.block = z] = Context4(k, z, y, f)
  BY DEF Context4
<1>4. \A y : [c EXCEPT !.state = y] = Context4(k, b, y, f)
  BY DEF Context4
<1> HIDE DEF c
<1>3. keccak_f1600(c) = [[c EXCEPT !.state = longer] EXCEPT !.block = Nothing]
  BY <1>1 DEF keccak_f1600
<1> HIDE DEF longer
<1> QED
  <2>1. keccak_f1600(c) = Context4(k, Nothing, longer, f)
    <3>1. [c EXCEPT !.state = longer] = Context4(k, b, longer, f)
      BY <1>4
    <3>2. [Context4(k, b, longer, f) EXCEPT !.block = Nothing] = Context4(k, Nothing, longer, f)
      BY <1>2
    <3> QED
      BY <1>3, <3>1, <3>2, Zenon
  <2> QED
    BY <2>1 DEF c, longer
LEMMA AdvanceIs == \A i, b, s, f, n, k : k = (i + n) % Rate =>
  Advance(Context4(i, b, s, f), n) =
    IF k = 0 THEN Context4(0, Nothing, Append(s, b), f) ELSE Context4(k, b, s, f)
<1> TAKE i, b, s, f, n, k
<1> HAVE k = (i + n) % Rate
<1>1. [Context4(i, b, s, f) EXCEPT !.index = (@ + n) % Rate] = Context4(k, b, s, f)
  BY DEF Context4
<1>2. Context4(k, b, s, f).index = k
  BY DEF Context4
<1>3. keccak_f1600(Context4(k, b, s, f)) = Context4(k, Nothing, Append(s, b), f)
  BY KeccakIs
<1> QED
  BY <1>1, <1>2, <1>3 DEF Advance
LEMMA ContextFields == \A i, b, s, f :
  /\ Context4(i, b, s, f).index = i /\ Context4(i, b, s, f).block = b
  /\ Context4(i, b, s, f).state = s /\ Context4(i, b, s, f).finished = f
BY DEF Context4

\* Appending to a sequence of anything.
LEMMA AppendedCell == \A t, x : IsSeq(t) =>
  /\ IsSeq(Append(t, x)) /\ Len(Append(t, x)) = Len(t) + 1
  /\ \A i \in 1 .. Len(t) : Append(t, x)[i] = t[i]
  /\ Append(t, x)[Len(t) + 1] = x
<1> TAKE t, x
<1> HAVE IsSeq(t)
<1> DEFINE S == {t[i] : i \in 1 .. Len(t)} \cup {x}
<1>1. t \in Seq(S)
  BY InSeq
<1>2. x \in S
  OBVIOUS
<1> HIDE DEF S
<1>3. /\ Append(t, x) \in Seq(S) /\ Len(Append(t, x)) = Len(t) + 1
      /\ \A i \in 1 .. Len(t) : Append(t, x)[i] = t[i]
      /\ Append(t, x)[Len(t) + 1] = x
  BY <1>1, <1>2, AppendProperties
<1> QED
  BY <1>3, FromSeq

\* A context takes more cells that do not go past the end of the block.
LEMMA AbsorbedSome == \A cells, more :
  IsSeq(cells) /\ IsSeq(more) /\ Len(more) > 0 /\ (Len(cells) % Rate) + Len(more) <= Rate
    => Advance(AbsorbAt(SpongeOf(cells), more), Len(more)) = SpongeOf(cells \o more)
<1> TAKE cells, more
<1> HAVE IsSeq(cells) /\ IsSeq(more) /\ Len(more) > 0 /\ (Len(cells) % Rate) + Len(more) <= Rate
<1> DEFINE n == Len(cells)
           m == Len(more)
           q == n \div Rate
           r == n % Rate
           base == q * Rate
           z == cells \o more
<1>1. Rate \in Nat /\ Rate > 0
  BY RateNumbers
<1>2. n \in Nat /\ m \in Nat /\ m > 0 /\ q \in Nat /\ r \in Nat /\ r < Rate /\ r + m <= Rate
      /\ base \in Nat /\ n = base + r
  <2>1. n \in Nat /\ m \in Nat
    BY DEF IsSeq
  <2>2. q \in Nat /\ r \in 0 .. Rate - 1 /\ n = q * Rate + r
    BY <1>1, <2>1, Division
  <2> HIDE DEF q
  <2> QED
    BY <1>1, <2>1, <2>2
<1>3. IsJoin(z, cells, more)
  BY Joins
<1> HIDE DEF z
<1>4. IsSeq(z) /\ Len(z) = n + m /\ (\A i \in 1 .. n : z[i] = cells[i])
      /\ \A i \in 1 .. m : z[n + i] = more[i]
  BY <1>3 DEF IsJoin
<1> DEFINE b == PartOf(cells, q)
           c == PartOf(z, q)
           s == PartsOf(cells, q)
           filled == FilledFrom(r, b, more)
<1>5. filled = c
  <2>1. DOMAIN b = 0 .. Rate - 1
    BY DEF PartOf
  <2> HIDE DEF n, m
  <2>2. ASSUME NEW i \in 0 .. Rate - 1
        PROVE  /\ b[i] = IF i < r THEN {cells[base + i + 1]} ELSE {}
               /\ c[i] = IF i < r + m THEN {z[base + i + 1]} ELSE {}
    <3>1. b[i] = IF base + i + 1 <= n THEN {cells[base + i + 1]} ELSE {}
      BY DEF PartOf, n
    <3>2. c[i] = IF base + i + 1 <= Len(z) THEN {z[base + i + 1]} ELSE {}
      BY DEF PartOf
    <3> HIDE DEF b, c, base, q, r
    <3>3. (base + i + 1 <= n <=> i < r) /\ (base + i + 1 <= Len(z) <=> i < r + m)
      BY <1>2, <1>4
    <3> QED
      BY <3>1, <3>2, <3>3
  <2>3. ASSUME NEW i \in 0 .. Rate - 1
        PROVE  c[i] = IF r <= i /\ i < r + m THEN b[i] \cup {more[i - r + 1]} ELSE b[i]
    <3> DEFINE p == base + i + 1
               k == i - r + 1
    <3> HIDE DEF b, c, base, q, r
    <3>0. i \in Nat /\ p \in Nat
      BY <1>1, <1>2
    <3>1. CASE i < r
      <4>1. p \in 1 .. n /\ i < r + m /\ ~(r <= i)
        BY <1>2, <3>0, <3>1 DEF p
      <4> HIDE DEF p
      <4>2. z[p] = cells[p]
        BY <1>4, <4>1
      <4> QED
        BY <2>2, <3>1, <4>1, <4>2 DEF p
    <3>2. CASE r <= i /\ i < r + m
      <4>1. k \in 1 .. m /\ n + k = p /\ ~(i < r)
        BY <1>2, <3>0, <3>2
      <4> HIDE DEF p, k
      <4>2. z[p] = more[k]
        BY <1>4, <4>1
      <4>3. b[i] = {} /\ c[i] = {z[p]}
        BY <2>2, <3>2, <4>1 DEF p
      <4>4. c[i] = b[i] \cup {more[k]}
        BY <4>2, <4>3
      <4> QED
        BY <3>2, <4>4 DEF k
    <3>3. CASE ~(i < r) /\ ~(r <= i /\ i < r + m)
      <4>1. ~(i < r + m)
        BY <1>2, <3>0, <3>3
      <4> QED
        BY <2>2, <3>3, <4>1
    <3> QED
      BY <3>1, <3>2, <3>3
  <2>4. DOMAIN c = 0 .. Rate - 1 /\ c = [i \in 0 .. Rate - 1 |-> c[i]]
    BY DEF PartOf
  <2> HIDE DEF b, c
  <2> QED
    BY <2>1, <2>3, <2>4 DEF FilledFrom, m
<1>6. SpongeOf(cells) = Context4(r, b, s, Unfinished)
  BY DEF SpongeOf
<1>7. AbsorbAt(SpongeOf(cells), more) = Context4(r, c, s, Unfinished)
  <2> HIDE DEF b, c, s, r
  <2>1. AbsorbAt(Context4(r, b, s, Unfinished), more) = Context4(r, filled, s, Unfinished)
    BY AbsorbAtIs
  <2> HIDE DEF filled
  <2> QED
    BY <1>5, <1>6, <2>1
<1>8. PartsOf(z, q) = s
  <2>1. q * Rate <= Len(cells) /\ Len(cells) <= Len(z)
    BY <1>2, <1>4
  <2> QED
    BY <1>2, <1>4, <2>1, SameParts
<1>9. CASE r + m < Rate
  <2>1. (r + m) % Rate = r + m /\ n + m = q * Rate + (r + m)
    <3> HIDE DEF q, r, n, m
    <3>1. (r + m) = 0 * Rate + (r + m) /\ 0 \in Nat /\ r + m \in Nat
      BY <1>1, <1>2
    <3> QED
      BY <1>1, <1>2, <1>9, <3>1, Divided DEF base
  <2>2. (n + m) \div Rate = q /\ (n + m) % Rate = r + m /\ r + m # 0
    <3> HIDE DEF q, r, n, m
    <3>1. r + m \in Nat /\ n + m \in Nat /\ r + m # 0
      BY <1>2
    <3> QED
      BY <1>1, <1>2, <1>9, <2>1, <3>1, Divided
  <2>3. SpongeOf(z) = Context4(r + m, c, s, Unfinished)
    BY <1>4, <1>8, <2>2 DEF SpongeOf
  <2> HIDE DEF c, s, r, n, q, m
  <2>4. Advance(Context4(r, c, s, Unfinished), m) = Context4(r + m, c, s, Unfinished)
    <3> DEFINE k == r + m
    <3>1. k = (r + m) % Rate /\ k # 0
      BY <2>1, <2>2
    <3> HIDE DEF k
    <3> QED
      BY <3>1, AdvanceIs DEF k
  <2> QED
    BY <1>7, <2>3, <2>4 DEF z, m
<1>10. CASE r + m = Rate
  <2>1. (n + m) = (q + 1) * Rate + 0 /\ r + m = 1 * Rate + 0
    <3> HIDE DEF q, r, n, m
    <3> QED
      BY <1>1, <1>2, <1>10 DEF base
  <2>2. (n + m) \div Rate = q + 1 /\ (n + m) % Rate = 0 /\ (r + m) % Rate = 0
    <3> HIDE DEF q, r, n, m
    <3>1. r + m \in Nat /\ n + m \in Nat /\ 0 \in Nat /\ 1 \in Nat /\ q + 1 \in Nat /\ 0 < Rate
      BY <1>1, <1>2
    <3> QED
      BY <1>1, <2>1, <3>1, Divided
  <2>3. PartOf(z, q + 1) = Nothing
    <3>1. ASSUME NEW i \in 0 .. Rate - 1 PROVE ~((q + 1) * Rate + i + 1 <= Len(z))
      <4> HIDE DEF q, r, n, m
      <4>1. (q + 1) * Rate \in Nat /\ Len(z) = (q + 1) * Rate
        BY <1>1, <1>2, <1>4, <2>1
      <4> QED
        BY <4>1
    <3> QED
      BY <3>1 DEF PartOf, Nothing
  <2>4. PartsOf(z, q + 1) = Append(s, c)
    <3> DEFINE t == PartsOf(z, q)
               u == PartsOf(z, q + 1)
    <3>1. /\ IsSeq(t) /\ Len(t) = q /\ \A k \in 1 .. q : t[k] = PartOf(z, k - 1)
          /\ IsSeq(u) /\ Len(u) = q + 1 /\ \A k \in 1 .. q + 1 : u[k] = PartOf(z, k - 1)
      BY <1>2, PartsAre
    <3> HIDE DEF t, u, c
    <3>2. IsSeq(Append(t, c)) /\ Len(Append(t, c)) = q + 1
          /\ (\A k \in 1 .. q : Append(t, c)[k] = t[k]) /\ Append(t, c)[q + 1] = c
      BY <3>1, AppendedCell
    <3>3. u[q + 1] = c
      BY <1>2, <3>1 DEF c
    <3> HIDE DEF q
    <3>4. ASSUME NEW k \in 1 .. q + 1 PROVE Append(t, c)[k] = u[k]
      <4>1. CASE k = q + 1
        BY <3>2, <3>3, <4>1
      <4>2. CASE k # q + 1
        <5>1. k \in 1 .. q
          BY <1>2, <4>2
        <5> QED
          BY <3>1, <3>2, <5>1
      <4> QED
        BY <4>1, <4>2
    <3>5. u = Append(t, c)
      BY <3>1, <3>2, <3>4, SameSeq
    <3> QED
      BY <1>8, <3>5 DEF t, u
  <2>5. SpongeOf(z) = Context4(0, Nothing, Append(s, c), Unfinished)
    BY <1>4, <2>2, <2>3, <2>4 DEF SpongeOf
  <2> HIDE DEF c, s, r, n, q, m
  <2>6. Advance(Context4(r, c, s, Unfinished), m) = Context4(0, Nothing, Append(s, c), Unfinished)
    <3> DEFINE k == 0
    <3>1. k = (r + m) % Rate
      BY <2>2
    <3> HIDE DEF k
    <3>2. k = 0
      BY DEF k
    <3>3. Advance(Context4(r, c, s, Unfinished), m) = Context4(k, Nothing, Append(s, c), Unfinished)
      BY <3>1, <3>2, AdvanceIs
    <3> QED
      BY <3>2, <3>3
  <2> QED
    BY <1>7, <2>5, <2>6 DEF z, m
<1>11. r + m < Rate \/ r + m = Rate
  <2> HIDE DEF r, m
  <2> QED
    BY <1>1, <1>2
<1> HIDE DEF r, m, n
<1> QED
  BY <1>9, <1>10, <1>11 DEF z, m

LEMMA JoinedCell == \A s, x : IsSeq(s) => s \o <<x>> = Append(s, x)
<1> TAKE s, x
<1> HAVE IsSeq(s)
<1> DEFINE t == <<x>>
           y == s \o t
           z == Append(s, x)
<1>1. IsSeq(t) /\ Len(t) = 1 /\ t[1] = x
  BY OneCell
<1> HIDE DEF t
<1>2. IsJoin(y, s, t)
  BY <1>1, Joins
<1>3. IsSeq(z) /\ Len(z) = Len(s) + 1 /\ (\A i \in 1 .. Len(s) : z[i] = s[i]) /\ z[Len(s) + 1] = x
  BY AppendedCell
<1> HIDE DEF y, z
<1>4. ASSUME NEW i \in 1 .. Len(y) PROVE y[i] = z[i]
  <2>1. Len(s) \in Nat /\ Len(y) = Len(s) + 1 /\ (\A j \in 1 .. Len(s) : y[j] = s[j])
        /\ \A j \in 1 .. Len(t) : y[Len(s) + j] = t[j]
    BY <1>1, <1>2 DEF IsJoin, IsSeq
  <2>2. 1 \in 1 .. Len(t)
    BY <1>1
  <2>3. y[Len(s) + 1] = x
    BY <1>1, <2>1, <2>2
  <2>4. i \in 1 .. Len(s) \/ i = Len(s) + 1
    BY <2>1
  <2> QED
    BY <1>3, <2>1, <2>3, <2>4
<1>5. y = z
  BY <1>1, <1>2, <1>3, <1>4, SameSeq DEF IsJoin
<1> QED
  BY <1>5 DEF y, z, t

\* The first cells of a message.
LEMMA FrontIs == \A input : \A k \in Nat :
  /\ IsSeq(SubSeq(input, 1, k)) /\ Len(SubSeq(input, 1, k)) = k
  /\ \A i \in 1 .. k : SubSeq(input, 1, k)[i] = input[i]
<1> TAKE input
<1> TAKE k \in Nat
<1> DEFINE c == SubSeq(input, 1, k)
<1>1. IsCut(c, input, 0, k)
  BY Firsts
<1> HIDE DEF c
<1>2. \A i \in 1 .. k - 0 : c[i] = input[0 + i]
  BY <1>1 DEF IsCut
<1>3. \A i \in 1 .. k : i \in 1 .. k - 0 /\ 0 + i = i
  OBVIOUS
<1>4. \A i \in 1 .. k : c[i] = input[i]
  BY <1>2, <1>3
<1>5. IsSeq(c) /\ Len(c) = k
  BY <1>1 DEF IsCut
<1> QED
  BY <1>4, <1>5 DEF c
\* They are those before, and a cut after them.
LEMMA FrontJoined == \A input : \A j, k \in Nat : j <= k =>
  SubSeq(input, 1, j) \o SubSeq(input, j + 1, k) = SubSeq(input, 1, k)
<1> TAKE input
<1> TAKE j, k \in Nat
<1> HAVE j <= k
<1> DEFINE s == SubSeq(input, 1, j)
           t == SubSeq(input, j + 1, k)
           u == SubSeq(input, 1, k)
<1>1. IsCut(s, input, 0, j) /\ IsCut(t, input, j, k) /\ IsCut(u, input, 0, k)
  BY Firsts, Cuts
<1> HIDE DEF s, t, u
<1>2. 0 \in Nat /\ 0 <= j
  OBVIOUS
<1>3. IsCut(s \o t, input, 0, k)
  BY <1>1, <1>2, CutsJoin
<1> DEFINE zero == 0
           w == s \o t
<1>4. IsCut(w, input, zero, k) /\ IsCut(u, input, zero, k) /\ zero \in Nat /\ zero <= k
  BY <1>1, <1>3
<1> HIDE DEF zero, w
<1>5. w = u
  BY <1>4, CutIs
<1> QED
  BY <1>5 DEF w, s, t, u
\* A message with the first cells of an input after it.
WithFront(cells, input, k) == cells \o SubSeq(input, 1, k)
LEMMA FrontEnds == \A cells, input : IsSeq(cells) /\ IsSeq(input) =>
  /\ WithFront(cells, input, 0) = cells
  /\ WithFront(cells, input, Len(input)) = cells \o input
<1> TAKE cells, input
<1> HAVE IsSeq(cells) /\ IsSeq(input)
<1> DEFINE n == Len(input)
           s == SubSeq(input, 1, 0)
           t == SubSeq(input, 1, n)
<1>1. n \in Nat /\ 0 \in Nat
  BY DEF IsSeq
<1>2. IsSeq(s) /\ Len(s) = 0 /\ IsSeq(t) /\ Len(t) = n /\ \A i \in 1 .. n : t[i] = input[i]
  BY <1>1, FrontIs
<1> HIDE DEF s, t
<1>3. s = <<>> /\ t = input
  BY <1>2, NoCells, SameSeq
<1> QED
  BY <1>3, JoinedNone DEF s, t, n, WithFront
LEMMA FrontGrowsBy == \A cells, input : \A j, k \in Nat :
  IsSeq(cells) /\ j <= k =>
    /\ IsSeq(WithFront(cells, input, j)) /\ Len(WithFront(cells, input, j)) = Len(cells) + j
    /\ WithFront(cells, input, j) \o SubSeq(input, j + 1, k) = WithFront(cells, input, k)
<1> TAKE cells, input
<1> TAKE j, k \in Nat
<1> HAVE IsSeq(cells) /\ j <= k
<1> DEFINE s == SubSeq(input, 1, j)
           t == SubSeq(input, j + 1, k)
           u == SubSeq(input, 1, k)
<1>1. s \o t = u
  BY FrontJoined
<1>2. IsSeq(s) /\ Len(s) = j /\ IsSeq(t)
  <2>1. IsSeq(s) /\ Len(s) = j
    BY FrontIs
  <2>2. j + 1 \in Nat
    OBVIOUS
  <2>3. IsSeq(t)
    BY <2>2, Cut
  <2> QED
    BY <2>1, <2>3
<1> HIDE DEF s, t, u
<1>3. (cells \o s) \o t = cells \o (s \o t)
  BY <1>2, JoinedLeft
<1>4. IsSeq(cells \o s) /\ Len(cells \o s) = Len(cells) + Len(s)
  BY <1>2, Joined
<1> QED
  BY <1>1, <1>2, <1>3, <1>4 DEF s, t, u, WithFront
LEMMA FrontGrows == \A cells, input : \A k \in Nat \ {0} :
  IsSeq(cells) =>
    /\ IsSeq(WithFront(cells, input, k - 1))
    /\ Append(WithFront(cells, input, k - 1), input[k]) = WithFront(cells, input, k)
<1> TAKE cells, input
<1> TAKE k \in Nat \ {0}
<1> HAVE IsSeq(cells)
<1> DEFINE j == k - 1
           t == SubSeq(input, j + 1, k)
           front == WithFront(cells, input, j)
<1>1. j \in Nat /\ j <= k /\ j + 1 = k /\ k \in Nat /\ k - j = 1
  OBVIOUS
<1> HIDE DEF j
<1>2. IsSeq(front) /\ front \o t = WithFront(cells, input, k)
  BY <1>1, FrontGrowsBy
<1>3. IsCut(t, input, j, k)
  BY <1>1, Cuts
<1> HIDE DEF front, t
<1>4. t = <<input[k]>>
  <2>1. IsSeq(t) /\ Len(t) = 1 /\ \A i \in 1 .. 1 : t[i] = input[j + i]
    BY <1>1, <1>3 DEF IsCut
  <2>2. t[1] = input[k]
    BY <1>1, <2>1
  <2> DEFINE o == <<input[k]>>
  <2>3. IsSeq(o) /\ Len(o) = 1 /\ o[1] = input[k]
    BY OneCell
  <2> HIDE DEF o
  <2>4. \A i \in 1 .. 1 : t[i] = o[i]
    BY <2>2, <2>3
  <2>5. t = o
    BY <2>1, <2>3, <2>4, SameSeq
  <2> QED
    BY <2>5 DEF o
<1>5. front \o t = Append(front, input[k])
  BY <1>2, <1>4, JoinedCell
<1> QED
  BY <1>2, <1>5 DEF front, j

\* Two runs of a loop that do the same in each round.
LEMMA SameLoop ==
  ASSUME NEW n \in Nat, NEW f, NEW g, f[0] = g[0],
         \A k \in 1 .. n : f[k - 1] = g[k - 1] => f[k] = g[k]
  PROVE  \A k \in 0 .. n : f[k] = g[k]
<1> SUFFICES ASSUME NEW m \in 0 .. n, f[m] # g[m] PROVE FALSE
  OBVIOUS
<1> DEFINE T == {k \in Nat : k <= n /\ f[k] # g[k]}
<1>1. PICK x \in T : \A y \in T : x <= y
  <2>1. m \in T /\ T \subseteq Nat
    OBVIOUS
  <2> HIDE DEF T
  <2> QED
    BY <2>1, LeastNumber
<1>2. x # 0 /\ x - 1 \in Nat /\ x \in 1 .. n /\ f[x - 1] = g[x - 1]
  <2>1. x \in Nat /\ x <= n /\ f[x] # g[x]
    BY <1>1
  <2>2. x # 0
    BY <2>1
  <2>3. x - 1 \in Nat /\ x - 1 <= n /\ ~(x <= x - 1)
    BY <2>1, <2>2
  <2>4. x - 1 \notin T
    BY <1>1, <2>3
  <2> QED
    BY <2>1, <2>2, <2>3, <2>4
<1> QED
  BY <1>1, <1>2

LEMMA AbsorbedByte == \A cells, x : IsSeq(cells) =>
  LET c == SpongeOf(cells) IN Advance(ABSORB(c, c.index, x), 1) = SpongeOf(Append(cells, x))
<1> TAKE cells, x
<1> HAVE IsSeq(cells)
<1> DEFINE c == SpongeOf(cells)
           more == <<x>>
           i == Len(cells) % Rate
           b == PartOf(cells, Len(cells) \div Rate)
           s == PartsOf(cells, Len(cells) \div Rate)
<1>1. IsSeq(more) /\ Len(more) = 1 /\ more[1] = x
  BY OneCell
<1>2. Rate \in Nat /\ Rate > 0 /\ Len(cells) \in Nat
  BY RateNumbers DEF IsSeq
<1>3. i \in 0 .. Rate - 1
  BY <1>2, Division
<1>4. c = Context4(i, b, s, Unfinished) /\ DOMAIN b = 0 .. Rate - 1
  BY DEF SpongeOf, PartOf
<1>5. c.index = i /\ c.block = b
  BY <1>4, ContextFields
<1> HIDE DEF more, i, b, s, c
<1> DEFINE filled == FilledFrom(i, b, more)
<1>6. filled = [b EXCEPT ![i] = @ \cup {x}]
  <2>1. ASSUME NEW j \in 0 .. Rate - 1
        PROVE  (i <= j /\ j < i + Len(more) <=> j = i) /\ (j = i => j - i + 1 = 1)
    BY <1>1, <1>2, <1>3
  <2>2. ASSUME NEW j \in 0 .. Rate - 1
        PROVE  filled[j] = IF j = i THEN b[j] \cup {x} ELSE b[j]
    BY <1>1, <1>4, <2>1 DEF FilledFrom
  <2> QED
    BY <1>4, <2>2 DEF FilledFrom
<1>7. AbsorbAt(c, more) = Context4(i, filled, s, Unfinished)
  <2>1. AbsorbAt(Context4(i, b, s, Unfinished), more) = Context4(i, filled, s, Unfinished)
    BY AbsorbAtIs
  <2> QED
    BY <1>4, <2>1
<1> HIDE DEF filled
<1>8. ABSORB(c, c.index, x) = AbsorbAt(c, more)
  <2>1. \A y : [c EXCEPT !.block = y] = Context4(i, y, s, Unfinished)
    BY <1>4 DEF Context4
  <2>2. ABSORB(c, c.index, x) = [c EXCEPT !.block = [b EXCEPT ![i] = @ \cup {x}]]
    BY <1>4, <1>5 DEF ABSORB, Context4
  <2> QED
    BY <1>6, <1>7, <2>1, <2>2
<1>9. Advance(AbsorbAt(c, more), 1) = SpongeOf(cells \o more)
  <2>1. i + Len(more) <= Rate /\ Len(more) > 0
    BY <1>1, <1>2, <1>3
  <2>2. Advance(AbsorbAt(SpongeOf(cells), more), Len(more)) = SpongeOf(cells \o more)
    BY <1>1, <2>1, AbsorbedSome DEF i
  <2> QED
    BY <1>1, <2>2 DEF c
<1>10. cells \o more = Append(cells, x)
  BY JoinedCell DEF more
<1> QED
  BY <1>8, <1>9, <1>10 DEF c

LEMMA AbsorbedBytes == \A cells, input : IsSeq(cells) /\ IsSeq(input) =>
  AbsorbBytes(SpongeOf(cells), input) = SpongeOf(cells \o input)
<1> TAKE cells, input
<1> HAVE IsSeq(cells) /\ IsSeq(input)
<1> DEFINE n == Len(input)
           first == SpongeOf(cells)
           next(c, k) == Advance(ABSORB(c, c.index, input[k]), 1)
           body(f) == [k \in 0 .. n |-> IF k = 0 THEN first
                                        ELSE LET c == f[k - 1] IN next(c, k)]
           front(k) == WithFront(cells, input, k)
           g == [k \in 0 .. n |-> SpongeOf(front(k))]
<1>1. n \in Nat
  BY DEF IsSeq
<1>2. ASSUME NEW k \in 1 .. n
      PROVE  next(SpongeOf(front(k - 1)), k) = SpongeOf(front(k))
  <2>1. k \in Nat \ {0}
    BY <1>1
  <2>2. IsSeq(front(k - 1)) /\ Append(front(k - 1), input[k]) = front(k)
    BY <2>1, FrontGrows
  <2> HIDE DEF front
  <2> QED
    BY <2>2, AbsorbedByte
<1>3. front(0) = cells /\ front(n) = cells \o input
  BY FrontEnds
<1> HIDE DEF front, next
<1>4. g[0] = first /\ \A k \in 1 .. n : g[k] = next(g[k - 1], k)
  <2>1. 0 \in 0 .. n /\ \A k \in 1 .. n : k \in 0 .. n /\ k - 1 \in 0 .. n
    BY <1>1
  <2> QED
    BY <1>2, <1>3, <2>1
<1>5. g = body(g)
  <2>1. ASSUME NEW k \in 0 .. n PROVE g[k] = IF k = 0 THEN first ELSE next(g[k - 1], k)
    <3>1. k = 0 \/ k \in 1 .. n
      BY <1>1
    <3> QED
      BY <1>4, <3>1
  <2>2. g = [k \in 0 .. n |-> g[k]]
    OBVIOUS
  <2> HIDE DEF g
  <2> QED
    BY <2>1, <2>2
<1> DEFINE f == CHOOSE h : h = body(h)
<1>6. f = body(f)
  BY <1>5
<1>7. AbsorbBytes(first, input) = f[n]
  BY DEF AbsorbBytes, next
<1> HIDE DEF f, first
<1>8. f[0] = first /\ \A k \in 1 .. n : f[k] = next(f[k - 1], k)
  <2>1. \A k \in 0 .. n : f[k] = IF k = 0 THEN first ELSE next(f[k - 1], k)
    BY <1>6
  <2>2. 0 \in 0 .. n /\ \A k \in 1 .. n : k \in 0 .. n /\ k # 0
    BY <1>1
  <2> HIDE DEF body
  <2> QED
    BY <2>1, <2>2
<1> HIDE DEF body, g
<1>9. f[n] = g[n]
  <2>1. \A k \in 1 .. n : f[k - 1] = g[k - 1] => f[k] = g[k]
    BY <1>4, <1>8
  <2>2. f[0] = g[0] /\ n \in 0 .. n
    BY <1>1, <1>4, <1>8
  <2> HIDE DEF n
  <2> QED
    BY <1>1, <2>1, <2>2, SameLoop
<1>10. g[n] = SpongeOf(cells \o input)
  <2>1. n \in 0 .. n
    BY <1>1
  <2> QED
    BY <1>3, <2>1 DEF g
<1> QED
  BY <1>7, <1>9, <1>10 DEF first

LEMMA Below == \A a, b \in Nat : \A d \in Nat \ {0} : a < b =>
  a * d \in Nat /\ b * d \in Nat /\ a * d + d <= b * d
<1> TAKE a, b \in Nat
<1> TAKE d \in Nat \ {0}
<1> HAVE a < b
<1>1. PICK e \in Nat : b = a + 1 + e
  <2>1. b - a - 1 \in Nat /\ b = a + 1 + (b - a - 1)
    OBVIOUS
  <2> QED
    BY <2>1
<1>2. b * d = a * d + d + e * d /\ e * d \in Nat /\ a * d \in Nat
  BY <1>1
<1> HIDE <1>1
<1>3. b * d \in Nat
  OBVIOUS
<1> QED
  BY <1>2, <1>3

\* A whole lane at the beginning of a lane does not go past the end of a block,
LEMMA LaneFits == \A e \in Nat :
  e * Lane \in Nat /\ ((e * Lane) % Rate) + Lane <= Rate
<1> TAKE e \in Nat
<1>1. Rate \in Nat /\ Rate > 0 /\ Lane \in Nat \ {0}
  BY RateNumbers
<1>2. PICK w \in Nat : Rate = w * Lane
  BY RateNumbers
<1>3. w > 0
  <2>1. w # 0
    BY <1>1, <1>2
  <2> QED
    BY <2>1
<1> DEFINE q == e \div w
           r == e % w
<1>4. q \in Nat /\ r \in Nat /\ r < w /\ e = q * w + r
  BY <1>3, Division
<1> HIDE DEF q, r
<1>5. r * Lane \in Nat /\ r * Lane + Lane <= Rate
  BY <1>1, <1>2, <1>4, Below
<1>6. e * Lane = q * Rate + r * Lane
  <2>1. (q * w + r) * Lane = (q * w) * Lane + r * Lane
    BY <1>1, <1>2, <1>4
  <2>2. (q * w) * Lane = q * (w * Lane)
    BY <1>1, <1>2, <1>4
  <2> QED
    BY <1>2, <1>4, <2>1, <2>2
<1> DEFINE part == r * Lane
           all == e * Lane
<1>7. all \in Nat
  BY <1>1
<1>8. part \in Nat /\ part < Rate /\ all = q * Rate + part /\ part + Lane <= Rate
  BY <1>1, <1>5, <1>6
<1> HIDE DEF part, all
<1>9. all % Rate = part
  BY <1>1, <1>4, <1>7, <1>8, Divided
<1> QED
  BY <1>7, <1>8, <1>9 DEF all

\* nor do the bytes up to the end of a lane.
LEMMA AlignFits == \A n \in Nat :
  LET align == Lane - ((n % Rate) % Lane)
  IN  /\ align \in 1 .. Lane /\ (n % Rate) + align <= Rate
      /\ \E e \in Nat : n + align = e * Lane
<1> TAKE n \in Nat
<1>1. Rate \in Nat /\ Rate > 0 /\ Lane \in Nat \ {0} /\ Lane > 0
  BY RateNumbers
<1>2. PICK w \in Nat : Rate = w * Lane
  BY RateNumbers
<1> DEFINE i == n % Rate
           b == n \div Rate
           r == i % Lane
           q == i \div Lane
           align == Lane - r
<1>3. i \in Nat /\ i < Rate /\ b \in Nat /\ n = b * Rate + i
  BY <1>1, Division
<1> HIDE DEF i, b
<1>4. q \in Nat /\ r \in Nat /\ r < Lane /\ i = q * Lane + r
  BY <1>1, <1>3, Division
<1> HIDE DEF q, r
<1>5. q < w
  <2> SUFFICES ASSUME ~(q < w) PROVE FALSE
    OBVIOUS
  <2>1. PICK d \in Nat : q = w + d
    <3>1. q - w \in Nat /\ q = w + (q - w)
      BY <1>2, <1>4
    <3> QED
      BY <3>1
  <2>2. q * Lane = w * Lane + d * Lane /\ d * Lane \in Nat
    BY <1>1, <1>2, <2>1
  <2>3. q * Lane >= Rate /\ q * Lane \in Nat
    BY <1>1, <1>2, <2>2
  <2> QED
    BY <1>1, <1>3, <1>4, <2>3
<1>6. q * Lane \in Nat /\ q * Lane + Lane <= Rate
  BY <1>1, <1>2, <1>4, <1>5, Below
<1> DEFINE whole == q * Lane
<1>7. whole \in Nat /\ whole + Lane <= Rate /\ i = whole + r
  BY <1>4, <1>6
<1>8. n + align = (b * w + q + 1) * Lane /\ b * w + q + 1 \in Nat
  <2>1. (b * w + q + 1) * Lane = (b * w) * Lane + q * Lane + Lane /\ b * w + q + 1 \in Nat
    BY <1>1, <1>2, <1>3, <1>4
  <2>2. (b * w) * Lane = b * Rate
    <3>1. (b * w) * Lane = b * (w * Lane)
      BY <1>1, <1>2, <1>3
    <3> QED
      BY <1>2, <3>1
  <2> DEFINE base == b * Rate
  <2>3. base \in Nat /\ n = base + i
    BY <1>1, <1>3
  <2>4. (b * w + q + 1) * Lane = base + whole + Lane
    BY <2>1, <2>2
  <2> HIDE DEF base, whole
  <2>5. n + align = base + whole + Lane
    BY <1>1, <1>3, <1>4, <1>7, <2>3
  <2> QED
    BY <2>1, <2>4, <2>5
<1> HIDE DEF whole
<1>9. align \in 1 .. Lane /\ i + align <= Rate
  BY <1>1, <1>3, <1>4, <1>7
<1> QED
  BY <1>8, <1>9 DEF i, r, align

\* One lane.
LEMMA AbsorbedPart == \A cells, input : \A x, y \in Nat :
  IsSeq(cells) /\ x < y /\ ((Len(cells) + x) % Rate) + (y - x) <= Rate =>
    Advance(AbsorbAt(SpongeOf(WithFront(cells, input, x)), SubSeq(input, x + 1, y)), y - x)
      = SpongeOf(WithFront(cells, input, y))
<1> TAKE cells, input
<1> TAKE x, y \in Nat
<1> HAVE IsSeq(cells) /\ x < y /\ ((Len(cells) + x) % Rate) + (y - x) <= Rate
<1> DEFINE s == WithFront(cells, input, x)
           t == SubSeq(input, x + 1, y)
<1>0. x <= y
  OBVIOUS
<1>1. IsSeq(s) /\ Len(s) = Len(cells) + x /\ s \o t = WithFront(cells, input, y)
  BY <1>0, FrontGrowsBy
<1>2. IsCut(t, input, x, y)
  BY <1>0, Cuts
<1> HIDE DEF s, t
<1>3. IsSeq(t) /\ Len(t) = y - x
  BY <1>2 DEF IsCut
<1>4. Len(t) > 0 /\ (Len(s) % Rate) + Len(t) <= Rate
  BY <1>1, <1>3
<1>5. Advance(AbsorbAt(SpongeOf(s), t), Len(t)) = SpongeOf(s \o t)
  BY <1>1, <1>3, <1>4, AbsorbedSome
<1> QED
  BY <1>1, <1>3, <1>5 DEF s, t

\* mbedtls_sha3_update(), with any number of bytes: the context of a message becomes
\* that of the message with the new bytes after it, wherever lanes and blocks end.
THEOREM Sha3UpdateAppends == \A cells, input : IsSeq(cells) /\ IsSeq(input) =>
  mbedtls_sha3_update(SpongeOf(cells), input) = SpongeOf(cells \o input)
<1> TAKE cells, input
<1> HAVE IsSeq(cells) /\ IsSeq(input)
<1> DEFINE ctx == SpongeOf(cells)
           n == Len(input)
<1>0. n \in Nat /\ Len(cells) \in Nat /\ Lane \in Nat \ {0} /\ Lane > 0 /\ Rate \in Nat /\ Rate > 0
  BY RateNumbers DEF IsSeq
<1>1. ctx.index = Len(cells) % Rate
  BY ContextFields DEF SpongeOf
<1>2. CASE n < Lane
  <2>1. mbedtls_sha3_update(ctx, input) = AbsorbBytes(ctx, input)
    BY <1>2 DEF mbedtls_sha3_update
  <2> HIDE DEF ctx
  <2> QED
    BY <2>1, AbsorbedBytes DEF ctx
<1>3. CASE ~(n < Lane)
  <2> DEFINE align == Lane - (ctx.index % Lane)
             aligned == Advance(AbsorbAt(ctx, SubSeq(input, 1, align)), align)
             lanes == (n - align) \div Lane
             lane(j) == SubSeq(input, align + (j - 1) * Lane + 1, align + j * Lane)
             next(c, j) == Advance(AbsorbAt(c, lane(j)), Lane)
             body(h) == [j \in 0 .. lanes |-> IF j = 0 THEN aligned ELSE next(h[j - 1], j)]
             f == CHOOSE h : h = body(h)
             place(j) == align + j * Lane
             g == [j \in 0 .. lanes |-> SpongeOf(WithFront(cells, input, place(j)))]
             rest == SubSeq(input, align + lanes * Lane + 1, n)
  <2>1. mbedtls_sha3_update(ctx, input) = AbsorbBytes(f[lanes], rest)
    BY <1>3 DEF mbedtls_sha3_update
  <2> HIDE DEF f, aligned
  <2>2. align \in 1 .. Lane /\ (Len(cells) % Rate) + align <= Rate
    BY <1>0, <1>1, AlignFits
  <2>3. PICK e \in Nat : Len(cells) + align = e * Lane
    BY <1>0, <1>1, AlignFits
  <2> HIDE DEF align, ctx
  <2>4. lanes \in Nat /\ align + lanes * Lane <= n /\ lanes * Lane \in Nat /\ align \in Nat
    <3> DEFINE d == n - align
    <3>1. d \in Nat /\ align \in Nat /\ n = align + d
      BY <1>0, <1>3, <2>2
    <3> HIDE DEF d
    <3>2. d \div Lane \in Nat /\ d % Lane \in Nat /\ d = (d \div Lane) * Lane + (d % Lane)
      BY <1>0, <3>1, Division
    <3> DEFINE l == d \div Lane
    <3>3. l = lanes
      BY DEF d
    <3> HIDE DEF lanes, l
    <3>4. l \in Nat /\ d % Lane \in Nat /\ d = l * Lane + (d % Lane)
      BY <3>2 DEF l
    <3>5. l * Lane \in Nat
      BY <1>0, <3>4
    <3>6. align + l * Lane <= n
      BY <3>1, <3>4, <3>5
    <3> QED
      BY <3>1, <3>3, <3>4, <3>5, <3>6
  <2> HIDE DEF lanes
  <2>5. \A j \in 0 .. lanes : place(j) \in Nat
    BY <1>0, <2>4
  <2>6. place(0) = align
    BY <1>0, <2>4
  <2>7. aligned = SpongeOf(WithFront(cells, input, align))
    <3>1. 0 \in Nat /\ 0 < align /\ align - 0 = align /\ Len(cells) + 0 = Len(cells) /\ 0 + 1 = 1
      BY <1>0, <2>2, <2>4
    <3> DEFINE zero == 0
               x == SubSeq(input, zero + 1, align)
    <3>2. zero \in Nat /\ zero < align /\ ((Len(cells) + zero) % Rate) + (align - zero) <= Rate
      BY <2>2, <3>1
    <3>3. zero + 1 = 1 /\ align - zero = align
      BY <3>1
    <3> HIDE DEF zero
    <3>4. Advance(AbsorbAt(SpongeOf(WithFront(cells, input, zero)), x), align - zero)
            = SpongeOf(WithFront(cells, input, align))
      BY <2>4, <3>2, AbsorbedPart
    <3>5. WithFront(cells, input, zero) = cells
      BY FrontEnds DEF zero
    <3> QED
      BY <3>3, <3>4, <3>5 DEF aligned, ctx
  <2>8. ASSUME NEW j \in 1 .. lanes
        PROVE  next(SpongeOf(WithFront(cells, input, place(j - 1))), j)
                 = SpongeOf(WithFront(cells, input, place(j)))
    <3> DEFINE x == place(j - 1)
               y == place(j)
    <3>1. j - 1 \in 0 .. lanes /\ j \in 0 .. lanes /\ j \in Nat /\ j - 1 \in Nat
      BY <2>4
    <3>2. x \in Nat /\ y \in Nat
      BY <2>5, <3>1
    <3>3. y = x + Lane
      <4>1. j * Lane = (j - 1) * Lane + Lane /\ j * Lane \in Nat /\ (j - 1) * Lane \in Nat
        BY <1>0, <3>1
      <4> QED
        BY <1>0, <2>4, <4>1
    <3>4. Len(cells) + x = (e + (j - 1)) * Lane
      <4>1. (e + (j - 1)) * Lane = e * Lane + (j - 1) * Lane
        BY <1>0, <3>1
      <4>2. e * Lane \in Nat /\ (j - 1) * Lane \in Nat
        BY <1>0, <3>1
      <4> QED
        BY <1>0, <2>3, <2>4, <4>1, <4>2
    <3>5. ((Len(cells) + x) % Rate) + Lane <= Rate
      <4>1. e + (j - 1) \in Nat
        BY <3>1
      <4> QED
        BY <3>4, <4>1, LaneFits
    <3>6. lane(j) = SubSeq(input, x + 1, y)
      OBVIOUS
    <3> HIDE DEF x, y, lane
    <3>7. x < y /\ y - x = Lane
      BY <1>0, <3>2, <3>3
    <3>8. ((Len(cells) + x) % Rate) + (y - x) <= Rate
      BY <3>5, <3>7
    <3>9. Advance(AbsorbAt(SpongeOf(WithFront(cells, input, x)), SubSeq(input, x + 1, y)), y - x)
            = SpongeOf(WithFront(cells, input, y))
      BY <3>2, <3>7, <3>8, AbsorbedPart
    <3> QED
      BY <3>6, <3>7, <3>9 DEF x, y
  <2> HIDE DEF place, next
  <2>9. g[0] = aligned /\ \A j \in 1 .. lanes : g[j] = next(g[j - 1], j)
    <3>1. 0 \in 0 .. lanes /\ \A j \in 1 .. lanes : j \in 0 .. lanes /\ j - 1 \in 0 .. lanes
      BY <2>4
    <3> QED
      BY <2>6, <2>7, <2>8, <3>1
  <2>10. g = body(g)
    <3>1. ASSUME NEW j \in 0 .. lanes PROVE g[j] = IF j = 0 THEN aligned ELSE next(g[j - 1], j)
      <4>1. j = 0 \/ j \in 1 .. lanes
        BY <2>4
      <4> QED
        BY <2>9, <4>1
    <3>2. g = [j \in 0 .. lanes |-> g[j]]
      OBVIOUS
    <3> HIDE DEF g
    <3> QED
      BY <3>1, <3>2
  <2>11. f = body(f)
    BY <2>10 DEF f
  <2>12. f[0] = aligned /\ \A j \in 1 .. lanes : f[j] = next(f[j - 1], j)
    <3>1. \A j \in 0 .. lanes : f[j] = IF j = 0 THEN aligned ELSE next(f[j - 1], j)
      BY <2>11
    <3>2. 0 \in 0 .. lanes /\ \A j \in 1 .. lanes : j \in 0 .. lanes /\ j # 0
      BY <2>4
    <3> HIDE DEF body
    <3> QED
      BY <3>1, <3>2
  <2> HIDE DEF body, g
  <2>13. f[lanes] = g[lanes]
    <3>1. \A j \in 1 .. lanes : f[j - 1] = g[j - 1] => f[j] = g[j]
      BY <2>9, <2>12
    <3>2. f[0] = g[0] /\ lanes \in 0 .. lanes
      BY <2>4, <2>9, <2>12
    <3>3. lanes \in Nat
      BY <2>4
    <3> HIDE DEF lanes, f, g
    <3>4. f[0] = g[0]
      BY <3>2
    <3>5. \A j \in 0 .. lanes : f[j] = g[j]
      BY <3>1, <3>3, <3>4, SameLoop
    <3> QED
      BY <3>2, <3>5
  <2> DEFINE end == place(lanes)
  <2>14. g[lanes] = SpongeOf(WithFront(cells, input, end)) /\ end \in Nat
    <3>1. lanes \in 0 .. lanes
      BY <2>4
    <3> QED
      BY <2>5, <3>1 DEF g
  <2>15. end <= n /\ rest = SubSeq(input, end + 1, n)
    BY <2>4 DEF place
  <2> HIDE DEF end, rest
  <2>16. IsSeq(WithFront(cells, input, end)) /\ WithFront(cells, input, end) \o rest = WithFront(cells, input, n)
    BY <1>0, <2>14, <2>15, FrontGrowsBy
  <2>17. IsSeq(rest)
    <3>1. end + 1 \in Nat
      BY <2>14
    <3> QED
      BY <1>0, <2>15, <3>1, Cut
  <2>18. AbsorbBytes(SpongeOf(WithFront(cells, input, end)), rest) = SpongeOf(WithFront(cells, input, n))
    BY <2>16, <2>17, AbsorbedBytes
  <2>19. WithFront(cells, input, n) = cells \o input
    BY FrontEnds
  <2> QED
    BY <2>1, <2>13, <2>14, <2>18, <2>19 DEF ctx
<1> QED
  BY <1>2, <1>3

\* What FIPS 202 has the sponge absorb, and the place of output that follows it.
AllBlocks(cells, suffix) ==
    LET n == Len(cells)
        at(b, i) == b * Rate + i + 1
        block(b) == [i \in 0 .. Rate - 1 |->
                       (IF at(b, i) <= n THEN {cells[at(b, i)]} ELSE {})
                         \cup (IF at(b, i) = n + 1 THEN {suffix} ELSE {})
                         \cup (IF b = n \div Rate /\ i = Rate - 1 THEN {Mark} ELSE {})]
    IN  [b \in 1 .. n \div Rate + 1 |-> block(b - 1)]
Nothings(n) == [k \in 1 .. n |-> Nothing]
OutputAt(blocks, i) == <<blocks \o Nothings((i - 1) \div Rate), (i - 1) % Rate>>
OutputsAfter(blocks, t, n) == [i \in 1 .. n |-> OutputAt(blocks, t + i)]
\* The context after t bytes of output.
HasPadding == TRUE
Squeezed(blocks, t) == Context4(t % Rate, Nothing, blocks \o Nothings(t \div Rate), HasPadding)

LEMMA ReferenceIsOutputs == \A cells, suffix : \A n \in Nat :
  SpongeReference(cells, suffix, n) = OutputsAfter(AllBlocks(cells, suffix), 0, n)
<1> TAKE cells, suffix
<1> TAKE n \in Nat
<1> DEFINE a == AllBlocks(cells, suffix)
<1>1. SpongeReference(cells, suffix, n) = [i \in 1 .. n |-> OutputAt(a, i)]
  BY DEF SpongeReference, AllBlocks, OutputAt, Nothings
<1> HIDE DEF a
<1>2. \A i \in 1 .. n : 0 + i = i
  OBVIOUS
<1> QED
  BY <1>1, <1>2 DEF OutputsAfter, a

LEMMA NothingsAre == \A n \in Nat :
  IsSeq(Nothings(n)) /\ Len(Nothings(n)) = n /\ \A k \in 1 .. n : Nothings(n)[k] = Nothing
<1> TAKE n \in Nat
<1> DEFINE p == Nothings(n)
<1>1. DOMAIN p = 1 .. n /\ p = [k \in DOMAIN p |-> p[k]] /\ \A k \in 1 .. n : p[k] = Nothing
  BY DEF Nothings
<1> HIDE DEF p
<1>2. IsSeq(p) /\ Len(p) = n
  BY <1>1, SeqBy
<1> QED
  BY <1>1, <1>2 DEF p
LEMMA NothingMore == \A n \in Nat : Append(Nothings(n), Nothing) = Nothings(n + 1)
<1> TAKE n \in Nat
<1> DEFINE s == Append(Nothings(n), Nothing)
           t == Nothings(n + 1)
           u == Nothings(n)
<1>0. n + 1 \in Nat
  OBVIOUS
<1>1. /\ IsSeq(u) /\ Len(u) = n /\ (\A k \in 1 .. n : u[k] = Nothing)
      /\ IsSeq(t) /\ Len(t) = n + 1 /\ \A k \in 1 .. n + 1 : t[k] = Nothing
  BY <1>0, NothingsAre
<1>2. s = Append(u, Nothing)
  OBVIOUS
<1> HIDE DEF s, t, u
<1>3. IsSeq(s) /\ Len(s) = n + 1 /\ (\A k \in 1 .. n : s[k] = u[k]) /\ s[n + 1] = Nothing
  BY <1>1, <1>2, AppendedCell
<1>4. ASSUME NEW k \in 1 .. n + 1 PROVE s[k] = t[k]
  <2>1. k \in 1 .. n \/ k = n + 1
    OBVIOUS
  <2> QED
    BY <1>1, <1>3, <2>1
<1>5. s = t
  BY <1>1, <1>3, <1>4, SameSeq
<1> QED
  BY <1>5 DEF s, t

LastPartOf(cells, suffix) ==
    [i \in 0 .. Rate - 1 |->
       PartOf(cells, Len(cells) \div Rate)[i]
         \cup (IF i = Len(cells) % Rate THEN {suffix} ELSE {})
         \cup (IF i = Rate - 1 THEN {Mark} ELSE {})]
AreBlocksOf(all, cells, suffix, q) ==
    /\ IsSeq(all) /\ Len(all) = q + 1
    /\ \A b \in 1 .. q : all[b] = PartOf(cells, b - 1)
    /\ all[q + 1] = LastPartOf(cells, suffix)
LEMMA AllBlocksAre == \A cells, suffix : IsSeq(cells) =>
  AreBlocksOf(AllBlocks(cells, suffix), cells, suffix, Len(cells) \div Rate)
<1> TAKE cells, suffix
<1> HAVE IsSeq(cells)
<1> DEFINE n == Len(cells)
           q == n \div Rate
           r == n % Rate
           at(b, i) == b * Rate + i + 1
           block(b) == [i \in 0 .. Rate - 1 |->
                         (IF at(b, i) <= n THEN {cells[at(b, i)]} ELSE {})
                           \cup (IF at(b, i) = n + 1 THEN {suffix} ELSE {})
                           \cup (IF b = q /\ i = Rate - 1 THEN {Mark} ELSE {})]
           all == AllBlocks(cells, suffix)
<1>1. Rate \in Nat \ {0} /\ Rate > 0 /\ n \in Nat
  BY RateNumbers DEF IsSeq
<1>2. q \in Nat /\ r \in Nat /\ r < Rate /\ n = q * Rate + r
  BY <1>1, Division
<1>3. DOMAIN all = 1 .. q + 1 /\ all = [b \in DOMAIN all |-> all[b]]
      /\ \A b \in 1 .. q + 1 : all[b] = block(b - 1)
  BY DEF AllBlocks
<1> HIDE DEF all
<1>4. IsSeq(all) /\ Len(all) = q + 1
  <2> DEFINE m == q + 1
  <2>1. m \in Nat /\ DOMAIN all = 1 .. m
    BY <1>2, <1>3
  <2> HIDE DEF m
  <2>2. IsSeq(all) /\ Len(all) = m
    BY <1>3, <2>1, SeqBy
  <2> QED
    BY <2>2 DEF m
<1> HIDE DEF n, q, r
<1>5. ASSUME NEW b \in 1 .. q PROVE all[b] = PartOf(cells, b - 1)
  <2>0. b - 1 \in Nat /\ b - 1 < q /\ b \in 1 .. q + 1
    BY <1>2
  <2> DEFINE c == b - 1
             base == c * Rate
  <2>1. base \in Nat /\ base + Rate <= q * Rate /\ q * Rate \in Nat
    BY <1>1, <1>2, <2>0, Below
  <2>2. base + Rate <= n
    BY <1>1, <1>2, <2>1
  <2> HIDE DEF base
  <2>3. ASSUME NEW i \in 0 .. Rate - 1
        PROVE  block(c)[i] = IF base + i + 1 <= n THEN {cells[base + i + 1]} ELSE {}
    <3>1. base + i + 1 # n + 1 /\ c # q
      BY <1>1, <1>2, <2>0, <2>1, <2>2
    <3>2. block(c)[i] = (IF base + i + 1 <= n THEN {cells[base + i + 1]} ELSE {})
                           \cup (IF base + i + 1 = n + 1 THEN {suffix} ELSE {})
                           \cup (IF c = q /\ i = Rate - 1 THEN {Mark} ELSE {})
      BY DEF base
    <3> HIDE DEF block
    <3> QED
      BY <3>1, <3>2
  <2>4. PartOf(cells, c) = [i \in 0 .. Rate - 1 |->
                              IF base + i + 1 <= n THEN {cells[base + i + 1]} ELSE {}]
    BY DEF PartOf, n, base
  <2>5. block(c) = [i \in 0 .. Rate - 1 |-> block(c)[i]]
    OBVIOUS
  <2>6. all[b] = block(c)
    BY <1>3, <2>0
  <2> HIDE DEF block, c
  <2>7. block(c) = PartOf(cells, c)
    BY <2>3, <2>4, <2>5
  <2> QED
    BY <2>6, <2>7 DEF c
<1>6. all[q + 1] = [i \in 0 .. Rate - 1 |->
                      PartOf(cells, q)[i] \cup (IF i = r THEN {suffix} ELSE {})
                                          \cup (IF i = Rate - 1 THEN {Mark} ELSE {})]
  <2> DEFINE base == q * Rate
             last == PartOf(cells, q)
  <2>1. q + 1 \in 1 .. q + 1 /\ (q + 1) - 1 = q /\ base \in Nat /\ n = base + r
    BY <1>1, <1>2
  <2>2. all[q + 1] = block(q)
    <3> DEFINE m == q + 1
    <3>1. m \in 1 .. q + 1 /\ m - 1 = q
      BY <2>1
    <3> HIDE DEF m, block
    <3>2. all[m] = block(m - 1)
      BY <1>3, <3>1
    <3> QED
      BY <3>1, <3>2 DEF m
  <2> HIDE DEF base
  <2>3. ASSUME NEW i \in 0 .. Rate - 1
        PROVE  block(q)[i] = last[i] \cup (IF i = r THEN {suffix} ELSE {})
                                     \cup (IF i = Rate - 1 THEN {Mark} ELSE {})
    <3>1. base + i + 1 = n + 1 <=> i = r
      BY <1>1, <1>2, <2>1
    <3>2. block(q)[i] = (IF base + i + 1 <= n THEN {cells[base + i + 1]} ELSE {})
                           \cup (IF base + i + 1 = n + 1 THEN {suffix} ELSE {})
                           \cup (IF q = q /\ i = Rate - 1 THEN {Mark} ELSE {})
      BY DEF base
    <3>3. last[i] = IF base + i + 1 <= n THEN {cells[base + i + 1]} ELSE {}
      BY DEF PartOf, n, base
    <3> HIDE DEF block, last
    <3> QED
      BY <3>1, <3>2, <3>3
  <2>4. block(q) = [i \in 0 .. Rate - 1 |-> block(q)[i]]
    OBVIOUS
  <2> HIDE DEF block, last
  <2>5. block(q) = [i \in 0 .. Rate - 1 |->
                      last[i] \cup (IF i = r THEN {suffix} ELSE {})
                              \cup (IF i = Rate - 1 THEN {Mark} ELSE {})]
    BY <2>3, <2>4
  <2> QED
    BY <2>2, <2>5 DEF last
<1>7. all[q + 1] = LastPartOf(cells, suffix)
  BY <1>6 DEF LastPartOf, n, q, r
<1>8. AreBlocksOf(all, cells, suffix, q)
  BY <1>4, <1>5, <1>7 DEF AreBlocksOf
<1> QED
  BY <1>8 DEF all, n, q

Ended(c) == [c EXCEPT !.index = 0, !.finished = TRUE]
LEMMA EndedIs == \A i, b, s, f : Ended(Context4(i, b, s, f)) = Context4(0, b, s, HasPadding)
<1> TAKE i, b, s, f
<1> DEFINE t == TRUE
<1> HIDE DEF t
<1>1. [Context4(i, b, s, f) EXCEPT !.index = 0] = Context4(0, b, s, f)
  BY DEF Context4
<1>2. [Context4(0, b, s, f) EXCEPT !.finished = t] = Context4(0, b, s, t)
  BY DEF Context4
<1>3. [[Context4(i, b, s, f) EXCEPT !.index = 0] EXCEPT !.finished = t] = Context4(0, b, s, t)
  BY <1>1, <1>2, Zenon
<1> QED
  BY <1>3 DEF t, HasPadding, Ended

\* The padding completes the last block.
LEMMA PadsTheLast == \A cells, suffix : IsSeq(cells) =>
  FinishOnce(SpongeOf(cells), suffix) = Squeezed(AllBlocks(cells, suffix), 0)
<1> TAKE cells, suffix
<1> HAVE IsSeq(cells)
<1> DEFINE n == Len(cells)
           q == n \div Rate
           r == n % Rate
           b == PartOf(cells, q)
           s == PartsOf(cells, q)
           all == AllBlocks(cells, suffix)
           last == [i \in 0 .. Rate - 1 |->
                      b[i] \cup (IF i = r THEN {suffix} ELSE {})
                           \cup (IF i = Rate - 1 THEN {Mark} ELSE {})]
           b1 == [b EXCEPT ![r] = @ \cup {suffix}]
           b2 == [b1 EXCEPT ![Rate - 1] = @ \cup {Mark}]
           longer == Append(s, b2)
<1>1. Rate \in Nat /\ Rate > 0 /\ n \in Nat
  BY RateNumbers DEF IsSeq
<1>2. q \in Nat /\ r \in 0 .. Rate - 1
  BY <1>1, Division
<1>3. SpongeOf(cells) = Context4(r, b, s, Unfinished) /\ DOMAIN b = 0 .. Rate - 1
      /\ b = [i \in 0 .. Rate - 1 |-> b[i]]
  BY DEF SpongeOf, PartOf
<1>4. /\ IsSeq(all) /\ Len(all) = q + 1
      /\ \A k \in 1 .. q : all[k] = PartOf(cells, k - 1)
      /\ all[q + 1] = last
  <2>1. AreBlocksOf(all, cells, suffix, q)
    BY AllBlocksAre
  <2>2. last = LastPartOf(cells, suffix)
    BY DEF LastPartOf
  <2> HIDE DEF all, q, last
  <2> QED
    BY <2>1, <2>2 DEF AreBlocksOf
<1>5. IsSeq(s) /\ Len(s) = q /\ \A k \in 1 .. q : s[k] = PartOf(cells, k - 1)
  BY <1>2, PartsAre
<1> HIDE DEF all, s, b, q, r, n
<1>6. b2 = last
  <2>1. ASSUME NEW i \in 0 .. Rate - 1 PROVE b2[i] = last[i]
    <3>1. b1[i] = IF i = r THEN b[i] \cup {suffix} ELSE b[i]
      BY <1>3
    <3>2. DOMAIN b1 = 0 .. Rate - 1
      BY <1>3
    <3> HIDE DEF b1
    <3>3. b2[i] = IF i = Rate - 1 THEN b1[i] \cup {Mark} ELSE b1[i]
      BY <3>2
    <3>4. last[i] = b[i] \cup (IF i = r THEN {suffix} ELSE {})
                           \cup (IF i = Rate - 1 THEN {Mark} ELSE {})
      OBVIOUS
    <3> HIDE DEF b2, last
    <3> QED
      BY <3>1, <3>3, <3>4
  <2>2. DOMAIN b2 = 0 .. Rate - 1 /\ b2 = [i \in DOMAIN b2 |-> b2[i]]
        /\ last = [i \in 0 .. Rate - 1 |-> last[i]]
    BY <1>3
  <2> HIDE DEF b2, last
  <2> QED
    BY <2>1, <2>2
<1> HIDE DEF last
<1>7. longer = all
  <2> HIDE DEF b2
  <2>1. IsSeq(longer) /\ Len(longer) = q + 1 /\ (\A k \in 1 .. q : longer[k] = s[k])
        /\ longer[q + 1] = b2
    BY <1>5, AppendedCell
  <2> HIDE DEF longer
  <2>2. ASSUME NEW k \in 1 .. q + 1 PROVE longer[k] = all[k]
    <3>1. k \in 1 .. q \/ k = q + 1
      BY <1>2
    <3> QED
      BY <1>4, <1>5, <1>6, <2>1, <3>1
  <2> QED
    BY <1>4, <2>1, <2>2, SameSeq
<1>8. FinishOnce(SpongeOf(cells), suffix) = Context4(0, Nothing, longer, HasPadding)
  <2> DEFINE c == Context4(r, b, s, Unfinished)
             c1 == Context4(r, b1, s, Unfinished)
             c2 == Context4(r, b2, s, Unfinished)
             c3 == Context4(r, Nothing, longer, Unfinished)
  <2>1. ~c.finished /\ c.index = r /\ c.block = b
    BY DEF Context4, Unfinished
  <2>2. ABSORB(c, c.index, suffix) = c1
    <3>1. \A y : [c EXCEPT !.block = y] = Context4(r, y, s, Unfinished)
      BY DEF Context4
    <3> HIDE DEF c, b1
    <3>2. ABSORB(c, c.index, suffix) = [c EXCEPT !.block = b1]
      BY <1>3, <2>1 DEF ABSORB, c, b1, Context4
    <3> QED
      BY <3>1, <3>2
  <2>3. ABSORB(c1, Rate - 1, Mark) = c2
    <3>1. \A y : [c1 EXCEPT !.block = y] = Context4(r, y, s, Unfinished)
      BY DEF Context4
    <3>2. c1.block = b1
      BY ContextFields
    <3> HIDE DEF c1, b1, b2
    <3>3. ABSORB(c1, Rate - 1, Mark) = [c1 EXCEPT !.block = b2]
      BY <3>2 DEF ABSORB, c1, b2, Context4
    <3> QED
      BY <3>1, <3>3
  <2>4. keccak_f1600(c2) = c3
    BY KeccakIs
  <2>5. Ended(c3) = Context4(0, Nothing, longer, HasPadding)
    BY EndedIs
  <2> HIDE DEF c, c1, c2, c3, longer
  <2>6. FinishOnce(c, suffix) = Ended(c3)
    BY <2>1, <2>2, <2>3, <2>4 DEF FinishOnce, Ended
  <2> QED
    BY <1>3, <2>5, <2>6 DEF c
<1>9. Squeezed(all, 0) = Context4(0, Nothing, all, HasPadding)
  <2>1. 0 = 0 * Rate + 0 /\ 0 \in Nat
    BY <1>1
  <2>2. 0 \div Rate = 0 /\ 0 % Rate = 0
    BY <1>1, <2>1, Divided
  <2>3. Nothings(0) = <<>>
    <3>1. IsSeq(Nothings(0)) /\ Len(Nothings(0)) = 0
      BY NothingsAre
    <3> QED
      BY <3>1, NoCells
  <2>4. all \o <<>> = all
    BY <1>4, JoinedNone
  <2> QED
    BY <2>2, <2>3, <2>4 DEF Squeezed
<1> QED
  BY <1>7, <1>8, <1>9 DEF all

LEMMA MoreNothing == \A blocks : \A q \in Nat : IsSeq(blocks) =>
  Append(blocks \o Nothings(q), Nothing) = blocks \o Nothings(q + 1)
<1> TAKE blocks
<1> TAKE q \in Nat
<1> HAVE IsSeq(blocks)
<1> DEFINE none == Nothings(q)
           one == <<Nothing>>
<1>1. IsSeq(none) /\ IsSeq(one) /\ IsSeq(blocks)
  BY NothingsAre, OneCell
<1>2. IsSeq(blocks \o none)
  BY <1>1, Joined
<1>3. Append(blocks \o none, Nothing) = (blocks \o none) \o one
  BY <1>2, JoinedCell
<1>4. none \o one = Append(none, Nothing)
  BY <1>1, JoinedCell
<1>5. Append(none, Nothing) = Nothings(q + 1)
  BY NothingMore
<1> HIDE DEF none, one
<1>6. (blocks \o none) \o one = blocks \o (none \o one)
  BY <1>1, JoinedLeft
<1> QED
  BY <1>3, <1>4, <1>5, <1>6 DEF none
\* Another byte of output.
LEMMA SqueezedByte == \A blocks : \A t \in Nat : IsSeq(blocks) =>
  LET c == Squeezed(blocks, t) IN
  /\ SQUEEZE(c, c.index) = OutputAt(blocks, t + 1)
  /\ Advance(c, 1) = Squeezed(blocks, t + 1)
<1> TAKE blocks
<1> TAKE t \in Nat
<1> HAVE IsSeq(blocks)
<1> DEFINE c == Squeezed(blocks, t)
           q == t \div Rate
           r == t % Rate
           s == blocks \o Nothings(q)
<1>0. IsSeq(blocks)
  OBVIOUS
<1>1. Rate \in Nat /\ Rate > 0
  BY RateNumbers
<1>2. q \in Nat /\ r \in Nat /\ r < Rate /\ t = q * Rate + r
  BY <1>1, Division
<1>3. c = Context4(r, Nothing, s, HasPadding)
  BY DEF Squeezed
<1>4. c.index = r /\ c.state = s
  <2> HIDE DEF c, r, s
  <2> QED
    BY <1>3 DEF Context4
<1>5. SQUEEZE(c, c.index) = OutputAt(blocks, t + 1)
  <2>1. (t + 1) - 1 = t
    OBVIOUS
  <2>2. SQUEEZE(c, c.index) = <<s, r>>
    BY <1>4 DEF SQUEEZE
  <2> QED
    BY <2>1, <2>2 DEF OutputAt
<1> HIDE DEF c, r
<1>6. Advance(c, 1) = Squeezed(blocks, t + 1)
  <2>1. CASE r + 1 < Rate
    <3> DEFINE k == r + 1
    <3> HIDE DEF q
    <3>1. k \in Nat /\ k # 0 /\ k < Rate /\ k = 0 * Rate + k /\ 0 \in Nat /\ t + 1 = q * Rate + k
          /\ t + 1 \in Nat
      BY <1>1, <1>2, <2>1
    <3> HIDE DEF k
    <3>2. (t + 1) \div Rate = q /\ (t + 1) % Rate = k
      BY <1>1, <1>2, <3>1, Divided
    <3>3. k = (r + 1) % Rate
      <4>1. k % Rate = k
        BY <1>1, <3>1, Divided
      <4> QED
        BY <4>1 DEF k
    <3> HIDE DEF s
    <3>4. Advance(Context4(r, Nothing, s, HasPadding), 1) = Context4(k, Nothing, s, HasPadding)
      BY <3>1, <3>3, AdvanceIs
    <3> QED
      BY <1>3, <3>2, <3>4 DEF Squeezed, s
  <2>2. CASE r + 1 = Rate
    <3> DEFINE k == 0
               p == q + 1
               longer == Append(s, Nothing)
    <3> DEFINE u == Nothings(q)
               v == Nothings(p)
    <3>0. IsSeq(u) /\ Append(u, Nothing) = v
      <4>1. q \in Nat
        BY <1>2
      <4> HIDE DEF q
      <4> QED
        BY <4>1, NothingsAre, NothingMore
    <3>7. q \in Nat
      BY <1>2
    <3> HIDE DEF q, u, v
    <3>1. k \in Nat /\ k < Rate /\ Rate = 1 * Rate + k /\ 1 \in Nat /\ t + 1 = p * Rate + k
          /\ t + 1 \in Nat /\ p \in Nat
      BY <1>1, <1>2, <2>2
    <3> HIDE DEF k, p
    <3>2. (t + 1) \div Rate = p /\ (t + 1) % Rate = k
      BY <1>1, <3>1, Divided
    <3>3. k = (r + 1) % Rate
      <4>1. Rate % Rate = k
        BY <1>1, <3>1, Divided
      <4> QED
        BY <2>2, <4>1
    <3>4. longer = blocks \o v
      BY <1>0, <3>7, MoreNothing DEF longer, s, u, v, p
    <3> HIDE DEF s
    <3>5. k = 0
      BY DEF k
    <3>6. Advance(Context4(r, Nothing, s, HasPadding), 1) = Context4(k, Nothing, longer, HasPadding)
      BY <3>3, <3>5, AdvanceIs
    <3> HIDE DEF longer
    <3> QED
      BY <1>3, <3>2, <3>4, <3>6 DEF Squeezed, v
  <2>3. r + 1 < Rate \/ r + 1 = Rate
    BY <1>1, <1>2
  <2> QED
    BY <2>1, <2>2, <2>3
<1> QED
  BY <1>5, <1>6 DEF c

\* What one call of output gives.
Yields(c, o) == [ctx |-> c, out |-> o]
YieldsMore(r) == Yields(Advance(r.ctx, 1), Append(r.out, SQUEEZE(r.ctx, r.ctx.index)))

LEMMA OutputsAre == \A blocks : \A t, n \in Nat :
  /\ IsSeq(OutputsAfter(blocks, t, n)) /\ Len(OutputsAfter(blocks, t, n)) = n
  /\ \A i \in 1 .. n : OutputsAfter(blocks, t, n)[i] = OutputAt(blocks, t + i)
<1> TAKE blocks
<1> TAKE t, n \in Nat
<1> DEFINE p == OutputsAfter(blocks, t, n)
<1>1. DOMAIN p = 1 .. n /\ p = [i \in DOMAIN p |-> p[i]]
      /\ \A i \in 1 .. n : p[i] = OutputAt(blocks, t + i)
  BY DEF OutputsAfter
<1> HIDE DEF p
<1>2. IsSeq(p) /\ Len(p) = n
  BY <1>1, SeqBy
<1> QED
  BY <1>1, <1>2 DEF p
LEMMA OutputsGrow == \A blocks : \A t, j \in Nat :
  Append(OutputsAfter(blocks, t, j), OutputAt(blocks, t + j + 1)) = OutputsAfter(blocks, t, j + 1)
<1> TAKE blocks
<1> TAKE t, j \in Nat
<1> DEFINE n == j + 1
           x == OutputAt(blocks, t + n)
           old == OutputsAfter(blocks, t, j)
           new == OutputsAfter(blocks, t, n)
           long == Append(old, x)
<1>0. n \in Nat /\ t + n = t + j + 1
  OBVIOUS
<1>1. /\ IsSeq(old) /\ Len(old) = j /\ (\A i \in 1 .. j : old[i] = OutputAt(blocks, t + i))
  BY OutputsAre
<1> HIDE DEF n
<1>2. /\ IsSeq(new) /\ Len(new) = n /\ (\A i \in 1 .. n : new[i] = OutputAt(blocks, t + i))
  BY <1>0, OutputsAre
<1> HIDE DEF old, new, x
<1>3. IsSeq(long) /\ Len(long) = j + 1 /\ (\A i \in 1 .. j : long[i] = old[i]) /\ long[j + 1] = x
  BY <1>1, AppendedCell
<1> HIDE DEF long
<1>4. ASSUME NEW i \in 1 .. n PROVE long[i] = new[i]
  <2>1. i \in 1 .. j \/ i = n
    BY DEF n
  <2>2. CASE i \in 1 .. j
    BY <1>1, <1>2, <1>3, <2>2
  <2>3. CASE i = n
    <3>1. long[n] = x
      BY <1>3 DEF n
    <3>2. new[n] = x
      BY <1>2, <2>3 DEF x
    <3> QED
      BY <2>3, <3>1, <3>2
  <2> QED
    BY <2>1, <2>2, <2>3
<1>5. long = new
  <2>1. Len(long) = n
    BY <1>3 DEF n
  <2> QED
    BY <1>2, <1>3, <1>4, <2>1, SameSeq
<1>6. long = Append(old, OutputAt(blocks, t + j + 1))
  BY <1>0 DEF long, x
<1> QED
  BY <1>5, <1>6 DEF old, new, n
LEMMA OutputsJoin == \A blocks : \A t, n \in Nat :
  OutputsAfter(blocks, 0, t) \o OutputsAfter(blocks, t, n) = OutputsAfter(blocks, 0, t + n)
<1> TAKE blocks
<1> TAKE t, n \in Nat
<1> DEFINE m == t + n
           a == OutputsAfter(blocks, 0, t)
           b == OutputsAfter(blocks, t, n)
           c == OutputsAfter(blocks, 0, m)
           ab == a \o b
<1>0. m \in Nat /\ 0 \in Nat /\ \A i \in Nat : 0 + i = i
  OBVIOUS
<1>1. IsSeq(a) /\ Len(a) = t /\ \A i \in 1 .. t : a[i] = OutputAt(blocks, i)
  BY <1>0, OutputsAre
<1>2. IsSeq(b) /\ Len(b) = n /\ \A i \in 1 .. n : b[i] = OutputAt(blocks, t + i)
  BY OutputsAre
<1> HIDE DEF m
<1>3. IsSeq(c) /\ Len(c) = m /\ \A i \in 1 .. m : c[i] = OutputAt(blocks, i)
  BY <1>0, OutputsAre
<1> HIDE DEF a, b, c
<1>4. /\ IsSeq(ab) /\ Len(ab) = t + n /\ (\A i \in 1 .. t : ab[i] = a[i])
      /\ \A i \in 1 .. n : ab[t + i] = b[i]
  <2>1. IsSeq(a) /\ IsSeq(b)
    BY <1>1, <1>2
  <2>2. /\ IsSeq(a \o b) /\ Len(a \o b) = Len(a) + Len(b)
        /\ (\A i \in 1 .. Len(a) : (a \o b)[i] = a[i])
        /\ \A i \in 1 .. Len(b) : (a \o b)[Len(a) + i] = b[i]
    BY <2>1, Joined
  <2>3. Len(a) = t /\ Len(b) = n
    BY <1>1, <1>2
  <2> HIDE DEF ab
  <2> QED
    BY <2>2, <2>3 DEF ab
<1> HIDE DEF ab
<1>5. ASSUME NEW i \in 1 .. m PROVE ab[i] = c[i]
  <2>1. CASE i <= t
    BY <1>1, <1>3, <1>4, <2>1
  <2>2. CASE i > t
    <3> DEFINE j == i - t
    <3>1. j \in 1 .. n /\ i = t + j
      BY <2>2 DEF m
    <3> HIDE DEF j
    <3>2. ab[i] = b[j] /\ b[j] = OutputAt(blocks, i)
      BY <1>2, <1>4, <3>1
    <3> QED
      BY <1>3, <3>2
  <2> QED
    BY <2>1, <2>2 DEF m
<1>6. ab = c
  BY <1>3, <1>4, <1>5, SameSeq DEF m
<1> QED
  BY <1>6 DEF ab, a, b, c, m

LEMMA SqueezedMore == \A blocks : \A t, j \in Nat : IsSeq(blocks) =>
  YieldsMore(Yields(Squeezed(blocks, t + j), OutputsAfter(blocks, t, j)))
    = Yields(Squeezed(blocks, t + j + 1), OutputsAfter(blocks, t, j + 1))
<1> TAKE blocks
<1> TAKE t, j \in Nat
<1> HAVE IsSeq(blocks)
<1> DEFINE m == t + j
           c == Squeezed(blocks, m)
           o == OutputsAfter(blocks, t, j)
           r == Yields(c, o)
<1>1. m \in Nat
  OBVIOUS
<1> HIDE DEF m
<1>2. SQUEEZE(c, c.index) = OutputAt(blocks, m + 1) /\ Advance(c, 1) = Squeezed(blocks, m + 1)
  BY <1>1, SqueezedByte
<1>3. Append(o, OutputAt(blocks, m + 1)) = OutputsAfter(blocks, t, j + 1)
  BY OutputsGrow DEF m
<1>4. r.ctx = c /\ r.out = o
  BY DEF Yields
<1> HIDE DEF c, o, r
<1>5. YieldsMore(r) = Yields(Squeezed(blocks, m + 1), OutputsAfter(blocks, t, j + 1))
  BY <1>2, <1>3, <1>4 DEF YieldsMore
<1> QED
  BY <1>5 DEF r, c, o, m

LEMMA SqueezedBytes == \A ctx, suffix, blocks : \A t, n \in Nat :
  IsSeq(blocks) /\ FinishOnce(ctx, suffix) = Squeezed(blocks, t) =>
    mbedtls_sha3_finish(ctx, suffix, n)
      = Yields(Squeezed(blocks, t + n), OutputsAfter(blocks, t, n))
<1> TAKE ctx, suffix, blocks
<1> TAKE t, n \in Nat
<1> HAVE IsSeq(blocks) /\ FinishOnce(ctx, suffix) = Squeezed(blocks, t)
<1> DEFINE first == Yields(FinishOnce(ctx, suffix), <<>>)
           next(r, k) == YieldsMore(r)
           body(f) == [k \in 0 .. n |-> IF k = 0 THEN first
                                        ELSE LET r == f[k - 1] IN next(r, k)]
           given(k) == Yields(Squeezed(blocks, t + k), OutputsAfter(blocks, t, k))
           g == [k \in 0 .. n |-> given(k)]
<1>2. ASSUME NEW k \in 1 .. n PROVE next(given(k - 1), k) = given(k)
  <2> DEFINE j == k - 1
  <2>1. j \in Nat /\ k = j + 1 /\ t + k = t + j + 1
    OBVIOUS
  <2> HIDE DEF j
  <2>2. YieldsMore(given(j)) = given(j + 1)
    BY <2>1, SqueezedMore
  <2> HIDE DEF given
  <2> QED
    BY <2>1, <2>2 DEF j
<1>3. given(0) = first
  <2>1. t + 0 = t /\ 0 \in Nat
    OBVIOUS
  <2>2. OutputsAfter(blocks, t, 0) = <<>>
    <3>1. IsSeq(OutputsAfter(blocks, t, 0)) /\ Len(OutputsAfter(blocks, t, 0)) = 0
      BY <2>1, OutputsAre
    <3> QED
      BY <3>1, NoCells
  <2> QED
    BY <2>1, <2>2
<1> HIDE DEF given, next
<1>4. g[0] = first /\ \A k \in 1 .. n : g[k] = next(g[k - 1], k)
  <2>1. 0 \in 0 .. n /\ \A k \in 1 .. n : k \in 0 .. n /\ k - 1 \in 0 .. n
    OBVIOUS
  <2> QED
    BY <1>2, <1>3, <2>1
<1>5. g = body(g)
  <2>1. ASSUME NEW k \in 0 .. n PROVE g[k] = IF k = 0 THEN first ELSE next(g[k - 1], k)
    <3>1. k = 0 \/ k \in 1 .. n
      OBVIOUS
    <3> QED
      BY <1>4, <3>1
  <2>2. g = [k \in 0 .. n |-> g[k]]
    OBVIOUS
  <2> HIDE DEF g
  <2> QED
    BY <2>1, <2>2
<1> DEFINE f == CHOOSE h : h = body(h)
<1>6. f = body(f)
  BY <1>5
<1>7. mbedtls_sha3_finish(ctx, suffix, n) = f[n]
  BY DEF mbedtls_sha3_finish, next, YieldsMore, Yields
<1> HIDE DEF f, first
<1>8. f[0] = first /\ \A k \in 1 .. n : f[k] = next(f[k - 1], k)
  <2>1. \A k \in 0 .. n : f[k] = IF k = 0 THEN first ELSE next(f[k - 1], k)
    BY <1>6
  <2>2. 0 \in 0 .. n /\ \A k \in 1 .. n : k \in 0 .. n /\ k # 0
    OBVIOUS
  <2> HIDE DEF body
  <2> QED
    BY <2>1, <2>2
<1> HIDE DEF body, g
<1>9. f[n] = g[n]
  <2>1. \A k \in 1 .. n : f[k - 1] = g[k - 1] => f[k] = g[k]
    BY <1>4, <1>8
  <2>2. f[0] = g[0] /\ n \in 0 .. n
    BY <1>4, <1>8
  <2> QED
    BY <2>1, <2>2, SameLoop
<1>10. g[n] = given(n)
  BY DEF g
<1> QED
  BY <1>7, <1>9, <1>10 DEF given

LEMMA SqueezedIs == \A blocks, t : \A suffix :
  /\ FinishOnce(Squeezed(blocks, t), suffix) = Squeezed(blocks, t)
  /\ Squeezed(blocks, t).index = t % Rate
BY DEF Squeezed, Context4, FinishOnce, HasPadding
LEMMA SpongeStarts == mbedtls_sha3_starts = SpongeOf(<<>>)
<1> DEFINE none == <<>>
<1>1. Rate \in Nat /\ Rate > 0 /\ 0 \in Nat /\ 0 = 0 * Rate + 0
  BY RateNumbers
<1>2. 0 % Rate = 0 /\ 0 \div Rate = 0
  BY <1>1, Divided
<1>3. Len(none) = 0
  BY NoCells
<1>4. PartsOf(none, 0) = <<>>
  <2>1. IsSeq(PartsOf(none, 0)) /\ Len(PartsOf(none, 0)) = 0
    BY <1>1, PartsAre
  <2> QED
    BY <2>1, NoCells
<1>5. PartOf(none, 0) = Nothing
  <2>1. 0 * Rate = 0
    BY <1>1
  <2>2. ASSUME NEW i \in 0 .. Rate - 1 PROVE ~(0 * Rate + i + 1 <= Len(none))
    BY <1>1, <1>3, <2>1
  <2> HIDE DEF none
  <2> QED
    BY <2>2 DEF PartOf, Nothing
<1> HIDE DEF none
<1>6. SpongeOf(none) = Context4(0, Nothing, <<>>, Unfinished)
  BY <1>2, <1>3, <1>4, <1>5 DEF SpongeOf
<1> QED
  BY <1>6 DEF none, mbedtls_sha3_starts, Context4, Unfinished

THEOREM Sha3FinishIsReference == \A cells, suffix : \A n \in Nat : IsSeq(cells) =>
  mbedtls_sha3_finish(SpongeOf(cells), suffix, n).out = SpongeReference(cells, suffix, n)
<1> TAKE cells, suffix
<1> TAKE n \in Nat
<1> HAVE IsSeq(cells)
<1> DEFINE a == AllBlocks(cells, suffix)
           c == SpongeOf(cells)
<1>1. IsSeq(a) /\ FinishOnce(c, suffix) = Squeezed(a, 0) /\ 0 \in Nat /\ 0 + n = n
  BY AllBlocksAre, PadsTheLast DEF AreBlocksOf
<1>2. SpongeReference(cells, suffix, n) = OutputsAfter(a, 0, n)
  BY ReferenceIsOutputs
<1> HIDE DEF a, c
<1>3. mbedtls_sha3_finish(c, suffix, n) = Yields(Squeezed(a, 0 + n), OutputsAfter(a, 0, n))
  BY <1>1, SqueezedBytes
<1>4. mbedtls_sha3_finish(c, suffix, n).out = OutputsAfter(a, 0, n)
  BY <1>3 DEF Yields
<1> QED
  BY <1>2, <1>4 DEF c

-----------------------------------------------------------------------------
(* Hash: the digest an operation gives is that of what it was given.       *)

\* What the context of an operation is after the bytes given to it.
IsContextOf(alg, ctx, cells) ==
    IF alg = "SHA_256" THEN Hashed(ctx, cells) ELSE IsSeq(cells) /\ ctx = SpongeOf(cells)

LEMMA ContextStarts == \A alg : IsContextOf(alg, mbedtls_psa_hash_setup(alg), <<>>)
<1> TAKE alg
<1>1. CASE alg = "SHA_256"
  BY <1>1, Started DEF IsContextOf, mbedtls_psa_hash_setup
<1>2. CASE alg # "SHA_256"
  BY <1>2, SpongeStarts, NoCells DEF IsContextOf, mbedtls_psa_hash_setup
<1> QED
  BY <1>1, <1>2
LEMMA ContextMore == \A alg, ctx, cells, input :
  IsContextOf(alg, ctx, cells) /\ IsSeq(input) /\ Len(input) < HashWord =>
    IsContextOf(alg, mbedtls_psa_hash_update(alg, ctx, input), cells \o input)
<1> TAKE alg, ctx, cells, input
<1> HAVE IsContextOf(alg, ctx, cells) /\ IsSeq(input) /\ Len(input) < HashWord
<1>1. CASE alg = "SHA_256"
  <2>1. Hashed(mbedtls_sha256_update(ctx, input), cells \o input)
    BY <1>1, Sha256UpdateCounts DEF IsContextOf
  <2> QED
    BY <1>1, <2>1 DEF IsContextOf, mbedtls_psa_hash_update
<1>2. CASE alg # "SHA_256"
  <2>1. IsSeq(cells) /\ ctx = SpongeOf(cells) /\ IsSeq(input)
    BY <1>2 DEF IsContextOf
  <2>2. mbedtls_sha3_update(ctx, input) = SpongeOf(cells \o input)
    BY <2>1, Sha3UpdateAppends
  <2>3. IsSeq(cells \o input)
    BY <2>1, Joined
  <2> QED
    BY <1>2, <2>2, <2>3 DEF IsContextOf, mbedtls_psa_hash_update
<1> QED
  BY <1>1, <1>2
LEMMA ContextEnds == \A alg, ctx, cells :
  IsContextOf(alg, ctx, cells) /\ Countable(Len(cells)) =>
    mbedtls_psa_hash_finish(alg, ctx) = HashReference(alg, cells)
<1> TAKE alg, ctx, cells
<1> HAVE IsContextOf(alg, ctx, cells) /\ Countable(Len(cells))
<1>1. CASE alg = "SHA_256"
  <2>1. mbedtls_sha256_finish(ctx) = Sha256Reference(cells)
    BY <1>1, Sha256FinishIsReference DEF IsContextOf
  <2> QED
    BY <1>1, <2>1 DEF mbedtls_psa_hash_finish, HashReference
<1>2. CASE alg # "SHA_256"
  <2>1. IsSeq(cells) /\ ctx = SpongeOf(cells) /\ HashSize \in Nat
    BY <1>2, RateNumbers DEF IsContextOf
  <2>2. mbedtls_sha3_finish(ctx, Sha3Suffix, HashSize).out
          = SpongeReference(cells, Sha3Suffix, HashSize)
    BY <2>1, Sha3FinishIsReference
  <2> QED
    BY <1>2, <2>2 DEF mbedtls_psa_hash_finish, HashReference
<1> QED
  BY <1>1, <1>2
LEMMA ContextIsSeq == \A alg, ctx, cells : IsContextOf(alg, ctx, cells) => IsSeq(cells)
BY DEF IsContextOf, Hashed, Absorbed

LEMMA HashLengths ==
  /\ \A n \in Nat : n <= MaxHashed + HashWord => Countable(n)
  /\ MaxHashed \in Nat /\ HashWord \in Nat
<1> DEFINE big == MaxHashed + HashWord
           W2 == HashWord * HashWord
           B == ByteBits
<1>0. MaxHashed \in Nat /\ HashWord \in Nat
  BY HashNumbers, MaxHashedAssumption
<1>1. B \in Nat /\ big \in Nat
  BY <1>0, HashNumbers
<1>2. big * B < W2
  BY MaxHashedAssumption
<1>3. W2 \in Nat
  BY <1>0
<1> HIDE DEF big, W2, B
<1>4. ASSUME NEW n \in Nat, n <= big PROVE n * B < W2
  <2> DEFINE d == big - n
  <2>1. d \in Nat /\ big = n + d
    BY <1>1, <1>4
  <2> HIDE DEF d
  <2>2. big * B = n * B + d * B /\ d * B \in Nat /\ n * B \in Nat
    BY <1>1, <2>1
  <2> DEFINE x == big * B
             y == n * B
             w == d * B
  <2>3. x = y + w /\ w \in Nat /\ y \in Nat /\ x < W2
    BY <1>2, <2>2
  <2> HIDE DEF x, y, w
  <2>4. y < W2
    BY <1>3, <2>3
  <2> QED
    BY <2>4 DEF y
<1> QED
  BY <1>0, <1>4 DEF big, W2, B, Countable

LEMMA ComputeIs == \A alg, input : IsSeq(input) /\ Len(input) < HashWord =>
  mbedtls_psa_hash_compute(alg, input) = HashReference(alg, input)
<1> TAKE alg, input
<1> HAVE IsSeq(input) /\ Len(input) < HashWord
<1> DEFINE none == <<>>
           ctx == mbedtls_psa_hash_setup(alg)
           more == mbedtls_psa_hash_update(alg, ctx, input)
<1>1. IsContextOf(alg, ctx, none) /\ none \o input = input
  BY ContextStarts, JoinedNone
<1>2. mbedtls_psa_hash_compute(alg, input) = mbedtls_psa_hash_finish(alg, more)
  BY DEF mbedtls_psa_hash_compute
<1> HIDE DEF none, ctx
<1>3. IsContextOf(alg, more, none \o input)
  BY <1>1, ContextMore
<1> HIDE DEF more
<1>4. IsContextOf(alg, more, input)
  BY <1>1, <1>3
<1>5. Countable(Len(input))
  <2>1. Len(input) \in Nat /\ Len(input) <= MaxHashed + HashWord
    BY HashLengths DEF IsSeq
  <2> QED
    BY <2>1, HashLengths
<1> QED
  BY <1>2, <1>4, <1>5, ContextEnds

\* One operation and what was given to it; all of them.
HashState(op, given) ==
    /\ op = [id |-> op.id, alg |-> op.alg, ctx |-> op.ctx]
    /\ op.id <=> op.alg \in HashAlgs
    /\ op.id => IsContextOf(op.alg, op.ctx, given) /\ Len(given) <= MaxHashed
    /\ ~op.id => op = NoHash /\ given = <<>>
HashObjects ==
    /\ hop = [o \in Objects |-> hop[o]] /\ hgiven = [o \in Objects |-> hgiven[o]]
    /\ \A o \in Objects : HashState(hop[o], hgiven[o])
HashInv == HashObjects /\ HashDoneExact

LEMMA NoHashState == HashState(NoHash, <<>>)
BY DEF HashState, NoHash, HashAlgs
LEMMA HashBecomes ==
  ASSUME HashObjects, NEW o \in Objects, NEW op, NEW given,
         Becomes(o, op, given), HashState(op, given)
  PROVE  HashObjects'
<1>1. /\ hop' = [p \in Objects |-> IF p = o THEN op ELSE hop[p]]
      /\ hgiven' = [p \in Objects |-> IF p = o THEN given ELSE hgiven[p]]
  BY DEF Becomes, HashObjects
<1>2. ASSUME NEW p \in Objects PROVE HashState(hop'[p], hgiven'[p])
  <2>1. CASE p = o
    BY <1>1, <2>1
  <2>2. CASE p # o
    BY <1>1, <2>2 DEF HashObjects
  <2> QED
    BY <2>1, <2>2
<1>3. hop' = [p \in Objects |-> hop'[p]] /\ hgiven' = [p \in Objects |-> hgiven'[p]]
  BY <1>1
<1> QED
  BY <1>2, <1>3 DEF HashObjects
LEMMA HashAborted ==
  ASSUME HashObjects, NEW o \in Objects, psa_hash_abort(o) PROVE HashObjects'
BY NoHashState, HashBecomes DEF psa_hash_abort
LEMMA HashUnchanged == ASSUME HashObjects, UNCHANGED <<hop, hgiven>> PROVE HashObjects'
<1>1. hop' = hop /\ hgiven' = hgiven
  OBVIOUS
<1> QED
  BY <1>1 DEF HashObjects
LEMMA HashCalled ==
  ASSUME HashObjects, NEW o \in Objects, NEW status, NEW op, NEW given,
         HashCall(o, status, op, given), status = "OK" => HashState(op, given)
  PROVE  HashInv'
<1>1. HashObjects'
  BY HashBecomes, HashAborted DEF HashCall
<1>2. HashDoneExact'
  BY DEF HashCall, HashDoneExact
<1> QED
  BY <1>1, <1>2 DEF HashInv
LEMMA HashDoneIs ==
  ASSUME NEW status, NEW alg, NEW given, NEW hash, Done(status, alg, given, hash),
         status = "OK" => hash = HashReference(alg, given)
  PROVE  HashDoneExact'
BY DEF Done, HashDoneExact, NoDigest

LEMMA BytesAre == \A o : \A n \in Nat : IsSeq(Bytes(o, n)) /\ Len(Bytes(o, n)) = n
<1> TAKE o
<1> TAKE n \in Nat
<1> DEFINE b == Bytes(o, n)
<1>1. DOMAIN b = 1 .. n /\ b = [i \in DOMAIN b |-> b[i]]
  BY DEF Bytes
<1> HIDE DEF b
<1>2. IsSeq(b) /\ Len(b) = n
  BY <1>1, SeqBy
<1> QED
  BY <1>2 DEF b

LEMMA HashExactOf == ASSUME HashObjects PROVE HashExact
<1> SUFFICES ASSUME NEW o \in Objects, hop[o].id
             PROVE mbedtls_psa_hash_finish(hop[o].alg, hop[o].ctx) = HashReference(hop[o].alg, hgiven[o])
  BY DEF HashExact
<1>1. IsContextOf(hop[o].alg, hop[o].ctx, hgiven[o]) /\ Len(hgiven[o]) <= MaxHashed
  BY DEF HashObjects, HashState
<1>2. Len(hgiven[o]) \in Nat
  BY <1>1, ContextIsSeq DEF IsSeq
<1>3. Len(hgiven[o]) <= MaxHashed + HashWord
  BY <1>1, <1>2, HashLengths
<1>4. Countable(Len(hgiven[o]))
  BY <1>2, <1>3, HashLengths
<1> QED
  BY <1>1, <1>4, ContextEnds
LEMMA HashInvImplies == ASSUME HashInv PROVE HashCorrect
<1>1. HashTypeOK
  BY DEF HashInv, HashObjects, HashState, HashTypeOK
<1> QED
  BY <1>1, HashExactOf DEF HashInv, HashCorrect

LEMMA HashStart == ASSUME HashInit PROVE HashInv
<1>1. HashDoneExact
  BY DEF HashInit, HashDoneExact
<1>2. HashObjects
  BY NoHashState DEF HashInit, HashObjects
<1> QED
  BY <1>1, <1>2 DEF HashInv

LEMMA HashSetupKeeps ==
  ASSUME HashInv, NEW o \in Objects, NEW alg \in HashAlgs, psa_hash_setup(o, alg)
  PROVE  HashInv'
<1> DEFINE ctx == mbedtls_psa_hash_setup(alg)
           op == Active(alg, ctx)
           none == <<>>
<1>1. IsContextOf(alg, ctx, none) /\ Len(none) = 0 /\ MaxHashed \in Nat
  BY ContextStarts, NoCells, HashLengths
<1>2. PICK valid : HashCall(o, First(Check(~hop[o].id, "BAD_STATE"), valid), op, none)
  BY DEF psa_hash_setup
<1> HIDE DEF ctx, none
<1>3. HashState(op, none)
  BY <1>1 DEF HashState, Active
<1> QED
  BY <1>2, <1>3, HashCalled DEF HashInv
LEMMA HashUpdateKeeps ==
  ASSUME HashInv, NEW o \in Objects, NEW n \in 0 .. MaxHashed - Len(hgiven[o]),
         n < HashWord, psa_hash_update(o, n)
  PROVE  HashInv'
<1> DEFINE input == Bytes(o, n)
           old == hop[o]
           op == [old EXCEPT !.ctx = mbedtls_psa_hash_update(old.alg, @, input)]
           given == hgiven[o] \o input
<1>0. HashState(old, hgiven[o])
  BY DEF HashInv, HashObjects
<1>1. PICK status : status = First(Check(hop[o].id, "BAD_STATE"), status)
                    /\ HashCall(o, status, op, given)
  BY DEF psa_hash_update, First, Check
<1> HIDE DEF input
<1>2. ASSUME status = "OK" PROVE HashState(op, given)
  <2>1. old.id
    BY <1>1, <1>2 DEF First, Check
  <2>2. n \in Nat
    OBVIOUS
  <2>3. IsSeq(input) /\ Len(input) = n
    BY <2>2, BytesAre DEF input
  <2>4. IsContextOf(old.alg, old.ctx, hgiven[o])
    BY <1>0, <2>1 DEF HashState
  <2> DEFINE ctx == mbedtls_psa_hash_update(old.alg, old.ctx, input)
  <2>5. IsContextOf(old.alg, ctx, given)
    BY <2>3, <2>4, ContextMore
  <2>6. Len(given) <= MaxHashed
    <3>1. IsSeq(hgiven[o]) /\ Len(hgiven[o]) \in Nat /\ MaxHashed \in Nat
      BY <2>4, ContextIsSeq, HashLengths DEF IsSeq
    <3>2. Len(given) = Len(hgiven[o]) + Len(input)
      BY <2>3, <3>1, Joined
    <3> QED
      BY <2>2, <2>3, <3>1, <3>2
  <2>7. op = [id |-> old.id, alg |-> old.alg, ctx |-> ctx]
    BY <1>0 DEF HashState
  <2> HIDE DEF op, given, ctx
  <2>8. op.id = old.id /\ op.alg = old.alg /\ op.ctx = ctx
    BY <2>7
  <2> HIDE DEF old
  <2> QED
    BY <1>0, <2>1, <2>5, <2>6, <2>7, <2>8 DEF HashState
<1> QED
  BY <1>1, <1>2, HashCalled DEF HashInv
LEMMA HashFinishKeeps ==
  ASSUME HashInv, NEW o \in Objects, NEW hash_size, psa_hash_finish(o, hash_size)
  PROVE  HashInv'
<1> DEFINE hash == mbedtls_psa_hash_finish(hop[o].alg, hop[o].ctx)
<1>1. PICK status : /\ status = "OK" => hop[o].id
                    /\ Done(status, hop[o].alg, hgiven[o], hash)
                    /\ psa_hash_abort(o) \/ UNCHANGED <<hop, hgiven>>
  BY DEF psa_hash_finish, First3, First, Check, Memory
<1>2. hop[o].id => hash = HashReference(hop[o].alg, hgiven[o])
  BY HashExactOf DEF HashInv, HashExact
<1> HIDE DEF hash
<1>3. HashDoneExact'
  BY <1>1, <1>2, HashDoneIs
<1>4. HashObjects'
  BY <1>1, HashAborted, HashUnchanged DEF HashInv
<1> QED
  BY <1>3, <1>4 DEF HashInv
LEMMA HashVerifyKeeps ==
  ASSUME HashInv, NEW o \in Objects, NEW hash, psa_hash_verify(o, hash)
  PROVE  HashInv'
<1> DEFINE actual == mbedtls_psa_hash_finish(hop[o].alg, hop[o].ctx)
<1>1. PICK status : /\ status = "OK" => hop[o].id /\ hash = actual
                    /\ Done(status, hop[o].alg, hgiven[o], hash)
                    /\ psa_hash_abort(o)
  BY DEF psa_hash_verify, Compare, First3, First, Check, Memory
<1>2. hop[o].id => actual = HashReference(hop[o].alg, hgiven[o])
  BY HashExactOf DEF HashInv, HashExact
<1> HIDE DEF actual
<1>3. HashDoneExact'
  BY <1>1, <1>2, HashDoneIs
<1>4. HashObjects'
  BY <1>1, HashAborted DEF HashInv
<1> QED
  BY <1>3, <1>4 DEF HashInv
LEMMA HashCloneKeeps == ASSUME HashInv, psa_hash_clone PROVE HashInv'
<1> DEFINE from == hop["source"]
           op == mbedtls_psa_hash_clone(from)
<1>0. "source" \in Objects /\ "target" \in Objects
  BY DEF Objects
<1>1. /\ hdone' = NoDigest
      /\ \/ from.id /\ Becomes("target", op, hgiven["source"])
         \/ UNCHANGED <<hop, hgiven>>
  BY DEF psa_hash_clone, First, Check
<1>2. HashDoneExact'
  BY <1>1 DEF HashDoneExact
<1>3. HashState(from, hgiven["source"])
  BY <1>0 DEF HashInv, HashObjects
<1>4. from.id => HashState(op, hgiven["source"])
  BY <1>3 DEF HashState, mbedtls_psa_hash_clone, Active
<1> HIDE DEF op
<1>5. HashObjects'
  BY <1>0, <1>1, <1>4, HashBecomes, HashUnchanged DEF HashInv
<1> QED
  BY <1>2, <1>5 DEF HashInv
LEMMA HashComputeKeeps ==
  ASSUME HashInv, NEW alg \in HashAlgs, NEW n \in 0 .. HashWord - 1, NEW hash_size,
         psa_hash_compute(alg, n, hash_size)
  PROVE  HashInv'
<1> DEFINE input == Bytes("source", n)
           hash == mbedtls_psa_hash_compute(alg, input)
<1>1. PICK status : Done(status, alg, input, hash) /\ UNCHANGED <<hop, hgiven>>
  BY DEF psa_hash_compute
<1>2. hash = HashReference(alg, input)
  <2>1. n \in Nat /\ n < HashWord
    BY HashLengths
  <2>2. IsSeq(input) /\ Len(input) < HashWord
    BY <2>1, BytesAre
  <2> HIDE DEF input
  <2> QED
    BY <2>2, ComputeIs
<1> HIDE DEF hash, input
<1> QED
  BY <1>1, <1>2, HashDoneIs, HashUnchanged DEF HashInv
LEMMA HashCompareKeeps ==
  ASSUME HashInv, NEW alg \in HashAlgs, NEW n \in 0 .. HashWord - 1, NEW hash,
         psa_hash_compare(alg, n, hash)
  PROVE  HashInv'
<1> DEFINE input == Bytes("source", n)
           actual == mbedtls_psa_hash_compute(alg, input)
<1>1. PICK status : /\ status = "OK" => hash = actual
                    /\ Done(status, alg, input, hash) /\ UNCHANGED <<hop, hgiven>>
  BY DEF psa_hash_compare, Compare, First3, First, Check, Memory
<1>2. actual = HashReference(alg, input)
  <2>1. n \in Nat /\ n < HashWord
    BY HashLengths
  <2>2. IsSeq(input) /\ Len(input) < HashWord
    BY <2>1, BytesAre
  <2> HIDE DEF input
  <2> QED
    BY <2>2, ComputeIs
<1> HIDE DEF actual, input
<1> QED
  BY <1>1, <1>2, HashDoneIs, HashUnchanged DEF HashInv

\* However a message is cut, cloned and aborted, psa_hash_finish(),
\* psa_hash_verify() and psa_hash_compute() speak of the hash of what was given to
\* that operation, padded and counted as the algorithm says.
THEOREM HashIsOfWholeMessage == HashSpec => []HashCorrect
<1>1. HashInit => HashInv
  BY HashStart
<1>2. HashInv /\ [HashNext]_hashVars => HashInv'
  <2> SUFFICES ASSUME HashInv, [HashNext]_hashVars PROVE HashInv'
    OBVIOUS
  <2>1. ASSUME NEW o \in Objects, NEW alg \in HashAlgs, psa_hash_setup(o, alg) PROVE HashInv'
    BY <2>1, HashSetupKeeps
  <2>2. ASSUME NEW o \in Objects, NEW n \in 0 .. MaxHashed - Len(hgiven[o]),
               n < HashWord, psa_hash_update(o, n)
        PROVE  HashInv'
    BY <2>2, HashUpdateKeeps
  <2>3. ASSUME NEW o \in Objects, NEW hash_size, psa_hash_finish(o, hash_size) PROVE HashInv'
    BY <2>3, HashFinishKeeps
  <2>4. ASSUME NEW o \in Objects, NEW hash, psa_hash_verify(o, hash) PROVE HashInv'
    BY <2>4, HashVerifyKeeps
  <2>5. ASSUME NEW o \in Objects, HashAbort(o) PROVE HashInv'
    <3>1. HashObjects'
      BY <2>5, HashAborted DEF HashAbort, HashInv
    <3> QED
      BY <2>5, <3>1 DEF HashAbort, HashInv, HashDoneExact
  <2>6. CASE psa_hash_clone
    BY <2>6, HashCloneKeeps
  <2>7. ASSUME NEW alg \in HashAlgs, NEW n \in 0 .. HashWord - 1, NEW hash_size,
               psa_hash_compute(alg, n, hash_size)
        PROVE  HashInv'
    BY <2>7, HashComputeKeeps
  <2>8. ASSUME NEW alg \in HashAlgs, NEW n \in 0 .. HashWord - 1, NEW hash,
               psa_hash_compare(alg, n, hash)
        PROVE  HashInv'
    BY <2>8, HashCompareKeeps
  <2>9. CASE UNCHANGED hashVars
    <3>1. UNCHANGED <<hop, hgiven>> /\ hdone' = hdone
      BY <2>9 DEF hashVars
    <3>2. HashDoneExact'
      BY <3>1 DEF HashInv, HashDoneExact
    <3> QED
      BY <3>1, <3>2, HashUnchanged DEF HashInv
  <2> QED
    BY <2>1, <2>2, <2>3, <2>4, <2>5, <2>6, <2>7, <2>8, <2>9 DEF HashNext
<1>3. HashInv => HashCorrect
  BY HashInvImplies
<1> QED
  BY <1>1, <1>2, <1>3, PTL DEF HashSpec

-----------------------------------------------------------------------------
(* Xof: the output is one stream.                                          *)

XofOps == [id : BOOLEAN, active : BOOLEAN, allows_context : BOOLEAN,
           requires_context : BOOLEAN, has_context : BOOLEAN,
           has_input : BOOLEAN, has_output : BOOLEAN]
XofFlags(op) ==
    /\ op.has_context => op.allows_context
    /\ op.has_input \/ op.has_output => op.active
    /\ op.active <=> op.id
    /\ op.requires_context /\ ~op.has_context => ~op.has_input /\ ~op.has_output
XofAbsorbed(g) == g.context \o g.message
XofBlocks(g) == AllBlocks(XofAbsorbed(g), ShakeSuffix)
\* The context of the driver: before the padding, and after some output.
XofStream(ctx, g, got) ==
    \/ ctx = SpongeOf(XofAbsorbed(g)) /\ got = <<>>
    \/ /\ Len(got) \in Nat /\ got = OutputsAfter(XofBlocks(g), 0, Len(got))
       /\ ctx = Squeezed(XofBlocks(g), Len(got))
XofGiven(op, g) ==
    /\ g = [context |-> g.context, message |-> g.message]
    /\ IsSeq(g.context) /\ IsSeq(g.message)
    /\ ~op.has_context => g.context = <<>>
    /\ ~op.has_input => g.message = <<>>
XofState(op, ctx, g, got) ==
    /\ op \in XofOps /\ XofFlags(op) /\ XofGiven(op, g)
    /\ XofStream(ctx, g, got)
    /\ ~op.has_output => ctx = SpongeOf(XofAbsorbed(g)) /\ got = <<>>
XofInv == XofState(xop, xctx, xgiven, xgot)

LEMMA XofBlocksAre == \A g : IsSeq(XofAbsorbed(g)) =>
  /\ IsSeq(XofBlocks(g))
  /\ FinishOnce(SpongeOf(XofAbsorbed(g)), ShakeSuffix) = Squeezed(XofBlocks(g), 0)
  /\ \A n \in Nat : SpongeReference(XofAbsorbed(g), ShakeSuffix, n) = OutputsAfter(XofBlocks(g), 0, n)
BY AllBlocksAre, PadsTheLast, ReferenceIsOutputs DEF XofBlocks, AreBlocksOf
LEMMA XofAbsorbedIsSeq == \A op, g : XofGiven(op, g) => IsSeq(XofAbsorbed(g))
BY Joined DEF XofGiven, XofAbsorbed
LEMMA OutputsNone == \A blocks : OutputsAfter(blocks, 0, 0) = <<>>
<1> TAKE blocks
<1>1. 0 \in Nat
  OBVIOUS
<1>2. IsSeq(OutputsAfter(blocks, 0, 0)) /\ Len(OutputsAfter(blocks, 0, 0)) = 0
  BY <1>1, OutputsAre
<1> QED
  BY <1>2, NoCells

\* The next bytes of output, whether or not there were any before.
LEMMA XofGivesMore == \A ctx, g, got : \A n \in Nat :
  IsSeq(XofAbsorbed(g)) /\ XofStream(ctx, g, got) =>
    LET r == mbedtls_sha3_finish(ctx, ShakeSuffix, n) IN
    /\ n > 0 => XofStream(r.ctx, g, got \o r.out)
    /\ n = 0 => got \o r.out = got
<1> TAKE ctx, g, got
<1> TAKE n \in Nat
<1> HAVE IsSeq(XofAbsorbed(g)) /\ XofStream(ctx, g, got)
<1> DEFINE a == XofBlocks(g)
           t == Len(got)
           m == t + n
           r == mbedtls_sha3_finish(ctx, ShakeSuffix, n)
           more == OutputsAfter(a, t, n)
           all == OutputsAfter(a, 0, m)
<1>1. IsSeq(a) /\ FinishOnce(SpongeOf(XofAbsorbed(g)), ShakeSuffix) = Squeezed(a, 0)
  BY XofBlocksAre
<1>2. t \in Nat /\ got = OutputsAfter(a, 0, t) /\ FinishOnce(ctx, ShakeSuffix) = Squeezed(a, t)
  <2>1. CASE ctx = SpongeOf(XofAbsorbed(g)) /\ got = <<>>
    <3>1. t = 0
      BY <2>1, NoCells
    <3> HIDE DEF a, t
    <3> QED
      BY <1>1, <2>1, <3>1, OutputsNone
  <2>2. CASE t \in Nat /\ got = OutputsAfter(a, 0, t) /\ ctx = Squeezed(a, t)
    <3> HIDE DEF a, t
    <3> QED
      BY <2>2, SqueezedIs
  <2> QED
    BY <2>1, <2>2 DEF XofStream
<1> HIDE DEF a, t
<1>3. r = Yields(Squeezed(a, m), more)
  BY <1>1, <1>2, SqueezedBytes
<1>4. OutputsAfter(a, 0, t) \o more = all
  BY <1>2, OutputsJoin
<1>5. m \in Nat /\ (n = 0 => m = t)
  BY <1>2
<1> HIDE DEF m
<1>6. IsSeq(all) /\ Len(all) = m
  BY <1>5, OutputsAre
<1> HIDE DEF r, more
<1>7. r.ctx = Squeezed(a, m) /\ r.out = more
  BY <1>3 DEF Yields
<1>8. got \o r.out = all
  BY <1>2, <1>4, <1>7
<1>9. XofStream(r.ctx, g, got \o r.out)
  <2>1. Len(got \o r.out) = m
    BY <1>6, <1>8
  <2> HIDE DEF all
  <2> QED
    BY <1>5, <1>7, <1>8, <2>1 DEF XofStream, a, all
<1>10. n = 0 => got \o r.out = got
  BY <1>2, <1>5, <1>8
<1> QED
  BY <1>9, <1>10 DEF r

LEMMA XofStartState ==
  XofState(NoXof, mbedtls_sha3_starts, NoXofInput, <<>>)
<1> DEFINE none == <<>>
<1>1. IsSeq(none) /\ none \o none = none
  BY NoCells, JoinedNone
<1> HIDE DEF none
<1>2. NoXofInput = [context |-> none, message |-> none]
  BY DEF NoXofInput, none
<1>3. XofAbsorbed(NoXofInput) = none
  BY <1>1, <1>2 DEF XofAbsorbed
<1>4. mbedtls_sha3_starts = SpongeOf(none)
  BY SpongeStarts DEF none
<1>5. XofGiven(NoXof, NoXofInput)
  BY <1>1, <1>2 DEF XofGiven, none
<1>6. NoXof \in XofOps /\ XofFlags(NoXof) /\ ~NoXof.has_output
  BY DEF NoXof, XofOps, XofFlags
<1> QED
  BY <1>3, <1>4, <1>5, <1>6 DEF XofState, XofStream, none
LEMMA XofAbortKeeps == ASSUME psa_xof_abort PROVE XofInv'
BY XofStartState DEF psa_xof_abort, XofInv
LEMMA XofCallKeeps ==
  ASSUME NEW status, NEW op, NEW ctx, NEW given, NEW got,
         XofCall(status, op, ctx, given, got), status = "OK" => XofState(op, ctx, given, got)
  PROVE  XofInv'
<1>1. CASE status = "OK"
  BY <1>1 DEF XofCall, XofInv
<1>2. CASE status # "OK"
  BY <1>2, XofAbortKeeps DEF XofCall
<1> QED
  BY <1>1, <1>2
LEMMA XofSame == ASSUME XofInv, UNCHANGED xofVars PROVE XofInv'
BY DEF xofVars, XofInv

LEMMA XofInvImplies == ASSUME XofInv PROVE XofCorrect
<1> DEFINE s == XofAbsorbed(xgiven)
           a == XofBlocks(xgiven)
<1>1. IsSeq(s) /\ Len(s) \in Nat /\ XofStream(xctx, xgiven, xgot)
  BY XofAbsorbedIsSeq DEF XofInv, XofState, IsSeq
<1>2. \A n \in Nat : SpongeReference(s, ShakeSuffix, n) = OutputsAfter(a, 0, n)
  BY <1>1, XofBlocksAre
<1>3. Rate \in Nat /\ Rate > 0
  BY RateNumbers
<1>4. s = xgiven.context \o xgiven.message
  BY DEF XofAbsorbed
<1>5. (xctx = SpongeOf(s) /\ xgot = <<>>)
      \/ (/\ Len(xgot) \in Nat /\ xgot = OutputsAfter(a, 0, Len(xgot))
          /\ xctx = Squeezed(a, Len(xgot)))
  BY <1>1 DEF XofStream
<1> HIDE DEF s, a
<1>6. XofStreamExact
  <2>1. CASE xgot = <<>>
    <3>1. Len(xgot) = 0 /\ 0 \in Nat /\ OutputsAfter(a, 0, 0) = <<>>
      BY <2>1, NoCells, OutputsNone
    <3> QED
      BY <1>2, <1>4, <2>1, <3>1 DEF XofStreamExact
  <2>2. CASE Len(xgot) \in Nat /\ xgot = OutputsAfter(a, 0, Len(xgot))
    BY <1>2, <1>4, <2>2 DEF XofStreamExact
  <2> QED
    BY <1>5, <2>1, <2>2
<1>7. xctx.index \in 0 .. Rate - 1
  <2>1. CASE xctx = SpongeOf(s)
    <3>1. xctx.index = Len(s) % Rate
      BY <2>1, ContextFields DEF SpongeOf
    <3> QED
      BY <1>1, <1>3, <3>1, Division
  <2>2. CASE Len(xgot) \in Nat /\ xctx = Squeezed(a, Len(xgot))
    <3>1. xctx.index = Len(xgot) % Rate
      BY <2>2, SqueezedIs
    <3> QED
      BY <1>3, <2>2, <3>1, Division
  <2> QED
    BY <1>5, <2>1, <2>2
<1>8. XofTypeOK
  BY <1>7 DEF XofInv, XofState, XofFlags, XofTypeOK
<1>9. XofContextFirst
  <2> SUFFICES ASSUME xop.requires_context, ~xop.has_context
               PROVE  xctx = mbedtls_sha3_starts /\ xgot = <<>>
    BY DEF XofContextFirst
  <2>1. /\ xgiven.context = <<>> /\ xgiven.message = <<>>
        /\ xctx = SpongeOf(s) /\ xgot = <<>>
    BY DEF XofInv, XofState, XofFlags, XofGiven, s
  <2>2. s = <<>>
    BY <1>4, <2>1, NoCells, JoinedNone
  <2> QED
    BY <2>1, <2>2, SpongeStarts
<1> QED
  BY <1>6, <1>8, <1>9 DEF XofCorrect

LEMMA XofSetupKeeps == ASSUME XofInv, NEW context \in BOOLEAN, psa_xof_setup(context) PROVE XofInv'
<1> DEFINE op == [NoXof EXCEPT !.id = TRUE, !.active = TRUE,
                               !.allows_context = context, !.requires_context = context]
<1>1. PICK status : XofCall(status, op, mbedtls_sha3_starts, NoXofInput, <<>>)
  BY DEF psa_xof_setup
<1>2. op \in XofOps /\ ~op.has_context /\ ~op.has_input /\ ~op.has_output /\ XofFlags(op)
  BY DEF NoXof, XofOps, XofFlags
<1> HIDE DEF op
<1>3. XofState(op, mbedtls_sha3_starts, NoXofInput, <<>>)
  BY <1>2, XofStartState DEF XofState, XofGiven, NoXof
<1> QED
  BY <1>1, <1>3, XofCallKeeps

LEMMA XofContextKeeps == ASSUME XofInv, NEW n \in Nat, psa_xof_set_context(n) PROVE XofInv'
<1> SUFFICES ASSUME ContextAllowed, ~XofRefused(ContextAllowed) PROVE XofInv'
  BY XofSame DEF psa_xof_set_context, XofRefused
<1> DEFINE op == [xop EXCEPT !.has_context = TRUE]
           new == Context(n)
           g == [xgiven EXCEPT !.context = new]
           ctx == mbedtls_sha3_update(xctx, new)
           none == <<>>
<1>1. PICK status : XofCall(status, op, ctx, g, xgot)
  BY DEF psa_xof_set_context
<1>2. xop \in XofOps /\ XofFlags(xop) /\ xop.id /\ xop.active /\ xop.allows_context
      /\ ~xop.has_context /\ ~xop.has_input /\ ~xop.has_output
  BY DEF XofInv, XofState, ContextAllowed
<1>3. /\ xgiven = [context |-> xgiven.context, message |-> xgiven.message]
      /\ xgiven.context = none /\ xgiven.message = none
      /\ xctx = SpongeOf(XofAbsorbed(xgiven)) /\ xgot = <<>>
  BY <1>2 DEF XofInv, XofState, XofGiven
<1>4. IsSeq(new)
  <2>1. DOMAIN new = 1 .. n /\ new = [i \in DOMAIN new |-> new[i]]
    BY DEF Context
  <2> HIDE DEF new
  <2> QED
    BY <2>1, SeqBy
<1>5. IsSeq(none) /\ none \o none = none /\ none \o new = new /\ new \o none = new
  BY <1>4, NoCells, JoinedNone
<1> HIDE DEF none, new
<1>6. xctx = SpongeOf(none)
  BY <1>3, <1>5 DEF XofAbsorbed
<1>7. ctx = SpongeOf(none \o new)
  BY <1>4, <1>5, <1>6, Sha3UpdateAppends
<1>8. g.context = new /\ g.message = none /\ g = [context |-> g.context, message |-> g.message]
  BY <1>3
<1>9. op \in XofOps /\ XofFlags(op) /\ op.has_context /\ ~op.has_input /\ ~op.has_output
  BY <1>2 DEF XofOps, XofFlags
<1> HIDE DEF op, g, ctx
<1>10. ctx = SpongeOf(XofAbsorbed(g))
  BY <1>5, <1>7, <1>8 DEF XofAbsorbed
<1>11. XofGiven(op, g)
  BY <1>4, <1>5, <1>8, <1>9 DEF XofGiven, none
<1>12. XofState(op, ctx, g, xgot)
  BY <1>3, <1>9, <1>10, <1>11 DEF XofState, XofStream
<1> QED
  BY <1>1, <1>12, XofCallKeeps

LEMMA XofUpdateKeeps == ASSUME XofInv, NEW n \in Nat, psa_xof_update(n) PROVE XofInv'
<1> SUFFICES ASSUME InputAllowed, ~XofRefused(InputAllowed) PROVE XofInv'
  BY XofSame DEF psa_xof_update, XofRefused
<1> DEFINE op == [xop EXCEPT !.has_input = TRUE]
           new == [i \in 1 .. n |-> <<"byte", Len(xgiven.message) + i>>]
           m == xgiven.message \o new
           g == [xgiven EXCEPT !.message = @ \o new]
           ctx == mbedtls_sha3_update(xctx, new)
<1>1. PICK status : XofCall(status, op, ctx, g, xgot)
  BY DEF psa_xof_update
<1>2. xop \in XofOps /\ XofFlags(xop) /\ xop.id /\ xop.active /\ ~xop.has_output
      /\ (xop.requires_context => xop.has_context)
  BY DEF XofInv, XofState, InputAllowed, ContextGiven
<1>3. /\ xgiven = [context |-> xgiven.context, message |-> xgiven.message]
      /\ IsSeq(xgiven.context) /\ IsSeq(xgiven.message)
      /\ (~xop.has_context => xgiven.context = <<>>)
      /\ xctx = SpongeOf(XofAbsorbed(xgiven)) /\ xgot = <<>>
  BY <1>2 DEF XofInv, XofState, XofGiven
<1>4. IsSeq(new)
  <2>1. DOMAIN new = 1 .. n /\ new = [i \in DOMAIN new |-> new[i]]
    OBVIOUS
  <2> HIDE DEF new
  <2> QED
    BY <2>1, SeqBy
<1>5. IsSeq(XofAbsorbed(xgiven)) /\ IsSeq(m)
  BY <1>3, <1>4, Joined DEF XofAbsorbed
<1> HIDE DEF new
<1>6. ctx = SpongeOf(XofAbsorbed(xgiven) \o new)
  BY <1>3, <1>4, <1>5, Sha3UpdateAppends
<1>7. XofAbsorbed(xgiven) \o new = xgiven.context \o m
  <2>1. (xgiven.context \o xgiven.message) \o new
          = xgiven.context \o (xgiven.message \o new)
    BY <1>3, <1>4, JoinedLeft
  <2> QED
    BY <2>1 DEF XofAbsorbed
<1> HIDE DEF m
<1>8. g = [xgiven EXCEPT !.message = m]
  BY DEF m
<1> HIDE DEF g
<1>9. g.context = xgiven.context /\ g.message = m /\ g = [context |-> g.context, message |-> g.message]
  BY <1>3, <1>8
<1>10. op \in XofOps /\ XofFlags(op) /\ (op.has_context <=> xop.has_context) /\ op.has_input
       /\ ~op.has_output
  BY <1>2 DEF XofOps, XofFlags
<1> HIDE DEF op, ctx
<1>11. ctx = SpongeOf(XofAbsorbed(g))
  BY <1>6, <1>7, <1>9 DEF XofAbsorbed
<1>12. XofGiven(op, g)
  BY <1>3, <1>5, <1>9, <1>10 DEF XofGiven
<1>13. XofState(op, ctx, g, xgot)
  BY <1>3, <1>10, <1>11, <1>12 DEF XofState, XofStream
<1> QED
  BY <1>1, <1>13, XofCallKeeps

LEMMA XofOutputKeeps == ASSUME XofInv, NEW n \in Nat, psa_xof_output(n) PROVE XofInv'
<1> SUFFICES ASSUME OutputAllowed, ~XofRefused(OutputAllowed) PROVE XofInv'
  BY XofSame DEF psa_xof_output, XofRefused
<1> DEFINE op == [xop EXCEPT !.has_output = TRUE]
           r == mbedtls_sha3_finish(xctx, ShakeSuffix, n)
           ctx == IF n = 0 THEN xctx ELSE r.ctx
           got == xgot \o r.out
<1>1. PICK status : XofCall(status, op, ctx, xgiven, got)
  BY DEF psa_xof_output
<1>2. xop \in XofOps /\ XofFlags(xop) /\ xop.id /\ xop.active
      /\ (xop.requires_context => xop.has_context)
  BY DEF XofInv, XofState, OutputAllowed, ContextGiven
<1>3. XofGiven(xop, xgiven) /\ XofStream(xctx, xgiven, xgot)
  BY DEF XofInv, XofState
<1>4. IsSeq(XofAbsorbed(xgiven))
  BY <1>3, XofAbsorbedIsSeq
<1>5. /\ n > 0 => XofStream(r.ctx, xgiven, xgot \o r.out)
      /\ n = 0 => xgot \o r.out = xgot
  BY <1>3, <1>4, XofGivesMore
<1> HIDE DEF r
<1>6. XofStream(ctx, xgiven, got)
  <2>1. CASE n = 0
    <3>1. ctx = xctx /\ got = xgot
      BY <1>5, <2>1
    <3> HIDE DEF ctx, got
    <3> QED
      BY <1>3, <3>1
  <2>2. CASE n > 0
    <3>1. ctx = r.ctx
      BY <2>2
    <3> HIDE DEF ctx
    <3> QED
      BY <1>5, <2>2, <3>1
  <2> QED
    BY <2>1, <2>2
<1>7. op \in XofOps /\ XofFlags(op) /\ (op.has_context <=> xop.has_context)
      /\ (op.has_input <=> xop.has_input) /\ op.has_output
  BY <1>2 DEF XofOps, XofFlags
<1> HIDE DEF op, ctx, got
<1>8. XofGiven(op, xgiven)
  BY <1>3, <1>7 DEF XofGiven
<1>9. XofState(op, ctx, xgiven, got)
  BY <1>6, <1>7, <1>8 DEF XofState
<1> QED
  BY <1>1, <1>9, XofCallKeeps

\* The pieces that psa_xof_output() gives are consecutive parts of the stream of
\* everything absorbed before the first of them, context first, however the input
\* and the output are cut, and nothing is given without a context that is needed.
THEOREM XofIsOneStream == XofSpec => []XofCorrect
<1>1. XofInit => XofInv
  BY XofStartState DEF XofInit, XofInv
<1>2. XofInv /\ [XofNext]_xofVars => XofInv'
  <2> SUFFICES ASSUME XofInv, [XofNext]_xofVars PROVE XofInv'
    OBVIOUS
  <2>1. ASSUME NEW context \in BOOLEAN, psa_xof_setup(context) PROVE XofInv'
    BY <2>1, XofSetupKeeps
  <2>2. ASSUME NEW n \in 0 .. Lane, psa_xof_set_context(n) PROVE XofInv'
    BY <2>2, XofContextKeeps
  <2>3. ASSUME NEW n \in 0 .. MaxAbsorbed - Len(xgiven.message), psa_xof_update(n) PROVE XofInv'
    BY <2>3, XofUpdateKeeps
  <2>4. ASSUME NEW n \in 0 .. MaxSqueezed - Len(xgot), psa_xof_output(n) PROVE XofInv'
    BY <2>4, XofOutputKeeps
  <2>5. CASE psa_xof_abort
    BY <2>5, XofAbortKeeps
  <2>6. CASE UNCHANGED xofVars
    BY <2>6, XofSame
  <2> QED
    BY <2>1, <2>2, <2>3, <2>4, <2>5, <2>6 DEF XofNext
<1>3. XofInv => XofCorrect
  BY XofInvImplies
<1> QED
  BY <1>1, <1>2, <1>3, PTL DEF XofSpec
=============================================================================

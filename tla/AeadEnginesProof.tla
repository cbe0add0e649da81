--------------------------- MODULE AeadEnginesProof ---------------------------
(***************************************************************************)
(* The streaming code of CCM, GCM and ChaCha20-Poly1305, for any sizes of  *)
(* blocks, counters and messages. The context that is left by any chunks   *)
(* of a message is written in closed form, as a function of how much of    *)
(* the message went in. Each function is shown to lead from the context of *)
(* so much to the context of so much more, and the last one to a tag over  *)
(* what the algorithm authenticates of the whole message.                  *)
(***************************************************************************)
EXTENDS AeadEngines, HashProof

-----------------------------------------------------------------------------
(* A context in closed form: what no loop over blocks changes, and the     *)
(* counter, the keystream, the blocks and the masks.                       *)

Frame(flags, add_len, total, len, processed, range, first) ==
    [flags |-> flags, add_len |-> add_len, total |-> total, len |-> len,
     processed |-> processed, range |-> range, first |-> first]
Ctx(f, ctr, used, blocks, part, masks) ==
    [flags |-> f.flags, add_len |-> f.add_len, total |-> f.total, len |-> f.len,
     processed |-> f.processed, range |-> f.range, first |-> f.first, ctr |-> ctr,
     used |-> used, blocks |-> blocks, part |-> part, masks |-> masks]

AtOffset(o, cells) == [i \in 1 .. Len(cells) |-> <<o + i - 1, cells[i]>>]
MaskRun(k, o, n) == [i \in 1 .. n |-> <<k, o + i - 1>>]

\* A context with one field replaced.
LEMMA ContextBut == \A f, k, u, b, p, m, x :
  /\ [Ctx(f, k, u, b, p, m) EXCEPT !.ctr = x] = Ctx(f, x, u, b, p, m)
  /\ [Ctx(f, k, u, b, p, m) EXCEPT !.used = x] = Ctx(f, k, x, b, p, m)
  /\ [Ctx(f, k, u, b, p, m) EXCEPT !.blocks = x] = Ctx(f, k, u, x, p, m)
  /\ [Ctx(f, k, u, b, p, m) EXCEPT !.part = x] = Ctx(f, k, u, b, x, m)
  /\ [Ctx(f, k, u, b, p, m) EXCEPT !.masks = x] = Ctx(f, k, u, b, p, x)
BY DEF Ctx

\* The fields of a context.
LEMMA ContextHas == \A f, k, u, b, p, m :
  LET c == Ctx(f, k, u, b, p, m)
  IN  /\ c.flags = f.flags /\ c.add_len = f.add_len /\ c.total = f.total /\ c.len = f.len
      /\ c.processed = f.processed /\ c.range = f.range /\ c.first = f.first
      /\ c.ctr = k /\ c.used = u /\ c.blocks = b /\ c.part = p /\ c.masks = m
BY DEF Ctx

\* mbedtls_xor() of cells adds them to the block in hand.
LEMMA MixIs == \A f, k, u, b, p, m, o, cells :
  Mix(Ctx(f, k, u, b, p, m), o, cells) = Ctx(f, k, u, b, p \o AtOffset(o, cells), m)
<1> TAKE f, k, u, b, p, m, o, cells
<1> DEFINE c == Ctx(f, k, u, b, p, m)
<1>1. c.part = p
  BY ContextHas
<1>2. \A x : [c EXCEPT !.part = x] = Ctx(f, k, u, b, x, m)
  BY ContextBut
<1> HIDE DEF c
<1>3. Mix(c, o, cells) = [c EXCEPT !.part = p \o AtOffset(o, cells)]
  BY <1>1 DEF Mix, AtOffset
<1> QED
  BY <1>2, <1>3 DEF c

\* The block in hand becomes the last one absorbed.
LEMMA AbsorbIs == \A f, k, u, b, p, m :
  Absorb(Ctx(f, k, u, b, p, m)) = Ctx(f, k, u, Append(b, p), <<>>, m)
<1> TAKE f, k, u, b, p, m
<1> DEFINE c == Ctx(f, k, u, b, p, m)
           a == Append(b, p)
<1>1. c.part = p /\ c.blocks = b
  BY ContextHas
<1>2. \A x : [c EXCEPT !.blocks = x] = Ctx(f, k, u, x, p, m)
  BY ContextBut
<1> HIDE DEF c
<1>3. Absorb(c) = [[c EXCEPT !.blocks = a] EXCEPT !.part = <<>>]
  BY <1>1 DEF Absorb
<1> HIDE DEF a
<1>4. [c EXCEPT !.blocks = a] = Ctx(f, k, u, a, p, m)
  BY <1>2
<1>5. [Ctx(f, k, u, a, p, m) EXCEPT !.part = <<>>] = Ctx(f, k, u, a, <<>>, m)
  BY ContextBut
<1> QED
  BY <1>3, <1>4, <1>5 DEF c, a

\* Masking n bytes adds a run of the block of the counter.
LEMMA MaskIs == \A f, k, u, b, p, m, o, n :
  Mask(Ctx(f, k, u, b, p, m), o, n) = Ctx(f, k, u, b, p, m \o MaskRun(k, o, n))
<1> TAKE f, k, u, b, p, m, o, n
<1> DEFINE c == Ctx(f, k, u, b, p, m)
<1>1. c.masks = m /\ c.ctr = k
  BY ContextHas
<1>2. \A x : [c EXCEPT !.masks = x] = Ctx(f, k, u, b, p, x)
  BY ContextBut
<1> HIDE DEF c
<1>3. Mask(c, o, n) = [c EXCEPT !.masks = m \o MaskRun(k, o, n)]
  BY <1>1 DEF Mask, MaskRun
<1> QED
  BY <1>2, <1>3 DEF c

\* Only the counter is incremented.
LEMMA IncrementIs == \A f, k, u, b, p, m :
  Increment(Ctx(f, k, u, b, p, m)) = Ctx(f, (k + 1) % f.range, u, b, p, m)
<1> TAKE f, k, u, b, p, m
<1> DEFINE c == Ctx(f, k, u, b, p, m)
<1>1. c.ctr = k /\ c.range = f.range
  BY ContextHas
<1>2. \A x : [c EXCEPT !.ctr = x] = Ctx(f, x, u, b, p, m)
  BY ContextBut
<1> HIDE DEF c
<1>3. Increment(c) = [c EXCEPT !.ctr = (k + 1) % f.range]
  BY <1>1 DEF Increment
<1> QED
  BY <1>2, <1>3 DEF c

\* The fields of a frame.
LEMMA FrameHas == \A fl, al, to, le, pr, ra, fi :
  LET f == Frame(fl, al, to, le, pr, ra, fi)
  IN  /\ f.flags = fl /\ f.add_len = al /\ f.total = to /\ f.len = le /\ f.processed = pr
      /\ f.range = ra /\ f.first = fi
BY DEF Frame

\* A context with a field of its frame replaced.
LEMMA FrameBut == \A fl, al, to, le, pr, ra, fi, k, u, b, p, m, x :
  LET c == Ctx(Frame(fl, al, to, le, pr, ra, fi), k, u, b, p, m)
  IN  /\ [c EXCEPT !.flags = x] = Ctx(Frame(x, al, to, le, pr, ra, fi), k, u, b, p, m)
      /\ [c EXCEPT !.add_len = x] = Ctx(Frame(fl, x, to, le, pr, ra, fi), k, u, b, p, m)
      /\ [c EXCEPT !.total = x] = Ctx(Frame(fl, al, x, le, pr, ra, fi), k, u, b, p, m)
      /\ [c EXCEPT !.len = x] = Ctx(Frame(fl, al, to, x, pr, ra, fi), k, u, b, p, m)
      /\ [c EXCEPT !.processed = x] = Ctx(Frame(fl, al, to, le, x, ra, fi), k, u, b, p, m)
      /\ [c EXCEPT !.range = x] = Ctx(Frame(fl, al, to, le, pr, x, fi), k, u, b, p, m)
      /\ [c EXCEPT !.first = x] = Ctx(Frame(fl, al, to, le, pr, ra, x), k, u, b, p, m)
BY DEF Ctx, Frame

-----------------------------------------------------------------------------
(* A stream of cells in blocks. S[i] is the i-th cell.                     *)

\* A block holds the two bytes of the length of CCM and more.
LEMMA SizeOfBlock == BlockSize \in Nat /\ BlockSize > 2
BY AeadEnginesAssumption

BlockFrom(S, base, r) == [i \in 1 .. r |-> <<i - 1, S[base + i]>>]
FullBlocks(S, q) == [j \in 1 .. q |-> BlockFrom(S, (j - 1) * BlockSize, BlockSize)]
\* The cells are those of the stream after the first p.
Takes(cells, S, p) == IsSeq(cells) /\ \A i \in 1 .. Len(cells) : cells[i] = S[p + i]

\* The first r cells of a block of a stream.
LEMMA BlockIs == \A S, base : \A r \in Nat :
  /\ IsSeq(BlockFrom(S, base, r)) /\ Len(BlockFrom(S, base, r)) = r
  /\ \A i \in 1 .. r : BlockFrom(S, base, r)[i] = <<i - 1, S[base + i]>>
<1> TAKE S, base
<1> TAKE r \in Nat
<1> DEFINE b == BlockFrom(S, base, r)
<1>1. DOMAIN b = 1 .. r /\ b = [i \in DOMAIN b |-> b[i]]
      /\ \A i \in 1 .. r : b[i] = <<i - 1, S[base + i]>>
  BY DEF BlockFrom
<1> HIDE DEF b
<1>2. IsSeq(b) /\ Len(b) = r
  BY <1>1, SeqBy
<1> QED
  BY <1>1, <1>2 DEF b

\* Cells as they are mixed in from an offset on.
LEMMA OffsetIs == \A o : \A cells : IsSeq(cells) =>
  /\ IsSeq(AtOffset(o, cells)) /\ Len(AtOffset(o, cells)) = Len(cells)
  /\ \A i \in 1 .. Len(cells) : AtOffset(o, cells)[i] = <<o + i - 1, cells[i]>>
<1> TAKE o
<1> TAKE cells
<1> HAVE IsSeq(cells)
<1> DEFINE b == AtOffset(o, cells)
           n == Len(cells)
<1>1. DOMAIN b = 1 .. n /\ b = [i \in DOMAIN b |-> b[i]]
      /\ \A i \in 1 .. n : b[i] = <<o + i - 1, cells[i]>>
  BY DEF AtOffset
<1>0. n \in Nat
  BY DEF IsSeq
<1> HIDE DEF b, n
<1>2. IsSeq(b) /\ Len(b) = n
  BY <1>0, <1>1, SeqBy
<1> QED
  BY <1>1, <1>2 DEF b, n

\* The first q full blocks of a stream.
LEMMA FullIs == \A S : \A q \in Nat :
  /\ IsSeq(FullBlocks(S, q)) /\ Len(FullBlocks(S, q)) = q
  /\ \A j \in 1 .. q : FullBlocks(S, q)[j] = BlockFrom(S, (j - 1) * BlockSize, BlockSize)
<1> TAKE S
<1> TAKE q \in Nat
<1> DEFINE b == FullBlocks(S, q)
           at(j) == BlockFrom(S, (j - 1) * BlockSize, BlockSize)
<1>0. b = [j \in 1 .. q |-> at(j)]
  BY DEF FullBlocks
<1> HIDE DEF b, at
<1>1. DOMAIN b = 1 .. q /\ b = [j \in DOMAIN b |-> b[j]] /\ \A j \in 1 .. q : b[j] = at(j)
  BY <1>0
<1>2. IsSeq(b) /\ Len(b) = q
  BY <1>1, SeqBy
<1> QED
  BY <1>1, <1>2 DEF b, at

\* The block in hand grows.
LEMMA BlockGrows == \A cells, S : \A base, r \in Nat : Takes(cells, S, base + r) =>
  BlockFrom(S, base, r) \o AtOffset(r, cells) = BlockFrom(S, base, r + Len(cells))
<1> TAKE cells, S
<1> TAKE base, r \in Nat
<1> HAVE Takes(cells, S, base + r)
<1> DEFINE n == Len(cells)
           b == BlockFrom(S, base, r)
           o == AtOffset(r, cells)
           a == BlockFrom(S, base, r + n)
           z == b \o o
<1>1. IsSeq(cells) /\ n \in Nat /\ r + n \in Nat /\ \A i \in 1 .. n : cells[i] = S[base + r + i]
  BY DEF Takes, IsSeq
<1> HIDE DEF n
<1>2. IsSeq(b) /\ Len(b) = r /\ \A i \in 1 .. r : b[i] = <<i - 1, S[base + i]>>
  BY BlockIs
<1>3. IsSeq(o) /\ Len(o) = n /\ \A i \in 1 .. n : o[i] = <<r + i - 1, cells[i]>>
  BY <1>1, OffsetIs DEF n
<1>4. IsSeq(a) /\ Len(a) = r + n /\ \A i \in 1 .. r + n : a[i] = <<i - 1, S[base + i]>>
  BY <1>1, BlockIs
<1> HIDE DEF b, o, a
<1>8. IsJoin(z, b, o)
  BY <1>2, <1>3, Joins
<1> HIDE DEF z
<1>5. IsSeq(z) /\ Len(z) = r + n /\ (\A i \in 1 .. r : z[i] = b[i])
      /\ \A i \in 1 .. n : z[r + i] = o[i]
  BY <1>2, <1>3, <1>8 DEF IsJoin
<1>6. ASSUME NEW i \in 1 .. r + n PROVE z[i] = a[i]
  <2>1. CASE i <= r
    <3>1. i \in 1 .. r
      BY <2>1
    <3> QED
      BY <1>2, <1>4, <1>5, <3>1
  <2>2. CASE ~(i <= r)
    <3> DEFINE k == i - r
    <3>1. k \in 1 .. n /\ r + k = i /\ base + r + k = base + i
      BY <1>1, <2>2
    <3> HIDE DEF k
    <3>2. z[i] = <<i - 1, S[base + i]>>
      <4>1. z[r + k] = o[k] /\ o[k] = <<r + k - 1, cells[k]>> /\ cells[k] = S[base + r + k]
        BY <1>1, <1>3, <1>5, <3>1
      <4> QED
        BY <3>1, <4>1
    <3> QED
      BY <1>4, <3>2
  <2> QED
    BY <2>1, <2>2
<1>7. z = a
  BY <1>4, <1>5, <1>6, SameSeq
<1> QED
  BY <1>7 DEF z, a, b, o, n

\* One more full block.
LEMMA FullGrows == \A base, S : \A q \in Nat : IsSeq(base) =>
  Append(base \o FullBlocks(S, q), BlockFrom(S, q * BlockSize, BlockSize)) = base \o FullBlocks(S, q + 1)
<1> TAKE base, S
<1> TAKE q \in Nat
<1> HAVE IsSeq(base)
<1> DEFINE b == FullBlocks(S, q)
           last == BlockFrom(S, q * BlockSize, BlockSize)
           a == FullBlocks(S, q + 1)
           l == Append(b, last)
<1>1. IsSeq(b) /\ Len(b) = q /\ \A j \in 1 .. q : b[j] = BlockFrom(S, (j - 1) * BlockSize, BlockSize)
  BY FullIs
<1>2. /\ IsSeq(a) /\ Len(a) = q + 1
      /\ \A j \in 1 .. q + 1 : a[j] = BlockFrom(S, (j - 1) * BlockSize, BlockSize)
  BY FullIs
<1>3. last = BlockFrom(S, ((q + 1) - 1) * BlockSize, BlockSize)
  <2>1. (q + 1) - 1 = q
    OBVIOUS
  <2> QED
    BY <2>1
<1>4. a[q + 1] = last
  BY <1>2, <1>3
<1> HIDE DEF a, b, last
<1>5. /\ IsSeq(l) /\ Len(l) = q + 1 /\ \A j \in 1 .. q : l[j] = b[j]
      /\ l[q + 1] = last
  BY <1>1, AppendedCell
<1> HIDE DEF l
<1>6. ASSUME NEW j \in 1 .. q + 1 PROVE l[j] = a[j]
  <2>1. CASE j = q + 1
    BY <1>4, <1>5, <2>1
  <2>2. CASE j # q + 1
    <3>1. j \in 1 .. q
      BY <2>2
    <3> QED
      BY <1>1, <1>2, <1>5, <3>1
  <2> QED
    BY <2>1, <2>2
<1>7. l = a
  BY <1>2, <1>5, <1>6, SameSeq
<1>8. l = b \o <<last>>
  BY <1>1, JoinedCell DEF l
<1>9. base \o (b \o <<last>>) = (base \o b) \o <<last>>
  BY <1>1, OneCell, JoinedLeft
<1>10. IsSeq(base \o b)
  BY <1>1, Joined
<1>11. (base \o b) \o <<last>> = Append(base \o b, last)
  BY <1>10, JoinedCell
<1> QED
  BY <1>7, <1>8, <1>9, <1>11 DEF a, b, last

-----------------------------------------------------------------------------
(* The blocks that were absorbed since base are q of the stream S, and the *)
(* block in hand has r cells of it.                                        *)

FedAs(f, k, u, base, S, q, r, m) ==
    Ctx(f, k, u, base \o FullBlocks(S, q), BlockFrom(S, q * BlockSize, r), m)

\* Cells that follow what is in hand go on with the stream.
LEMMA FeedsPart == \A f, k, u, base, S, m, cells : \A q, r \in Nat :
  Takes(cells, S, q * BlockSize + r) =>
    Mix(FedAs(f, k, u, base, S, q, r, m), r, cells) = FedAs(f, k, u, base, S, q, r + Len(cells), m)
<1> TAKE f, k, u, base, S, m, cells
<1> TAKE q, r \in Nat
<1> DEFINE from == q * BlockSize
<1> HAVE Takes(cells, S, q * BlockSize + r)
<1>1. from \in Nat
  BY SizeOfBlock
<1>2. Takes(cells, S, from + r)
  OBVIOUS
<1> HIDE DEF from
<1>3. BlockFrom(S, from, r) \o AtOffset(r, cells) = BlockFrom(S, from, r + Len(cells))
  BY <1>1, <1>2, BlockGrows
<1> DEFINE part == BlockFrom(S, from, r)
           longer == BlockFrom(S, from, r + Len(cells))
           blocks == base \o FullBlocks(S, q)
<1>4. FedAs(f, k, u, base, S, q, r, m) = Ctx(f, k, u, blocks, part, m)
      /\ FedAs(f, k, u, base, S, q, r + Len(cells), m) = Ctx(f, k, u, blocks, longer, m)
  BY DEF FedAs, from
<1> HIDE DEF part, longer, blocks
<1>5. Mix(Ctx(f, k, u, blocks, part, m), r, cells)
        = Ctx(f, k, u, blocks, part \o AtOffset(r, cells), m)
  BY MixIs
<1> QED
  BY <1>3, <1>4, <1>5 DEF part, longer

\* A block that is full goes into the authentication function.
LEMMA FeedsBlock == \A f, k, u, base, S, m : \A q \in Nat : IsSeq(base) =>
  Absorb(FedAs(f, k, u, base, S, q, BlockSize, m)) = FedAs(f, k, u, base, S, q + 1, 0, m)
<1> TAKE f, k, u, base, S, m
<1> TAKE q \in Nat
<1> HAVE IsSeq(base)
<1> DEFINE at == (q + 1) * BlockSize
<1>1. BlockFrom(S, at, 0) = <<>>
  BY BlockIs, NoCells
<1> HIDE DEF at
<1>2. Append(base \o FullBlocks(S, q), BlockFrom(S, q * BlockSize, BlockSize)) = base \o FullBlocks(S, q + 1)
  BY FullGrows
<1> DEFINE part == BlockFrom(S, q * BlockSize, BlockSize)
           blocks == base \o FullBlocks(S, q)
           more == base \o FullBlocks(S, q + 1)
<1>3. FedAs(f, k, u, base, S, q, BlockSize, m) = Ctx(f, k, u, blocks, part, m)
      /\ FedAs(f, k, u, base, S, q + 1, 0, m) = Ctx(f, k, u, more, <<>>, m)
  BY <1>1 DEF FedAs, at
<1> HIDE DEF part, blocks, more
<1>4. Absorb(Ctx(f, k, u, blocks, part, m)) = Ctx(f, k, u, Append(blocks, part), <<>>, m)
  BY AbsorbIs
<1> QED
  BY <1>2, <1>3, <1>4 DEF part, blocks, more
-----------------------------------------------------------------------------
(* Whole blocks, and any number of cells.                                  *)

\* Blocks of the stream after its first q blocks.
TakesBlock(cells, S, q) == Takes(cells, S, q * BlockSize) /\ Len(cells) = BlockSize
TakesBlocks(blocks, S, q) ==
    IsSeq(blocks) /\ \A j \in 1 .. Len(blocks) : TakesBlock(blocks[j], S, q + j - 1)

\* A whole block, mixed in and absorbed.
LEMMA BlockFed == \A f, k, u, base, S, m, cells : \A q \in Nat :
  IsSeq(base) /\ TakesBlock(cells, S, q) =>
    Absorb(Mix(FedAs(f, k, u, base, S, q, 0, m), 0, cells)) = FedAs(f, k, u, base, S, q + 1, 0, m)
<1> TAKE f, k, u, base, S, m, cells
<1> TAKE q \in Nat
<1> HAVE IsSeq(base) /\ TakesBlock(cells, S, q)
<1> DEFINE zero == 0
<1>1. zero \in Nat /\ q * BlockSize + zero = q * BlockSize /\ zero + Len(cells) = BlockSize
  <2>1. q * BlockSize \in Nat
    BY SizeOfBlock
  <2> QED
    BY <2>1, SizeOfBlock DEF TakesBlock
<1> HIDE DEF zero
<1>2. Takes(cells, S, q * BlockSize + zero)
  BY <1>1 DEF TakesBlock
<1>3. Mix(FedAs(f, k, u, base, S, q, zero, m), zero, cells) = FedAs(f, k, u, base, S, q, zero + Len(cells), m)
  BY <1>1, <1>2, FeedsPart
<1>4. Absorb(FedAs(f, k, u, base, S, q, BlockSize, m)) = FedAs(f, k, u, base, S, q + 1, 0, m)
  BY FeedsBlock
<1> QED
  BY <1>1, <1>3, <1>4 DEF zero

\* The loop over whole blocks goes on with the stream.
LEMMA BlocksFed == \A f, k, u, base, S, m, blocks : \A q \in Nat :
  IsSeq(base) /\ TakesBlocks(blocks, S, q) =>
    AbsorbBlocks(FedAs(f, k, u, base, S, q, 0, m), blocks)
      = FedAs(f, k, u, base, S, q + Len(blocks), 0, m)
<1> TAKE f, k, u, base, S, m, blocks
<1> TAKE q \in Nat
<1> HAVE IsSeq(base) /\ TakesBlocks(blocks, S, q)
<1> DEFINE n == Len(blocks)
           at(j) == FedAs(f, k, u, base, S, q + j, 0, m)
           next(c, j) == Absorb(Mix(c, 0, blocks[j]))
           first == FedAs(f, k, u, base, S, q, 0, m)
           body(h) == [j \in 0 .. n |-> IF j = 0 THEN first ELSE next(h[j - 1], j)]
           g == [j \in 0 .. n |-> at(j)]
<1>1. n \in Nat
  BY DEF TakesBlocks, IsSeq
<1>2. ASSUME NEW j \in 1 .. n PROVE next(at(j - 1), j) = at(j)
  <2> DEFINE i == q + j - 1
             cells == blocks[j]
  <2>1. i \in Nat /\ q + (j - 1) = i /\ q + j = i + 1
    BY <1>1
  <2>2. TakesBlock(cells, S, i)
    BY DEF TakesBlocks
  <2> HIDE DEF i, cells
  <2>3. Absorb(Mix(FedAs(f, k, u, base, S, i, 0, m), 0, cells)) = FedAs(f, k, u, base, S, i + 1, 0, m)
    BY <2>1, <2>2, BlockFed
  <2> USE DEF cells
  <2> QED
    BY <2>1, <2>3
<1>3. at(0) = first
  <2>1. q + 0 = q
    OBVIOUS
  <2> QED
    BY <2>1
<1> HIDE DEF at, next
<1>4. g[0] = first /\ \A j \in 1 .. n : g[j] = next(g[j - 1], j)
  <2>1. 0 \in 0 .. n /\ \A j \in 1 .. n : j \in 0 .. n /\ j - 1 \in 0 .. n
    BY <1>1
  <2> QED
    BY <1>2, <1>3, <2>1
<1>5. g = body(g)
  <2>1. ASSUME NEW j \in 0 .. n PROVE g[j] = IF j = 0 THEN first ELSE next(g[j - 1], j)
    <3>1. j = 0 \/ j \in 1 .. n
      BY <1>1
    <3> QED
      BY <1>4, <3>1
  <2>2. g = [j \in 0 .. n |-> g[j]]
    OBVIOUS
  <2> HIDE DEF g
  <2> QED
    BY <2>1, <2>2
<1> DEFINE l == CHOOSE h : h = body(h)
<1>6. l = body(l)
  BY <1>5
<1>7. AbsorbBlocks(first, blocks) = l[n]
  BY DEF AbsorbBlocks, next
<1> HIDE DEF l, first
<1>8. l[0] = first /\ \A j \in 1 .. n : l[j] = next(l[j - 1], j)
  <2>1. \A j \in 0 .. n : l[j] = IF j = 0 THEN first ELSE next(l[j - 1], j)
    BY <1>6
  <2>2. 0 \in 0 .. n /\ \A j \in 1 .. n : j \in 0 .. n /\ j # 0
    BY <1>1
  <2> HIDE DEF body
  <2> QED
    BY <2>1, <2>2
<1> HIDE DEF body, g
<1>9. l[n] = g[n]
  <2>1. \A j \in 1 .. n : l[j - 1] = g[j - 1] => l[j] = g[j]
    BY <1>4, <1>8
  <2>2. l[0] = g[0] /\ n \in 0 .. n
    BY <1>1, <1>4, <1>8
  <2> HIDE DEF n
  <2> QED
    BY <1>1, <2>1, <2>2, SameLoop
<1>10. g[n] = at(n)
  <2>1. n \in 0 .. n
    BY <1>1
  <2> QED
    BY <2>1 DEF g
<1> QED
  BY <1>7, <1>9, <1>10 DEF first, at

\* A part of cells of a stream is cells of the stream.
LEMMA CutTakes == \A c, cells, S, p, x, y :
  IsCut(c, cells, x, y) /\ Takes(cells, S, p) /\ x \in Nat /\ y \in Nat /\ p \in Nat
      /\ y <= Len(cells)
    => Takes(c, S, p + x)
<1> TAKE c, cells, S, p, x, y
<1> HAVE IsCut(c, cells, x, y) /\ Takes(cells, S, p) /\ x \in Nat /\ y \in Nat /\ p \in Nat
           /\ y <= Len(cells)
<1>1. IsSeq(c) /\ Len(c) = y - x /\ \A i \in 1 .. y - x : c[i] = cells[x + i]
  BY DEF IsCut
<1>2. Len(cells) \in Nat /\ \A i \in 1 .. Len(cells) : cells[i] = S[p + i]
  BY DEF Takes, IsSeq
<1> DEFINE n == Len(cells)
<1> HIDE DEF n
<1>3. ASSUME NEW i \in 1 .. y - x PROVE c[i] = S[p + x + i]
  <2>1. x + i \in 1 .. Len(cells) /\ p + (x + i) = p + x + i
    BY <1>2
  <2> QED
    BY <1>1, <1>2, <2>1
<1> QED
  BY <1>1, <1>3 DEF Takes

\* The whole blocks of cells that start at a block.
LEMMA WholeTakes == \A cells, S : \A q \in Nat : Takes(cells, S, q * BlockSize) =>
  /\ TakesBlocks(Whole(cells, BlockSize), S, q)
  /\ Len(Whole(cells, BlockSize)) = Len(cells) \div BlockSize
<1> TAKE cells, S
<1> TAKE q \in Nat
<1> HAVE Takes(cells, S, q * BlockSize)
<1> DEFINE B == BlockSize
           n == Len(cells)
           w == n \div B
           all == PiecesOf(B, cells, w)
<1>0. B \in Nat /\ B > 0 /\ n \in Nat /\ w \in Nat
  <2>1. B \in Nat /\ B > 0 /\ n \in Nat
    BY SizeOfBlock DEF Takes, IsSeq
  <2> QED
    BY <2>1, Division
<1>1. Whole(cells, BlockSize) = all
  BY DEF Whole, PiecesOf
<1>2. IsSeq(all) /\ Len(all) = w /\ \A j \in 1 .. w : all[j] = PieceOf(B, cells, j)
  BY <1>0, PiecesAre
<1>3. w * B <= n
  BY <1>0, Division
<1> HIDE DEF all, w, n
<1>4. ASSUME NEW j \in 1 .. w PROVE TakesBlock(all[j], S, q + j - 1)
  <2> DEFINE c == PieceOf(B, cells, j)
             x == (j - 1) * B
             y == x + B
             p == q * B
             e == q + j - 1
  <2>1. j \in Nat \ {0} /\ x \in Nat /\ y <= w * B
    BY <1>0, PieceInside
  <2>2. IsCut(c, cells, x, y)
    BY <1>0, <2>1, PieceIs
  <2>3. e * B = p + x /\ p \in Nat /\ e \in Nat
    BY <1>0
  <2> HIDE DEF c, x
  <2>4. y \in Nat /\ y <= n
    <3> HIDE DEF y
    <3>1. y \in Nat
      BY <1>0, <2>1 DEF y
    <3>2. w * B \in Nat
      BY <1>0
    <3> QED
      BY <1>0, <1>3, <2>1, <3>1, <3>2
  <2> HIDE DEF y, p, e, B
  <2>5. Takes(cells, S, p)
    BY DEF p, B
  <2>6. Takes(c, S, p + x)
    BY <2>1, <2>2, <2>3, <2>4, <2>5, CutTakes DEF n
  <2>7. Len(c) = B
    BY <1>0, <2>1, <2>2 DEF IsCut, y
  <2>8. TakesBlock(c, S, e)
    BY <2>3, <2>6, <2>7 DEF TakesBlock, B
  <2> QED
    BY <1>2, <2>8 DEF c, e
<1>5. TakesBlocks(all, S, q)
  BY <1>2, <1>4 DEF TakesBlocks
<1> QED
  BY <1>1, <1>2, <1>5 DEF w, n

\* What is left after them.
LEMMA RestTakes == \A cells, S : \A q \in Nat : Takes(cells, S, q * BlockSize) =>
  /\ Takes(Rest(cells, BlockSize), S, (q + Len(cells) \div BlockSize) * BlockSize)
  /\ Len(Rest(cells, BlockSize)) = Len(cells) % BlockSize
<1> TAKE cells, S
<1> TAKE q \in Nat
<1> HAVE Takes(cells, S, q * BlockSize)
<1> DEFINE B == BlockSize
           n == Len(cells)
           w == n \div B
           s == n % B
           c == Rest(cells, BlockSize)
           x == w * B
           p == q * B
<1>0. B \in Nat /\ B > 0 /\ n \in Nat
  BY SizeOfBlock DEF Takes, IsSeq
<1>1. w \in Nat /\ s \in Nat /\ n = w * B + s
  BY <1>0, Division
<1>2. x \in Nat /\ p \in Nat /\ (q + w) * B = p + x /\ x <= n
  <2> HIDE DEF w, s, n
  <2> QED
    BY <1>0, <1>1
<1>3. c = SubSeq(cells, x + 1, n)
  BY DEF Rest, After
<1> HIDE DEF w, s, x, p, c, n, B
<1>4. IsCut(c, cells, x, n)
  BY <1>0, <1>2, <1>3, Cuts
<1>5. Takes(cells, S, p)
  BY DEF p, B
<1>8. n <= Len(cells)
  BY <1>0 DEF n
<1>6. Takes(c, S, p + x)
  BY <1>0, <1>2, <1>4, <1>5, <1>8, CutTakes
<1>7. Len(c) = s
  BY <1>0, <1>1, <1>2, <1>4 DEF IsCut, x
<1> QED
  BY <1>2, <1>6, <1>7 DEF w, s, n, c, B

\* Whole blocks and the rest, from the start of a block on.
LEMMA TailFed == \A f, k, u, base, S, m, cells : \A q \in Nat :
  IsSeq(base) /\ Takes(cells, S, q * BlockSize) =>
    Mix(AbsorbBlocks(FedAs(f, k, u, base, S, q, 0, m), Whole(cells, BlockSize)), 0, Rest(cells, BlockSize))
      = FedAs(f, k, u, base, S, q + Len(cells) \div BlockSize, Len(cells) % BlockSize, m)
<1> TAKE f, k, u, base, S, m, cells
<1> TAKE q \in Nat
<1> HAVE IsSeq(base) /\ Takes(cells, S, q * BlockSize)
<1> DEFINE w == Len(cells) \div BlockSize
           s == Len(cells) % BlockSize
           blocks == Whole(cells, BlockSize)
           rest == Rest(cells, BlockSize)
           e == q + w
           zero == 0
<1>1. TakesBlocks(blocks, S, q) /\ Len(blocks) = w
  BY WholeTakes
<1>2. Takes(rest, S, e * BlockSize) /\ Len(rest) = s
  BY RestTakes
<1>3. w \in Nat /\ s \in Nat /\ e \in Nat
  <2>1. Len(cells) \in Nat
    BY DEF Takes, IsSeq
  <2> QED
    BY <2>1, SizeOfBlock, Division
<1> HIDE DEF w, s, blocks, rest
<1>4. AbsorbBlocks(FedAs(f, k, u, base, S, q, 0, m), blocks) = FedAs(f, k, u, base, S, e, 0, m)
  <2>1. AbsorbBlocks(FedAs(f, k, u, base, S, q, 0, m), blocks)
          = FedAs(f, k, u, base, S, q + Len(blocks), 0, m)
    BY <1>1, BlocksFed
  <2> QED
    BY <1>1, <2>1
<1> HIDE DEF e
<1>5. e * BlockSize + zero = e * BlockSize /\ zero \in Nat /\ zero + Len(rest) = s
  BY <1>2, <1>3, SizeOfBlock
<1> HIDE DEF zero
<1>6. Takes(rest, S, e * BlockSize + zero)
  BY <1>2, <1>5
<1>7. Mix(FedAs(f, k, u, base, S, e, zero, m), zero, rest)
        = FedAs(f, k, u, base, S, e, zero + Len(rest), m)
  BY <1>3, <1>5, <1>6, FeedsPart
<1> QED
  BY <1>4, <1>5, <1>7 DEF zero, w, s, blocks, rest, e

\* A number of cells in two parts, by the places where the second ends.
LEMMA SamePlace == \A a, b, q, r : a \in Nat /\ b \in Nat /\ q \in Nat /\ r \in Nat
  /\ b < BlockSize /\ r < BlockSize /\ a * BlockSize + b = q * BlockSize + r => a = q /\ b = r
<1> TAKE a, b, q, r
<1> HAVE a \in Nat /\ b \in Nat /\ q \in Nat /\ r \in Nat
  /\ b < BlockSize /\ r < BlockSize /\ a * BlockSize + b = q * BlockSize + r
<1> DEFINE n == a * BlockSize + b
<1>1. n \in Nat
  BY SizeOfBlock
<1>2. n = q * BlockSize + r
  OBVIOUS
<1>3. n \div BlockSize = a /\ n % BlockSize = b
  <2>1. n = a * BlockSize + b
    OBVIOUS
  <2> HIDE DEF n
  <2> QED
    BY <1>1, <2>1, SizeOfBlock, Divided
<1> HIDE DEF n
<1>4. n \div BlockSize = q /\ n % BlockSize = r
  BY <1>1, <1>2, SizeOfBlock, Divided
<1> QED
  BY <1>3, <1>4

\* Where cells that are added to r cells of a block end.
Place(q, r, n, a, b) ==
    /\ q \in Nat /\ r \in Nat /\ r < BlockSize /\ n \in Nat
    /\ a \in Nat /\ b \in Nat /\ b < BlockSize
    /\ a * BlockSize + b = q * BlockSize + r + n

\* Where the stream is while the block in hand is not full.
LEMMA PlaceInHand == \A q, r, n, a, b : Place(q, r, n, a, b) /\ r + n < BlockSize => a = q /\ b = r + n
<1> TAKE q, r, n, a, b
<1> HAVE Place(q, r, n, a, b) /\ r + n < BlockSize
<1>1. q \in Nat /\ r \in Nat /\ n \in Nat /\ a \in Nat /\ b \in Nat /\ b < BlockSize
      /\ a * BlockSize + b = q * BlockSize + r + n
  BY DEF Place
<1> DEFINE e == r + n
<1>2. e \in Nat /\ q * BlockSize + e = q * BlockSize + r + n /\ e < BlockSize
  BY <1>1, SizeOfBlock
<1> HIDE DEF e
<1>3. a * BlockSize + b = q * BlockSize + e
  BY <1>1, <1>2
<1>4. a = q /\ b = e
  BY <1>1, <1>2, <1>3, SamePlace
<1> QED
  BY <1>4 DEF e

\* Where it is when the head has completed a block.
LEMMA PlaceAfter == \A q, r, n, a, b, head, e : Place(q, r, n, a, b) /\ head \in Nat /\ head <= n
    /\ e \in Nat /\ q * BlockSize + r + head = e * BlockSize =>
  a = e + (n - head) \div BlockSize /\ b = (n - head) % BlockSize
<1> TAKE q, r, n, a, b, head, e
<1> HAVE Place(q, r, n, a, b) /\ head \in Nat /\ head <= n
    /\ e \in Nat /\ q * BlockSize + r + head = e * BlockSize
<1>1. q \in Nat /\ r \in Nat /\ n \in Nat /\ a \in Nat /\ b \in Nat /\ b < BlockSize
      /\ a * BlockSize + b = q * BlockSize + r + n
  BY DEF Place
<1> DEFINE m == n - head
           w == m \div BlockSize
           s == m % BlockSize
           f == e + w
<1>2. m \in Nat
  BY <1>1
<1>3. w \in Nat /\ s \in Nat /\ s < BlockSize /\ m = w * BlockSize + s
  <2> HIDE DEF m
  <2> QED
    BY <1>2, SizeOfBlock, Division
<1>4. e * BlockSize + m = q * BlockSize + r + n
  BY <1>1, SizeOfBlock
<1> HIDE DEF w, s, m
<1>5. f * BlockSize + s = e * BlockSize + m /\ f \in Nat
  BY <1>3, SizeOfBlock
<1> HIDE DEF f
<1>6. a * BlockSize + b = f * BlockSize + s
  BY <1>1, <1>4, <1>5
<1>7. a = f /\ b = s
  BY <1>1, <1>3, <1>5, <1>6, SamePlace
<1> QED
  BY <1>7 DEF f, w, s, m

\* The cells that complete the block in hand, and those after them.
HeadSize(r, n) == IF r = 0 THEN 0 ELSE Least(BlockSize - r, n)

\* The head completes the block in hand or is all there is.
LEMMA HeadIs == \A r, n : r \in Nat /\ r < BlockSize /\ n \in Nat =>
  /\ HeadSize(r, n) \in Nat /\ HeadSize(r, n) <= n /\ r + HeadSize(r, n) <= BlockSize
  /\ r + HeadSize(r, n) < BlockSize => HeadSize(r, n) = n \/ r = 0
  /\ r = 0 => HeadSize(r, n) = 0
BY SizeOfBlock DEF HeadSize, Least
TakesHead(cells, S, p, h, n) ==
    /\ Takes(SubSeq(cells, 1, h), S, p) /\ Len(SubSeq(cells, 1, h)) = h
    /\ Takes(After(cells, h), S, p + h) /\ Len(After(cells, h)) = n - h

\* The head and what follows it are cells of the stream.
LEMMA HeadTakes == \A cells, S, p, h, l :
  Takes(cells, S, p) /\ p \in Nat /\ h \in Nat /\ l = Len(cells) /\ h <= l => TakesHead(cells, S, p, h, l)
<1> TAKE cells, S, p, h, l
<1> HAVE Takes(cells, S, p) /\ p \in Nat /\ h \in Nat /\ l = Len(cells) /\ h <= l
<1> DEFINE c == SubSeq(cells, 1, h)
           d == SubSeq(cells, h + 1, Len(cells))
           n == Len(cells)
           zero == 0
<1>1. IsCut(c, cells, zero, h)
  BY Firsts
<1>2. n \in Nat /\ n <= Len(cells) /\ h <= n
  BY DEF Takes, IsSeq
<1>3. IsCut(d, cells, h, n)
  BY <1>2, Cuts
<1>4. After(cells, h) = d
  BY DEF After
<1>5. zero \in Nat /\ p + zero = p /\ h - zero = h
  OBVIOUS
<1> HIDE DEF c, d, n, zero
<1>6. Takes(c, S, p + zero)
  BY <1>1, <1>2, <1>5, CutTakes
<1>7. Takes(d, S, p + h)
  BY <1>2, <1>3, CutTakes
<1>8. Len(c) = h /\ Len(d) = n - h
  BY <1>1, <1>3, <1>5 DEF IsCut
<1> QED
  BY <1>4, <1>5, <1>6, <1>7, <1>8 DEF TakesHead, c, n

\* Nothing follows all of the cells.
LEMMA AfterNone == \A cells : IsSeq(cells) => After(cells, Len(cells)) = <<>>
<1> TAKE cells
<1> HAVE IsSeq(cells)
<1> DEFINE n == Len(cells)
           d == SubSeq(cells, n + 1, n)
<1>1. n \in Nat
  BY DEF IsSeq
<1>2. After(cells, n) = d
  BY DEF After
<1> HIDE DEF n
<1>3. IsCut(d, cells, n, n)
  BY <1>1, Cuts
<1>4. IsSeq(d) /\ Len(d) = 0
  BY <1>1, <1>3 DEF IsCut
<1> QED
  BY <1>2, <1>4, NoCells DEF n

\* Nothing has no blocks.
LEMMA NoTail ==
  /\ Whole(<<>>, BlockSize) = <<>> /\ Rest(<<>>, BlockSize) = <<>>
<1> DEFINE zero == 0
           none == <<>>
           S == [i \in {} |-> 0]
<1>1. IsSeq(none) /\ Len(none) = zero
  BY NoCells
<1>2. zero \in Nat /\ zero * BlockSize \in Nat /\ zero \div BlockSize = 0 /\ zero % BlockSize = 0
  BY SizeOfBlock
<1>0. \A i \in 1 .. zero : FALSE
  OBVIOUS
<1> HIDE DEF none, S, zero
<1>3. Takes(none, S, zero * BlockSize)
  BY <1>0, <1>1 DEF Takes
<1>4. TakesBlocks(Whole(none, BlockSize), S, zero) /\ Len(Whole(none, BlockSize)) = Len(none) \div BlockSize
  BY <1>2, <1>3, WholeTakes
<1>5. Takes(Rest(none, BlockSize), S, (zero + Len(none) \div BlockSize) * BlockSize)
      /\ Len(Rest(none, BlockSize)) = Len(none) % BlockSize
  BY <1>2, <1>3, RestTakes
<1>6. IsSeq(Whole(none, BlockSize)) /\ Len(Whole(none, BlockSize)) = 0
      /\ IsSeq(Rest(none, BlockSize)) /\ Len(Rest(none, BlockSize)) = 0
  BY <1>1, <1>2, <1>4, <1>5 DEF TakesBlocks, Takes
<1> QED
  BY <1>6, NoCells DEF none

\* No cells go on with any stream.
LEMMA NoneTakes == \A S, p : Takes(<<>>, S, p)
<1> TAKE S, p
<1>1. IsSeq(<<>>) /\ Len(<<>>) = 0
  BY NoCells
<1> QED
  BY <1>1 DEF Takes

\* A block in hand of which nothing is completed stays as it is.
LEMMA FedNothing == \A f, k, u, base, S, m : \A q, r \in Nat :
  /\ Mix(FedAs(f, k, u, base, S, q, r, m), r, <<>>) = FedAs(f, k, u, base, S, q, r, m)
  /\ Mix(FedAs(f, k, u, base, S, q, r, m), 0, <<>>) = FedAs(f, k, u, base, S, q, r, m)
<1> TAKE f, k, u, base, S, m
<1> TAKE q, r \in Nat
<1> DEFINE p == BlockFrom(S, q * BlockSize, r)
           b == base \o FullBlocks(S, q)
<1>1. IsSeq(p)
  BY BlockIs
<1> HIDE DEF p, b
<1>2. p \o <<>> = p
  BY <1>1, JoinedNone
<1>3. \A o : AtOffset(o, <<>>) = <<>>
  BY OffsetIs, NoCells
<1>4. FedAs(f, k, u, base, S, q, r, m) = Ctx(f, k, u, b, p, m)
  BY DEF FedAs, p, b
<1>5. \A o : Mix(Ctx(f, k, u, b, p, m), o, <<>>) = Ctx(f, k, u, b, p, m)
  <2> TAKE o
  <2> DEFINE none == <<>>
             c == AtOffset(o, none)
  <2>1. c = <<>>
    BY <1>3
  <2> HIDE DEF none, c
  <2>2. Mix(Ctx(f, k, u, b, p, m), o, none) = Ctx(f, k, u, b, p \o c, m)
    BY MixIs DEF c
  <2> QED
    BY <1>2, <2>1, <2>2 DEF none
<1> QED
  BY <1>4, <1>5

\* No blocks change nothing.
LEMMA NoBlocks == \A c : AbsorbBlocks(c, <<>>) = c
<1> TAKE c
<1> DEFINE body(h) == [j \in 0 .. 0 |-> IF j = 0 THEN c ELSE Absorb(Mix(h[j - 1], 0, <<>>[j]))]
           g == [j \in 0 .. 0 |-> c]
           l == CHOOSE h : h = body(h)
<1>1. g = body(g)
  OBVIOUS
<1>2. l = body(l)
  BY <1>1
<1>3. Len(<<>>) = 0
  BY NoCells
<1>4. AbsorbBlocks(c, <<>>) = l[0]
  BY <1>3 DEF AbsorbBlocks
<1> HIDE DEF l
<1>5. l[0] = c
  BY <1>2
<1> QED
  BY <1>4, <1>5

\* poly1305_update() and gcm_update_ad() go on with the stream for any
\* number of cells, wherever in a block they start.
LEMMA CellsFed == \A f, k, u, base, S, m, cells, q, r, a, b :
  IsSeq(base) /\ Place(q, r, Len(cells), a, b) /\ Takes(cells, S, q * BlockSize + r) =>
    AbsorbCells(FedAs(f, k, u, base, S, q, r, m), r, cells) = FedAs(f, k, u, base, S, a, b, m)
<1> TAKE f, k, u, base, S, m, cells, q, r, a, b
<1> HAVE IsSeq(base) /\ Place(q, r, Len(cells), a, b) /\ Takes(cells, S, q * BlockSize + r)
<1> DEFINE n == Len(cells)
           head == HeadSize(r, n)
           p == q * BlockSize + r
           in == SubSeq(cells, 1, head)
           tail == After(cells, head)
           c == FedAs(f, k, u, base, S, q, r, m)
           topped == Mix(c, r, in)
           filled == IF r + head = BlockSize THEN Absorb(topped) ELSE topped
<1>1. q \in Nat /\ r \in Nat /\ r < BlockSize /\ n \in Nat /\ p \in Nat
  BY SizeOfBlock DEF Place
<1>2. AbsorbCells(c, r, cells) = Mix(AbsorbBlocks(filled, Whole(tail, BlockSize)), 0, Rest(tail, BlockSize))
  BY DEF AbsorbCells, HeadSize
<1>3. /\ head \in Nat /\ head <= n /\ r + head <= BlockSize
      /\ r + head < BlockSize => head = n \/ r = 0
      /\ r = 0 => head = 0
  <2> HIDE DEF n
  <2> QED
    BY <1>1, HeadIs
<1> HIDE DEF head
<1>4. /\ Takes(in, S, p) /\ Len(in) = head
      /\ Takes(tail, S, p + head) /\ Len(tail) = n - head
  <2>1. Takes(cells, S, p)
    OBVIOUS
  <2>3. n = Len(cells)
    OBVIOUS
  <2> HIDE DEF p, n
  <2>2. TakesHead(cells, S, p, head, n)
    BY <1>1, <1>3, <2>1, <2>3, HeadTakes
  <2> QED
    BY <2>2 DEF TakesHead
<1> HIDE DEF in
<1>5. topped = FedAs(f, k, u, base, S, q, r + head, m)
  <2>1. topped = FedAs(f, k, u, base, S, q, r + Len(in), m)
    BY <1>1, <1>4, FeedsPart
  <2> QED
    BY <1>4, <2>1
<1> HIDE DEF topped, c
<1>6. CASE r + head < BlockSize /\ head = n
  <2>1. filled = FedAs(f, k, u, base, S, q, r + n, m)
    BY <1>1, <1>5, <1>6
  <2>2. tail = <<>>
    <3>1. IsSeq(cells)
      BY DEF Takes
    <3> QED
      BY <1>6, <3>1, AfterNone
  <2>3. r + n \in Nat /\ a = q /\ b = r + n
    BY <1>1, <1>6, PlaceInHand
  <2> DEFINE e == r + n
  <2>4. e \in Nat
    BY <2>3
  <2> HIDE DEF e, filled
  <2>5. Mix(FedAs(f, k, u, base, S, q, e, m), 0, <<>>) = FedAs(f, k, u, base, S, q, e, m)
    BY <1>1, <2>4, FedNothing
  <2>6. AbsorbBlocks(filled, Whole(tail, BlockSize)) = filled /\ Rest(tail, BlockSize) = <<>>
    BY <2>2, NoTail, NoBlocks
  <2> QED
    BY <1>2, <2>1, <2>3, <2>5, <2>6 DEF c, e
<1>7. ASSUME NEW e \in Nat, filled = FedAs(f, k, u, base, S, e, 0, m), p + head = e * BlockSize
      PROVE  AbsorbCells(c, r, cells) = FedAs(f, k, u, base, S, a, b, m)
  <2> DEFINE l == Len(tail)
  <2>1. Takes(tail, S, e * BlockSize)
    BY <1>4, <1>7
  <2>2. Mix(AbsorbBlocks(filled, Whole(tail, BlockSize)), 0, Rest(tail, BlockSize))
          = FedAs(f, k, u, base, S, e + Len(tail) \div BlockSize, Len(tail) % BlockSize, m)
    BY <1>7, <2>1, TailFed
  <2>3. Place(q, r, n, a, b) /\ q * BlockSize + r + head = e * BlockSize
    BY <1>7
  <2> HIDE DEF n, tail
  <2>4. a = e + (n - head) \div BlockSize /\ b = (n - head) % BlockSize
    BY <1>3, <2>3, PlaceAfter
  <2> QED
    BY <1>2, <1>4, <2>2, <2>4
<1>8. CASE r + head = BlockSize
  <2> DEFINE e == q + 1
  <2>1. filled = FedAs(f, k, u, base, S, e, 0, m)
    <3>1. filled = Absorb(FedAs(f, k, u, base, S, q, BlockSize, m))
      BY <1>5, <1>8
    <3>2. Absorb(FedAs(f, k, u, base, S, q, BlockSize, m)) = FedAs(f, k, u, base, S, q + 1, 0, m)
      BY <1>1, FeedsBlock
    <3> QED
      BY <3>1, <3>2
  <2>2. e \in Nat /\ p + head = e * BlockSize
    <3> HIDE DEF n
    <3> QED
      BY <1>1, <1>3, <1>8, SizeOfBlock
  <2> HIDE DEF e, p, filled
  <2> QED
    BY <1>7, <2>1, <2>2 DEF c
<1>9. CASE r + head < BlockSize /\ r = 0
  <2>1. filled = FedAs(f, k, u, base, S, q, 0, m)
    <3>1. head = 0 /\ r + head # BlockSize /\ r + head = 0
      BY <1>1, <1>3, <1>9, SizeOfBlock
    <3> QED
      BY <1>5, <3>1
  <2>2. p + head = q * BlockSize
    <3> HIDE DEF n
    <3> QED
      BY <1>1, <1>3, <1>9, SizeOfBlock
  <2> HIDE DEF p, filled
  <2> QED
    BY <1>1, <1>7, <2>1, <2>2 DEF c
<1>10. r + head < BlockSize \/ r + head = BlockSize
  <2> HIDE DEF n
  <2> QED
    BY <1>1, <1>3, SizeOfBlock
<1> QED
  BY <1>3, <1>6, <1>8, <1>9, <1>10 DEF c

-----------------------------------------------------------------------------
(* The blocks of a whole stream, the last of which may be short.           *)

ShortBlock(S, q, r) == IF r = 0 THEN <<>> ELSE <<BlockFrom(S, q * BlockSize, r)>>
Chopped(S, q, r) == FullBlocks(S, q) \o ShortBlock(S, q, r)

\* The last block, if it is short.
LEMMA LastIs == \A S, q, r : IsSeq(ShortBlock(S, q, r)) /\ Len(ShortBlock(S, q, r)) = IF r = 0 THEN 0 ELSE 1
BY NoCells, OneCell DEF ShortBlock

\* The blocks of q full ones and r cells more.
LEMMA ChoppedIs == \A S : \A q, r \in Nat :
  /\ IsSeq(Chopped(S, q, r)) /\ Len(Chopped(S, q, r)) = IF r = 0 THEN q ELSE q + 1
  /\ \A j \in 1 .. q : Chopped(S, q, r)[j] = BlockFrom(S, (j - 1) * BlockSize, BlockSize)
  /\ r # 0 => Chopped(S, q, r)[q + 1] = BlockFrom(S, q * BlockSize, r)
<1> TAKE S
<1> TAKE q, r \in Nat
<1> DEFINE a == FullBlocks(S, q)
           b == ShortBlock(S, q, r)
           part == BlockFrom(S, q * BlockSize, r)
           z == a \o b
<1>1. IsSeq(a) /\ Len(a) = q /\ \A j \in 1 .. q : a[j] = BlockFrom(S, (j - 1) * BlockSize, BlockSize)
  BY FullIs
<1>2. IsSeq(b) /\ Len(b) = IF r = 0 THEN 0 ELSE 1
  BY LastIs
<1>3. r # 0 => b = <<part>>
  BY DEF ShortBlock
<1>4. r # 0 => b[1] = part
  BY <1>3, OneCell
<1>5. Chopped(S, q, r) = z
  BY DEF Chopped
<1> HIDE DEF a, b, part
<1>6. IsJoin(z, a, b)
  BY <1>1, <1>2, Joins
<1> HIDE DEF z
<1>7. IsSeq(z) /\ Len(z) = IF r = 0 THEN q ELSE q + 1
  BY <1>1, <1>2, <1>6 DEF IsJoin
<1>8. \A j \in 1 .. q : z[j] = a[j]
  BY <1>1, <1>6 DEF IsJoin
<1>9. r # 0 => z[q + 1] = part
  BY <1>1, <1>2, <1>4, <1>6 DEF IsJoin
<1> QED
  BY <1>1, <1>5, <1>7, <1>8, <1>9 DEF part

\* The number of cells that q blocks and r more cells are.
Makes(n, q, r) == q \in Nat /\ r \in Nat /\ r < BlockSize /\ n = q * BlockSize + r

\* A number in blocks and a rest.
LEMMA MakesIt == \A n \in Nat : Makes(n, n \div BlockSize, n % BlockSize)
<1> TAKE n \in Nat
<1> QED
  BY SizeOfBlock, Division DEF Makes

\* There is one such division.
LEMMA MakesOnce == \A n, q, r : Makes(n, q, r) => n \in Nat /\ q = n \div BlockSize /\ r = n % BlockSize
<1> TAKE n, q, r
<1> HAVE Makes(n, q, r)
<1>1. n \in Nat /\ q \in Nat /\ r \in Nat /\ r < BlockSize /\ n = q * BlockSize + r
  BY SizeOfBlock DEF Makes
<1> QED
  BY <1>1, SizeOfBlock, Divided

\* How far a stream goes when l cells follow.
LEMMA MakesPlace == \A n, q, r, l, a, b : Makes(n, q, r) /\ l \in Nat /\ Makes(n + l, a, b) => Place(q, r, l, a, b)
BY DEF Makes, Place

\* The number of blocks, rounded up.
LEMMA BlocksIn == \A n, q, r : Makes(n, q, r) =>
  (n + BlockSize - 1) \div BlockSize = IF r = 0 THEN q ELSE q + 1
<1> TAKE n, q, r
<1> HAVE Makes(n, q, r)
<1>1. n \in Nat /\ q \in Nat /\ r \in Nat /\ r < BlockSize /\ n = q * BlockSize + r
  BY SizeOfBlock DEF Makes
<1> DEFINE a == n + BlockSize - 1
<1>2. a \in Nat
  BY <1>1, SizeOfBlock
<1>3. CASE r = 0
  <2> DEFINE s == BlockSize - 1
  <2>1. s \in Nat /\ s < BlockSize /\ a = q * BlockSize + s
    BY <1>1, <1>3, SizeOfBlock
  <2> HIDE DEF a, s
  <2> QED
    BY <1>1, <1>2, <1>3, <2>1, SizeOfBlock, Divided DEF a
<1>4. CASE r # 0
  <2> DEFINE s == r - 1
             e == q + 1
  <2>1. s \in Nat /\ s < BlockSize /\ e \in Nat /\ a = e * BlockSize + s
    BY <1>1, <1>4, SizeOfBlock
  <2> HIDE DEF a, s, e
  <2>2. a \div BlockSize = e
    BY <1>2, <2>1, SizeOfBlock, Divided
  <2> QED
    BY <1>4, <2>2 DEF a, e
<1> QED
  BY <1>3, <1>4

\* Chop() of the cells of a stream is the blocks of the stream.
LEMMA ChopIs == \A cells, S, q, r : Takes(cells, S, 0) /\ Makes(Len(cells), q, r) => Chop(cells) = Chopped(S, q, r)
<1> TAKE cells, S, q, r
<1> HAVE Takes(cells, S, 0) /\ Makes(Len(cells), q, r)
<1> DEFINE n == Len(cells)
           count == IF r = 0 THEN q ELSE q + 1
           c == Chop(cells)
           d == Chopped(S, q, r)
           block(j) == [i \in 1 .. Least(BlockSize, n - (j - 1) * BlockSize) |->
                          <<i - 1, cells[(j - 1) * BlockSize + i]>>]
<1>1. n \in Nat /\ q \in Nat /\ r \in Nat /\ r < BlockSize /\ n = q * BlockSize + r /\ count \in Nat
  BY SizeOfBlock DEF Makes
<1>2. (n + BlockSize - 1) \div BlockSize = count
  BY BlocksIn
<1>3. c = [j \in 1 .. count |-> block(j)]
  BY <1>2 DEF Chop
<1>4. IsSeq(d) /\ Len(d) = count
      /\ (\A j \in 1 .. q : d[j] = BlockFrom(S, (j - 1) * BlockSize, BlockSize))
      /\ (r # 0 => d[q + 1] = BlockFrom(S, q * BlockSize, r))
  BY <1>1, ChoppedIs
<1>5. \A i \in 1 .. n : cells[i] = S[i]
  BY DEF Takes
<1> HIDE DEF n, d
<1>6. ASSUME NEW j \in 1 .. q PROVE block(j) = d[j]
  <2> DEFINE x == (j - 1) * BlockSize
  <2>1. x \in Nat /\ x + BlockSize <= n
    <3>1. x \in Nat /\ x + BlockSize <= q * BlockSize /\ q * BlockSize \in Nat
      BY <1>1, SizeOfBlock, PieceInside
    <3> HIDE DEF x
    <3> QED
      BY <1>1, <3>1, SizeOfBlock
  <2>2. block(j) = [i \in 1 .. Least(BlockSize, n - x) |-> <<i - 1, cells[x + i]>>]
    OBVIOUS
  <2>3. d[j] = [i \in 1 .. BlockSize |-> <<i - 1, S[x + i]>>]
    BY <1>4 DEF BlockFrom
  <2> HIDE DEF x, block
  <2>4. Least(BlockSize, n - x) = BlockSize
    BY <1>1, <2>1, SizeOfBlock DEF Least
  <2>5. \A i \in 1 .. BlockSize : cells[x + i] = S[x + i]
    <3>1. \A i \in 1 .. BlockSize : x + i \in 1 .. n
      BY <1>1, <2>1, SizeOfBlock
    <3> QED
      BY <1>5, <3>1
  <2> QED
    BY <2>2, <2>3, <2>4, <2>5
<1>7. ASSUME r # 0 PROVE block(q + 1) = d[q + 1]
  <2> DEFINE x == q * BlockSize
  <2>1. x \in Nat /\ n = x + r /\ (q + 1) - 1 = q
    BY <1>1, SizeOfBlock
  <2>2. block(q + 1) = [i \in 1 .. Least(BlockSize, n - x) |-> <<i - 1, cells[x + i]>>]
    BY <2>1
  <2>3. d[q + 1] = [i \in 1 .. r |-> <<i - 1, S[x + i]>>]
    BY <1>4, <1>7 DEF BlockFrom
  <2> HIDE DEF x, block
  <2>4. Least(BlockSize, n - x) = r
    BY <1>1, <2>1, SizeOfBlock DEF Least
  <2>5. \A i \in 1 .. r : cells[x + i] = S[x + i]
    <3>1. \A i \in 1 .. r : x + i \in 1 .. n
      BY <1>1, <2>1
    <3> QED
      BY <1>5, <3>1
  <2> QED
    BY <2>2, <2>3, <2>4, <2>5
<1> HIDE DEF block
<1>8. IsSeq(c) /\ Len(c) = count /\ \A j \in 1 .. count : c[j] = block(j)
  <2> HIDE DEF c, count
  <2>1. DOMAIN c = 1 .. count /\ c = [j \in DOMAIN c |-> c[j]] /\ \A j \in 1 .. count : c[j] = block(j)
    BY <1>3
  <2> QED
    BY <1>1, <2>1, SeqBy
<1>9. \A j \in 1 .. count : c[j] = d[j]
  <2> TAKE j \in 1 .. count
  <2>1. j \in 1 .. q \/ (r # 0 /\ j = q + 1)
    BY <1>1
  <2> QED
    BY <1>6, <1>7, <1>8, <2>1
<1>10. c = d
  <2> HIDE DEF c, count
  <2> QED
    BY <1>4, <1>8, <1>9, SameSeq
<1> QED
  BY <1>10 DEF d

\* A stream that begins, and one that ends with a block that may be short.
LEMMA FedFirst == \A f, k, u, base, S, m : IsSeq(base) =>
  Ctx(f, k, u, base, <<>>, m) = FedAs(f, k, u, base, S, 0, 0, m)
<1> TAKE f, k, u, base, S, m
<1> HAVE IsSeq(base)
<1> DEFINE b == FullBlocks(S, 0)
           p == BlockFrom(S, 0 * BlockSize, 0)
<1>1. b = <<>> /\ p = <<>>
  <2>1. IsSeq(b) /\ Len(b) = 0
    BY FullIs
  <2>2. IsSeq(p) /\ Len(p) = 0
    BY BlockIs
  <2> HIDE DEF b, p
  <2> QED
    BY <2>1, <2>2, NoCells
<1>2. FedAs(f, k, u, base, S, 0, 0, m) = Ctx(f, k, u, base \o b, p, m)
  BY DEF FedAs
<1> HIDE DEF b, p
<1> QED
  BY <1>1, <1>2, JoinedNone

\* When the last block is closed the blocks are those of Chop().
LEMMA FedLast == \A f, k, u, base, S, m : \A q, r \in Nat : IsSeq(base) =>
  /\ IsSeq(base \o Chopped(S, q, r))
  /\ r # 0 => Absorb(FedAs(f, k, u, base, S, q, r, m)) = Ctx(f, k, u, base \o Chopped(S, q, r), <<>>, m)
  /\ r = 0 => FedAs(f, k, u, base, S, q, r, m) = Ctx(f, k, u, base \o Chopped(S, q, r), <<>>, m)
<1> TAKE f, k, u, base, S, m
<1> TAKE q, r \in Nat
<1> HAVE IsSeq(base)
<1> DEFINE a == FullBlocks(S, q)
           b == ShortBlock(S, q, r)
           p == BlockFrom(S, q * BlockSize, r)
           blocks == base \o a
<1>1. IsSeq(a) /\ IsSeq(b) /\ IsSeq(p) /\ (r = 0 => p = <<>>)
  BY FullIs, LastIs, BlockIs, NoCells
<1>2. (r = 0 => b = <<>>) /\ (r # 0 => b = <<p>>)
  BY DEF ShortBlock
<1>3. FedAs(f, k, u, base, S, q, r, m) = Ctx(f, k, u, blocks, p, m)
  BY DEF FedAs
<1>4. base \o Chopped(S, q, r) = base \o (a \o b)
  BY DEF Chopped
<1> HIDE DEF a, b, p
<1>5. base \o (a \o b) = blocks \o b /\ IsSeq(blocks)
  <2>1. (base \o a) \o b = base \o (a \o b)
    BY <1>1, JoinedLeft
  <2>2. IsSeq(base \o a)
    BY <1>1, Joined
  <2> QED
    BY <2>1, <2>2
<1>6. IsSeq(blocks \o b)
  BY <1>1, <1>5, Joined
<1> HIDE DEF blocks
<1>7. ASSUME r # 0 PROVE Absorb(FedAs(f, k, u, base, S, q, r, m)) = Ctx(f, k, u, base \o Chopped(S, q, r), <<>>, m)
  <2>1. blocks \o b = Append(blocks, p)
    BY <1>2, <1>5, <1>7, JoinedCell
  <2>2. Absorb(Ctx(f, k, u, blocks, p, m)) = Ctx(f, k, u, Append(blocks, p), <<>>, m)
    BY AbsorbIs
  <2> QED
    BY <1>3, <1>4, <1>5, <2>1, <2>2
<1>8. ASSUME r = 0 PROVE FedAs(f, k, u, base, S, q, r, m) = Ctx(f, k, u, base \o Chopped(S, q, r), <<>>, m)
  <2>1. blocks \o b = blocks /\ p = <<>>
    BY <1>1, <1>2, <1>5, <1>8, JoinedNone
  <2> QED
    BY <1>3, <1>4, <1>5, <2>1
<1> QED
  BY <1>4, <1>5, <1>6, <1>7, <1>8

\* Streams that begin alike are the same so far.
LEMMA FedAlike == \A f, k, u, base, S, T, m : \A q, r \in Nat :
  (\A i \in 1 .. q * BlockSize + r : S[i] = T[i]) =>
    FedAs(f, k, u, base, S, q, r, m) = FedAs(f, k, u, base, T, q, r, m)
<1> TAKE f, k, u, base, S, T, m
<1> TAKE q, r \in Nat
<1> HAVE \A i \in 1 .. q * BlockSize + r : S[i] = T[i]
<1> DEFINE p == q * BlockSize
<1>1. p \in Nat
  BY SizeOfBlock
<1>2. \A i \in 1 .. p + r : S[i] = T[i]
  OBVIOUS
<1>3. BlockFrom(S, p, r) = BlockFrom(T, p, r)
  <2> HIDE DEF p
  <2>1. \A i \in 1 .. r : S[p + i] = T[p + i]
    <3>1. \A i \in 1 .. r : p + i \in 1 .. p + r
      BY <1>1
    <3> QED
      BY <1>2, <3>1
  <2> QED
    BY <2>1 DEF BlockFrom
<1>4. ASSUME NEW j \in 1 .. q
      PROVE  BlockFrom(S, (j - 1) * BlockSize, BlockSize) = BlockFrom(T, (j - 1) * BlockSize, BlockSize)
  <2> DEFINE x == (j - 1) * BlockSize
  <2>1. x \in Nat /\ x + BlockSize <= p
    BY SizeOfBlock, PieceInside
  <2> HIDE DEF x, p
  <2>2. \A i \in 1 .. BlockSize : S[x + i] = T[x + i]
    <3>1. \A i \in 1 .. BlockSize : x + i \in 1 .. p + r
      BY <1>1, <2>1, SizeOfBlock
    <3> QED
      BY <1>2, <3>1
  <2>3. BlockFrom(S, x, BlockSize) = BlockFrom(T, x, BlockSize)
    BY <2>2 DEF BlockFrom
  <2> QED
    BY <2>3 DEF x
<1>5. FullBlocks(S, q) = FullBlocks(T, q)
  BY <1>4 DEF FullBlocks
<1> QED
  BY <1>3, <1>5 DEF FedAs, p

-----------------------------------------------------------------------------
(* The bytes of the body are masked with blocks of the keystream of size   *)
(* bytes, the first of them made with the counter from.                    *)

MaskedAs(from, range, size, n) ==
    [i \in 1 .. n |-> <<(from + (i - 1) \div size) % range, (i - 1) % size>>]

\* The masks of n bytes, one by one.
LEMMA MasksAre == \A from, range, size : \A n \in Nat :
  /\ IsSeq(MaskedAs(from, range, size, n)) /\ Len(MaskedAs(from, range, size, n)) = n
  /\ \A i \in 1 .. n : MaskedAs(from, range, size, n)[i] = <<(from + (i - 1) \div size) % range, (i - 1) % size>>
<1> TAKE from, range, size
<1> TAKE n \in Nat
<1> DEFINE b == MaskedAs(from, range, size, n)
           at(i) == <<(from + (i - 1) \div size) % range, (i - 1) % size>>
<1>1. b = [i \in 1 .. n |-> at(i)]
  BY DEF MaskedAs
<1> HIDE DEF b, at
<1>2. DOMAIN b = 1 .. n /\ b = [i \in DOMAIN b |-> b[i]] /\ \A i \in 1 .. n : b[i] = at(i)
  BY <1>1
<1>3. IsSeq(b) /\ Len(b) = n
  BY <1>2, SeqBy
<1> QED
  BY <1>2, <1>3 DEF b, at

\* The masks of a run of one block of the keystream.
LEMMA RunIs == \A k, o : \A n \in Nat :
  /\ IsSeq(MaskRun(k, o, n)) /\ Len(MaskRun(k, o, n)) = n
  /\ \A i \in 1 .. n : MaskRun(k, o, n)[i] = <<k, o + i - 1>>
<1> TAKE k, o
<1> TAKE n \in Nat
<1> DEFINE b == MaskRun(k, o, n)
<1>1. DOMAIN b = 1 .. n /\ b = [i \in DOMAIN b |-> b[i]] /\ \A i \in 1 .. n : b[i] = <<k, o + i - 1>>
  BY DEF MaskRun
<1> HIDE DEF b
<1>2. IsSeq(b) /\ Len(b) = n
  BY <1>1, SeqBy
<1> QED
  BY <1>1, <1>2 DEF b

\* The q-th block of the keystream, from its byte o on.
MaskStep(k, from, range, size, q, o, n) ==
    /\ size \in Nat \ {0} /\ q \in Nat /\ o \in Nat /\ n \in Nat /\ o + n <= size
    /\ k = (from + q) % range
\* The masks of the first p bytes, and of n more.
MasksNext(k, from, range, size, q, o, n, p, y) ==
    MaskStep(k, from, range, size, q, o, n) /\ p = q * size + o /\ y = p + n
MasksGrown(k, from, range, size, o, n, p, y) ==
    MaskedAs(from, range, size, p) \o MaskRun(k, o, n) = MaskedAs(from, range, size, y)

\* A run with the next bytes of the keystream continues the masks.
LEMMA MasksGrow == \A k, from, range, size, q, o, n, p, y :
  MasksNext(k, from, range, size, q, o, n, p, y) => MasksGrown(k, from, range, size, o, n, p, y)
<1> TAKE k, from, range, size, q, o, n, p, y
<1> HAVE MasksNext(k, from, range, size, q, o, n, p, y)
<1> DEFINE a == MaskedAs(from, range, size, p)
           b == MaskRun(k, o, n)
           z == a \o b
           d == MaskedAs(from, range, size, p + n)
           at(i) == <<(from + (i - 1) \div size) % range, (i - 1) % size>>
<1>1. /\ size \in Nat /\ size > 0 /\ q \in Nat /\ o \in Nat /\ n \in Nat /\ o + n <= size
      /\ k = (from + q) % range /\ p \in Nat /\ p + n \in Nat /\ p = q * size + o /\ y = p + n
  <2>1. size \in Nat \ {0} /\ q \in Nat /\ o \in Nat /\ n \in Nat /\ o + n <= size
        /\ k = (from + q) % range /\ p = q * size + o /\ y = p + n
    BY DEF MaskStep, MasksNext
  <2> QED
    BY <2>1
<1>2. IsSeq(a) /\ Len(a) = p /\ \A i \in 1 .. p : a[i] = at(i)
  BY <1>1, MasksAre
<1>3. IsSeq(b) /\ Len(b) = n /\ \A i \in 1 .. n : b[i] = <<k, o + i - 1>>
  BY <1>1, RunIs
<1>4. IsSeq(d) /\ Len(d) = p + n /\ \A i \in 1 .. p + n : d[i] = at(i)
  BY <1>1, MasksAre
<1> HIDE DEF a, b, d
<1>5. IsJoin(z, a, b)
  BY <1>2, <1>3, Joins
<1> HIDE DEF z
<1>6. IsSeq(z) /\ Len(z) = p + n /\ (\A i \in 1 .. p : z[i] = a[i]) /\ \A i \in 1 .. n : z[p + i] = b[i]
  BY <1>2, <1>3, <1>5 DEF IsJoin
<1>7. ASSUME NEW i \in 1 .. n PROVE at(p + i) = <<k, o + i - 1>>
  <2> DEFINE x == p + i - 1
             s == o + i - 1
  <2>1. x \in Nat /\ s \in Nat /\ s < size /\ x = q * size + s
    <3>1. q * size \in Nat
      BY <1>1
    <3> QED
      BY <1>1, <3>1
  <2>2. (p + i) - 1 = x
    BY <1>1
  <2> HIDE DEF x, s
  <2>3. x \div size = q /\ x % size = s
    BY <1>1, <2>1, Divided
  <2>4. at(p + i) = <<(from + x \div size) % range, x % size>>
    BY <2>2
  <2> QED
    BY <1>1, <2>3, <2>4 DEF s
<1>8. ASSUME NEW i \in 1 .. p + n PROVE z[i] = d[i]
  <2>1. CASE i <= p
    <3>1. i \in 1 .. p
      BY <1>1, <2>1
    <3> QED
      BY <1>2, <1>4, <1>6, <3>1
  <2>2. CASE ~(i <= p)
    <3> DEFINE j == i - p
    <3>1. j \in 1 .. n /\ i = p + j
      BY <1>1, <2>2
    <3> HIDE DEF j, at
    <3> QED
      BY <1>3, <1>4, <1>6, <1>7, <3>1
  <2> QED
    BY <2>1, <2>2
<1>9. z = d
  BY <1>4, <1>6, <1>8, SameSeq
<1> QED
  BY <1>1, <1>9 DEF z, a, b, d, MasksGrown

\* No bytes have no masks.
LEMMA NoMasks == \A from, range, size : MaskedAs(from, range, size, 0) = <<>>
<1> TAKE from, range, size
<1> DEFINE b == MaskedAs(from, range, size, 0)
<1>1. IsSeq(b) /\ Len(b) = 0
  BY MasksAre
<1> HIDE DEF b
<1> QED
  BY <1>1, NoCells DEF b

\* The counter goes on.
LEMMA CountsOn == \A x, range, y : x \in Nat /\ range \in Nat /\ range > 0 /\ y = x % range => (y + 1) % range = (x + 1) % range
<1> TAKE x, range, y
<1> HAVE x \in Nat /\ range \in Nat /\ range > 0 /\ y = x % range
<1> DEFINE q == x \div range
<1>1. q \in Nat /\ y \in Nat /\ y < range /\ x = q * range + y
  BY Division
<1> HIDE DEF q
<1>2. CASE y + 1 < range
  <2> DEFINE z == y + 1
             w == x + 1
  <2>1. z \in Nat /\ w \in Nat /\ z < range /\ w = q * range + z /\ 0 \in Nat /\ z = 0 * range + z
    BY <1>1, <1>2
  <2> HIDE DEF z, w
  <2>2. w % range = z
    BY <1>1, <2>1, Divided
  <2>3. z % range = z
    BY <1>1, <2>1, Divided
  <2> QED
    BY <2>2, <2>3 DEF z, w
<1>3. CASE y + 1 = range
  <2> DEFINE w == x + 1
             e == q + 1
             zero == 0
             one == 1
  <2>1. e \in Nat /\ w \in Nat /\ zero \in Nat /\ zero < range /\ w = e * range + zero
        /\ one \in Nat /\ range = one * range + zero
    BY <1>1, <1>3
  <2> HIDE DEF e, w, zero, one
  <2>2. w % range = zero /\ range % range = zero
    BY <1>1, <2>1, Divided
  <2> QED
    BY <1>3, <2>2 DEF w
<1>4. y + 1 < range \/ y + 1 = range
  BY <1>1
<1> QED
  BY <1>2, <1>3, <1>4

-----------------------------------------------------------------------------
(* The same, counted in bytes.                                             *)

\* Division of natural numbers.
LEMMA Divides == \A n, d : n \in Nat /\ d \in Nat /\ d > 0 =>
  /\ n \div d \in Nat /\ n % d \in Nat /\ n % d < d /\ n = (n \div d) * d + (n % d)
  /\ (n \div d) * d \in Nat
<1> TAKE n, d
<1> HAVE n \in Nat /\ d \in Nat /\ d > 0
<1> DEFINE q == n \div d
           r == n % d
<1>1. q \in Nat /\ r \in 0 .. d - 1 /\ n = q * d + r
  BY Division
<1> HIDE DEF q, r
<1>2. r \in Nat /\ r < d /\ q * d \in Nat
  BY <1>1
<1> QED
  BY <1>1, <1>2 DEF q, r

\* Some bytes more, no further than to the end of the block.
LEMMA Goes == \A n, d, l : n \in Nat /\ d \in Nat /\ d > 0 /\ l \in Nat /\ (n % d) + l <= d =>
  /\ (n % d) + l < d => (n + l) \div d = n \div d /\ (n + l) % d = (n % d) + l
  /\ (n % d) + l = d => (n + l) \div d = n \div d + 1 /\ (n + l) % d = 0
<1> TAKE n, d, l
<1> HAVE n \in Nat /\ d \in Nat /\ d > 0 /\ l \in Nat /\ (n % d) + l <= d
<1> DEFINE q == n \div d
           r == n % d
           x == n + l
           s == r + l
           e == q + 1
           zero == 0
<1>1. q \in Nat /\ r \in Nat /\ n = q * d + r /\ q * d \in Nat
  BY Divides
<1>2. s <= d
  OBVIOUS
<1> HIDE DEF q, r
<1>3. x \in Nat /\ s \in Nat /\ e \in Nat /\ zero \in Nat /\ x = q * d + s /\ e * d = q * d + d
  BY <1>1
<1>4. s = d => x = e * d + zero
  <2> HIDE DEF x, s, e
  <2> QED
    BY <1>1, <1>3
<1> HIDE DEF x, s, e, zero
<1>5. s < d => x \div d = q /\ x % d = s
  BY <1>1, <1>3, Divided
<1>6. zero < d
  BY DEF zero
<1>7. s = d => x \div d = e /\ x % d = zero
  BY <1>3, <1>4, <1>6, Divided
<1> QED
  BY <1>5, <1>7 DEF x, s, q, r, e, zero

Goings(n, d, l) ==
    /\ (n % d) + l < d => (n + l) \div d = n \div d /\ (n + l) % d = (n % d) + l
    /\ (n % d) + l = d => (n + l) \div d = n \div d + 1 /\ (n + l) % d = 0

\* The division after l more, if they stay in the block.
LEMMA GoingsAre == \A n, d, l : n \in Nat /\ d \in Nat /\ d > 0 /\ l \in Nat /\ (n % d) + l <= d =>
  Goings(n, d, l)
BY Goes DEF Goings

Fed(f, k, u, base, S, n, m) == FedAs(f, k, u, base, S, n \div BlockSize, n % BlockSize, m)
InBlocks(S, n) == Chopped(S, n \div BlockSize, n % BlockSize)

\* CellsFed, in the number of cells of the stream that went in.
LEMMA CellsGo == \A f, k, u, base, S, m, cells, n :
  IsSeq(base) /\ n \in Nat /\ Takes(cells, S, n) =>
    AbsorbCells(Fed(f, k, u, base, S, n, m), n % BlockSize, cells)
      = Fed(f, k, u, base, S, n + Len(cells), m)
<1> TAKE f, k, u, base, S, m, cells, n
<1> HAVE IsSeq(base) /\ n \in Nat /\ Takes(cells, S, n)
<1> DEFINE l == Len(cells)
           x == n + l
           q == n \div BlockSize
           r == n % BlockSize
           a == x \div BlockSize
           b == x % BlockSize
<1>1. l \in Nat
  BY DEF Takes, IsSeq
<1>2. x \in Nat
  <2> HIDE DEF l
  <2> QED
    BY <1>1
<1>3. q \in Nat /\ r \in Nat /\ r < BlockSize /\ n = q * BlockSize + r
  BY SizeOfBlock, Divides
<1>4. a \in Nat /\ b \in Nat /\ b < BlockSize /\ x = a * BlockSize + b
  <2> HIDE DEF x
  <2> QED
    BY <1>2, SizeOfBlock, Divides
<1>5. Place(q, r, Len(cells), a, b)
  <2>1. a * BlockSize + b = q * BlockSize + r + Len(cells)
    <3>1. x = n + Len(cells)
      OBVIOUS
    <3> HIDE DEF a, b, q, r, x
    <3> QED
      BY <1>3, <1>4, <3>1
  <2> HIDE DEF a, b, q, r, x
  <2> QED
    BY <1>1, <1>3, <1>4, <2>1 DEF Place
<1>6. Takes(cells, S, q * BlockSize + r)
  BY <1>3
<1> HIDE DEF a, b, q, r, x
<1>7. AbsorbCells(FedAs(f, k, u, base, S, q, r, m), r, cells) = FedAs(f, k, u, base, S, a, b, m)
  BY <1>5, <1>6, CellsFed
<1> QED
  BY <1>7 DEF Fed, a, b, q, r, x

\* A piece that goes into the block in hand.
LEMMA PieceGoes == \A f, k, u, base, S, m, cells, n :
  IsSeq(base) /\ n \in Nat /\ Takes(cells, S, n) /\ (n % BlockSize) + Len(cells) <= BlockSize =>
    LET mixed == Mix(Fed(f, k, u, base, S, n, m), n % BlockSize, cells)
        then == Fed(f, k, u, base, S, n + Len(cells), m)
    IN  /\ (n % BlockSize) + Len(cells) < BlockSize => mixed = then
        /\ (n % BlockSize) + Len(cells) = BlockSize => Absorb(mixed) = then
<1> TAKE f, k, u, base, S, m, cells, n
<1> HAVE IsSeq(base) /\ n \in Nat /\ Takes(cells, S, n) /\ (n % BlockSize) + Len(cells) <= BlockSize
<1> DEFINE l == Len(cells)
           x == n + l
           q == n \div BlockSize
           r == n % BlockSize
           a == x \div BlockSize
           b == x % BlockSize
           mixed == Mix(FedAs(f, k, u, base, S, q, r, m), r, cells)
           then == FedAs(f, k, u, base, S, a, b, m)
<1>1. l \in Nat
  BY DEF Takes, IsSeq
<1>2. r + l <= BlockSize
  OBVIOUS
<1>3. q \in Nat /\ r \in Nat /\ n = q * BlockSize + r
  BY SizeOfBlock, Divides
<1>4. Takes(cells, S, q * BlockSize + r)
  BY <1>3
<1>5. /\ r + l < BlockSize => a = q /\ b = r + l
      /\ r + l = BlockSize => a = q + 1 /\ b = 0
  <2>1. BlockSize \in Nat /\ BlockSize > 0
    BY SizeOfBlock
  <2> HIDE DEF l
  <2> QED
    BY <1>1, <1>2, <2>1, Goes
<1> HIDE DEF q, r, a, b
<1>6. mixed = FedAs(f, k, u, base, S, q, r + Len(cells), m)
  BY <1>3, <1>4, FeedsPart
<1> HIDE DEF mixed
<1>7. mixed = FedAs(f, k, u, base, S, q, r + l, m)
  BY <1>6
<1>8. Absorb(FedAs(f, k, u, base, S, q, BlockSize, m)) = FedAs(f, k, u, base, S, q + 1, 0, m)
  BY <1>3, FeedsBlock
<1> HIDE DEF l
<1>9. /\ r + l < BlockSize => mixed = then
      /\ r + l = BlockSize => Absorb(mixed) = then
  BY <1>5, <1>7, <1>8
<1> QED
  BY <1>9 DEF Fed, mixed, then, l, x, q, r, a, b

\* Before its first cell a stream has changed nothing.
LEMMA FedNone == \A f, k, u, base, S, m : IsSeq(base) =>
  Fed(f, k, u, base, S, 0, m) = Ctx(f, k, u, base, <<>>, m)
<1> TAKE f, k, u, base, S, m
<1> HAVE IsSeq(base)
<1>1. 0 \div BlockSize = 0 /\ 0 % BlockSize = 0
  <2> DEFINE zero == 0
  <2>1. zero \in Nat /\ zero = zero * BlockSize + zero /\ zero < BlockSize
    BY SizeOfBlock
  <2> HIDE DEF zero
  <2>2. zero \div BlockSize = zero /\ zero % BlockSize = zero
    BY <2>1, SizeOfBlock, Divided
  <2> QED
    BY <2>2 DEF zero
<1>2. Ctx(f, k, u, base, <<>>, m) = FedAs(f, k, u, base, S, 0, 0, m)
  BY FedFirst
<1> QED
  BY <1>1, <1>2 DEF Fed

\* Once its last block is closed a stream is in the blocks of Chop().
LEMMA FedCloses == \A f, k, u, base, S, m, n : IsSeq(base) /\ n \in Nat =>
  LET c == Fed(f, k, u, base, S, n, m)
      closed == Ctx(f, k, u, base \o InBlocks(S, n), <<>>, m)
  IN  /\ n % BlockSize # 0 => Absorb(c) = closed
      /\ n % BlockSize = 0 => c = closed
      /\ IsSeq(base \o InBlocks(S, n))
<1> TAKE f, k, u, base, S, m, n
<1> HAVE IsSeq(base) /\ n \in Nat
<1> DEFINE q == n \div BlockSize
           r == n % BlockSize
<1>1. q \in Nat /\ r \in Nat
  BY SizeOfBlock, Divides
<1> HIDE DEF q, r
<1>2. /\ IsSeq(base \o Chopped(S, q, r))
      /\ r # 0 => Absorb(FedAs(f, k, u, base, S, q, r, m)) = Ctx(f, k, u, base \o Chopped(S, q, r), <<>>, m)
      /\ r = 0 => FedAs(f, k, u, base, S, q, r, m) = Ctx(f, k, u, base \o Chopped(S, q, r), <<>>, m)
  BY <1>1, FedLast
<1> QED
  BY <1>2 DEF Fed, InBlocks, q, r

\* What is in hand of the n bytes that led to c is absorbed, if there is any.
Closes(c, n, closed) ==
    (n % BlockSize # 0 => Absorb(c) = closed) /\ (n % BlockSize = 0 => c = closed)

\* FedCloses, as it is used.
LEMMA FedClosed == \A f, k, u, base, S, m, n : IsSeq(base) /\ n \in Nat =>
  Closes(Fed(f, k, u, base, S, n, m), n, Ctx(f, k, u, base \o InBlocks(S, n), <<>>, m))
BY FedCloses DEF Closes

\* The fields of such a context.
LEMMA FedHas == \A f, k, u, base, S, m, n : n \in Nat =>
  LET c == Fed(f, k, u, base, S, n, m)
  IN  /\ c.flags = f.flags /\ c.add_len = f.add_len /\ c.total = f.total /\ c.len = f.len
      /\ c.processed = f.processed /\ c.range = f.range /\ c.first = f.first
      /\ c.ctr = k /\ c.used = u /\ c.masks = m
      /\ Len(c.part) = n % BlockSize /\ (c.part = <<>> <=> n % BlockSize = 0)
<1> TAKE f, k, u, base, S, m, n
<1> HAVE n \in Nat
<1> DEFINE q == n \div BlockSize
           r == n % BlockSize
           p == BlockFrom(S, q * BlockSize, r)
           b == base \o FullBlocks(S, q)
<1>1. r \in Nat
  BY SizeOfBlock, Divides
<1>3. Fed(f, k, u, base, S, n, m) = Ctx(f, k, u, b, p, m)
  BY DEF Fed, FedAs
<1> HIDE DEF q, r, b
<1>4. IsSeq(p) /\ Len(p) = r
  BY <1>1, BlockIs
<1> HIDE DEF p
<1>5. p = <<>> <=> r = 0
  BY <1>4, NoCells
<1> QED
  BY <1>3, <1>4, <1>5, ContextHas DEF r

\* Counter, keystream and masks while a stream is fed.
LEMMA FedBut == \A f, k, u, base, S, m, n, x, o, l :
  LET c == Fed(f, k, u, base, S, n, m)
  IN  /\ [c EXCEPT !.used = x] = Fed(f, k, x, base, S, n, m)
      /\ [c EXCEPT !.ctr = x] = Fed(f, x, u, base, S, n, m)
      /\ Mask(c, o, l) = Fed(f, k, u, base, S, n, m \o MaskRun(k, o, l))
      /\ Increment(c) = Fed(f, (k + 1) % f.range, u, base, S, n, m)
BY ContextBut, MaskIs, IncrementIs DEF Fed, FedAs

\* The fields no loop changes, while a stream is fed.
LEMMA FedFrame == \A fl, al, to, le, pr, ra, fi, k, u, base, S, n, m, x :
  LET c == Fed(Frame(fl, al, to, le, pr, ra, fi), k, u, base, S, n, m)
  IN  /\ [c EXCEPT !.flags = x] = Fed(Frame(x, al, to, le, pr, ra, fi), k, u, base, S, n, m)
      /\ [c EXCEPT !.add_len = x] = Fed(Frame(fl, x, to, le, pr, ra, fi), k, u, base, S, n, m)
      /\ [c EXCEPT !.len = x] = Fed(Frame(fl, al, to, x, pr, ra, fi), k, u, base, S, n, m)
      /\ [c EXCEPT !.processed = x] = Fed(Frame(fl, al, to, le, x, ra, fi), k, u, base, S, n, m)
BY FrameBut DEF Fed, FedAs

\* Only the cells that went in matter.
LEMMA FedSame == \A f, k, u, base, S, T, m, n : n \in Nat /\ (\A i \in 1 .. n : S[i] = T[i]) =>
  Fed(f, k, u, base, S, n, m) = Fed(f, k, u, base, T, n, m)
<1> TAKE f, k, u, base, S, T, m, n
<1> HAVE n \in Nat /\ (\A i \in 1 .. n : S[i] = T[i])
<1> DEFINE q == n \div BlockSize
           r == n % BlockSize
<1>1. q \in Nat /\ r \in Nat /\ n = q * BlockSize + r
  BY SizeOfBlock, Divides
<1> HIDE DEF q, r
<1>2. \A i \in 1 .. q * BlockSize + r : S[i] = T[i]
  BY <1>1
<1>3. FedAs(f, k, u, base, S, q, r, m) = FedAs(f, k, u, base, T, q, r, m)
  BY <1>1, <1>2, FedAlike
<1> QED
  BY <1>3 DEF Fed, q, r

\* All of the cells of a stream, in blocks.
LEMMA ChopAll == \A cells, S : Takes(cells, S, 0) => Chop(cells) = InBlocks(S, Len(cells)) /\ IsSeq(Chop(cells))
<1> TAKE cells, S
<1> HAVE Takes(cells, S, 0)
<1> DEFINE n == Len(cells)
           q == n \div BlockSize
           r == n % BlockSize
<1>1. n \in Nat
  BY DEF Takes, IsSeq
<1>2. Makes(n, q, r)
  <2> HIDE DEF n
  <2> QED
    BY <1>1, MakesIt
<1>3. q \in Nat /\ r \in Nat
  BY <1>2 DEF Makes
<1> HIDE DEF q, r
<1>4. Chop(cells) = Chopped(S, q, r)
  BY <1>2, ChopIs
<1>5. IsSeq(Chopped(S, q, r))
  BY <1>3, ChoppedIs
<1> QED
  BY <1>4, <1>5 DEF InBlocks, q, r

-----------------------------------------------------------------------------
(* A counter that goes on when a block of the keystream begins.            *)

BlocksBegun(n, size) == IF n % size = 0 THEN n \div size ELSE n \div size + 1
CounterAt(first, range, size, n) == (first + BlocksBegun(n, size)) % range

\* n bytes were masked, and l are next.
Masking(first, range, size, n, l) ==
    /\ first \in Nat /\ range \in Nat /\ range > 0 /\ size \in Nat /\ size > 0
    /\ n \in Nat /\ l \in Nat /\ (n % size) + l <= size

\* They are masked with the counter k from the offset o on.
MasksFollow(first, range, size, n, l, k, o) ==
    /\ MaskedAs(first + 1, range, size, n) \o MaskRun(k, o, l)
         = MaskedAs(first + 1, range, size, n + l)
    /\ CounterAt(first, range, size, n + l) = k

\* In the middle of a block of the keystream the counter stays.
LEMMA MasksGoOn == \A first, range, size, n, l :
  Masking(first, range, size, n, l) /\ n % size # 0 =>
    MasksFollow(first, range, size, n, l, CounterAt(first, range, size, n), n % size)
<1> TAKE first, range, size, n, l
<1> HAVE Masking(first, range, size, n, l) /\ n % size # 0
<1> DEFINE q == n \div size
           r == n % size
           from == first + 1
           k == (from + q) % range
           x == n + l
<1>1. /\ first \in Nat /\ range \in Nat /\ range > 0 /\ size \in Nat /\ size > 0
      /\ n \in Nat /\ l \in Nat /\ r + l <= size /\ r # 0
  BY DEF Masking
<1>2. q \in Nat /\ r \in Nat /\ n = q * size + r
  BY <1>1, Divides
<1>3. (first + (q + 1)) % range = k
  <2>1. first + (q + 1) = from + q
    BY <1>1, <1>2
  <2> QED
    BY <2>1
<1>4. CounterAt(first, range, size, n) = k
  BY <1>1, <1>3 DEF CounterAt, BlocksBegun
<1>5. /\ r + l < size => x \div size = q /\ x % size = r + l
      /\ r + l = size => x \div size = q + 1 /\ x % size = 0
  BY <1>1, Goes
<1> HIDE DEF q, r
<1>6. r + l # 0 /\ (r + l < size \/ r + l = size)
  BY <1>1, <1>2
<1>7. BlocksBegun(x, size) = q + 1
  <2> HIDE DEF x
  <2> QED
    BY <1>5, <1>6 DEF BlocksBegun
<1>8. CounterAt(first, range, size, x) = k
  BY <1>3, <1>7 DEF CounterAt
<1>9. MaskStep(k, from, range, size, q, r, l)
  <2>1. k = (from + q) % range
    OBVIOUS
  <2> HIDE DEF k
  <2> QED
    BY <1>1, <1>2, <2>1 DEF MaskStep
<1>10. MaskedAs(from, range, size, n) \o MaskRun(k, r, l) = MaskedAs(from, range, size, x)
  <2>1. n = q * size + r
    BY <1>2
  <2>2. MasksNext(k, from, range, size, q, r, l, n, x)
    BY <1>9, <2>1 DEF MasksNext
  <2> HIDE DEF k, from, q, r, x
  <2>3. MasksGrown(k, from, range, size, r, l, n, x)
    BY <2>2, MasksGrow
  <2> QED
    BY <2>3 DEF MasksGrown
<1>11. MasksFollow(first, range, size, n, l, k, r)
  BY <1>8, <1>10 DEF MasksFollow
<1> QED
  BY <1>4, <1>11 DEF r

\* At the start of a block of the keystream the counter is incremented.
LEMMA MasksBegin == \A first, range, size, n, l :
  Masking(first, range, size, n, l) /\ n % size = 0 /\ l > 0 =>
    MasksFollow(first, range, size, n, l, (CounterAt(first, range, size, n) + 1) % range, 0)
<1> TAKE first, range, size, n, l
<1> HAVE Masking(first, range, size, n, l) /\ n % size = 0 /\ l > 0
<1> DEFINE q == n \div size
           r == n % size
           from == first + 1
           before == first + q
           k == (from + q) % range
           x == n + l
<1>1. /\ first \in Nat /\ range \in Nat /\ range > 0 /\ size \in Nat /\ size > 0
      /\ n \in Nat /\ l \in Nat /\ r + l <= size /\ r = 0 /\ l > 0
  BY DEF Masking
<1>2. q \in Nat /\ n = q * size + r
  BY <1>1, Divides
<1>3. (first + (q + 1)) % range = k /\ before \in Nat /\ (before + 1) % range = k
  <2>1. first + (q + 1) = from + q /\ before + 1 = from + q
    BY <1>1, <1>2
  <2>2. before \in Nat
    BY <1>1, <1>2
  <2> QED
    BY <2>1, <2>2
<1>4. CounterAt(first, range, size, n) = before % range
  BY <1>1 DEF CounterAt, BlocksBegun
<1>5. ((before % range) + 1) % range = k
  <2> DEFINE y == before % range
  <2>1. y = before % range
    OBVIOUS
  <2> HIDE DEF y, before, k
  <2>2. (y + 1) % range = (before + 1) % range
    BY <1>1, <1>3, <2>1, CountsOn
  <2> QED
    BY <1>3, <2>1, <2>2
<1> HIDE DEF before
<1>6. /\ r + l < size => x \div size = q /\ x % size = r + l
      /\ r + l = size => x \div size = q + 1 /\ x % size = 0
  BY <1>1, Goes
<1> HIDE DEF q, r
<1>7. r + l # 0 /\ (r + l < size \/ r + l = size)
  BY <1>1
<1>8. BlocksBegun(x, size) = q + 1
  <2> HIDE DEF x
  <2> QED
    BY <1>6, <1>7 DEF BlocksBegun
<1>9. CounterAt(first, range, size, x) = k
  BY <1>3, <1>8 DEF CounterAt
<1>10. MaskStep(k, from, range, size, q, 0, l)
  <2>1. k = (from + q) % range
    OBVIOUS
  <2> HIDE DEF k
  <2> QED
    BY <1>1, <1>2, <2>1 DEF MaskStep
<1>11. MaskedAs(from, range, size, n) \o MaskRun(k, 0, l) = MaskedAs(from, range, size, x)
  <2>1. n = q * size + 0
    BY <1>1, <1>2
  <2>2. MasksNext(k, from, range, size, q, 0, l, n, x)
    BY <1>10, <2>1 DEF MasksNext
  <2> DEFINE zero == 0
  <2>3. MasksNext(k, from, range, size, q, zero, l, n, x)
    BY <2>2
  <2> HIDE DEF k, from, q, zero, x
  <2>4. MasksGrown(k, from, range, size, zero, l, n, x)
    BY <2>3, MasksGrow
  <2> QED
    BY <2>4 DEF MasksGrown, zero
<1>12. MasksFollow(first, range, size, n, l, k, 0)
  BY <1>9, <1>11 DEF MasksFollow
<1> QED
  BY <1>4, <1>5, <1>12

\* Before the first byte of the body the counter is that of the nonce.
LEMMA MasksStart == \A first, range, size :
  first \in Nat /\ range \in Nat /\ first < range /\ size \in Nat /\ size > 0 =>
    CounterAt(first, range, size, 0) = first
<1> TAKE first, range, size
<1> HAVE first \in Nat /\ range \in Nat /\ first < range /\ size \in Nat /\ size > 0
<1> DEFINE zero == 0
<1>1. zero \in Nat /\ zero = zero * size + zero /\ zero < size /\ first + zero = first
  OBVIOUS
<1>2. first = zero * range + first /\ range > 0
  OBVIOUS
<1> HIDE DEF zero
<1>3. zero \div size = zero /\ zero % size = zero
  BY <1>1, Divided
<1>4. first % range = first
  BY <1>1, <1>2, Divided
<1>5. BlocksBegun(zero, size) = zero
  BY <1>3 DEF BlocksBegun, zero
<1> QED
  BY <1>1, <1>4, <1>5 DEF CounterAt, zero

-----------------------------------------------------------------------------
(* GCM: a counter for each block of the body.                              *)

GcmFrame(f) == f.first \in Nat /\ f.range \in Nat /\ f.range > 0
GcmAt(f, u, base, S, n) ==
    Fed(f, CounterAt(f.first, f.range, BlockSize, n), u, base, S, n,
        MaskedAs(f.first + 1, f.range, BlockSize, n))

\* The same of a context that goes on with the masks m.
FedGoes(c, f, k, u, base, S, n, l, m) ==
    /\ (n % BlockSize) + l < BlockSize => c = Fed(f, k, u, base, S, n + l, m)
    /\ (n % BlockSize) + l = BlockSize => Absorb(c) = Fed(f, k, u, base, S, n + l, m)

\* A piece that stays in the block in hand goes on with the stream.
LEMMA PieceFed == \A f, k, u, base, S, m, cells, n :
  IsSeq(base) /\ n \in Nat /\ Takes(cells, S, n) /\ (n % BlockSize) + Len(cells) <= BlockSize =>
    FedGoes(Mix(Fed(f, k, u, base, S, n, m), n % BlockSize, cells), f, k, u, base, S, n, Len(cells), m)
BY PieceGoes DEF FedGoes

GcmTakes(f, base, cells, S, n) ==
    /\ GcmFrame(f) /\ IsSeq(base) /\ n \in Nat /\ Takes(cells, S, n)
    /\ (n % BlockSize) + Len(cells) <= BlockSize

\* What is done with a piece leads to c, and a full block is absorbed.
GcmGoes(c, f, u, base, S, n, l) ==
    /\ (n % BlockSize) + l < BlockSize => c = GcmAt(f, u, base, S, n + l)
    /\ (n % BlockSize) + l = BlockSize => Absorb(c) = GcmAt(f, u, base, S, n + l)

\* GCM masks with a block of the keystream for each block of the body.
LEMMA GcmMasks == \A f, base, cells, S, n : GcmTakes(f, base, cells, S, n) =>
  Masking(f.first, f.range, BlockSize, n, Len(cells))
<1> TAKE f, base, cells, S, n
<1> HAVE GcmTakes(f, base, cells, S, n)
<1>1. Len(cells) \in Nat /\ BlockSize \in Nat /\ BlockSize > 0
  BY SizeOfBlock DEF GcmTakes, Takes, IsSeq
<1> QED
  BY <1>1 DEF GcmTakes, GcmFrame, Masking

\* gcm_mask() in the middle of a block.
LEMMA GcmPieceOn == \A f, u, base, cells, S, n :
  GcmTakes(f, base, cells, S, n) /\ n % BlockSize # 0 =>
    GcmGoes(gcm_mask(GcmAt(f, u, base, S, n), n % BlockSize, cells), f, u, base, S, n, Len(cells))
<1> TAKE f, u, base, cells, S, n
<1> HAVE GcmTakes(f, base, cells, S, n) /\ n % BlockSize # 0
<1> DEFINE l == Len(cells)
           o == n % BlockSize
           k == CounterAt(f.first, f.range, BlockSize, n)
           m == MaskedAs(f.first + 1, f.range, BlockSize, n)
           more == MaskedAs(f.first + 1, f.range, BlockSize, n + l)
           c == GcmAt(f, u, base, S, n)
           mixed == Mix(Fed(f, k, u, base, S, n, more), o, cells)
           then == Fed(f, k, u, base, S, n + l, more)
<1>1. m \o MaskRun(k, o, l) = more /\ CounterAt(f.first, f.range, BlockSize, n + l) = k
  <2>1. MasksFollow(f.first, f.range, BlockSize, n, l, k, o)
    BY GcmMasks, MasksGoOn
  <2> QED
    BY <2>1 DEF MasksFollow
<1>2. Mask(c, o, l) = Fed(f, k, u, base, S, n, m \o MaskRun(k, o, l))
  BY FedBut DEF GcmAt
<1>3. gcm_mask(c, o, cells) = mixed
  BY <1>1, <1>2 DEF gcm_mask
<1>4. /\ o + l < BlockSize => mixed = then
      /\ o + l = BlockSize => Absorb(mixed) = then
  <2>1. IsSeq(base) /\ n \in Nat /\ Takes(cells, S, n) /\ (n % BlockSize) + Len(cells) <= BlockSize
    BY DEF GcmTakes
  <2> HIDE DEF k, more
  <2>2. FedGoes(mixed, f, k, u, base, S, n, Len(cells), more)
    BY <2>1, PieceFed
  <2> HIDE DEF mixed
  <2> QED
    BY <2>2 DEF FedGoes
<1>5. then = GcmAt(f, u, base, S, n + l)
  BY <1>1 DEF GcmAt
<1> HIDE DEF then, mixed, c
<1>6. GcmGoes(mixed, f, u, base, S, n, l)
  BY <1>4, <1>5 DEF GcmGoes
<1> QED
  BY <1>3, <1>6 DEF c

\* gcm_incr() and gcm_mask() at the start of a block.
LEMMA GcmPieceBegins == \A f, u, base, cells, S, n :
  GcmTakes(f, base, cells, S, n) /\ n % BlockSize = 0 /\ Len(cells) > 0 =>
    GcmGoes(gcm_mask(Increment(GcmAt(f, u, base, S, n)), 0, cells), f, u, base, S, n, Len(cells))
<1> TAKE f, u, base, cells, S, n
<1> HAVE GcmTakes(f, base, cells, S, n) /\ n % BlockSize = 0 /\ Len(cells) > 0
<1> DEFINE l == Len(cells)
           o == n % BlockSize
           k == (CounterAt(f.first, f.range, BlockSize, n) + 1) % f.range
           m == MaskedAs(f.first + 1, f.range, BlockSize, n)
           more == MaskedAs(f.first + 1, f.range, BlockSize, n + l)
           c == Increment(GcmAt(f, u, base, S, n))
           mixed == Mix(Fed(f, k, u, base, S, n, more), o, cells)
           then == Fed(f, k, u, base, S, n + l, more)
<1>1. m \o MaskRun(k, 0, l) = more /\ CounterAt(f.first, f.range, BlockSize, n + l) = k
  <2>1. MasksFollow(f.first, f.range, BlockSize, n, l, k, 0)
    BY GcmMasks, MasksBegin
  <2> QED
    BY <2>1 DEF MasksFollow
<1>2. c = Fed(f, k, u, base, S, n, m)
  BY FedBut DEF GcmAt
<1>3. Mask(Fed(f, k, u, base, S, n, m), 0, l) = Fed(f, k, u, base, S, n, m \o MaskRun(k, 0, l))
  BY FedBut
<1>4. gcm_mask(c, 0, cells) = mixed
  <2>1. o = 0
    OBVIOUS
  <2> HIDE DEF c, o, k, m, more
  <2> QED
    BY <1>1, <1>2, <1>3, <2>1 DEF gcm_mask
<1>5. /\ o + l < BlockSize => mixed = then
      /\ o + l = BlockSize => Absorb(mixed) = then
  <2>1. IsSeq(base) /\ n \in Nat /\ Takes(cells, S, n) /\ (n % BlockSize) + Len(cells) <= BlockSize
    BY DEF GcmTakes
  <2> HIDE DEF k, more
  <2>2. FedGoes(mixed, f, k, u, base, S, n, Len(cells), more)
    BY <2>1, PieceFed
  <2> HIDE DEF mixed
  <2> QED
    BY <2>2 DEF FedGoes
<1>6. then = GcmAt(f, u, base, S, n + l)
  BY <1>1 DEF GcmAt
<1> HIDE DEF then, mixed, c
<1>7. GcmGoes(mixed, f, u, base, S, n, l)
  BY <1>5, <1>6 DEF GcmGoes
<1> QED
  BY <1>4, <1>7 DEF c

\* gcm_mask() of nothing.
LEMMA GcmNoPiece == \A f, u, base, S, n : GcmFrame(f) /\ IsSeq(base) /\ n \in Nat =>
  gcm_mask(GcmAt(f, u, base, S, n), n % BlockSize, <<>>) = GcmAt(f, u, base, S, n)
<1> TAKE f, u, base, S, n
<1> HAVE GcmFrame(f) /\ IsSeq(base) /\ n \in Nat
<1> DEFINE o == n % BlockSize
           k == CounterAt(f.first, f.range, BlockSize, n)
           m == MaskedAs(f.first + 1, f.range, BlockSize, n)
           run == MaskRun(k, o, 0)
           none == <<>>
           c == Fed(f, k, u, base, S, n, m)
<1>1. IsSeq(run) /\ Len(run) = 0
  BY RunIs
<1>2. run = <<>>
  BY <1>1, NoCells
<1>3. IsSeq(m)
  BY MasksAre
<1> HIDE DEF run, m, k
<1>4. Mask(c, o, 0) = c
  <2>1. m \o run = m
    BY <1>2, <1>3, JoinedNone
  <2>2. Mask(c, o, 0) = Fed(f, k, u, base, S, n, m \o run)
    BY FedBut DEF run
  <2> QED
    BY <2>1, <2>2
<1>5. Mix(c, o, none) = c
  <2>1. o \in Nat /\ o < BlockSize /\ o + 0 = o /\ n + 0 = n
    BY SizeOfBlock, Divides
  <2>2. Takes(none, S, n) /\ Len(none) = 0
    BY NoneTakes, NoCells
  <2> HIDE DEF none
  <2>3. o + Len(none) < BlockSize /\ n + Len(none) = n
    BY <2>1, <2>2
  <2>4. (n % BlockSize) + Len(none) < BlockSize /\ (n % BlockSize) + Len(none) <= BlockSize
    <3>1. o + Len(none) = o
      BY <2>1, <2>2
    <3> HIDE DEF o
    <3>2. o + Len(none) < BlockSize /\ o + Len(none) <= BlockSize
      BY <2>1, <3>1, SizeOfBlock
    <3> QED
      BY <3>2 DEF o
  <2>5. Mix(c, n % BlockSize, none) = Fed(f, k, u, base, S, n + Len(none), m)
    BY <2>2, <2>4, PieceGoes
  <2> QED
    BY <2>3, <2>5
<1>6. Len(none) = 0
  BY NoCells
<1>7. c = GcmAt(f, u, base, S, n)
  BY DEF GcmAt, k, m
<1> HIDE DEF c, none, o
<1>8. gcm_mask(c, o, none) = c
  BY <1>4, <1>5, <1>6 DEF gcm_mask
<1> QED
  BY <1>7, <1>8 DEF none, o

\* Where the blocks start.
LEMMA BlockStarts == \A q \in Nat : q * BlockSize \in Nat /\ (q * BlockSize) % BlockSize = 0
                                    /\ (q * BlockSize) \div BlockSize = q
<1> TAKE q \in Nat
<1> DEFINE n == q * BlockSize
           zero == 0
<1>1. n \in Nat /\ zero \in Nat /\ zero < BlockSize /\ n = q * BlockSize + zero
  BY SizeOfBlock
<1>2. BlockSize \in Nat /\ BlockSize > 0
  BY SizeOfBlock
<1> HIDE DEF n, zero
<1>3. n \div BlockSize = q /\ n % BlockSize = zero
  BY <1>1, <1>2, Divided
<1> QED
  BY <1>1, <1>3 DEF n, zero

GcmStarts(f, base) == GcmFrame(f) /\ IsSeq(base)

\* One turn of the loop of mbedtls_gcm_update().
LEMMA GcmBlockGoes == \A f, u, base, S, cells, i :
  GcmStarts(f, base) /\ i \in Nat /\ TakesBlock(cells, S, i) =>
    Absorb(gcm_mask(Increment(GcmAt(f, u, base, S, i * BlockSize)), 0, cells))
      = GcmAt(f, u, base, S, (i + 1) * BlockSize)
<1> TAKE f, u, base, S, cells, i
<1> HAVE GcmStarts(f, base) /\ i \in Nat /\ TakesBlock(cells, S, i)
<1> DEFINE n == i * BlockSize
           x == (i + 1) * BlockSize
           l == Len(cells)
           c == gcm_mask(Increment(GcmAt(f, u, base, S, n)), 0, cells)
<1>1. n \in Nat /\ n % BlockSize = 0 /\ x = n + BlockSize
  BY BlockStarts, SizeOfBlock
<1>2. Takes(cells, S, n) /\ l = BlockSize
  BY DEF TakesBlock
<1> HIDE DEF n, x
<1>3. (n % BlockSize) + Len(cells) <= BlockSize /\ (n % BlockSize) + l = BlockSize /\ Len(cells) > 0
  BY <1>1, <1>2, SizeOfBlock
<1>4. GcmTakes(f, base, cells, S, n)
  BY <1>1, <1>2, <1>3 DEF GcmTakes, GcmStarts
<1>5. GcmGoes(c, f, u, base, S, n, l)
  BY <1>1, <1>3, <1>4, GcmPieceBegins
<1> HIDE DEF c, l
<1>6. Absorb(c) = GcmAt(f, u, base, S, n + l)
  BY <1>3, <1>5 DEF GcmGoes
<1>7. n + l = x
  BY <1>1, <1>2 DEF l
<1> QED
  BY <1>6, <1>7 DEF c, n, x

\* The loop of mbedtls_gcm_update() over whole blocks.
LEMMA GcmBlocksGo == \A f, u, base, S, blocks, q :
  GcmStarts(f, base) /\ q \in Nat /\ TakesBlocks(blocks, S, q) =>
    GcmBlocks(GcmAt(f, u, base, S, q * BlockSize), blocks)
      = GcmAt(f, u, base, S, (q + Len(blocks)) * BlockSize)
<1> TAKE f, u, base, S, blocks, q
<1> HAVE GcmStarts(f, base) /\ q \in Nat /\ TakesBlocks(blocks, S, q)
<1> DEFINE n == Len(blocks)
           at(j) == GcmAt(f, u, base, S, (q + j) * BlockSize)
           next(c, j) == Absorb(gcm_mask(Increment(c), 0, blocks[j]))
           first == GcmAt(f, u, base, S, q * BlockSize)
           body(h) == [j \in 0 .. n |-> IF j = 0 THEN first ELSE next(h[j - 1], j)]
           g == [j \in 0 .. n |-> at(j)]
<1>1. n \in Nat
  BY DEF TakesBlocks, IsSeq
<1>2. ASSUME NEW j \in 1 .. n PROVE next(at(j - 1), j) = at(j)
  <2> DEFINE i == q + j - 1
             cells == blocks[j]
  <2>1. i \in Nat /\ q + (j - 1) = i /\ q + j = i + 1
    BY <1>1
  <2>2. TakesBlock(cells, S, i)
    BY DEF TakesBlocks
  <2> HIDE DEF i, cells
  <2>3. Absorb(gcm_mask(Increment(GcmAt(f, u, base, S, i * BlockSize)), 0, cells))
          = GcmAt(f, u, base, S, (i + 1) * BlockSize)
    BY <2>1, <2>2, GcmBlockGoes
  <2> USE DEF cells
  <2> QED
    BY <2>1, <2>3
<1>3. at(0) = first
  <2>1. q + 0 = q
    OBVIOUS
  <2> QED
    BY <2>1
<1> HIDE DEF at, next
<1>4. g[0] = first /\ \A j \in 1 .. n : g[j] = next(g[j - 1], j)
  <2>1. 0 \in 0 .. n /\ \A j \in 1 .. n : j \in 0 .. n /\ j - 1 \in 0 .. n
    BY <1>1
  <2> QED
    BY <1>2, <1>3, <2>1
<1>5. g = body(g)
  <2>1. ASSUME NEW j \in 0 .. n PROVE g[j] = IF j = 0 THEN first ELSE next(g[j - 1], j)
    <3>1. j = 0 \/ j \in 1 .. n
      BY <1>1
    <3> QED
      BY <1>4, <3>1
  <2>2. g = [j \in 0 .. n |-> g[j]]
    OBVIOUS
  <2> HIDE DEF g
  <2> QED
    BY <2>1, <2>2
<1> DEFINE l == CHOOSE h : h = body(h)
<1>6. l = body(l)
  BY <1>5
<1>7. GcmBlocks(first, blocks) = l[n]
  BY DEF GcmBlocks, next
<1> HIDE DEF l, first
<1>8. l[0] = first /\ \A j \in 1 .. n : l[j] = next(l[j - 1], j)
  <2>1. \A j \in 0 .. n : l[j] = IF j = 0 THEN first ELSE next(l[j - 1], j)
    BY <1>6
  <2>2. 0 \in 0 .. n /\ \A j \in 1 .. n : j \in 0 .. n /\ j # 0
    BY <1>1
  <2> HIDE DEF body
  <2> QED
    BY <2>1, <2>2
<1> HIDE DEF body, g
<1>9. l[n] = g[n]
  <2>1. \A j \in 1 .. n : l[j - 1] = g[j - 1] => l[j] = g[j]
    BY <1>4, <1>8
  <2>2. l[0] = g[0] /\ n \in 0 .. n
    BY <1>1, <1>4, <1>8
  <2> HIDE DEF n
  <2> QED
    BY <1>1, <2>1, <2>2, SameLoop
<1>10. g[n] = at(n)
  <2>1. n \in 0 .. n
    BY <1>1
  <2> QED
    BY <2>1 DEF g
<1> QED
  BY <1>7, <1>9, <1>10 DEF first, at

\* What is left after the whole blocks.
GcmTail(c, tail) ==
    LET done == GcmBlocks(c, Whole(tail, BlockSize))
        rest == Rest(tail, BlockSize)
    IN  IF rest = <<>> THEN done ELSE gcm_mask(Increment(done), 0, rest)

\* The loop, and a last block that may be short.
LEMMA GcmTailGoes == \A f, u, base, S, tail, n :
  GcmStarts(f, base) /\ n \in Nat /\ n % BlockSize = 0 /\ Takes(tail, S, n) =>
    GcmTail(GcmAt(f, u, base, S, n), tail) = GcmAt(f, u, base, S, n + Len(tail))
<1> TAKE f, u, base, S, tail, n
<1> HAVE GcmStarts(f, base) /\ n \in Nat /\ n % BlockSize = 0 /\ Takes(tail, S, n)
<1> DEFINE l == Len(tail)
           w == l \div BlockSize
           r == l % BlockSize
           q == n \div BlockSize
           e == q + w
           x == e * BlockSize
           whole == Whole(tail, BlockSize)
           rest == Rest(tail, BlockSize)
           c == GcmAt(f, u, base, S, n)
           done == GcmBlocks(c, whole)
           d == GcmAt(f, u, base, S, x)
<1>1. l \in Nat
  BY DEF Takes, IsSeq
<1>2. w \in Nat /\ r \in Nat /\ r < BlockSize /\ l = w * BlockSize + r
  <2> HIDE DEF l
  <2> QED
    BY <1>1, SizeOfBlock, Divides
<1>3. q \in Nat /\ n = q * BlockSize
  BY SizeOfBlock, Divides
<1>4. TakesBlocks(whole, S, q) /\ Len(whole) = w
  <2>1. Takes(tail, S, q * BlockSize)
    BY <1>3
  <2> HIDE DEF q
  <2> QED
    BY <1>3, <2>1, WholeTakes
<1>5. Takes(rest, S, x) /\ Len(rest) = r
  <2>1. Takes(tail, S, q * BlockSize)
    BY <1>3
  <2> HIDE DEF q
  <2> QED
    BY <1>3, <2>1, RestTakes
<1> HIDE DEF w, r, q
<1>6. e \in Nat /\ x \in Nat /\ x % BlockSize = 0 /\ x + r = n + l
  <2>1. e \in Nat
    BY <1>2, <1>3
  <2>2. x = q * BlockSize + w * BlockSize
    BY <1>2, <1>3, SizeOfBlock
  <2>3. w * BlockSize \in Nat /\ q * BlockSize \in Nat
    BY <1>2, <1>3, SizeOfBlock
  <2> HIDE DEF x, e, l
  <2>4. x + r = n + l
    BY <1>2, <1>3, <2>2, <2>3
  <2> QED
    BY <2>1, <2>4, BlockStarts DEF x
<1> HIDE DEF whole
<1>7. done = d
  <2>1. GcmBlocks(GcmAt(f, u, base, S, q * BlockSize), whole)
          = GcmAt(f, u, base, S, (q + Len(whole)) * BlockSize)
    BY <1>3, <1>4, GcmBlocksGo
  <2> QED
    BY <1>3, <1>4, <2>1
<1>8. GcmTail(c, tail) = IF rest = <<>> THEN done ELSE gcm_mask(Increment(done), 0, rest)
  BY DEF GcmTail, whole
<1> HIDE DEF done, c, rest, e, x
<1>9. CASE rest = <<>>
  <2>1. r = 0
    BY <1>5, <1>9, NoCells
  <2>2. x = n + l
    BY <1>6, <2>1
  <2> QED
    BY <1>7, <1>8, <1>9, <2>2 DEF c
<1>10. CASE rest # <<>>
  <2>1. IsSeq(rest)
    BY <1>5 DEF Takes
  <2>2. r # 0
    BY <1>5, <1>10, <2>1, NoCells
  <2>3. /\ (x % BlockSize) + Len(rest) <= BlockSize /\ Len(rest) > 0
        /\ (x % BlockSize) + r < BlockSize
    BY <1>2, <1>5, <1>6, <2>2, SizeOfBlock
  <2>4. GcmTakes(f, base, rest, S, x)
    BY <1>5, <1>6, <2>3 DEF GcmTakes, GcmStarts
  <2> DEFINE y == gcm_mask(Increment(d), 0, rest)
  <2>5. GcmGoes(y, f, u, base, S, x, r)
    BY <1>5, <1>6, <2>3, <2>4, GcmPieceBegins
  <2> HIDE DEF y, d
  <2>6. y = GcmAt(f, u, base, S, x + r)
    BY <2>3, <2>5 DEF GcmGoes
  <2> QED
    BY <1>6, <1>7, <1>8, <1>10, <2>6 DEF c, y
<1> QED
  BY <1>9, <1>10 DEF c

\* The cells of one call, the first of which complete the block in hand.
GcmText(c, offset, cells) ==
    LET head == HeadSize(offset, Len(cells))
        topped == gcm_mask(c, offset, SubSeq(cells, 1, head))
        filled == IF offset + head = BlockSize THEN Absorb(topped) ELSE topped
    IN  GcmTail(filled, After(cells, head))

\* All that mbedtls_gcm_update() does with its data.
LEMMA GcmTextGoes == \A f, u, base, S, cells, n :
  GcmStarts(f, base) /\ n \in Nat /\ Takes(cells, S, n) =>
    GcmText(GcmAt(f, u, base, S, n), n % BlockSize, cells) = GcmAt(f, u, base, S, n + Len(cells))
<1> TAKE f, u, base, S, cells, n
<1> HAVE GcmStarts(f, base) /\ n \in Nat /\ Takes(cells, S, n)
<1> DEFINE l == Len(cells)
           r == n % BlockSize
           head == HeadSize(r, l)
           h == n + head
           x == n + l
           in == SubSeq(cells, 1, head)
           tail == After(cells, head)
           c == GcmAt(f, u, base, S, n)
           topped == gcm_mask(c, r, in)
           filled == IF r + head = BlockSize THEN Absorb(topped) ELSE topped
           middle == GcmAt(f, u, base, S, h)
<1>1. l \in Nat
  BY DEF Takes, IsSeq
<1>2. r \in Nat /\ r < BlockSize
  BY SizeOfBlock, Divides
<1>3. GcmText(c, r, cells) = GcmTail(filled, tail)
  BY DEF GcmText
<1>4. /\ head \in Nat /\ head <= l /\ r + head <= BlockSize
      /\ r + head < BlockSize => head = l \/ r = 0
      /\ r = 0 => head = 0
  <2> HIDE DEF l, r
  <2> QED
    BY <1>1, <1>2, HeadIs
<1> HIDE DEF head
<1>5. /\ Takes(in, S, n) /\ Len(in) = head
      /\ Takes(tail, S, h) /\ Len(tail) = l - head
  <2>1. l = Len(cells)
    OBVIOUS
  <2> HIDE DEF l
  <2>2. TakesHead(cells, S, n, head, l)
    BY <1>1, <1>4, <2>1, HeadTakes
  <2> QED
    BY <2>2 DEF TakesHead
<1>6. h \in Nat /\ x = h + (l - head)
  <2> HIDE DEF l
  <2> QED
    BY <1>1, <1>4
<1>7. filled = middle
  <2>1. CASE r = 0
    <3>1. head = 0 /\ h = n /\ r + head # BlockSize
      BY <1>2, <1>4, <2>1, SizeOfBlock
    <3>2. in = <<>>
      <4>1. IsSeq(in)
        BY <1>5 DEF Takes
      <4> QED
        BY <1>5, <3>1, <4>1, NoCells
    <3>3. gcm_mask(c, r, <<>>) = c
      BY GcmNoPiece DEF GcmStarts
    <3> HIDE DEF c, in, r, h
    <3> QED
      BY <3>1, <3>2, <3>3 DEF c
  <2>2. CASE r # 0
    <3>1. GcmTakes(f, base, in, S, n)
      <4>1. (n % BlockSize) + Len(in) <= BlockSize
        <5> HIDE DEF in
        <5>1. r + Len(in) <= BlockSize
          BY <1>4, <1>5
        <5> QED
          BY <5>1
      <4> QED
        BY <1>5, <4>1 DEF GcmTakes, GcmStarts
    <3>2. GcmGoes(topped, f, u, base, S, n, Len(in))
      BY <2>2, <3>1, GcmPieceOn
    <3> HIDE DEF topped, in
    <3>3. /\ (n % BlockSize) + head < BlockSize => topped = middle
          /\ (n % BlockSize) + head = BlockSize => Absorb(topped) = middle
      BY <1>5, <3>2 DEF GcmGoes
    <3> HIDE DEF middle
    <3>4. /\ r + head < BlockSize => topped = middle
          /\ r + head = BlockSize => Absorb(topped) = middle
      BY <3>3
    <3> HIDE DEF r
    <3> QED
      BY <1>2, <1>4, <3>4, SizeOfBlock
  <2> QED
    BY <2>1, <2>2
<1>8. CASE h % BlockSize = 0
  <2> HIDE DEF h, tail, filled, x
  <2>1. GcmTail(middle, tail) = GcmAt(f, u, base, S, h + Len(tail))
    BY <1>5, <1>6, <1>8, GcmTailGoes
  <2> QED
    BY <1>3, <1>5, <1>6, <1>7, <2>1 DEF c, x, r
<1>9. CASE head = l
  <2>1. tail = <<>>
    <3>1. IsSeq(tail)
      BY <1>5 DEF Takes
    <3>2. Len(tail) = 0
      <4> HIDE DEF tail, l
      <4> QED
        BY <1>1, <1>5, <1>9
    <3> QED
      BY <3>1, <3>2, NoCells
  <2>2. GcmTail(middle, <<>>) = middle
    <3>1. Whole(<<>>, BlockSize) = <<>> /\ Rest(<<>>, BlockSize) = <<>>
      BY NoTail
    <3> HIDE DEF middle
    <3>2. GcmBlocks(middle, <<>>) = middle
      <4> DEFINE body(g) == [j \in 0 .. 0 |-> IF j = 0 THEN middle
                               ELSE Absorb(gcm_mask(Increment(g[j - 1]), 0, <<>>[j]))]
                 g == [j \in 0 .. 0 |-> middle]
                 e == CHOOSE y : y = body(y)
      <4>1. g = body(g)
        OBVIOUS
      <4>2. e = body(e)
        BY <4>1
      <4>3. Len(<<>>) = 0
        BY NoCells
      <4>4. GcmBlocks(middle, <<>>) = e[0]
        BY <4>3 DEF GcmBlocks
      <4> HIDE DEF e
      <4>5. e[0] = middle
        BY <4>2
      <4> QED
        BY <4>4, <4>5
    <3> QED
      BY <3>1, <3>2 DEF GcmTail
  <2>3. h = x
    BY <1>9
  <2> HIDE DEF h, tail, filled, x
  <2> QED
    BY <1>3, <1>7, <2>1, <2>2, <2>3 DEF c, x, r
<1>10. h % BlockSize = 0 \/ head = l
  <2>1. BlockSize \in Nat /\ BlockSize > 0
    BY SizeOfBlock
  <2>2. CASE r = 0
    BY <1>4, <2>2
  <2>3. CASE r # 0 /\ head # l
    <3>1. r + head = BlockSize
      <4> HIDE DEF l, r
      <4> QED
        BY <1>1, <1>2, <1>4, <2>3, SizeOfBlock
    <3> HIDE DEF l
    <3>2. (n % BlockSize) + head <= BlockSize /\ (n % BlockSize) + head = BlockSize
      BY <1>4, <3>1
    <3>3. n \in Nat /\ head \in Nat
      BY <1>4
    <3> HIDE DEF r
    <3>4. (n + head) % BlockSize = 0
      BY <2>1, <3>2, <3>3, Goes
    <3> QED
      BY <3>4
  <2> QED
    BY <2>2, <2>3
<1> QED
  BY <1>8, <1>9, <1>10

-----------------------------------------------------------------------------
(* The additional data and the body.                                       *)

AdStream == [i \in Nat |-> <<"ad", i, 0>>]
BodyStream == [i \in Nat |-> <<"body", i, 0>>]

\* The cells of a chunk of the additional data.
LEMMA AdTakes == \A a, n : a \in Nat /\ n \in Nat =>
  Takes(AdCells(a, n), AdStream, a) /\ Len(AdCells(a, n)) = n
<1> TAKE a, n
<1> HAVE a \in Nat /\ n \in Nat
<1> DEFINE s == AdCells(a, n)
<1>1. DOMAIN s = 1 .. n /\ s = [i \in DOMAIN s |-> s[i]] /\ \A i \in 1 .. n : s[i] = <<"ad", a + i, 0>>
  BY DEF AdCells
<1> HIDE DEF s
<1>2. IsSeq(s) /\ Len(s) = n
  BY <1>1, SeqBy
<1>3. \A i \in 1 .. n : a + i \in Nat
  OBVIOUS
<1>4. \A i \in 1 .. n : AdStream[a + i] = <<"ad", a + i, 0>>
  BY <1>3 DEF AdStream
<1> QED
  BY <1>1, <1>2, <1>4 DEF Takes, s

\* The cells of a chunk of the body.
LEMMA BodyTakes == \A a, n : a \in Nat /\ n \in Nat =>
  Takes(BodyCells(a, n), BodyStream, a) /\ Len(BodyCells(a, n)) = n
<1> TAKE a, n
<1> HAVE a \in Nat /\ n \in Nat
<1> DEFINE s == BodyCells(a, n)
<1>1. DOMAIN s = 1 .. n /\ s = [i \in DOMAIN s |-> s[i]] /\ \A i \in 1 .. n : s[i] = <<"body", a + i, 0>>
  BY DEF BodyCells
<1> HIDE DEF s
<1>2. IsSeq(s) /\ Len(s) = n
  BY <1>1, SeqBy
<1>3. \A i \in 1 .. n : a + i \in Nat
  OBVIOUS
<1>4. \A i \in 1 .. n : BodyStream[a + i] = <<"body", a + i, 0>>
  BY <1>3 DEF BodyStream
<1> QED
  BY <1>1, <1>2, <1>4 DEF Takes, s

\* The lengths fill one block.
LEMMA LengthsAre == \A a, b : IsSeq(Lengths(a, b)) /\ Len(Lengths(a, b)) = BlockSize
<1> TAKE a, b
<1> DEFINE s == Lengths(a, b)
<1>1. DOMAIN s = 1 .. BlockSize /\ s = [i \in DOMAIN s |-> s[i]]
  BY DEF Lengths
<1> HIDE DEF s
<1> QED
  BY <1>1, SeqBy, SizeOfBlock DEF s

\* Cells are a stream of their own.
LEMMA TakesItself == \A cells : IsSeq(cells) => Takes(cells, cells, 0)
<1> TAKE cells
<1> HAVE IsSeq(cells)
<1> DEFINE n == Len(cells)
<1>1. n \in Nat
  BY DEF IsSeq
<1> HIDE DEF n
<1>2. \A i \in 1 .. n : 0 + i = i
  BY <1>1
<1> QED
  BY <1>2 DEF Takes, n

\* Nothing, and a block, divided by the size of a block.
LEMMA NoRemainder == 0 % BlockSize = 0 /\ BlockSize % BlockSize = 0 /\ 0 \div BlockSize = 0
<1> DEFINE zero == 0
           one == 1
<1>1. /\ zero \in Nat /\ one \in Nat /\ zero < BlockSize /\ zero = zero * BlockSize + zero
      /\ BlockSize = one * BlockSize + zero /\ BlockSize \in Nat /\ BlockSize > 0
  BY SizeOfBlock
<1> HIDE DEF zero, one
<1>2. zero % BlockSize = zero /\ zero \div BlockSize = zero
  BY <1>1, Divided
<1>3. BlockSize % BlockSize = zero
  BY <1>1, Divided
<1> QED
  BY <1>2, <1>3 DEF zero

\* One whole block after the others, at once or as any cells.
IsBlock(cells) == IsSeq(cells) /\ Len(cells) = BlockSize

\* One whole block on top of closed blocks.
LEMMA BlockCloses == \A f, k, u, base, m, cells : IsSeq(base) /\ IsBlock(cells) =>
    LET c == Ctx(f, k, u, base, <<>>, m)
        closed == Ctx(f, k, u, base \o Chop(cells), <<>>, m)
    IN  /\ Absorb(Mix(c, 0, cells)) = closed
        /\ AbsorbCells(c, 0, cells) = closed
        /\ IsSeq(base \o Chop(cells))
<1> TAKE f, k, u, base, m, cells
<1> HAVE IsSeq(base) /\ IsBlock(cells)
<1>0. IsSeq(cells) /\ Len(cells) = BlockSize
  BY DEF IsBlock
<1> DEFINE c == Ctx(f, k, u, base, <<>>, m)
           closed == Ctx(f, k, u, base \o Chop(cells), <<>>, m)
           begun == Fed(f, k, u, base, cells, 0, m)
           then == Fed(f, k, u, base, cells, BlockSize, m)
           zero == 0
<1>1. Takes(cells, cells, 0) /\ BlockSize \in Nat
  BY <1>0, TakesItself, SizeOfBlock
<1>2. begun = c
  BY FedNone
<1>3. Chop(cells) = InBlocks(cells, BlockSize)
  BY <1>0, <1>1, ChopAll
<1>4. then = closed /\ IsSeq(base \o Chop(cells))
  <2>1. BlockSize % BlockSize = 0
    BY NoRemainder
  <2> DEFINE n == BlockSize
  <2>2. n \in Nat /\ n % BlockSize = 0
    BY <1>1, <2>1
  <2> HIDE DEF n
  <2>3. /\ Fed(f, k, u, base, cells, n, m) = Ctx(f, k, u, base \o InBlocks(cells, n), <<>>, m)
        /\ IsSeq(base \o InBlocks(cells, n))
    BY <2>2, FedCloses
  <2> QED
    BY <1>3, <2>3 DEF n
<1>5. zero \in Nat /\ zero % BlockSize = zero /\ zero + Len(cells) = BlockSize
  BY <1>0, NoRemainder, SizeOfBlock
<1>6. (zero % BlockSize) + Len(cells) = BlockSize /\ (zero % BlockSize) + Len(cells) <= BlockSize
  <2>1. (zero % BlockSize) + Len(cells) = BlockSize
    BY <1>5
  <2> HIDE DEF zero
  <2> QED
    BY <1>1, <2>1
<1> DEFINE mixed == Mix(Fed(f, k, u, base, cells, zero, m), zero % BlockSize, cells)
<1>7. Takes(cells, cells, zero)
  BY <1>1
<1>8. begun = Fed(f, k, u, base, cells, zero, m)
  OBVIOUS
<1> HIDE DEF zero
<1>9. AbsorbCells(Fed(f, k, u, base, cells, zero, m), zero % BlockSize, cells)
        = Fed(f, k, u, base, cells, zero + Len(cells), m)
  BY <1>5, <1>7, CellsGo
<1>10. FedGoes(mixed, f, k, u, base, cells, zero, Len(cells), m)
  BY <1>5, <1>6, <1>7, PieceFed
<1> HIDE DEF mixed
<1>11. Absorb(mixed) = Fed(f, k, u, base, cells, zero + Len(cells), m)
  BY <1>6, <1>10 DEF FedGoes
<1>12. Absorb(mixed) = then
  BY <1>5, <1>11
<1>13. AbsorbCells(begun, zero, cells) = then
  BY <1>5, <1>8, <1>9
<1>14. mixed = Mix(c, zero, cells)
  BY <1>2, <1>5, <1>8 DEF mixed
<1> QED
  BY <1>2, <1>4, <1>12, <1>13, <1>14 DEF zero
WithBlock(c, cells) == Absorb(Mix(c, 0, cells))

\* The block of the lengths, at the end of a message.
LEMMA BlockAbsorbed == \A f, k, u, base, m, cells : IsSeq(base) /\ IsBlock(cells) =>
  WithBlock(Ctx(f, k, u, base, <<>>, m), cells) = Ctx(f, k, u, base \o Chop(cells), <<>>, m)
BY BlockCloses DEF WithBlock

-----------------------------------------------------------------------------
(* GCM after a bytes of additional data and b bytes of the body.           *)

GcmFrameOf(j0, a, b) == Frame({}, a, 0, b, 0, CounterRange, j0)
GcmAdded(j0, a) == Fed(GcmFrameOf(j0, a, 0), j0, 0, <<>>, AdStream, a, <<>>)
GcmBodied(j0, a, b) ==
    GcmAt(GcmFrameOf(j0, a, b), 0, InBlocks(AdStream, a), BodyStream, b)
GcmCtx(j0, a, b) == IF b = 0 THEN GcmAdded(j0, a) ELSE GcmBodied(j0, a, b)
IsJ0(j0) == j0 \in 0 .. CounterRange - 1

\* A counter has more than one value.
LEMMA RangeOfCounter == CounterRange \in Nat /\ CounterRange > 1
BY AeadEnginesAssumption

\* The fields of the context of GCM.
LEMMA GcmFrames == \A j0, a, b : LET f == GcmFrameOf(j0, a, b) IN
  /\ f.flags = {} /\ f.add_len = a /\ f.total = 0 /\ f.len = b /\ f.processed = 0
  /\ f.range = CounterRange /\ f.first = j0
BY FrameHas DEF GcmFrameOf

\* The additional data in blocks.
LEMMA AdBlocks == \A a : a \in Nat => IsSeq(InBlocks(AdStream, a)) /\ InBlocks(AdStream, a) = Chop(AdCells(0, a))
                                      /\ <<>> \o InBlocks(AdStream, a) = InBlocks(AdStream, a)
<1> TAKE a
<1> HAVE a \in Nat
<1>1. Takes(AdCells(0, a), AdStream, 0) /\ Len(AdCells(0, a)) = a
  BY AdTakes
<1>2. Chop(AdCells(0, a)) = InBlocks(AdStream, a) /\ IsSeq(Chop(AdCells(0, a)))
  BY <1>1, ChopAll
<1> QED
  BY <1>2, JoinedNone

\* The body in blocks.
LEMMA BodyBlocks == \A b : b \in Nat => IsSeq(InBlocks(BodyStream, b)) /\ InBlocks(BodyStream, b) = Chop(BodyCells(0, b))
<1> TAKE b
<1> HAVE b \in Nat
<1>1. Takes(BodyCells(0, b), BodyStream, 0) /\ Len(BodyCells(0, b)) = b
  BY BodyTakes
<1>2. Chop(BodyCells(0, b)) = InBlocks(BodyStream, b) /\ IsSeq(Chop(BodyCells(0, b)))
  BY <1>1, ChopAll
<1> QED
  BY <1>2

\* The context of GCM when the body begins: the additional data are padded.
LEMMA GcmBegins == \A j0, a : IsJ0(j0) /\ a \in Nat =>
  GcmBodied(j0, a, 0) = Ctx(GcmFrameOf(j0, a, 0), j0, 0, InBlocks(AdStream, a), <<>>, <<>>)
<1> TAKE j0, a
<1> HAVE IsJ0(j0) /\ a \in Nat
<1> DEFINE f == GcmFrameOf(j0, a, 0)
           base == InBlocks(AdStream, a)
           k == CounterAt(f.first, f.range, BlockSize, 0)
           m == MaskedAs(f.first + 1, f.range, BlockSize, 0)
<1>1. f.range = CounterRange /\ f.first = j0
  BY GcmFrames
<1>2. k = j0
  <2>1. j0 \in Nat /\ CounterRange \in Nat /\ j0 < CounterRange /\ BlockSize \in Nat /\ BlockSize > 0
    BY RangeOfCounter, SizeOfBlock DEF IsJ0
  <2> QED
    BY <1>1, <2>1, MasksStart
<1>3. m = <<>>
  BY NoMasks
<1>4. GcmBodied(j0, a, 0) = Fed(f, k, 0, base, BodyStream, 0, m)
  BY DEF GcmBodied, GcmAt
<1>5. IsSeq(base)
  BY AdBlocks
<1> HIDE DEF f, base, k, m
<1>6. Fed(f, k, 0, base, BodyStream, 0, m) = Ctx(f, k, 0, base, <<>>, m)
  BY <1>5, FedNone
<1> QED
  BY <1>2, <1>3, <1>4, <1>6 DEF f, base

\* GcmAdPadded() leads there, and does nothing once the body has begun.
LEMMA GcmPads == \A j0, a, b : IsJ0(j0) /\ a \in Nat /\ b \in Nat =>
  GcmAdPadded(GcmCtx(j0, a, b)) = GcmBodied(j0, a, b)
<1> TAKE j0, a, b
<1> HAVE IsJ0(j0) /\ a \in Nat /\ b \in Nat
<1>1. CASE b = 0
  <2> DEFINE f == GcmFrameOf(j0, a, 0)
             c == Fed(f, j0, 0, <<>>, AdStream, a, <<>>)
             closed == Ctx(f, j0, 0, InBlocks(AdStream, a), <<>>, <<>>)
  <2>1. f.len = 0 /\ f.add_len = a
    BY GcmFrames
  <2>2. c.len = 0 /\ c.add_len = a
    BY <2>1, FedHas
  <2>3. IsSeq(<<>>) /\ <<>> \o InBlocks(AdStream, a) = InBlocks(AdStream, a)
    BY NoCells, AdBlocks
  <2>4. (a % BlockSize # 0 => Absorb(c) = closed) /\ (a % BlockSize = 0 => c = closed)
    <3> DEFINE none == <<>>
               m == <<>>
    <3>1. IsSeq(none) /\ none \o InBlocks(AdStream, a) = InBlocks(AdStream, a)
      BY <2>3
    <3> HIDE DEF f, none, m
    <3>2. Closes(Fed(f, j0, 0, none, AdStream, a, m), a, Ctx(f, j0, 0, none \o InBlocks(AdStream, a), <<>>, m))
      BY <3>1, FedClosed
    <3>3. Closes(c, a, closed)
      BY <3>1, <3>2 DEF none, m
    <3> HIDE DEF c, closed
    <3> QED
      BY <3>3 DEF Closes
  <2>5. GcmCtx(j0, a, b) = c
    BY <1>1 DEF GcmCtx, GcmAdded
  <2>6. GcmBodied(j0, a, b) = closed
    BY <1>1, GcmBegins
  <2> HIDE DEF c, closed
  <2> QED
    BY <2>2, <2>4, <2>5, <2>6 DEF GcmAdPadded
<1>2. CASE b # 0
  <2> DEFINE c == GcmBodied(j0, a, b)
             f == GcmFrameOf(j0, a, b)
  <2>1. f.len = b
    BY GcmFrames
  <2>2. c.len = b
    BY <2>1, FedHas DEF GcmBodied, GcmAt
  <2>3. GcmCtx(j0, a, b) = c
    BY <1>2 DEF GcmCtx
  <2> HIDE DEF c
  <2>4. GcmAdPadded(c) = c
    BY <1>2, <2>2 DEF GcmAdPadded
  <2> QED
    BY <2>3, <2>4 DEF c
<1> QED
  BY <1>1, <1>2

\* The context after setting the key.
LEMMA KeyedIs == Keyed = Ctx(Frame({}, 0, 0, 0, 0, CounterRange, 0), 0, 0, <<>>, <<>>, <<>>)
BY DEF Keyed, Ctx, Frame

\* mbedtls_gcm_starts() takes the counter from the nonce.
LEMMA GcmStartsAs == \A nonce, hash : nonce # 0 =>
  mbedtls_gcm_starts(Keyed, nonce, hash) = Proceed(GcmCtx(IF nonce = 12 THEN 1 ELSE hash, 0, 0))
<1> TAKE nonce, hash
<1> HAVE nonce # 0
<1> DEFINE j0 == IF nonce = 12 THEN 1 ELSE hash
           c == Ctx(GcmFrameOf(j0, 0, 0), j0, 0, <<>>, <<>>, <<>>)
<1>1. mbedtls_gcm_starts(Keyed, nonce, hash) = Proceed([Keyed EXCEPT !.ctr = j0, !.first = j0, !.len = 0, !.add_len = 0])
  BY DEF mbedtls_gcm_starts
<1>2. GcmCtx(j0, 0, 0) = c
  BY FedNone, NoCells DEF GcmCtx, GcmAdded
<1> HIDE DEF j0
<1>3. [Keyed EXCEPT !.ctr = j0, !.first = j0, !.len = 0, !.add_len = 0] = c
  <2> DEFINE f(x, y) == Frame({}, 0, 0, 0, 0, x, y)
             CR == CounterRange
             e(x, k) == Ctx(f(CR, x), k, 0, <<>>, <<>>, <<>>)
  <2>1. Keyed = e(0, 0)
    BY KeyedIs
  <2>2. [e(0, 0) EXCEPT !.ctr = j0] = e(0, j0)
    BY ContextBut
  <2>3. /\ [e(0, j0) EXCEPT !.first = j0] = e(j0, j0)
        /\ [e(j0, j0) EXCEPT !.len = 0] = e(j0, j0)
        /\ [e(j0, j0) EXCEPT !.add_len = 0] = e(j0, j0)
    BY FrameBut
  <2>4. c = e(j0, j0)
    BY DEF GcmFrameOf
  <2> HIDE DEF e, c
  <2> QED
    BY <2>1, <2>2, <2>3, <2>4
<1> QED
  BY <1>1, <1>2, <1>3 DEF j0

\* mbedtls_gcm_update_ad() goes on with the additional data, up to its limit.
LEMMA GcmAdAs == \A j0, a, n : IsJ0(j0) /\ a \in Nat /\ n \in Nat =>
  mbedtls_gcm_update_ad(GcmCtx(j0, a, 0), AdCells(a, n))
    = IF a + n >= GcmAdLimit THEN Stop(GcmCtx(j0, a, 0), "INVALID_ARGUMENT")
      ELSE Proceed(GcmCtx(j0, a + n, 0))
<1> TAKE j0, a, n
<1> HAVE IsJ0(j0) /\ a \in Nat /\ n \in Nat
<1> DEFINE cells == AdCells(a, n)
           f == GcmFrameOf(j0, a, 0)
           c == Fed(f, j0, 0, <<>>, AdStream, a, <<>>)
           d == Fed(f, j0, 0, <<>>, AdStream, a + n, <<>>)
           e == GcmAdded(j0, a + n)
<1>1. Takes(cells, AdStream, a) /\ Len(cells) = n
  BY AdTakes
<1>2. f.add_len = a
  BY GcmFrames
<1>3. c.add_len = a /\ d.add_len = a
  <2>1. a + n \in Nat
    OBVIOUS
  <2> HIDE DEF f
  <2> QED
    BY <1>2, <2>1, FedHas
<1> HIDE DEF cells
<1>4. AbsorbCells(c, a % BlockSize, cells) = d
  <2>1. IsSeq(<<>>)
    BY NoCells
  <2>2. AbsorbCells(c, a % BlockSize, cells) = Fed(f, j0, 0, <<>>, AdStream, a + Len(cells), <<>>)
    <3> HIDE DEF f
    <3> QED
      BY <1>1, <2>1, CellsGo
  <2> HIDE DEF f
  <2> QED
    BY <1>1, <2>2
<1>5. \A x : [d EXCEPT !.add_len = x] = Fed(GcmFrameOf(j0, x, 0), j0, 0, <<>>, AdStream, a + n, <<>>)
  BY FedFrame DEF GcmFrameOf
<1>6. [d EXCEPT !.add_len = a + n] = e
  BY <1>5 DEF GcmAdded
<1>7. GcmCtx(j0, a, 0) = c /\ GcmCtx(j0, a + n, 0) = e
  BY DEF GcmCtx, GcmAdded
<1> HIDE DEF c, d, e
<1>8. mbedtls_gcm_update_ad(c, cells) = IF a + n >= GcmAdLimit THEN Stop(c, "INVALID_ARGUMENT") ELSE Proceed(e)
  BY <1>1, <1>3, <1>4, <1>6 DEF mbedtls_gcm_update_ad
<1> QED
  BY <1>7, <1>8 DEF cells

\* The fields of the context of GCM after some of the body.
LEMMA GcmBodyHas == \A j0, a, b : IsJ0(j0) /\ a \in Nat /\ b \in Nat =>
  LET c == GcmBodied(j0, a, b) IN
  /\ c.flags = {} /\ c.add_len = a /\ c.len = b /\ c.range = CounterRange /\ c.first = j0
  /\ c.masks = MaskedAs(j0 + 1, CounterRange, BlockSize, b)
<1> TAKE j0, a, b
<1> HAVE IsJ0(j0) /\ a \in Nat /\ b \in Nat
<1> DEFINE f == GcmFrameOf(j0, a, b)
<1>1. f.flags = {} /\ f.add_len = a /\ f.len = b /\ f.range = CounterRange /\ f.first = j0
  BY GcmFrames
<1> HIDE DEF f
<1>2. GcmBodied(j0, a, b) = GcmAt(f, 0, InBlocks(AdStream, a), BodyStream, b)
  BY DEF GcmBodied, f
<1> QED
  BY <1>1, <1>2, FedHas DEF GcmAt

\* The fields of the context of GCM at any time.
LEMMA GcmHas == \A j0, a, b : IsJ0(j0) /\ a \in Nat /\ b \in Nat =>
  LET c == GcmCtx(j0, a, b) IN
  /\ c.flags = {} /\ c.add_len = a /\ c.len = b /\ c.range = CounterRange /\ c.first = j0
  /\ c.masks = MaskedAs(j0 + 1, CounterRange, BlockSize, b)
<1> TAKE j0, a, b
<1> HAVE IsJ0(j0) /\ a \in Nat /\ b \in Nat
<1>1. CASE b # 0
  <2>1. GcmCtx(j0, a, b) = GcmBodied(j0, a, b)
    BY <1>1 DEF GcmCtx
  <2> QED
    BY <2>1, GcmBodyHas
<1>2. CASE b = 0
  <2> DEFINE f == GcmFrameOf(j0, a, 0)
             m == <<>>
  <2>1. f.flags = {} /\ f.add_len = a /\ f.len = 0 /\ f.range = CounterRange /\ f.first = j0
    BY GcmFrames
  <2>2. m = MaskedAs(j0 + 1, CounterRange, BlockSize, 0)
    BY NoMasks
  <2> HIDE DEF f, m
  <2>3. GcmCtx(j0, a, b) = Fed(f, j0, 0, <<>>, AdStream, a, m)
    BY <1>2 DEF GcmCtx, GcmAdded, f, m
  <2> QED
    BY <1>2, <2>1, <2>2, <2>3, FedHas
<1> QED
  BY <1>1, <1>2

\* mbedtls_gcm_update() goes on with the body, up to its limit.
LEMMA GcmUpdateAs == \A j0, a, b, n : IsJ0(j0) /\ a \in Nat /\ b \in Nat /\ n \in Nat =>
  mbedtls_gcm_update(GcmCtx(j0, a, b), BodyCells(b, n))
    = IF n = 0 THEN Proceed(GcmCtx(j0, a, b))
      ELSE IF b + n > GcmBodyLimit THEN Stop(GcmCtx(j0, a, b), "INVALID_ARGUMENT")
      ELSE Proceed(GcmCtx(j0, a, b + n))
<1> TAKE j0, a, b, n
<1> HAVE IsJ0(j0) /\ a \in Nat /\ b \in Nat /\ n \in Nat
<1> DEFINE cells == BodyCells(b, n)
           c == GcmCtx(j0, a, b)
           d == GcmBodied(j0, a, b)
           f == GcmFrameOf(j0, a, b)
           base == InBlocks(AdStream, a)
           last == GcmText(GcmAdPadded(c), b % BlockSize, cells)
           then == GcmAt(f, 0, base, BodyStream, b + n)
           after == GcmCtx(j0, a, b + n)
<1>1. Takes(cells, BodyStream, b) /\ Len(cells) = n /\ (cells = <<>> <=> n = 0)
  <2>1. Takes(cells, BodyStream, b) /\ Len(cells) = n
    BY BodyTakes
  <2> HIDE DEF cells
  <2> QED
    BY <2>1, NoCells DEF Takes
<1>2. c.len = b
  BY GcmHas
<1>3. GcmAdPadded(c) = d
  BY GcmPads
<1>4. f.range = CounterRange /\ f.first = j0
  BY GcmFrames
<1>5. GcmStarts(f, base)
  <2>1. IsSeq(base)
    BY AdBlocks
  <2> HIDE DEF f, base
  <2> QED
    BY <1>4, <2>1, RangeOfCounter DEF GcmStarts, GcmFrame, IsJ0
<1>6. d = GcmAt(f, 0, base, BodyStream, b)
  BY DEF GcmBodied
<1> HIDE DEF cells, c
<1>7. last = then
  <2> HIDE DEF f, base, d
  <2>1. GcmText(GcmAt(f, 0, base, BodyStream, b), b % BlockSize, cells)
          = GcmAt(f, 0, base, BodyStream, b + Len(cells))
    BY <1>1, <1>5, GcmTextGoes
  <2> QED
    BY <1>1, <1>3, <1>6, <2>1
<1>8. [then EXCEPT !.len = b + n] = GcmBodied(j0, a, b + n)
  <2> DEFINE k == CounterAt(j0, CounterRange, BlockSize, b + n)
             m == MaskedAs(j0 + 1, CounterRange, BlockSize, b + n)
             g(x) == Fed(Frame({}, a, 0, x, 0, CounterRange, j0), k, 0, base, BodyStream, b + n, m)
             x == b + n
  <2>1. then = g(b)
    <3> HIDE DEF f
    <3>1. then = Fed(f, k, 0, base, BodyStream, b + n, m)
      BY <1>4 DEF GcmAt
    <3> QED
      BY <3>1 DEF f, GcmFrameOf
  <2>2. GcmFrameOf(j0, a, x).range = CounterRange /\ GcmFrameOf(j0, a, x).first = j0
    BY GcmFrames
  <2>3. GcmBodied(j0, a, x) = g(x)
    <3> DEFINE e == GcmFrameOf(j0, a, x)
    <3>0. GcmBodied(j0, a, x) = GcmAt(e, 0, base, BodyStream, x)
      BY DEF GcmBodied
    <3> HIDE DEF e
    <3>1. GcmAt(e, 0, base, BodyStream, x) = Fed(e, k, 0, base, BodyStream, b + n, m)
      BY <2>2 DEF GcmAt, e
    <3> QED
      BY <3>0, <3>1 DEF e, GcmFrameOf
  <2> HIDE DEF k, m, base, x
  <2>4. [g(b) EXCEPT !.len = x] = g(x)
    BY FedFrame
  <2> HIDE DEF g, then
  <2> QED
    BY <2>1, <2>3, <2>4 DEF x
<1>9. n # 0 => after = GcmBodied(j0, a, b + n)
  BY DEF GcmCtx
<1>10. then.len = b
  <2>1. f.len = b /\ b + n \in Nat
    BY GcmFrames
  <2> HIDE DEF f, base
  <2> QED
    BY <2>1, FedHas DEF GcmAt
<1>11. mbedtls_gcm_update(c, cells)
         = IF cells = <<>> THEN Proceed(c)
           ELSE IF ~GcmFits(c, Len(cells)) THEN Stop(c, "INVALID_ARGUMENT")
           ELSE Proceed([last EXCEPT !.len = @ + Len(cells)])
  BY <1>2 DEF mbedtls_gcm_update, GcmText, HeadSize, GcmTail
<1>12. GcmFits(c, Len(cells)) <=> b + n <= GcmBodyLimit
  BY <1>1, <1>2 DEF GcmFits
<1>13. GcmBodyLimit \in Int
  BY AeadEnginesAssumption, SizeOfBlock
<1> HIDE DEF last, then, after, d, f, base
<1>14. n # 0 => [last EXCEPT !.len = @ + Len(cells)] = after
  BY <1>1, <1>7, <1>8, <1>9, <1>10
<1>15. b + n <= GcmBodyLimit <=> ~(b + n > GcmBodyLimit)
  BY <1>13
<1> QED
  BY <1>1, <1>11, <1>12, <1>14, <1>15 DEF c, cells, after

\* The body of GCM in blocks, the last of which is padded.
LEMMA GcmEnds == \A j0, a, b : IsJ0(j0) /\ a \in Nat /\ b \in Nat =>
  LET c == GcmCtx(j0, a, b)
      blocks == InBlocks(AdStream, a) \o InBlocks(BodyStream, b)
      k == CounterAt(j0, CounterRange, BlockSize, b)
      m == MaskedAs(j0 + 1, CounterRange, BlockSize, b)
  IN  /\ (IF c.len % BlockSize # 0 THEN Absorb(GcmAdPadded(c)) ELSE GcmAdPadded(c))
           = Ctx(GcmFrameOf(j0, a, b), k, 0, blocks, <<>>, m)
      /\ IsSeq(blocks)
<1> TAKE j0, a, b
<1> HAVE IsJ0(j0) /\ a \in Nat /\ b \in Nat
<1> DEFINE f == GcmFrameOf(j0, a, b)
           c == GcmCtx(j0, a, b)
           d == GcmBodied(j0, a, b)
           k == CounterAt(j0, CounterRange, BlockSize, b)
           m == MaskedAs(j0 + 1, CounterRange, BlockSize, b)
           base == InBlocks(AdStream, a)
           closed == Ctx(f, k, 0, base \o InBlocks(BodyStream, b), <<>>, m)
<1>1. c.len = b
  BY GcmHas
<1>2. GcmAdPadded(c) = d
  BY GcmPads
<1>3. f.range = CounterRange /\ f.first = j0
  BY GcmFrames
<1>4. IsSeq(base)
  BY AdBlocks
<1>5. d = Fed(f, k, 0, base, BodyStream, b, m)
  <2>1. d = GcmAt(f, 0, base, BodyStream, b)
    BY DEF GcmBodied
  <2> HIDE DEF f, d
  <2> QED
    BY <1>3, <2>1 DEF GcmAt
<1> HIDE DEF f, c, d, k, m, base
<1>6. Closes(d, b, closed)
  BY <1>4, <1>5, FedClosed
<1>7. IsSeq(base \o InBlocks(BodyStream, b))
  BY <1>4, FedCloses
<1> HIDE DEF closed
<1>8. (IF c.len % BlockSize # 0 THEN Absorb(GcmAdPadded(c)) ELSE GcmAdPadded(c)) = closed
  BY <1>1, <1>2, <1>6 DEF Closes
<1> QED
  BY <1>7, <1>8 DEF closed, f, c, k, m, base

\* The context made a tag over the message.
Covers(alg, r, a, b) ==
    /\ r.status = "OK"
    /\ r.ctx.blocks = Authenticated(alg, a, b)
    /\ Len(r.ctx.masks) = b

\* mbedtls_gcm_finish() makes a tag over both parts and their lengths.
LEMMA GcmFinishAs == \A j0, a, b : IsJ0(j0) /\ a \in Nat /\ b \in Nat =>
  Covers("GCM", mbedtls_gcm_finish(GcmCtx(j0, a, b)), a, b)
<1> TAKE j0, a, b
<1> HAVE IsJ0(j0) /\ a \in Nat /\ b \in Nat
<1> DEFINE f == GcmFrameOf(j0, a, b)
           c == GcmCtx(j0, a, b)
           k == CounterAt(j0, CounterRange, BlockSize, b)
           m == MaskedAs(j0 + 1, CounterRange, BlockSize, b)
           blocks == InBlocks(AdStream, a) \o InBlocks(BodyStream, b)
           cells == Lengths(a, b)
           more == blocks \o Chop(cells)
           ended == IF c.len % BlockSize # 0 THEN Absorb(GcmAdPadded(c)) ELSE GcmAdPadded(c)
           r == mbedtls_gcm_finish(c)
<1>1. c.len = b /\ c.add_len = a
  BY GcmHas
<1>2. ended = Ctx(f, k, 0, blocks, <<>>, m) /\ IsSeq(blocks)
  BY GcmEnds
<1>3. r = Proceed(IF c.len = 0 /\ c.add_len = 0 THEN ended
                  ELSE Absorb(Mix(ended, 0, Lengths(c.add_len, c.len))))
  BY DEF mbedtls_gcm_finish
<1>4. IsSeq(cells) /\ Len(cells) = BlockSize
  BY LengthsAre
<1>5. Len(m) = b
  BY MasksAre
<1>6. InBlocks(AdStream, a) = Chop(AdCells(0, a)) /\ InBlocks(BodyStream, b) = Chop(BodyCells(0, b))
  BY AdBlocks, BodyBlocks
<1>7. Authenticated("GCM", a, b) = (Chop(AdCells(0, a)) \o Chop(BodyCells(0, b)))
                                     \o (IF a + b = 0 THEN <<>> ELSE Chop(Lengths(a, b)))
  BY DEF Authenticated
<1>8. Authenticated("GCM", a, b) = blocks \o (IF a + b = 0 THEN <<>> ELSE Chop(cells))
  BY <1>6, <1>7
<1> HIDE DEF ended, c, f, k, m, blocks, cells, r
<1>9. CASE a = 0 /\ b = 0
  <2>1. a + b = 0
    BY <1>9
  <2>2. Authenticated("GCM", a, b) = blocks
    BY <1>2, <1>8, <2>1, JoinedNone
  <2>3. r = Proceed(ended)
    BY <1>1, <1>3, <1>9
  <2>4. ended.blocks = blocks /\ ended.masks = m
    BY <1>2, ContextHas
  <2>5. r.status = "OK" /\ r.ctx = ended
    BY <2>3 DEF Proceed
  <2> QED
    BY <1>5, <2>2, <2>4, <2>5 DEF Covers, r, c
<1>10. CASE ~(a = 0 /\ b = 0)
  <2> DEFINE e == Ctx(f, k, 0, more, <<>>, m)
  <2>1. a + b # 0
    BY <1>10
  <2>2. Authenticated("GCM", a, b) = more
    BY <1>8, <2>1
  <2>3. r = Proceed(Absorb(Mix(ended, 0, cells)))
    <3>1. ~(c.len = 0 /\ c.add_len = 0)
      BY <1>1, <1>10
    <3>2. Lengths(c.add_len, c.len) = cells
      BY <1>1 DEF cells
    <3> QED
      BY <1>3, <3>1, <3>2
  <2>4. WithBlock(Ctx(f, k, 0, blocks, <<>>, m), cells) = e
    <3>1. IsSeq(blocks) /\ IsBlock(cells)
      BY <1>2, <1>4 DEF IsBlock
    <3> QED
      BY <3>1, BlockAbsorbed
  <2> HIDE DEF more
  <2>5. e.blocks = more /\ e.masks = m
    BY ContextHas
  <2> HIDE DEF e
  <2>6. r.status = "OK" /\ r.ctx = e
    BY <1>2, <2>3, <2>4 DEF Proceed, WithBlock
  <2> QED
    BY <1>5, <2>2, <2>5, <2>6 DEF Covers, r, c
<1> QED
  BY <1>9, <1>10

-----------------------------------------------------------------------------
(* ChaCha20: t bytes were masked.                                          *)

\* A block of the keystream of ChaCha20 is not empty.
LEMMA SizeOfKeystream == KeystreamSize \in Nat /\ KeystreamSize > 0
BY AeadEnginesAssumption

UsedAt(t) == IF t % KeystreamSize = 0 THEN KeystreamSize ELSE t % KeystreamSize
ChachaAt(f, b, p, t) ==
    Ctx(f, CounterAt(0, f.range, KeystreamSize, t), UsedAt(t), b, p,
        MaskedAs(0 + 1, f.range, KeystreamSize, t))
ChachaMasks(f, t, l) ==
    /\ f.range \in Nat /\ f.range > 0 /\ t \in Nat /\ l \in Nat
    /\ (t % KeystreamSize) + l <= KeystreamSize
Masked(c, o, l, used) == [Mask(c, o, l) EXCEPT !.used = used]

\* ChaCha20 masks with blocks of KeystreamSize bytes.
LEMMA ChachaMasking == \A f, t, l : ChachaMasks(f, t, l) => Masking(0, f.range, KeystreamSize, t, l)
BY SizeOfKeystream DEF ChachaMasks, Masking

\* Masking, and counting the bytes used of the block.
LEMMA MaskedIs == \A f, k, u, b, p, m, o, l, used :
  Masked(Ctx(f, k, u, b, p, m), o, l, used) = Ctx(f, k, used, b, p, m \o MaskRun(k, o, l))
<1> TAKE f, k, u, b, p, m, o, l, used
<1> DEFINE more == m \o MaskRun(k, o, l)
<1>1. Mask(Ctx(f, k, u, b, p, m), o, l) = Ctx(f, k, u, b, p, more)
  BY MaskIs
<1> HIDE DEF more
<1>2. [Ctx(f, k, u, b, p, more) EXCEPT !.used = used] = Ctx(f, k, used, b, p, more)
  BY ContextBut
<1> QED
  BY <1>1, <1>2 DEF Masked, more

\* The rest of the current block of the keystream.
LEMMA ChachaOn == \A f, b, p, t, l : ChachaMasks(f, t, l) /\ t % KeystreamSize # 0 =>
  Masked(ChachaAt(f, b, p, t), t % KeystreamSize, l, (t % KeystreamSize) + l) = ChachaAt(f, b, p, t + l)
<1> TAKE f, b, p, t, l
<1> HAVE ChachaMasks(f, t, l) /\ t % KeystreamSize # 0
<1> DEFINE r == t % KeystreamSize
           s == r + l
           x == t + l
           k == CounterAt(0, f.range, KeystreamSize, t)
           m == MaskedAs(0 + 1, f.range, KeystreamSize, t)
           more == MaskedAs(0 + 1, f.range, KeystreamSize, x)
<1>1. m \o MaskRun(k, r, l) = more /\ CounterAt(0, f.range, KeystreamSize, x) = k
  <2>1. MasksFollow(0, f.range, KeystreamSize, t, l, k, r)
    BY ChachaMasking, MasksGoOn
  <2> QED
    BY <2>1 DEF MasksFollow
<1>2. Masked(ChachaAt(f, b, p, t), r, l, s) = Ctx(f, k, s, b, p, m \o MaskRun(k, r, l))
  BY MaskedIs DEF ChachaAt
<1>3. UsedAt(x) = s
  <2>1. t \in Nat /\ l \in Nat /\ KeystreamSize \in Nat /\ KeystreamSize > 0 /\ r + l <= KeystreamSize
    BY SizeOfKeystream DEF ChachaMasks
  <2>2. /\ r + l < KeystreamSize => x % KeystreamSize = r + l
        /\ r + l = KeystreamSize => x % KeystreamSize = 0
    <3>1. Goings(t, KeystreamSize, l)
      BY <2>1, GoingsAre
    <3> QED
      BY <3>1 DEF Goings
  <2>3. r \in Nat /\ r # 0
    BY <2>1, Divides
  <2> HIDE DEF r, x
  <2>4. s # 0 /\ (s < KeystreamSize \/ s = KeystreamSize)
    BY <2>1, <2>3
  <2> QED
    BY <2>1, <2>2, <2>4 DEF UsedAt
<1>4. Ctx(f, k, s, b, p, more) = ChachaAt(f, b, p, x)
  BY <1>1, <1>3 DEF ChachaAt
<1> QED
  BY <1>1, <1>2, <1>4

\* A new block of the keystream, with the next counter.
LEMMA ChachaBegins == \A f, b, p, t, l :
  ChachaMasks(f, t, l) /\ t % KeystreamSize = 0 /\ l > 0 =>
    /\ Masked(Increment(ChachaAt(f, b, p, t)), 0, l, l) = ChachaAt(f, b, p, t + l)
    /\ l = KeystreamSize => Mask(Increment(ChachaAt(f, b, p, t)), 0, l) = ChachaAt(f, b, p, t + l)
<1> TAKE f, b, p, t, l
<1> HAVE ChachaMasks(f, t, l) /\ t % KeystreamSize = 0 /\ l > 0
<1> DEFINE x == t + l
           k == (CounterAt(0, f.range, KeystreamSize, t) + 1) % f.range
           m == MaskedAs(0 + 1, f.range, KeystreamSize, t)
           more == MaskedAs(0 + 1, f.range, KeystreamSize, x)
           u == UsedAt(t)
           then == ChachaAt(f, b, p, x)
<1>1. m \o MaskRun(k, 0, l) = more /\ CounterAt(0, f.range, KeystreamSize, x) = k
  <2>1. MasksFollow(0, f.range, KeystreamSize, t, l, k, 0)
    BY ChachaMasking, MasksBegin
  <2> QED
    BY <2>1 DEF MasksFollow
<1>2. Increment(ChachaAt(f, b, p, t)) = Ctx(f, k, u, b, p, m)
  BY IncrementIs DEF ChachaAt
<1>3. UsedAt(x) = l /\ u = KeystreamSize
  <2>1. t \in Nat /\ l \in Nat /\ KeystreamSize \in Nat /\ KeystreamSize > 0 /\ (t % KeystreamSize) + l <= KeystreamSize
        /\ (t % KeystreamSize) + l = l
    BY SizeOfKeystream DEF ChachaMasks
  <2>2. /\ (t % KeystreamSize) + l < KeystreamSize => x % KeystreamSize = (t % KeystreamSize) + l
        /\ (t % KeystreamSize) + l = KeystreamSize => x % KeystreamSize = 0
    <3>1. Goings(t, KeystreamSize, l)
      BY <2>1, GoingsAre
    <3> QED
      BY <3>1 DEF Goings
  <2> HIDE DEF x
  <2>4. l # 0 /\ (l < KeystreamSize \/ l = KeystreamSize)
    BY <2>1
  <2> QED
    BY <2>1, <2>2, <2>4 DEF UsedAt
<1>4. Ctx(f, k, l, b, p, more) = then
  BY <1>1, <1>3 DEF ChachaAt
<1> HIDE DEF k, m, u, more, then
<1>5. Masked(Ctx(f, k, u, b, p, m), 0, l, l) = Ctx(f, k, l, b, p, m \o MaskRun(k, 0, l))
  BY MaskedIs
<1>6. Mask(Ctx(f, k, u, b, p, m), 0, l) = Ctx(f, k, u, b, p, m \o MaskRun(k, 0, l))
  BY MaskIs
<1> QED
  BY <1>1, <1>2, <1>3, <1>4, <1>5, <1>6 DEF then

\* Where the blocks of the keystream start.
LEMMA KeystreamStarts == \A q \in Nat : q * KeystreamSize \in Nat /\ (q * KeystreamSize) % KeystreamSize = 0
<1> TAKE q \in Nat
<1> DEFINE n == q * KeystreamSize
           zero == 0
<1>1. n \in Nat /\ zero \in Nat /\ zero < KeystreamSize /\ n = q * KeystreamSize + zero
  BY SizeOfKeystream
<1> HIDE DEF n, zero
<1>2. n % KeystreamSize = zero
  BY <1>1, SizeOfKeystream, Divided
<1> QED
  BY <1>1, <1>2 DEF n, zero

ChachaFrame(f) == f.range \in Nat /\ f.range > 0
ChachaBlocks(c, w) ==
    LET after[i \in 0 .. w] ==
          IF i = 0 THEN c ELSE Mask(Increment(after[i - 1]), 0, KeystreamSize)
    IN  after[w]

\* One turn of the loop of mbedtls_chacha20_update().
LEMMA ChachaBlockGoes == \A f, b, p, i : ChachaFrame(f) /\ i \in Nat =>
  Mask(Increment(ChachaAt(f, b, p, i * KeystreamSize)), 0, KeystreamSize)
    = ChachaAt(f, b, p, (i + 1) * KeystreamSize)
<1> TAKE f, b, p, i
<1> HAVE ChachaFrame(f) /\ i \in Nat
<1> DEFINE t == i * KeystreamSize
           x == (i + 1) * KeystreamSize
           l == KeystreamSize
<1>1. t \in Nat /\ t % KeystreamSize = 0 /\ x = t + l /\ l \in Nat /\ l > 0 /\ l = KeystreamSize
  BY KeystreamStarts, SizeOfKeystream
<1> HIDE DEF t, x
<1>2. (t % KeystreamSize) + l <= KeystreamSize
  BY <1>1
<1> HIDE DEF l
<1>3. ChachaMasks(f, t, l)
  BY <1>1, <1>2 DEF ChachaMasks, ChachaFrame
<1>4. Mask(Increment(ChachaAt(f, b, p, t)), 0, l) = ChachaAt(f, b, p, t + l)
  BY <1>1, <1>3, ChachaBegins
<1> QED
  BY <1>1, <1>4 DEF t, x

\* The loop of mbedtls_chacha20_update() over whole blocks.
LEMMA ChachaBlocksGo == \A f, b, p, q, w : ChachaFrame(f) /\ q \in Nat /\ w \in Nat =>
  ChachaBlocks(ChachaAt(f, b, p, q * KeystreamSize), w) = ChachaAt(f, b, p, (q + w) * KeystreamSize)
<1> TAKE f, b, p, q, w
<1> HAVE ChachaFrame(f) /\ q \in Nat /\ w \in Nat
<1> DEFINE at(j) == ChachaAt(f, b, p, (q + j) * KeystreamSize)
           next(c) == Mask(Increment(c), 0, KeystreamSize)
           first == ChachaAt(f, b, p, q * KeystreamSize)
           body(h) == [j \in 0 .. w |-> IF j = 0 THEN first ELSE next(h[j - 1])]
           g == [j \in 0 .. w |-> at(j)]
<1>2. ASSUME NEW j \in 1 .. w PROVE next(at(j - 1)) = at(j)
  <2> DEFINE i == q + j - 1
  <2>1. i \in Nat /\ q + (j - 1) = i /\ q + j = i + 1
    OBVIOUS
  <2> HIDE DEF i
  <2>2. Mask(Increment(ChachaAt(f, b, p, i * KeystreamSize)), 0, KeystreamSize)
          = ChachaAt(f, b, p, (i + 1) * KeystreamSize)
    BY <2>1, ChachaBlockGoes
  <2> QED
    BY <2>1, <2>2
<1>3. at(0) = first
  <2>1. q + 0 = q
    OBVIOUS
  <2> QED
    BY <2>1
<1> HIDE DEF at, next
<1>4. g[0] = first /\ \A j \in 1 .. w : g[j] = next(g[j - 1])
  <2>1. 0 \in 0 .. w /\ \A j \in 1 .. w : j \in 0 .. w /\ j - 1 \in 0 .. w
    OBVIOUS
  <2> QED
    BY <1>2, <1>3, <2>1
<1>5. g = body(g)
  <2>1. ASSUME NEW j \in 0 .. w PROVE g[j] = IF j = 0 THEN first ELSE next(g[j - 1])
    <3>1. j = 0 \/ j \in 1 .. w
      OBVIOUS
    <3> QED
      BY <1>4, <3>1
  <2>2. g = [j \in 0 .. w |-> g[j]]
    OBVIOUS
  <2> HIDE DEF g
  <2> QED
    BY <2>1, <2>2
<1> DEFINE l == CHOOSE h : h = body(h)
<1>6. l = body(l)
  BY <1>5
<1>7. ChachaBlocks(first, w) = l[w]
  BY DEF ChachaBlocks, next
<1> HIDE DEF l, first
<1>8. l[0] = first /\ \A j \in 1 .. w : l[j] = next(l[j - 1])
  <2>1. \A j \in 0 .. w : l[j] = IF j = 0 THEN first ELSE next(l[j - 1])
    BY <1>6
  <2>2. 0 \in 0 .. w /\ \A j \in 1 .. w : j \in 0 .. w /\ j # 0
    OBVIOUS
  <2> HIDE DEF body
  <2> QED
    BY <2>1, <2>2
<1> HIDE DEF body, g
<1>9. l[w] = g[w]
  <2>1. \A j \in 1 .. w : l[j - 1] = g[j - 1] => l[j] = g[j]
    BY <1>4, <1>8
  <2>2. l[0] = g[0] /\ w \in 0 .. w
    BY <1>4, <1>8
  <2> QED
    BY <2>1, <2>2, SameLoop
<1>10. g[w] = at(w)
  <2>1. w \in 0 .. w
    OBVIOUS
  <2> QED
    BY <2>1 DEF g
<1> QED
  BY <1>7, <1>9, <1>10 DEF first, at

\* No turn of the loop.
LEMMA ChachaNoBlocks == \A c : ChachaBlocks(c, 0) = c
<1> TAKE c
<1> DEFINE body(g) == [j \in 0 .. 0 |-> IF j = 0 THEN c ELSE Mask(Increment(g[j - 1]), 0, KeystreamSize)]
           g == [j \in 0 .. 0 |-> c]
           e == CHOOSE y : y = body(y)
<1>1. g = body(g)
  OBVIOUS
<1>2. e = body(e)
  BY <1>1
<1>3. ChachaBlocks(c, 0) = e[0]
  BY DEF ChachaBlocks
<1> HIDE DEF e
<1>4. e[0] = c
  BY <1>2
<1> QED
  BY <1>3, <1>4

\* The rest of a call, from where a block of the keystream begins.
ChachaRest(c, left) ==
    LET done == ChachaBlocks(c, left \div KeystreamSize)
        rest == left % KeystreamSize
    IN  IF rest = 0 THEN done ELSE Masked(Increment(done), 0, rest, rest)

\* The loop, and a last block that may be used in part.
LEMMA ChachaRestGoes == \A f, b, p, t, l : ChachaFrame(f) /\ t \in Nat /\ l \in Nat /\ t % KeystreamSize = 0 =>
  ChachaRest(ChachaAt(f, b, p, t), l) = ChachaAt(f, b, p, t + l)
<1> TAKE f, b, p, t, l
<1> HAVE ChachaFrame(f) /\ t \in Nat /\ l \in Nat /\ t % KeystreamSize = 0
<1> DEFINE q == t \div KeystreamSize
           w == l \div KeystreamSize
           r == l % KeystreamSize
           e == q + w
           x == e * KeystreamSize
           c == ChachaAt(f, b, p, t)
           done == ChachaBlocks(c, w)
           d == ChachaAt(f, b, p, x)
<1>1. q \in Nat /\ t = q * KeystreamSize
  BY SizeOfKeystream, Divides
<1>2. w \in Nat /\ r \in Nat /\ r < KeystreamSize /\ l = w * KeystreamSize + r
  BY SizeOfKeystream, Divides
<1>3. ChachaRest(c, l) = IF r = 0 THEN done ELSE Masked(Increment(done), 0, r, r)
  BY DEF ChachaRest
<1> HIDE DEF q, w, r
<1>4. e \in Nat /\ x \in Nat /\ x % KeystreamSize = 0 /\ x + r = t + l
  <2>1. e \in Nat
    BY <1>1, <1>2
  <2>2. x = q * KeystreamSize + w * KeystreamSize
    BY <1>1, <1>2, SizeOfKeystream
  <2>3. w * KeystreamSize \in Nat /\ q * KeystreamSize \in Nat
    BY <1>1, <1>2, SizeOfKeystream
  <2> HIDE DEF x, e
  <2>4. x + r = t + l
    BY <1>1, <1>2, <2>2, <2>3
  <2> QED
    BY <2>1, <2>4, KeystreamStarts DEF x
<1>5. done = d
  <2>1. ChachaBlocks(ChachaAt(f, b, p, q * KeystreamSize), w) = ChachaAt(f, b, p, (q + w) * KeystreamSize)
    BY <1>1, <1>2, ChachaBlocksGo
  <2> QED
    BY <1>1, <2>1
<1> HIDE DEF done, e, x
<1>6. CASE r = 0
  <2>1. x = t + l
    BY <1>4, <1>6
  <2> QED
    BY <1>3, <1>5, <1>6, <2>1
<1>7. CASE r # 0
  <2>1. (x % KeystreamSize) + r <= KeystreamSize /\ r > 0
    BY <1>2, <1>4, <1>7, SizeOfKeystream
  <2>2. ChachaMasks(f, x, r)
    BY <1>2, <1>4, <2>1 DEF ChachaMasks, ChachaFrame
  <2>3. Masked(Increment(ChachaAt(f, b, p, x)), 0, r, r) = ChachaAt(f, b, p, x + r)
    BY <1>4, <2>1, <2>2, ChachaBegins
  <2> QED
    BY <1>3, <1>4, <1>5, <1>7, <2>3
<1> QED
  BY <1>6, <1>7

\* mbedtls_chacha20_update() goes on with the keystream for any number of
\* bytes, wherever in a block of it they start.
LEMMA ChachaGoes == \A f, b, p, t, n : ChachaFrame(f) /\ t \in Nat /\ n \in Nat =>
  mbedtls_chacha20_update(ChachaAt(f, b, p, t), n) = ChachaAt(f, b, p, t + n)
<1> TAKE f, b, p, t, n
<1> HAVE ChachaFrame(f) /\ t \in Nat /\ n \in Nat
<1> DEFINE c == ChachaAt(f, b, p, t)
           u == UsedAt(t)
           r == t % KeystreamSize
           head == Least(KeystreamSize - u, n)
           h == t + head
           left == n - head
           begun == Masked(c, u, head, u + head)
           middle == ChachaAt(f, b, p, h)
<1>1. r \in Nat /\ r < KeystreamSize
  BY SizeOfKeystream, Divides
<1>2. u = IF r = 0 THEN KeystreamSize ELSE r
  BY DEF UsedAt
<1>3. c.used = u
  BY ContextHas DEF ChachaAt
<1>9. Mask(c, u, head).used = u
  <2> DEFINE k == CounterAt(0, f.range, KeystreamSize, t)
             m == MaskedAs(0 + 1, f.range, KeystreamSize, t)
             more == m \o MaskRun(k, u, head)
  <2> HIDE DEF u, m, k
  <2>1. c = Ctx(f, k, u, b, p, m)
    BY DEF ChachaAt, k, m, u
  <2> HIDE DEF c, head
  <2>2. Mask(c, u, head) = Ctx(f, k, u, b, p, more)
    BY <2>1, MaskIs
  <2> HIDE DEF more
  <2> QED
    BY <2>2, ContextHas
<1> HIDE DEF c, u
<1>4. mbedtls_chacha20_update(c, n) = ChachaRest(begun, left)
  <2> DEFINE after(h_) == CHOOSE after : after = [i \in 0 .. left \div KeystreamSize |->
                 IF i = 0 THEN h_ ELSE Mask(Increment(after[i - 1]), 0, KeystreamSize)]
             done(h_) == after(h_)[left \div KeystreamSize]
             rest == left % KeystreamSize
             first == [Mask(c, c.used, head) EXCEPT !.used = @ + head]
  <2>1. \A h_ : ChachaRest(h_, left) = IF rest = 0 THEN done(h_)
                                      ELSE [Mask(Increment(done(h_)), 0, rest) EXCEPT !.used = rest]
    BY DEF ChachaRest, ChachaBlocks, Masked
  <2>2. mbedtls_chacha20_update(c, n) = IF rest = 0 THEN done(first)
                                        ELSE [Mask(Increment(done(first)), 0, rest) EXCEPT !.used = rest]
    BY <1>3 DEF mbedtls_chacha20_update
  <2> HIDE DEF head
  <2>3. first = begun
    BY <1>3, <1>9 DEF Masked
  <2> HIDE DEF done, rest, first, begun, left
  <2> QED
    BY <2>1, <2>2, <2>3
<1>5. /\ head \in Nat /\ head <= n /\ (r = 0 => head = 0)
      /\ r # 0 => r + head <= KeystreamSize
      /\ r # 0 /\ r + head < KeystreamSize => head = n
  <2> HIDE DEF r
  <2> QED
    BY <1>1, <1>2, SizeOfKeystream DEF Least
<1> HIDE DEF head
<1>6. h \in Nat /\ left \in Nat /\ h + left = t + n
  BY <1>5
<1>7. CASE r = 0
  <2> DEFINE k == CounterAt(0, f.range, KeystreamSize, t)
             m == MaskedAs(0 + 1, f.range, KeystreamSize, t)
             run == MaskRun(k, u, 0)
  <2>1. head = 0 /\ h = t /\ left = n /\ u + head = u
    BY <1>2, <1>5, <1>7, SizeOfKeystream
  <2>2. c = Ctx(f, k, u, b, p, m)
    BY DEF ChachaAt, c, u
  <2>3. run = <<>>
    <3>1. IsSeq(run) /\ Len(run) = 0
      BY RunIs
    <3> HIDE DEF run
    <3> QED
      BY <3>1, NoCells
  <2>4. m \o run = m
    <3>1. IsSeq(m)
      BY MasksAre
    <3> HIDE DEF m, run
    <3> QED
      BY <2>3, <3>1, JoinedNone
  <2>5. Masked(Ctx(f, k, u, b, p, m), u, 0, u) = Ctx(f, k, u, b, p, m \o run)
    BY MaskedIs
  <2> HIDE DEF k, m, run
  <2>6. begun = c
    BY <2>1, <2>2, <2>4, <2>5
  <2>7. ChachaRest(c, n) = ChachaAt(f, b, p, t + n)
    <3>1. t % KeystreamSize = 0
      BY <1>7
    <3> QED
      BY <3>1, ChachaRestGoes DEF c
  <2> HIDE DEF begun, left
  <2> QED
    BY <1>4, <2>1, <2>6, <2>7 DEF c
<1>8. CASE r # 0
  <2>1. begun = middle
    <3>1. (t % KeystreamSize) + head <= KeystreamSize /\ t % KeystreamSize # 0
      BY <1>5, <1>8
    <3>2. ChachaMasks(f, t, head)
      BY <1>5, <3>1 DEF ChachaMasks, ChachaFrame
    <3>3. Masked(ChachaAt(f, b, p, t), t % KeystreamSize, head, (t % KeystreamSize) + head)
            = ChachaAt(f, b, p, t + head)
      BY <3>1, <3>2, ChachaOn
    <3>4. u = t % KeystreamSize
      BY <1>2, <1>8
    <3> QED
      BY <3>3, <3>4 DEF c
  <2>2. CASE r + head = KeystreamSize
    <3>1. h % KeystreamSize = 0
      <4>1. (t % KeystreamSize) + head <= KeystreamSize /\ (t % KeystreamSize) + head = KeystreamSize
        BY <1>5, <1>8, <2>2
      <4>2. Goings(t, KeystreamSize, head)
        BY <1>5, <4>1, SizeOfKeystream, GoingsAre
      <4> QED
        BY <4>1, <4>2 DEF Goings
    <3> HIDE DEF h, left, begun
    <3>2. ChachaRest(middle, left) = ChachaAt(f, b, p, h + left)
      BY <1>6, <3>1, ChachaRestGoes
    <3> QED
      BY <1>4, <1>6, <2>1, <3>2 DEF c
  <2>3. CASE r + head # KeystreamSize
    <3>1. left = 0 /\ h = t + n
      <4>1. head = n
        <5> HIDE DEF r
        <5> QED
          BY <1>1, <1>5, <1>8, <2>3, SizeOfKeystream
      <4> QED
        BY <4>1
    <3>2. 0 \div KeystreamSize = 0 /\ 0 % KeystreamSize = 0
      <4> DEFINE zero == 0
      <4>1. zero \in Nat /\ zero < KeystreamSize /\ zero = zero * KeystreamSize + zero
        BY SizeOfKeystream
      <4> HIDE DEF zero
      <4>2. zero \div KeystreamSize = zero /\ zero % KeystreamSize = zero
        BY <4>1, SizeOfKeystream, Divided
      <4> QED
        BY <4>2 DEF zero
    <3> HIDE DEF h, left, begun
    <3>3. ChachaRest(middle, 0) = middle
      BY <3>2, ChachaNoBlocks DEF ChachaRest
    <3> QED
      BY <1>4, <2>1, <3>1, <3>3 DEF c
  <2> QED
    BY <2>2, <2>3
<1> QED
  BY <1>7, <1>8 DEF c

-----------------------------------------------------------------------------
(* ChaCha20-Poly1305: both parts are padded to whole blocks.               *)

\* The padding completes a block.
LEMMA ZeroesAre == \A n : n \in Nat =>
  /\ IsSeq(Zeroes(n)) /\ (n + Len(Zeroes(n))) % BlockSize = 0
  /\ n = 0 => Len(Zeroes(n)) = 0
<1> TAKE n
<1> HAVE n \in Nat
<1> DEFINE r == n % BlockSize
           z == (BlockSize - r) % BlockSize
           s == Zeroes(n)
           d == BlockSize - r
           zero == 0
<1>1. r \in Nat /\ r < BlockSize
  BY SizeOfBlock, Divides
<1>2. z \in Nat /\ (r = 0 => z = 0) /\ (r # 0 => z = BlockSize - r)
  <2>1. CASE r = 0
    <3>1. d = BlockSize
      BY <2>1, SizeOfBlock
    <3> HIDE DEF d
    <3>2. d % BlockSize = 0
      BY <3>1, NoRemainder
    <3> QED
      BY <2>1, <3>2 DEF d
  <2>2. CASE r # 0
    <3>1. d \in Nat /\ d < BlockSize /\ d = zero * BlockSize + d /\ zero \in Nat
      <4> HIDE DEF r
      <4> QED
        BY <1>1, <2>2, SizeOfBlock
    <3> HIDE DEF d, zero, r
    <3>2. d % BlockSize = d
      BY <3>1, SizeOfBlock, Divided
    <3> QED
      BY <2>2, <3>1, <3>2 DEF d
  <2> QED
    BY <2>1, <2>2
<1>3. DOMAIN s = 1 .. z /\ s = [i \in DOMAIN s |-> s[i]]
  BY DEF Zeroes
<1> HIDE DEF s, z
<1>4. IsSeq(s) /\ Len(s) = z
  BY <1>2, <1>3, SeqBy
<1>5. (n + z) % BlockSize = 0
  <2>1. CASE r = 0
    <3>1. n + z = n
      BY <1>2, <2>1
    <3> QED
      BY <2>1, <3>1
  <2>2. CASE r # 0
    <3>1. r + z = BlockSize /\ r + z <= BlockSize
      <4> HIDE DEF r
      <4> QED
        BY <1>1, <1>2, <2>2, SizeOfBlock
    <3>2. (n % BlockSize) + z = BlockSize /\ (n % BlockSize) + z <= BlockSize
      BY <3>1
    <3>3. BlockSize \in Nat /\ BlockSize > 0
      BY SizeOfBlock
    <3>4. Goings(n, BlockSize, z)
      BY <1>2, <3>2, <3>3, GoingsAre
    <3> QED
      BY <3>2, <3>4 DEF Goings
  <2> QED
    BY <2>1, <2>2
<1>6. n = 0 => r = 0
  BY NoRemainder
<1> HIDE DEF r
<1> QED
  BY <1>2, <1>4, <1>5, <1>6 DEF s

PaddedCells(cells, n) == cells \o Zeroes(n)
HoldsAll(cells, S, n) == Takes(cells, S, 0) /\ Len(cells) = n

\* chachapoly_pad_aad() and chachapoly_pad_ciphertext() close a part.
LEMMA PolyPads == \A f, k, u, base, S, m, cells, n : IsSeq(base) /\ n \in Nat /\ HoldsAll(cells, S, n) =>
  /\ Pad(Fed(f, k, u, base, S, n, m), n) = Ctx(f, k, u, base \o Chop(PaddedCells(cells, n)), <<>>, m)
  /\ IsSeq(base \o Chop(PaddedCells(cells, n)))
<1> TAKE f, k, u, base, S, m, cells, n
<1> HAVE IsSeq(base) /\ n \in Nat /\ HoldsAll(cells, S, n)
<1> DEFINE zs == Zeroes(n)
           l == Len(zs)
           x == n + l
           T == PaddedCells(cells, n)
           c == Fed(f, k, u, base, S, n, m)
           d == Fed(f, k, u, base, T, n, m)
           e == Fed(f, k, u, base, T, x, m)
           closed == Ctx(f, k, u, base \o InBlocks(T, x), <<>>, m)
<1>1. IsSeq(zs) /\ x % BlockSize = 0 /\ l \in Nat
  BY ZeroesAre DEF IsSeq
<1>2. IsSeq(cells) /\ Len(cells) = n /\ \A i \in 1 .. n : cells[i] = S[i]
  <2>1. IsSeq(cells) /\ Len(cells) = n /\ \A i \in 1 .. n : cells[i] = S[0 + i]
    BY DEF HoldsAll, Takes
  <2>2. \A i \in 1 .. n : 0 + i = i
    OBVIOUS
  <2> QED
    BY <2>1, <2>2
<1> HIDE DEF zs
<1>3. IsJoin(T, cells, zs)
  BY <1>1, <1>2, Joins DEF PaddedCells, zs
<1>4. x \in Nat
  BY <1>1
<1> HIDE DEF T
<1>5. IsSeq(T) /\ Len(T) = x /\ (\A i \in 1 .. n : T[i] = cells[i]) /\ \A i \in 1 .. l : T[n + i] = zs[i]
  BY <1>1, <1>2, <1>3 DEF IsJoin
<1>6. Takes(zs, T, n)
  BY <1>1, <1>5 DEF Takes
<1>7. c = d
  <2>1. \A i \in 1 .. n : S[i] = T[i]
    BY <1>2, <1>5
  <2> QED
    BY <2>1, FedSame
<1>8. Len(c.part) = n % BlockSize
  BY FedHas
<1> HIDE DEF l
<1>9. AbsorbCells(d, n % BlockSize, zs) = e
  <2>1. AbsorbCells(Fed(f, k, u, base, T, n, m), n % BlockSize, zs) = Fed(f, k, u, base, T, n + Len(zs), m)
    BY <1>6, CellsGo
  <2> QED
    BY <2>1 DEF l
<1> HIDE DEF c, d, e, x, closed
<1>10. Pad(c, n) = e
  BY <1>7, <1>8, <1>9 DEF Pad, mbedtls_poly1305_update, zs
<1>11. Closes(e, x, closed) /\ IsSeq(base \o InBlocks(T, x))
  BY <1>4, FedClosed, FedCloses DEF e, closed
<1>12. e = closed
  BY <1>1, <1>11 DEF Closes
<1>13. Chop(T) = InBlocks(T, x)
  <2>1. Takes(T, T, 0)
    BY <1>5, TakesItself
  <2>2. Chop(T) = InBlocks(T, Len(T))
    BY <2>1, ChopAll
  <2> QED
    BY <1>5, <2>2
<1> QED
  BY <1>10, <1>11, <1>12, <1>13 DEF closed, c, T

\* Poly1305 takes any cells.
LEMMA PolyGoes == \A f, k, u, base, S, m, cells, n : IsSeq(base) /\ n \in Nat /\ Takes(cells, S, n) =>
  mbedtls_poly1305_update(Fed(f, k, u, base, S, n, m), cells) = Fed(f, k, u, base, S, n + Len(cells), m)
<1> TAKE f, k, u, base, S, m, cells, n
<1> HAVE IsSeq(base) /\ n \in Nat /\ Takes(cells, S, n)
<1> DEFINE c == Fed(f, k, u, base, S, n, m)
<1>1. Len(c.part) = n % BlockSize
  BY FedHas
<1>2. AbsorbCells(c, n % BlockSize, cells) = Fed(f, k, u, base, S, n + Len(cells), m)
  BY CellsGo
<1> HIDE DEF c
<1>3. mbedtls_poly1305_update(c, cells) = AbsorbCells(c, n % BlockSize, cells)
  BY <1>1 DEF mbedtls_poly1305_update
<1> QED
  BY <1>2, <1>3 DEF c

\* The block of the lengths in Poly1305.
LEMMA PolyBlock == \A f, k, u, base, m, cells : IsSeq(base) /\ IsBlock(cells) =>
  mbedtls_poly1305_update(Ctx(f, k, u, base, <<>>, m), cells) = Ctx(f, k, u, base \o Chop(cells), <<>>, m)
<1> TAKE f, k, u, base, m, cells
<1> HAVE IsSeq(base) /\ IsBlock(cells)
<1> DEFINE c == Ctx(f, k, u, base, <<>>, m)
<1>1. Len(c.part) = 0
  <2>1. c.part = <<>>
    BY ContextHas
  <2> QED
    BY <2>1, NoCells
<1>2. AbsorbCells(c, 0, cells) = Ctx(f, k, u, base \o Chop(cells), <<>>, m)
  BY BlockCloses
<1> HIDE DEF c
<1>3. mbedtls_poly1305_update(c, cells) = AbsorbCells(c, 0, cells)
  BY <1>1 DEF mbedtls_poly1305_update
<1> QED
  BY <1>2, <1>3 DEF c

\* ChaCha20-Poly1305 after a bytes of additional data and b bytes of the body,
\* which was begun.
ChaFrame(flags, a, b) == Frame(flags, a, 0, b, 0, CounterRange, 1)
ChaAdded(a) == Fed(ChaFrame({"AAD"}, a, 0), 0, KeystreamSize, <<>>, AdStream, a, <<>>)
PolyAd(a) == Chop(PaddedCells(AdCells(0, a), a))
PolyBody(b) == Chop(PaddedCells(BodyCells(0, b), b))
ChaCounter(b) == CounterAt(0, CounterRange, KeystreamSize, b)
ChaMasks(b) == MaskedAs(0 + 1, CounterRange, KeystreamSize, b)
ChaBodied(a, b) ==
    Fed(ChaFrame({"CIPHERTEXT"}, a, b), ChaCounter(b), UsedAt(b), PolyAd(a), BodyStream, b,
        ChaMasks(b))

\* The fields of the context of ChaCha20-Poly1305.
LEMMA ChaFrames == \A flags, a, b : LET f == ChaFrame(flags, a, b) IN
  /\ f.flags = flags /\ f.add_len = a /\ f.total = 0 /\ f.len = b /\ f.processed = 0
  /\ f.range = CounterRange /\ f.first = 1
BY FrameHas DEF ChaFrame

\* The cells of all of the additional data.
LEMMA AdHeld == \A a : a \in Nat => HoldsAll(AdCells(0, a), AdStream, a)
BY AdTakes DEF HoldsAll

\* The cells of all of the body.
LEMMA BodyHeld == \A b : b \in Nat => HoldsAll(BodyCells(0, b), BodyStream, b)
BY BodyTakes DEF HoldsAll

\* The blocks of the additional data.
LEMMA PolyAdIs == \A a : a \in Nat => IsSeq(PolyAd(a)) /\ <<>> \o PolyAd(a) = PolyAd(a)
<1> TAKE a
<1> HAVE a \in Nat
<1> DEFINE cells == AdCells(0, a)
           none == <<>>
           blocks == Chop(PaddedCells(cells, a))
<1>1. IsSeq(none)
  BY NoCells
<1>2. HoldsAll(cells, AdStream, a)
  BY AdHeld
<1>3. IsSeq(blocks)
  <2> DEFINE padded == PaddedCells(cells, a)
  <2>1. IsSeq(cells) /\ IsSeq(Zeroes(a))
    BY <1>2, ZeroesAre DEF HoldsAll, Takes
  <2> HIDE DEF cells
  <2>2. IsSeq(padded)
    BY <2>1, Joined DEF PaddedCells
  <2> HIDE DEF padded
  <2>3. Takes(padded, padded, 0)
    BY <2>2, TakesItself
  <2>4. IsSeq(Chop(padded))
    BY <2>3, ChopAll
  <2> QED
    BY <2>4 DEF padded
<1> HIDE DEF blocks
<1>4. none \o blocks = blocks
  BY <1>3, JoinedNone
<1> QED
  BY <1>3, <1>4 DEF blocks, PolyAd

\* The starting point of the keystream: the whole of a block is used up.
LEMMA ChaNoneMasked == ChaCounter(0) = 0 /\ UsedAt(0) = KeystreamSize /\ ChaMasks(0) = <<>>
<1>1. 0 % KeystreamSize = 0
  BY SizeOfKeystream
<1>2. ChaCounter(0) = 0
  <2> DEFINE zero == 0
  <2>1. zero \in Nat /\ zero < CounterRange
    BY RangeOfCounter
  <2> HIDE DEF zero
  <2>2. CounterAt(zero, CounterRange, KeystreamSize, 0) = zero
    BY <2>1, RangeOfCounter, SizeOfKeystream, MasksStart
  <2> QED
    BY <2>2 DEF zero, ChaCounter
<1>3. ChaMasks(0) = <<>>
  BY NoMasks DEF ChaMasks
<1> QED
  BY <1>1, <1>2, <1>3 DEF UsedAt

\* Only the state of chachapoly.c changes.
LEMMA ChaFlags == \A flags, x, a, b, k, u, bs, p, m :
  [Ctx(ChaFrame(flags, a, b), k, u, bs, p, m) EXCEPT !.flags = x] = Ctx(ChaFrame(x, a, b), k, u, bs, p, m)
BY FrameBut DEF ChaFrame

\* mbedtls_chachapoly_starts() begins with the additional data.
LEMMA ChaStartsAs == mbedtls_chachapoly_starts(Keyed) = Proceed(ChaAdded(0))
<1> DEFINE CR == CounterRange
           KS == KeystreamSize
           none == <<>>
           AAD == {"AAD"}
           noflag == {}
           e(flags, first, used) == Ctx(Frame(flags, 0, 0, 0, 0, CR, first), 0, used, none, none, none)
           k1 == [Keyed EXCEPT !.flags = AAD]
           k2 == [k1 EXCEPT !.first = 1]
           k3 == [k2 EXCEPT !.ctr = 0]
           k4 == [k3 EXCEPT !.used = KS]
           k5 == [k4 EXCEPT !.add_len = 0]
           k6 == [k5 EXCEPT !.len = 0]
<1>1. mbedtls_chachapoly_starts(Keyed) = Proceed(k6)
  BY DEF mbedtls_chachapoly_starts
<1>2. Keyed = e(noflag, 0, 0)
  BY KeyedIs
<1>3. ChaAdded(0) = e(AAD, 1, KS)
  <2> DEFINE f == ChaFrame(AAD, 0, 0)
  <2>1. IsSeq(none)
    BY NoCells
  <2> HIDE DEF f, none
  <2>2. Fed(f, 0, KS, none, AdStream, 0, none) = Ctx(f, 0, KS, none, <<>>, none)
    BY <2>1, FedNone
  <2> QED
    BY <2>2 DEF f, none, ChaAdded, ChaFrame
<1> HIDE DEF AAD, none, noflag, CR, KS
<1>4. k1 = e(AAD, 0, 0)
  <2>1. [e(noflag, 0, 0) EXCEPT !.flags = AAD] = e(AAD, 0, 0)
    BY FrameBut
  <2> HIDE DEF e
  <2> QED
    BY <1>2, <2>1
<1> HIDE DEF k1
<1>5. k2 = e(AAD, 1, 0)
  <2>1. [e(AAD, 0, 0) EXCEPT !.first = 1] = e(AAD, 1, 0)
    BY FrameBut
  <2> HIDE DEF e
  <2> QED
    BY <1>4, <2>1
<1> HIDE DEF k2
<1>6. k3 = e(AAD, 1, 0)
  <2>1. [e(AAD, 1, 0) EXCEPT !.ctr = 0] = e(AAD, 1, 0)
    BY ContextBut
  <2> HIDE DEF e
  <2> QED
    BY <1>5, <2>1
<1> HIDE DEF k3
<1>7. k4 = e(AAD, 1, KS)
  <2>1. [e(AAD, 1, 0) EXCEPT !.used = KS] = e(AAD, 1, KS)
    BY ContextBut
  <2> HIDE DEF e
  <2> QED
    BY <1>6, <2>1
<1> HIDE DEF k4
<1>8. k5 = e(AAD, 1, KS)
  <2>1. [e(AAD, 1, KS) EXCEPT !.add_len = 0] = e(AAD, 1, KS)
    BY FrameBut
  <2> HIDE DEF e
  <2> QED
    BY <1>7, <2>1
<1> HIDE DEF k5
<1>9. k6 = e(AAD, 1, KS)
  <2>1. [e(AAD, 1, KS) EXCEPT !.len = 0] = e(AAD, 1, KS)
    BY FrameBut
  <2> HIDE DEF e
  <2> QED
    BY <1>8, <2>1
<1> HIDE DEF k6, e
<1> QED
  BY <1>1, <1>3, <1>9

\* mbedtls_chachapoly_update_aad() goes on with the additional data.
LEMMA ChaAdAs == \A a, n : a \in Nat /\ n \in Nat =>
  mbedtls_chachapoly_update_aad(ChaAdded(a), AdCells(a, n)) = Proceed(ChaAdded(a + n))
<1> TAKE a, n
<1> HAVE a \in Nat /\ n \in Nat
<1> DEFINE AAD == {"AAD"}
           KS == KeystreamSize
           none == <<>>
           m == <<>>
           f == ChaFrame(AAD, a, 0)
           c == Fed(f, 0, KS, none, AdStream, a, m)
           d == Fed(f, 0, KS, none, AdStream, a + n, m)
           e == Fed(ChaFrame(AAD, a + n, 0), 0, KS, none, AdStream, a + n, m)
           cells == AdCells(a, n)
<1>1. Takes(cells, AdStream, a) /\ Len(cells) = n
  BY AdTakes
<1>2. f.flags = AAD /\ f.add_len = a
  BY ChaFrames
<1>3. IsSeq(none)
  BY NoCells
<1>4. c = ChaAdded(a) /\ e = ChaAdded(a + n)
  BY DEF ChaAdded
<1>5. \A x : [d EXCEPT !.add_len = x] = Fed(ChaFrame(AAD, x, 0), 0, KS, none, AdStream, a + n, m)
  BY FedFrame DEF ChaFrame
<1>6. [d EXCEPT !.add_len = a + n] = e
  BY <1>5
<1> HIDE DEF f, none, m, cells
<1>7. c.flags = AAD /\ d.add_len = a
  <2>1. a + n \in Nat
    OBVIOUS
  <2> QED
    BY <1>2, <2>1, FedHas
<1>8. mbedtls_poly1305_update(c, cells) = d
  <2>1. mbedtls_poly1305_update(c, cells) = Fed(f, 0, KS, none, AdStream, a + Len(cells), m)
    BY <1>1, <1>3, PolyGoes
  <2> QED
    BY <1>1, <2>1
<1> HIDE DEF c, d, e
<1>9. mbedtls_chachapoly_update_aad(c, cells) = Proceed(e)
  BY <1>1, <1>6, <1>7, <1>8 DEF mbedtls_chachapoly_update_aad
<1> QED
  BY <1>4, <1>9 DEF cells

\* The body begins: the additional data is padded.
LEMMA ChaBegins == \A a : a \in Nat =>
  /\ Pad(ChaAdded(a), a) = Ctx(ChaFrame({"AAD"}, a, 0), 0, KeystreamSize, PolyAd(a), <<>>, <<>>)
  /\ [Pad(ChaAdded(a), a) EXCEPT !.flags = {"CIPHERTEXT"}] = ChaBodied(a, 0)
<1> TAKE a
<1> HAVE a \in Nat
<1> DEFINE AAD == {"AAD"}
           CIPH == {"CIPHERTEXT"}
           KS == KeystreamSize
           none == <<>>
           m == <<>>
           f == ChaFrame(AAD, a, 0)
           g == ChaFrame(CIPH, a, 0)
           cells == AdCells(0, a)
           base == PolyAd(a)
<1>1. HoldsAll(cells, AdStream, a) /\ IsSeq(none)
  BY AdHeld, NoCells
<1>2. IsSeq(base) /\ none \o base = base
  BY PolyAdIs
<1>3. base = Chop(PaddedCells(cells, a))
  BY DEF PolyAd
<1>4. ChaAdded(a) = Fed(f, 0, KS, none, AdStream, a, m)
  BY DEF ChaAdded
<1>5. ChaBodied(a, 0) = Fed(g, 0, KS, base, BodyStream, 0, m)
  BY ChaNoneMasked DEF ChaBodied
<1>6. [Ctx(f, 0, KS, base, <<>>, m) EXCEPT !.flags = CIPH] = Ctx(g, 0, KS, base, <<>>, m)
  <2> HIDE DEF AAD, CIPH, m, base
  <2> QED
    BY ChaFlags
<1> HIDE DEF f, g, m, none, cells, base, AAD, CIPH
<1>7. Pad(Fed(f, 0, KS, none, AdStream, a, m), a) = Ctx(f, 0, KS, base, <<>>, m)
  <2>1. Pad(Fed(f, 0, KS, none, AdStream, a, m), a) = Ctx(f, 0, KS, none \o Chop(PaddedCells(cells, a)), <<>>, m)
    BY <1>1, PolyPads
  <2> QED
    BY <1>2, <1>3, <2>1
<1>8. Fed(g, 0, KS, base, BodyStream, 0, m) = Ctx(g, 0, KS, base, <<>>, m)
  BY <1>2, FedNone
<1> QED
  BY <1>4, <1>5, <1>6, <1>7, <1>8 DEF AAD, CIPH, f, m, base

FedBlocks(base, S, n) == base \o FullBlocks(S, n \div BlockSize)
FedPart(S, n) == BlockFrom(S, (n \div BlockSize) * BlockSize, n % BlockSize)

\* A context while a stream is fed, as blocks and the block in hand.
LEMMA FedParts == \A f, k, u, base, S, n, m :
  Fed(f, k, u, base, S, n, m) = Ctx(f, k, u, FedBlocks(base, S, n), FedPart(S, n), m)
BY DEF Fed, FedAs, FedBlocks, FedPart

\* ChaCha20 goes on over the body while Poly1305 is ahead of it.
LEMMA ChaMasksGo == \A f, base, b, n, x : f.range = CounterRange /\ b \in Nat /\ n \in Nat /\ x = b + n =>
  mbedtls_chacha20_update(
      Fed(f, ChaCounter(b), UsedAt(b), base, BodyStream, x, ChaMasks(b)), n)
    = Fed(f, ChaCounter(x), UsedAt(x), base, BodyStream, x, ChaMasks(x))
<1> TAKE f, base, b, n, x
<1> HAVE f.range = CounterRange /\ b \in Nat /\ n \in Nat /\ x = b + n
<1> DEFINE bs == FedBlocks(base, BodyStream, x)
           p == FedPart(BodyStream, x)
<1>1. ChachaFrame(f)
  BY RangeOfCounter DEF ChachaFrame
<1>2. \A k, u, m : Fed(f, k, u, base, BodyStream, x, m) = Ctx(f, k, u, bs, p, m)
  BY FedParts
<1> HIDE DEF bs, p
<1>3. mbedtls_chacha20_update(ChachaAt(f, bs, p, b), n) = ChachaAt(f, bs, p, x)
  BY <1>1, ChachaGoes
<1>4. \A t : ChachaAt(f, bs, p, t) = Ctx(f, ChaCounter(t), UsedAt(t), bs, p, ChaMasks(t))
  BY DEF ChachaAt, ChaCounter, ChaMasks
<1>5. /\ Fed(f, ChaCounter(b), UsedAt(b), base, BodyStream, x, ChaMasks(b)) = ChachaAt(f, bs, p, b)
      /\ Fed(f, ChaCounter(x), UsedAt(x), base, BodyStream, x, ChaMasks(x)) = ChachaAt(f, bs, p, x)
  BY <1>2, <1>4
<1> QED
  BY <1>3, <1>5

\* Poly1305 and ChaCha20 go on with the body together.
LEMMA ChaBodyGoes == \A a, b, n : a \in Nat /\ b \in Nat /\ n \in Nat =>
  LET c == mbedtls_poly1305_update(ChaBodied(a, b), BodyCells(b, n))
      d == mbedtls_chacha20_update(c, n)
  IN  [d EXCEPT !.len = @ + n] = ChaBodied(a, b + n)
<1> TAKE a, b, n
<1> HAVE a \in Nat /\ b \in Nat /\ n \in Nat
<1> DEFINE CIPH == {"CIPHERTEXT"}
           f == ChaFrame(CIPH, a, b)
           g == ChaFrame(CIPH, a, b + n)
           base == PolyAd(a)
           cells == BodyCells(b, n)
           k == ChaCounter(b)
           u == UsedAt(b)
           m == ChaMasks(b)
           k2 == ChaCounter(b + n)
           u2 == UsedAt(b + n)
           m2 == ChaMasks(b + n)
           c == Fed(f, k, u, base, BodyStream, b + n, m)
           d == Fed(f, k2, u2, base, BodyStream, b + n, m2)
           e == Fed(g, k2, u2, base, BodyStream, b + n, m2)
<1>1. Takes(cells, BodyStream, b) /\ Len(cells) = n
  BY BodyTakes
<1>2. IsSeq(base)
  BY PolyAdIs
<1>3. f.range = CounterRange /\ f.len = b
  BY ChaFrames
<1>4. ChaBodied(a, b) = Fed(f, k, u, base, BodyStream, b, m) /\ ChaBodied(a, b + n) = e
  BY DEF ChaBodied
<1> HIDE DEF cells
<1>5. mbedtls_poly1305_update(Fed(f, k, u, base, BodyStream, b, m), cells) = c
  <2> HIDE DEF f, base, k, u, m
  <2>1. mbedtls_poly1305_update(Fed(f, k, u, base, BodyStream, b, m), cells)
          = Fed(f, k, u, base, BodyStream, b + Len(cells), m)
    BY <1>1, <1>2, PolyGoes
  <2> QED
    BY <1>1, <2>1
<1>6. mbedtls_chacha20_update(c, n) = d
  <2> DEFINE x == b + n
  <2>1. x = b + n
    OBVIOUS
  <2> HIDE DEF f, base, x
  <2>2. mbedtls_chacha20_update(Fed(f, ChaCounter(b), UsedAt(b), base, BodyStream, x, ChaMasks(b)), n)
          = Fed(f, ChaCounter(x), UsedAt(x), base, BodyStream, x, ChaMasks(x))
    BY <1>3, <2>1, ChaMasksGo
  <2> QED
    BY <2>2 DEF x
<1>7. \A x : [d EXCEPT !.len = x] = Fed(ChaFrame(CIPH, a, x), k2, u2, base, BodyStream, b + n, m2)
  BY FedFrame DEF ChaFrame
<1>8. [d EXCEPT !.len = b + n] = e
  BY <1>7
<1>9. d.len = b
  <2>1. b + n \in Nat
    OBVIOUS
  <2> HIDE DEF f
  <2> QED
    BY <1>3, <2>1, FedHas
<1> HIDE DEF c, d, e
<1>10. [d EXCEPT !.len = @ + n] = e
  BY <1>8, <1>9
<1> QED
  BY <1>4, <1>5, <1>6, <1>10 DEF cells

\* The fields of the context of ChaCha20-Poly1305 in the body.
LEMMA ChaBodyHas == \A a, b : a \in Nat /\ b \in Nat =>
  LET c == ChaBodied(a, b) IN
  /\ c.flags = {"CIPHERTEXT"} /\ c.add_len = a /\ c.len = b /\ c.range = CounterRange
  /\ c.first = 1 /\ c.masks = ChaMasks(b)
<1> TAKE a, b
<1> HAVE a \in Nat /\ b \in Nat
<1> DEFINE f == ChaFrame({"CIPHERTEXT"}, a, b)
<1>1. /\ f.flags = {"CIPHERTEXT"} /\ f.add_len = a /\ f.len = b /\ f.range = CounterRange
      /\ f.first = 1
  BY ChaFrames
<1> HIDE DEF f
<1>2. ChaBodied(a, b) = Fed(f, ChaCounter(b), UsedAt(b), PolyAd(a), BodyStream, b, ChaMasks(b))
  BY DEF ChaBodied, f
<1> QED
  BY <1>1, <1>2, FedHas

\* The fields of the context of ChaCha20-Poly1305 before the body.
LEMMA ChaAddedHas == \A a : a \in Nat =>
  LET c == ChaAdded(a) IN
  /\ c.flags = {"AAD"} /\ c.add_len = a /\ c.len = 0 /\ c.range = CounterRange
  /\ c.first = 1 /\ c.masks = ChaMasks(0)
<1> TAKE a
<1> HAVE a \in Nat
<1> DEFINE f == ChaFrame({"AAD"}, a, 0)
<1>1. /\ f.flags = {"AAD"} /\ f.add_len = a /\ f.len = 0 /\ f.range = CounterRange
      /\ f.first = 1
  BY ChaFrames
<1> HIDE DEF f
<1>2. ChaAdded(a) = Fed(f, 0, KeystreamSize, <<>>, AdStream, a, <<>>)
  BY DEF ChaAdded, f
<1> QED
  BY <1>1, <1>2, FedHas, ChaNoneMasked

\* In which of the two parts the context is.
ChaCtx(a, b, begun) == IF begun THEN ChaBodied(a, b) ELSE ChaAdded(a)

\* mbedtls_chachapoly_update() goes on with the body, and pads the additional
\* data when it begins.
LEMMA ChaUpdateAs == \A a, b, n : \A begun \in BOOLEAN :
  a \in Nat /\ b \in Nat /\ n \in Nat /\ (begun \/ b = 0) =>
    mbedtls_chachapoly_update(ChaCtx(a, b, begun), BodyCells(b, n)) = Proceed(ChaBodied(a, b + n))
<1> TAKE a, b, n
<1> TAKE begun \in BOOLEAN
<1> HAVE a \in Nat /\ b \in Nat /\ n \in Nat /\ (begun \/ b = 0)
<1> DEFINE c == ChaCtx(a, b, begun)
           d == ChaBodied(a, b)
           e == ChaBodied(a, b + n)
           cells == BodyCells(b, n)
           started == IF c.flags = {"AAD"} THEN [Pad(c, c.add_len) EXCEPT !.flags = {"CIPHERTEXT"}] ELSE c
           fed == mbedtls_poly1305_update(d, cells)
<1>1. c.flags \in {{"AAD"}, {"CIPHERTEXT"}} /\ started = d
  <2>1. CASE begun
    <3>1. c = d
      BY <2>1 DEF ChaCtx
    <3>2. c.flags = {"CIPHERTEXT"}
      BY <3>1, ChaBodyHas
    <3> HIDE DEF c, d
    <3> QED
      BY <3>1, <3>2
  <2>2. CASE ~begun
    <3>1. c = ChaAdded(a)
      BY <2>2 DEF ChaCtx
    <3>2. c.flags = {"AAD"} /\ c.add_len = a
      BY <3>1, ChaAddedHas
    <3>3. [Pad(ChaAdded(a), a) EXCEPT !.flags = {"CIPHERTEXT"}] = d
      BY <2>2, ChaBegins
    <3> HIDE DEF c, d
    <3> QED
      BY <3>1, <3>2, <3>3
  <2> QED
    BY <2>1, <2>2
<1>2. Len(cells) = n
  BY BodyTakes
<1>3. [mbedtls_chacha20_update(fed, n) EXCEPT !.len = @ + n] = e
  BY ChaBodyGoes
<1>4. mbedtls_chachapoly_update(c, cells)
        = IF c.flags \notin {{"AAD"}, {"CIPHERTEXT"}} THEN Stop(c, "BAD_STATE")
          ELSE Proceed([mbedtls_chacha20_update(mbedtls_poly1305_update(started, cells), Len(cells))
                          EXCEPT !.len = @ + Len(cells)])
  BY DEF mbedtls_chachapoly_update
<1> HIDE DEF c, d, e, cells, started
<1>5. mbedtls_poly1305_update(started, cells) = fed
  BY <1>1
<1> HIDE DEF fed
<1> QED
  BY <1>1, <1>2, <1>3, <1>4, <1>5 DEF c, e, cells

\* An empty body has no blocks.
LEMMA NoBodyBlocks == Chop(BodyCells(0, 0)) = <<>> /\ PolyBody(0) = <<>>
<1> DEFINE cells == BodyCells(0, 0)
           zs == Zeroes(0)
           none == <<>>
<1>1. IsSeq(cells) /\ Len(cells) = 0
  BY BodyTakes DEF Takes
<1>2. IsSeq(zs) /\ Len(zs) = 0
  BY ZeroesAre
<1> HIDE DEF cells, zs
<1>3. cells = none /\ zs = none /\ IsSeq(none) /\ Len(none) = 0
  BY <1>1, <1>2, NoCells
<1> HIDE DEF none
<1>4. cells \o zs = none
  BY <1>3, JoinedNone, NoCells DEF none
<1>5. Chop(none) = <<>>
  <2>1. Takes(none, BodyStream, 0)
    BY NoneTakes DEF none
  <2>2. Chop(none) = InBlocks(BodyStream, Len(none))
    BY <2>1, ChopAll
  <2>3. InBlocks(BodyStream, 0) = Chopped(BodyStream, 0, 0)
    BY NoRemainder DEF InBlocks
  <2>4. IsSeq(Chopped(BodyStream, 0, 0)) /\ Len(Chopped(BodyStream, 0, 0)) = 0
    BY ChoppedIs
  <2>5. Chopped(BodyStream, 0, 0) = <<>>
    BY <2>4, NoCells
  <2> QED
    BY <1>3, <2>2, <2>3, <2>5
<1>6. PolyBody(0) = Chop(cells \o zs)
  BY DEF PolyBody, PaddedCells, cells, zs
<1> QED
  BY <1>3, <1>4, <1>5, <1>6 DEF cells

\* The blocks of the body.
LEMMA PolyBodyIs == \A b : b \in Nat => IsSeq(PolyBody(b))
<1> TAKE b
<1> HAVE b \in Nat
<1> DEFINE padded == PaddedCells(BodyCells(0, b), b)
<1>1. IsSeq(BodyCells(0, b)) /\ IsSeq(Zeroes(b))
  BY BodyTakes, ZeroesAre DEF Takes
<1>2. IsSeq(padded)
  BY <1>1, Joined DEF PaddedCells
<1> HIDE DEF padded
<1>3. Takes(padded, padded, 0)
  BY <1>2, TakesItself
<1>4. IsSeq(Chop(padded))
  BY <1>3, ChopAll
<1> QED
  BY <1>4 DEF padded, PolyBody

\* Both parts end with a whole block.
LEMMA ChaPads == \A a, b : \A begun \in BOOLEAN :
  a \in Nat /\ b \in Nat /\ (begun \/ b = 0) =>
    LET c == ChaCtx(a, b, begun)
        padded == IF c.flags = {"AAD"} THEN Pad(c, c.add_len)
                  ELSE IF c.flags = {"CIPHERTEXT"} THEN Pad(c, c.len) ELSE c
    IN  \E f, k, u : padded = Ctx(f, k, u, PolyAd(a) \o PolyBody(b), <<>>, ChaMasks(b))
<1> TAKE a, b
<1> TAKE begun \in BOOLEAN
<1> HAVE a \in Nat /\ b \in Nat /\ (begun \/ b = 0)
<1> DEFINE c == ChaCtx(a, b, begun)
           padded == IF c.flags = {"AAD"} THEN Pad(c, c.add_len)
                     ELSE IF c.flags = {"CIPHERTEXT"} THEN Pad(c, c.len) ELSE c
           base == PolyAd(a)
           body == PolyBody(b)
           m == ChaMasks(b)
<1>0. IsSeq(base)
  BY PolyAdIs
<1>1. CASE begun
  <2> DEFINE f == ChaFrame({"CIPHERTEXT"}, a, b)
             k == ChaCounter(b)
             u == UsedAt(b)
             cells == BodyCells(0, b)
  <2>1. c = ChaBodied(a, b)
    BY <1>1 DEF ChaCtx
  <2>2. c.flags = {"CIPHERTEXT"} /\ c.len = b
    BY <2>1, ChaBodyHas
  <2>3. c = Fed(f, k, u, base, BodyStream, b, m)
    BY <2>1 DEF ChaBodied
  <2>4. HoldsAll(cells, BodyStream, b)
    BY BodyHeld
  <2>5. body = Chop(PaddedCells(cells, b))
    BY DEF PolyBody
  <2> HIDE DEF c
  <2>6. padded = Pad(c, b)
    BY <2>2
  <2> HIDE DEF f, k, u, cells, base, body, m
  <2>7. Pad(Fed(f, k, u, base, BodyStream, b, m), b) = Ctx(f, k, u, base \o Chop(PaddedCells(cells, b)), <<>>, m)
    BY <1>0, <2>4, PolyPads
  <2> HIDE DEF padded
  <2>8. padded = Ctx(f, k, u, base \o body, <<>>, m)
    BY <2>3, <2>5, <2>6, <2>7
  <2> QED
    BY <2>8 DEF padded, base, body, m, c
<1>2. CASE ~begun
  <2> DEFINE f == ChaFrame({"AAD"}, a, 0)
  <2>1. c = ChaAdded(a) /\ b = 0
    BY <1>2 DEF ChaCtx
  <2>2. c.flags = {"AAD"} /\ c.add_len = a
    BY <2>1, ChaAddedHas
  <2>3. Pad(ChaAdded(a), a) = Ctx(f, 0, KeystreamSize, base, <<>>, <<>>)
    BY ChaBegins
  <2>4. m = <<>> /\ body = <<>>
    BY <2>1, ChaNoneMasked, NoBodyBlocks
  <2>5. base \o body = base
    BY <1>0, <2>4, JoinedNone
  <2> HIDE DEF c, f, m, base, body
  <2>6. padded = Ctx(f, 0, KeystreamSize, base \o body, <<>>, m)
    BY <2>1, <2>2, <2>3, <2>4, <2>5
  <2> HIDE DEF padded
  <2> QED
    BY <2>6 DEF padded, base, body, m, c
<1> QED
  BY <1>1, <1>2

\* mbedtls_chachapoly_finish() makes a tag over both parts and their lengths.
LEMMA ChaFinishAs == \A a, b : \A begun \in BOOLEAN :
  a \in Nat /\ b \in Nat /\ (begun \/ b = 0) =>
    Covers("CHACHA20_POLY1305", mbedtls_chachapoly_finish(ChaCtx(a, b, begun)), a, b)
<1> TAKE a, b
<1> TAKE begun \in BOOLEAN
<1> HAVE a \in Nat /\ b \in Nat /\ (begun \/ b = 0)
<1> DEFINE c == ChaCtx(a, b, begun)
           padded == IF c.flags = {"AAD"} THEN Pad(c, c.add_len)
                     ELSE IF c.flags = {"CIPHERTEXT"} THEN Pad(c, c.len) ELSE c
           cells == Lengths(a, b)
           queued == mbedtls_poly1305_update(padded, cells)
           ended == IF queued.part # <<>> THEN Absorb(queued) ELSE queued
           done == [ended EXCEPT !.flags = {"FINISHED"}]
           base == PolyAd(a)
           body == PolyBody(b)
           m == ChaMasks(b)
           all == (base \o body) \o Chop(cells)
           r == mbedtls_chachapoly_finish(c)
<1>1. PICK f, k, u : padded = Ctx(f, k, u, base \o body, <<>>, m)
  BY ChaPads
<1>2. c.flags # {} /\ c.add_len = a /\ c.len = b
  <2>1. CASE begun
    BY <2>1, ChaBodyHas DEF ChaCtx
  <2>2. CASE ~begun
    BY <2>2, ChaAddedHas DEF ChaCtx
  <2> QED
    BY <2>1, <2>2
<1>3. r = IF c.flags = {} THEN Stop(c, "BAD_STATE")
          ELSE Proceed([(IF mbedtls_poly1305_update(padded, Lengths(c.add_len, c.len)).part # <<>>
                         THEN Absorb(mbedtls_poly1305_update(padded, Lengths(c.add_len, c.len)))
                         ELSE mbedtls_poly1305_update(padded, Lengths(c.add_len, c.len)))
                          EXCEPT !.flags = {"FINISHED"}])
  BY DEF mbedtls_chachapoly_finish
<1>4. IsBlock(cells)
  BY LengthsAre DEF IsBlock
<1>5. IsSeq(base \o body)
  BY PolyAdIs, PolyBodyIs, Joined
<1>6. Len(m) = b
  BY MasksAre DEF ChaMasks
<1>7. Authenticated("CHACHA20_POLY1305", a, b) = all
  BY DEF Authenticated, PolyAd, PolyBody, PaddedCells
<1> HIDE DEF c, padded, cells, base, body, m
<1>8. queued = Ctx(f, k, u, all, <<>>, m)
  <2> DEFINE both == base \o body
  <2>1. IsSeq(both)
    BY <1>5
  <2> HIDE DEF both
  <2>2. mbedtls_poly1305_update(Ctx(f, k, u, both, <<>>, m), cells) = Ctx(f, k, u, both \o Chop(cells), <<>>, m)
    BY <1>4, <2>1, PolyBlock
  <2> QED
    BY <1>1, <2>2 DEF both
<1> HIDE DEF all
<1>9. queued.part = <<>> /\ queued.blocks = all /\ queued.masks = m
  BY <1>8, ContextHas
<1> HIDE DEF queued
<1>10. ended = queued
  BY <1>9
<1>11. r = Proceed(done)
  <2>1. Lengths(c.add_len, c.len) = cells
    BY <1>2 DEF cells
  <2> QED
    BY <1>2, <1>3, <2>1 DEF queued
<1>12. done.blocks = all /\ done.masks = m
  BY <1>9, <1>10
<1> HIDE DEF ended, done, r
<1>13. r.status = "OK" /\ r.ctx = done
  BY <1>11 DEF Proceed
<1> QED
  BY <1>6, <1>7, <1>12, <1>13 DEF Covers, r, c

-----------------------------------------------------------------------------
(* CCM: the pieces of a call, each of which goes into one block.           *)

\* Where the j-th piece of n cells ends when the first starts at the offset o.
CutAt(o, n, j) == IF j = 0 THEN 0 ELSE Least(j * BlockSize - o, n)
CutCount(o, n) == (o + n + BlockSize - 1) \div BlockSize

\* The number of turns of a loop of ccm.c.
LEMMA CutsCount == \A o, n : o \in Nat /\ o < BlockSize /\ n \in Nat /\ n > 0 =>
  LET w == CutCount(o, n) IN
  /\ w \in Nat /\ w > 0 /\ w * BlockSize >= o + n /\ (w - 1) * BlockSize < o + n
<1> TAKE o, n
<1> HAVE o \in Nat /\ o < BlockSize /\ n \in Nat /\ n > 0
<1> DEFINE B == BlockSize
           x == o + n + B - 1
           w == x \div B
           r == x % B
           p == w * B
<1>1. B \in Nat /\ B > 2 /\ x \in Nat
  BY SizeOfBlock
<1> HIDE DEF x
<1>2. w \in Nat /\ r \in Nat /\ r < B /\ x = p + r
  BY <1>1, Divides
<1>3. (w - 1) * B = p - B
  BY <1>1, <1>2
<1>4. p \in Nat
  BY <1>1, <1>2
<1>5. x = o + n + B - 1
  BY DEF x
<1> HIDE DEF p, w, r
<1>6. p >= o + n /\ p - B < o + n
  BY <1>1, <1>2, <1>4, <1>5
<1>7. w > 0
  <2>1. w = 0 => p = 0
    BY <1>1 DEF p
  <2> QED
    BY <1>2, <1>6, <2>1
<1>8. CutCount(o, n) = w
  BY DEF CutCount, w, x
<1> QED
  BY <1>2, <1>3, <1>6, <1>7, <1>8 DEF p

\* No block is left before the last cell.
LEMMA CutsBefore == \A w, j : w \in Nat /\ j \in 1 .. w => (j - 1) * BlockSize <= (w - 1) * BlockSize /\ (j - 1) * BlockSize \in Nat
<1> TAKE w, j
<1> HAVE w \in Nat /\ j \in 1 .. w
<1> DEFINE i == j - 1
           k == w - j
           B == BlockSize
<1>1. i \in Nat /\ k \in Nat /\ w - 1 = i + k
  OBVIOUS
<1>2. B \in Nat
  BY SizeOfBlock
<1> HIDE DEF i, k, B
<1>3. (i + k) * B = i * B + k * B /\ i * B \in Nat /\ k * B \in Nat
  BY <1>1, <1>2
<1> QED
  BY <1>1, <1>3 DEF i, B

\* p is where the cells start, and so a multiple of the block after o cells of it.
CutLies(p, n, j) ==
    LET o == p % BlockSize
        s == CutAt(o, n, j - 1)
        e == CutAt(o, n, j)
    IN  /\ s \in Nat /\ e \in Nat /\ s < e /\ e <= n
        /\ ((p + s) % BlockSize) + (e - s) <= BlockSize
        /\ e = n \/ ((p + s) % BlockSize) + (e - s) = BlockSize

\* Each turn takes what is left of the data, but stays in a block.
LEMMA CutsFit == \A p, n, j : p \in Nat /\ n \in Nat /\ n > 0 /\ j \in 1 .. CutCount(p % BlockSize, n) =>
  CutLies(p, n, j)
<1> TAKE p, n, j
<1> HAVE p \in Nat /\ n \in Nat /\ n > 0 /\ j \in 1 .. CutCount(p % BlockSize, n)
<1> DEFINE B == BlockSize
           o == p % B
           q == p \div B
           w == CutCount(o, n)
           low == (j - 1) * B
           s == CutAt(o, n, j - 1)
           e == CutAt(o, n, j)
           at == (p + s) % B
<1>1. B \in Nat /\ B > 2
  BY SizeOfBlock
<1>2. o \in Nat /\ o < B /\ q \in Nat /\ p = q * B + o
  BY <1>1, Divides
<1>3. w \in Nat /\ (w - 1) * B < o + n
  BY <1>2, CutsCount
<1>4. low \in Nat /\ low <= (w - 1) * B
  BY <1>3, CutsBefore
<1>5. j * B = low + B /\ j \in Nat /\ j # 0
  BY <1>1
<1>6. low < o + n
  <2> DEFINE most == (w - 1) * B
  <2>1. most \in Int
    BY <1>1, <1>3
  <2>2. low <= most /\ most < o + n
    BY <1>3, <1>4
  <2> HIDE DEF most, low, o, w
  <2> QED
    BY <1>2, <1>4, <2>1, <2>2
<1>7. e = Least(low + B - o, n)
  <2> DEFINE y == j * B
             z == low + B - o
  <2>1. y = low + B /\ j # 0
    BY <1>5
  <2>2. e = Least(y - o, n)
    <3> HIDE DEF o
    <3> QED
      BY <2>1 DEF CutAt
  <2>3. y - o = z
    <3> HIDE DEF low, o, y
    <3> QED
      BY <1>1, <1>2, <1>4, <2>1
  <2> HIDE DEF low, o, y, e, z
  <2>4. e = Least(z, n)
    BY <2>2, <2>3
  <2> QED
    BY <2>4 DEF z
<1>8. s = IF j = 1 THEN 0 ELSE Least(low - o, n)
  <2>1. j = 1 <=> j - 1 = 0
    OBVIOUS
  <2> QED
    BY <2>1 DEF CutAt
<1>9. j = 1 => low = 0
  BY <1>1
<1>10. j # 1 => low >= B
  <2> SUFFICES ASSUME j # 1 PROVE low >= B
    OBVIOUS
  <2> DEFINE i == j - 2
  <2>1. i \in Nat /\ j - 1 = i + 1
    BY <1>5
  <2> HIDE DEF i
  <2>2. (i + 1) * B = i * B + B /\ i * B \in Nat
    BY <1>1, <2>1
  <2>3. low = (i + 1) * B
    BY <2>1
  <2> HIDE DEF low, B
  <2> QED
    BY <1>1, <2>1, <2>2, <2>3
<1>11. j # 1 => (p + (low - o)) % B = 0
  <2> SUFFICES ASSUME j # 1 PROVE (p + (low - o)) % B = 0
    OBVIOUS
  <2> DEFINE i == j - 1
             y == q + i
             zero == 0
             x == p + (low - o)
  <2>1. i \in Nat
    BY <1>5
  <2>2. y \in Nat /\ y * B = q * B + low
    <3>1. (q + i) * B = q * B + i * B
      BY <1>1, <1>2, <2>1
    <3> QED
      BY <1>2, <2>1, <3>1
  <2>3. x = q * B + low
    <3> DEFINE t == q * B
    <3>1. t \in Nat
      BY <1>1, <1>2
    <3>2. p = t + o
      BY <1>2
    <3> HIDE DEF t, low, o
    <3>3. p + (low - o) = t + low
      BY <1>2, <1>4, <3>1, <3>2
    <3> QED
      BY <3>3 DEF t
  <2>4. x = y * B + zero /\ zero \in Nat /\ zero < B /\ x \in Nat
    <3>1. y * B \in Nat
      BY <1>1, <2>2
    <3> HIDE DEF x, y
    <3> QED
      BY <1>1, <2>2, <2>3, <3>1
  <2>6. B > 0 /\ B \in Nat
    BY <1>1
  <2> HIDE DEF x, y, zero, low, B
  <2>5. x % B = zero
    BY <2>6, <2>2, <2>4, Divided
  <2> QED
    BY <2>5 DEF x, zero
<1> HIDE DEF low, w
<1>12. CASE j = 1
  <2>1. s = 0 /\ p + s = p
    BY <1>8, <1>12
  <2>2. at = o
    BY <2>1
  <2> HIDE DEF s, e, o, at
  <2>0. low + B - o = B - o
    BY <1>1, <1>2, <1>9, <1>12
  <2>3. e = IF B - o <= n THEN B - o ELSE n
    BY <1>7, <2>0 DEF Least
  <2>4. e \in Nat /\ s < e /\ e <= n /\ at + (e - s) <= B /\ (e = n \/ at + (e - s) = B)
    BY <1>1, <1>2, <2>1, <2>2, <2>3
  <2> QED
    BY <2>1, <2>4 DEF CutLies, s, e, at, o
<1>13. CASE j # 1
  <2> DEFINE d == low - o
  <2>1. d \in Nat /\ d < n /\ d + o = low
    <3> HIDE DEF o
    <3> QED
      BY <1>1, <1>2, <1>4, <1>6, <1>10, <1>13
  <2>2. (p + d) % B = 0
    BY <1>11, <1>13
  <2>5. low + B - o = d + B
    <3> HIDE DEF o
    <3> QED
      BY <1>1, <1>2, <1>4
  <2>3. s = d
    <3> HIDE DEF o
    <3> QED
      BY <1>8, <1>13, <2>1 DEF Least
  <2>4. at = 0
    <3> HIDE DEF s
    <3> QED
      BY <2>2, <2>3
  <2> HIDE DEF d, s, e, at, o
  <2>6. e = IF d + B <= n THEN d + B ELSE n
    BY <1>7, <2>5 DEF Least
  <2>7. e \in Nat /\ s < e /\ e <= n /\ at + (e - s) <= B /\ (e = n \/ at + (e - s) = B)
    BY <1>1, <2>1, <2>3, <2>4, <2>6
  <2> QED
    BY <2>1, <2>3, <2>7 DEF CutLies, s, e, at, o
<1> QED
  BY <1>12, <1>13

\* The last turn takes the last of the data.
LEMMA CutsEnd == \A p, n : p \in Nat /\ n \in Nat /\ n > 0 =>
  LET o == p % BlockSize IN CutAt(o, n, CutCount(o, n)) = n
<1> TAKE p, n
<1> HAVE p \in Nat /\ n \in Nat /\ n > 0
<1> DEFINE B == BlockSize
           o == p % B
           w == CutCount(o, n)
           x == w * B
<1>1. o \in Nat /\ o < B
  BY SizeOfBlock, Divides
<1>2. w \in Nat /\ w > 0 /\ x >= o + n
  BY <1>1, CutsCount
<1>3. x \in Nat
  BY <1>2, SizeOfBlock
<1>4. CutAt(o, n, w) = Least(x - o, n)
  <2> HIDE DEF w
  <2> QED
    BY <1>2 DEF CutAt
<1> HIDE DEF o, w, x
<1>5. Least(x - o, n) = n
  BY <1>1, <1>2, <1>3 DEF Least
<1> QED
  BY <1>4, <1>5 DEF w, o

\* The pieces themselves, of a stream of which p cells came before.
PieceTakes(piece, S, p, n, j) ==
    LET o == p % BlockSize IN
    /\ Takes(piece, S, p + CutAt(o, n, j - 1))
    /\ Len(piece) = CutAt(o, n, j) - CutAt(o, n, j - 1)

\* The pieces of the turns follow each other in the stream.
LEMMA PiecesCut == \A cells, S, p : p \in Nat /\ Takes(cells, S, p) /\ Len(cells) > 0 =>
  LET n == Len(cells)
      pieces == CcmPieces(p % BlockSize, cells)
  IN  /\ Len(pieces) = CutCount(p % BlockSize, n)
      /\ \A j \in 1 .. Len(pieces) : PieceTakes(pieces[j], S, p, n, j)
<1> TAKE cells, S, p
<1> HAVE p \in Nat /\ Takes(cells, S, p) /\ Len(cells) > 0
<1> DEFINE o == p % BlockSize
           n == Len(cells)
           w == CutCount(o, n)
           end(j) == Least(j * BlockSize - o, n)
           start(j) == IF j = 1 THEN 0 ELSE end(j - 1)
           pieces == CcmPieces(o, cells)
           cut(j) == SubSeq(cells, start(j) + 1, end(j))
<1>1. IsSeq(cells) /\ n \in Nat /\ n > 0
  BY DEF Takes, IsSeq
<1>2. o \in Nat /\ o < BlockSize
  BY SizeOfBlock, Divides
<1>3. cells # <<>>
  BY <1>1, NoCells
<1>4. pieces = [j \in 1 .. w |-> cut(j)]
  BY <1>3 DEF CcmPieces, CutCount
<1>5. w \in Nat
  BY <1>1, <1>2, CutsCount
<1> HIDE DEF pieces, cut, w
<1>6. Len(pieces) = w
  <2>1. DOMAIN pieces = 1 .. w /\ pieces = [j \in DOMAIN pieces |-> pieces[j]]
    BY <1>4
  <2> QED
    BY <1>5, <2>1, SeqBy
<1>7. ASSUME NEW j \in 1 .. w PROVE PieceTakes(pieces[j], S, p, n, j)
  <2> DEFINE s == CutAt(o, n, j - 1)
             e == CutAt(o, n, j)
             piece == SubSeq(cells, s + 1, e)
  <2>1. start(j) = s /\ end(j) = e
    <3>1. (j = 1 <=> j - 1 = 0) /\ j # 0
      BY <1>5
    <3> HIDE DEF o, n
    <3> QED
      BY <3>1 DEF CutAt
  <2>2. pieces[j] = piece
    <3>1. pieces[j] = cut(j)
      BY <1>4
    <3> HIDE DEF s, e, start, end
    <3> QED
      BY <2>1, <3>1 DEF cut
  <2>3. CutLies(p, n, j)
    BY <1>1, <1>5, CutsFit DEF w
  <2> HIDE DEF n
  <2>4. s \in Nat /\ e \in Nat /\ s < e /\ e <= n
    BY <2>3 DEF CutLies
  <2> HIDE DEF s, e, o
  <2>5. IsCut(piece, cells, s, e)
    BY <2>4, Cuts
  <2> HIDE DEF piece
  <2>6. Takes(piece, S, p + s)
    BY <2>4, <2>5, CutTakes DEF n
  <2>7. Len(piece) = e - s
    BY <2>5 DEF IsCut
  <2> QED
    BY <2>2, <2>6, <2>7 DEF PieceTakes, s, e, o
<1> QED
  BY <1>6, <1>7 DEF w, pieces, n, o

\* No data, no turns.
LEMMA NoPieces == \A o : CcmPieces(o, <<>>) = <<>>
BY DEF CcmPieces

-----------------------------------------------------------------------------
(* What one piece does to a context.                                       *)

\* Mixing cells in and counting them.
LEMMA MixBut == \A fl, al, to, le, pr, ra, fi, k, u, base, S, n, m, o, cells, x :
  LET c == Fed(Frame(fl, al, to, le, pr, ra, fi), k, u, base, S, n, m)
      f == Frame(fl, al, to, le, x, ra, fi)
  IN  [Mix(c, o, cells) EXCEPT !.processed = x] = Mix(Fed(f, k, u, base, S, n, m), o, cells)
<1> TAKE fl, al, to, le, pr, ra, fi, k, u, base, S, n, m, o, cells, x
<1> DEFINE f(y) == Frame(fl, al, to, le, y, ra, fi)
           bs == FedBlocks(base, S, n)
           p == FedPart(S, n)
           q == p \o AtOffset(o, cells)
<1>1. \A y : Fed(f(y), k, u, base, S, n, m) = Ctx(f(y), k, u, bs, p, m)
  BY FedParts
<1> HIDE DEF bs, p
<1>2. \A y : Mix(Ctx(f(y), k, u, bs, p, m), o, cells) = Ctx(f(y), k, u, bs, q, m)
  <2> HIDE DEF f
  <2> QED
    BY MixIs
<1> HIDE DEF q
<1>3. [Ctx(f(pr), k, u, bs, q, m) EXCEPT !.processed = x] = Ctx(f(x), k, u, bs, q, m)
  BY FrameBut
<1>4. [Mix(Fed(f(pr), k, u, base, S, n, m), o, cells) EXCEPT !.processed = x]
        = Mix(Fed(f(x), k, u, base, S, n, m), o, cells)
  <2> HIDE DEF f
  <2> QED
    BY <1>1, <1>2, <1>3
<1> QED
  BY <1>4

\* Masking cells, mixing them in and counting them.
LEMMA MaskMixBut == \A fl, al, to, le, pr, ra, fi, k, u, base, S, n, m, o, cells, l, x :
  LET c == Fed(Frame(fl, al, to, le, pr, ra, fi), k, u, base, S, n, m)
      f == Frame(fl, al, to, le, x, ra, fi)
  IN  [Mask(Mix(c, o, cells), o, l) EXCEPT !.processed = x]
        = Mix(Fed(f, k, u, base, S, n, m \o MaskRun(k, o, l)), o, cells)
<1> TAKE fl, al, to, le, pr, ra, fi, k, u, base, S, n, m, o, cells, l, x
<1> DEFINE f(y) == Frame(fl, al, to, le, y, ra, fi)
           bs == FedBlocks(base, S, n)
           p == FedPart(S, n)
           q == p \o AtOffset(o, cells)
           v == m \o MaskRun(k, o, l)
<1>1. \A y, z : Fed(f(y), k, u, base, S, n, z) = Ctx(f(y), k, u, bs, p, z)
  BY FedParts
<1> HIDE DEF bs, p
<1>2. \A y, z : Mix(Ctx(f(y), k, u, bs, p, z), o, cells) = Ctx(f(y), k, u, bs, q, z)
  <2> HIDE DEF f
  <2> QED
    BY MixIs
<1> HIDE DEF q
<1>3. Mask(Ctx(f(pr), k, u, bs, q, m), o, l) = Ctx(f(pr), k, u, bs, q, v)
  <2> HIDE DEF f
  <2> QED
    BY MaskIs
<1> HIDE DEF v
<1>4. [Ctx(f(pr), k, u, bs, q, v) EXCEPT !.processed = x] = Ctx(f(x), k, u, bs, q, v)
  BY FrameBut
<1>5. [Mask(Mix(Fed(f(pr), k, u, base, S, n, m), o, cells), o, l) EXCEPT !.processed = x]
        = Mix(Fed(f(x), k, u, base, S, n, v), o, cells)
  <2> HIDE DEF f
  <2> QED
    BY <1>1, <1>2, <1>3, <1>4
<1> QED
  BY <1>5 DEF v

\* CCM while additional data comes in: a of A bytes, after two bytes for the
\* length. What is in hand is absorbed with the last of them.
CcmFirst(A, T) == <<CcmFirstBlock(A, T)>>
CcmAdStream(A) ==
    [i \in Nat |-> IF i = 1 THEN <<"add_len", A, 1>>
                   ELSE IF i = 2 THEN <<"add_len", A, 2>> ELSE <<"ad", i - 2, 0>>]
CcmOn == {"STARTED", "LENGTHS_SET"}
CcmAdOn == CcmOn \cup {"AUTH_DATA_STARTED"}
CcmAdOff == CcmAdOn \cup {"AUTH_DATA_FINISHED"}
CcmFrame(flags, A, T, R, p) == Frame(flags, A, T, 0, p, R, 1)
CcmAdAt(A, T, R, a) ==
    LET f == CcmFrame(CcmAdOn, A, T, R, a) IN
    IF a = A THEN Ctx(f, 1, 0, CcmFirst(A, T) \o InBlocks(CcmAdStream(A), A + 2), <<>>, <<>>)
    ELSE Fed(f, 1, 0, CcmFirst(A, T), CcmAdStream(A), a + 2, <<>>)

\* The fields of the context of CCM.
LEMMA CcmFrames == \A flags, A, T, R, p : LET f == CcmFrame(flags, A, T, R, p) IN
  /\ f.flags = flags /\ f.add_len = A /\ f.total = T /\ f.len = 0 /\ f.processed = p
  /\ f.range = R /\ f.first = 1
BY FrameHas DEF CcmFrame

\* The first block of CCM.
LEMMA CcmFirstIs == \A A, T : IsSeq(CcmFirst(A, T))
BY OneCell DEF CcmFirst

\* A piece of l cells after x cells of a stream of n.
Fits(x, l, n) ==
    /\ x \in Nat /\ l \in Nat /\ n \in Nat /\ l > 0 /\ x + l <= n
    /\ (x % BlockSize) + l <= BlockSize
CcmAdFits(A, a, x, l, piece) ==
    /\ a \in Nat /\ A \in Nat /\ x = a + 2 /\ l = Len(piece) /\ Fits(x, l, A + 2)
    /\ Takes(piece, CcmAdStream(A), x)

\* One turn of the loop of mbedtls_ccm_update_ad().
LEMMA CcmAdPieceGoes == \A A, T, R, a, x, l, piece : CcmAdFits(A, a, x, l, piece) =>
    CcmAdPiece(CcmAdAt(A, T, R, a), piece) = CcmAdAt(A, T, R, a + l)
<1> TAKE A, T, R, a, x, l, piece
<1> HAVE CcmAdFits(A, a, x, l, piece)
<1>0. /\ a \in Nat /\ A \in Nat /\ x = a + 2 /\ l = Len(piece) /\ Fits(x, l, A + 2)
      /\ Takes(piece, CcmAdStream(A), x)
  BY DEF CcmAdFits
<1> DEFINE base == CcmFirst(A, T)
           S == CcmAdStream(A)
           y == a + l
           z == x + l
           o == x % BlockSize
           f(p) == CcmFrame(CcmAdOn, A, T, R, p)
           none == <<>>
           c == Fed(f(a), 1, 0, base, S, x, none)
           d == Fed(f(y), 1, 0, base, S, x, none)
           e == Fed(f(y), 1, 0, base, S, z, none)
           closed == Ctx(f(y), 1, 0, base \o InBlocks(S, z), <<>>, none)
           mixed == Mix(d, o, piece)
           r == CcmAdPiece(c, piece)
<1>1. /\ x \in Nat /\ l \in Nat /\ l > 0 /\ a < A /\ y <= A /\ y \in Nat /\ z = y + 2 /\ z \in Nat
      /\ a + 2 = x /\ (y = A <=> z = A + 2)
  BY <1>0 DEF Fits
<1>2. o + l <= BlockSize
  BY <1>0 DEF Fits
<1>3. IsSeq(base)
  BY CcmFirstIs
<1>4. CcmAdAt(A, T, R, a) = c
  <2>1. a # A
    BY <1>0, <1>1
  <2> QED
    BY <1>0, <2>1 DEF CcmAdAt
<1>5. CcmAdAt(A, T, R, y) = IF y = A THEN closed ELSE e
  <2> HIDE DEF y, z
  <2> QED
    BY <1>0, <1>1 DEF CcmAdAt
<1>6. c.processed = a /\ (f(y)).add_len = A /\ (f(y)).processed = y
  <2>1. (f(a)).processed = a /\ (f(y)).add_len = A /\ (f(y)).processed = y
    BY CcmFrames
  <2> HIDE DEF f
  <2> QED
    BY <1>0, <1>1, <2>1, FedHas
<1>7. [Mix(c, o, piece) EXCEPT !.processed = y] = mixed
  BY MixBut DEF CcmFrame
<1>8. FedGoes(mixed, f(y), 1, 0, base, S, x, l, none)
  <2> DEFINE g == f(y)
  <2>1. (x % BlockSize) + Len(piece) <= BlockSize /\ Takes(piece, S, x)
    BY <1>0, <1>2
  <2> HIDE DEF g, base, S, none
  <2>2. FedGoes(Mix(Fed(g, 1, 0, base, S, x, none), x % BlockSize, piece), g, 1, 0, base, S, x, Len(piece), none)
    BY <1>0, <1>1, <1>3, <2>1, PieceFed
  <2> QED
    BY <1>0, <2>2 DEF g
<1>9. mixed.processed = y /\ mixed.add_len = A
  <2> DEFINE bs == FedBlocks(base, S, x)
             p == FedPart(S, x)
  <2>1. d = Ctx(f(y), 1, 0, bs, p, none)
    BY FedParts
  <2> HIDE DEF bs, p, none
  <2>2. mixed = Ctx(f(y), 1, 0, bs, p \o AtOffset(o, piece), none)
    <3> HIDE DEF f, d, o
    <3> QED
      BY <1>0, <2>1, MixIs
  <2>3. (f(y)).add_len = A /\ (f(y)).processed = y
    BY CcmFrames
  <2> HIDE DEF f, mixed
  <2> QED
    BY <1>0, <2>2, <2>3, ContextHas
<1>10. Mix(c, o, piece).processed = a
  <2> DEFINE bs == FedBlocks(base, S, x)
             p == FedPart(S, x)
  <2>1. c = Ctx(f(a), 1, 0, bs, p, none)
    BY FedParts
  <2> HIDE DEF bs, p, none
  <2>2. Mix(c, o, piece) = Ctx(f(a), 1, 0, bs, p \o AtOffset(o, piece), none)
    <3> HIDE DEF f, c, o
    <3> QED
      BY <1>0, <2>1, MixIs
  <2>3. (f(a)).processed = a
    BY CcmFrames
  <2> HIDE DEF f, c
  <2> QED
    BY <1>0, <2>2, <2>3, ContextHas
<1>11. Closes(e, z, closed)
  <2> HIDE DEF f, base, S, z, none
  <2> QED
    BY <1>0, <1>1, <1>3, FedClosed
<1> HIDE DEF c, d, mixed, closed, f
<1>12. r = IF Len(piece) + o = BlockSize \/ mixed.processed = mixed.add_len THEN Absorb(mixed) ELSE mixed
  <2>1. (c.processed + 2) % BlockSize = o
    BY <1>0, <1>1, <1>6
  <2>2. [Mix(c, o, piece) EXCEPT !.processed = @ + Len(piece)] = mixed
    BY <1>0, <1>7, <1>10
  <2>3. c.add_len = A /\ mixed.add_len = A
    <3>1. (f(a)).add_len = A
      BY CcmFrames DEF f
    <3> QED
      BY <1>0, <1>1, <1>9, <3>1, FedHas DEF c
  <2> HIDE DEF o
  <2> QED
    BY <1>0, <2>1, <2>2, <2>3 DEF CcmAdPiece
<1>13. r = IF y = A THEN closed ELSE e
  <2>1. (x % BlockSize) + l < BlockSize => mixed = e
    BY <1>0, <1>8 DEF FedGoes
  <2>2. (x % BlockSize) + l = BlockSize => Absorb(mixed) = e
    BY <1>0, <1>8 DEF FedGoes
  <2>3. Len(piece) + o = o + l /\ o \in Nat
    <3>1. o \in Nat
      BY <1>0, <1>1, SizeOfBlock, Divides
    <3> HIDE DEF o
    <3> QED
      BY <1>0, <1>1, <3>1
  <2>4. Goings(x, BlockSize, l)
    BY <1>0, <1>1, <1>2, SizeOfBlock, GoingsAre
  <2>5. /\ o + l < BlockSize => z % BlockSize = o + l
        /\ o + l = BlockSize => z % BlockSize = 0
    BY <1>0, <2>4 DEF Goings
  <2>6. (z % BlockSize # 0 => Absorb(e) = closed) /\ (z % BlockSize = 0 => e = closed)
    <3> HIDE DEF e, z
    <3> QED
      BY <1>0, <1>11 DEF Closes
  <2> HIDE DEF o, e, z, y, r
  <2>7. (o + l < BlockSize => mixed = e) /\ (o + l = BlockSize => Absorb(mixed) = e)
    BY <1>0, <2>1, <2>2 DEF o, e, z
  <2>8. o + l < BlockSize \/ o + l = BlockSize
    BY <1>0, <1>1, <1>2, <2>3, SizeOfBlock
  <2>9. CASE o + l = BlockSize
    <3>1. r = Absorb(mixed)
      BY <1>0, <1>12, <2>3, <2>9
    <3> QED
      BY <1>0, <2>5, <2>6, <2>7, <2>9, <3>1
  <2>10. CASE o + l < BlockSize
    <3>1. z % BlockSize # 0 /\ o + l # BlockSize
      BY <1>0, <1>1, <2>3, <2>5, <2>10, SizeOfBlock
    <3> QED
      BY <1>0, <1>9, <1>12, <2>3, <2>6, <2>7, <2>10, <3>1
  <2> QED
    BY <1>0, <2>8, <2>9, <2>10
<1> QED
  BY <1>0, <1>4, <1>5, <1>13 DEF r

CcmAdLoop(c, pieces) ==
    LET after[j \in 0 .. Len(pieces)] ==
          IF j = 0 THEN c ELSE CcmAdPiece(after[j - 1], pieces[j])
    IN  after[Len(pieces)]

\* Two loops that do the same in each turn end in the same state.
LEMMA SameLoops == \A n \in Nat : \A f, g :
  f[0] = g[0] /\ (\A k \in 1 .. n : f[k - 1] = g[k - 1] => f[k] = g[k]) => f[n] = g[n]
<1> TAKE n \in Nat
<1> TAKE f, g
<1> HAVE f[0] = g[0] /\ (\A k \in 1 .. n : f[k - 1] = g[k - 1] => f[k] = g[k])
<1>1. \A k \in 0 .. n : f[k] = g[k]
  BY SameLoop
<1>2. n \in 0 .. n
  OBVIOUS
<1> QED
  BY <1>1, <1>2

CcmAdAll(A, a, p, n, y, cells) ==
    /\ a \in Nat /\ A \in Nat /\ p = a + 2 /\ Takes(cells, CcmAdStream(A), p)
    /\ n = Len(cells) /\ n > 0 /\ y = a + n /\ y <= A

\* The loop of mbedtls_ccm_update_ad() goes on with the additional data.
LEMMA CcmAdLoopGoes == \A A, T, R, a, p, n, y, cells : CcmAdAll(A, a, p, n, y, cells) =>
    CcmAdLoop(CcmAdAt(A, T, R, a), CcmPieces(p % BlockSize, cells)) = CcmAdAt(A, T, R, y)
<1> TAKE A, T, R, a, p, n, y, cells
<1> HAVE CcmAdAll(A, a, p, n, y, cells)
<1>0. /\ a \in Nat /\ A \in Nat /\ p = a + 2 /\ Takes(cells, CcmAdStream(A), p)
      /\ n = Len(cells) /\ n > 0 /\ y = a + n /\ y <= A
  BY DEF CcmAdAll
<1> DEFINE S == CcmAdStream(A)
           o == p % BlockSize
           w == CutCount(o, n)
           pieces == CcmPieces(o, cells)
           at(j) == CcmAdAt(A, T, R, a + CutAt(o, n, j))
           next(c, j) == CcmAdPiece(c, pieces[j])
           first == CcmAdAt(A, T, R, a)
           body(h) == [j \in 0 .. w |-> IF j = 0 THEN first ELSE next(h[j - 1], j)]
           g == [j \in 0 .. w |-> at(j)]
<1>1. n \in Nat /\ n > 0 /\ a + n <= A /\ p \in Nat /\ a \in Nat /\ A \in Nat
  BY <1>0 DEF Takes, IsSeq
<1>2. Len(pieces) = w /\ \A j \in 1 .. w : PieceTakes(pieces[j], S, p, n, j)
  <2>1. Len(pieces) = w /\ \A j \in 1 .. Len(pieces) : PieceTakes(pieces[j], S, p, n, j)
    BY <1>0, <1>1, PiecesCut
  <2> HIDE DEF pieces, w, S
  <2> QED
    BY <2>1
<1>3. w \in Nat
  <2>1. o \in Nat /\ o < BlockSize
    BY <1>1, SizeOfBlock, Divides
  <2> QED
    BY <1>1, <2>1, CutsCount
<1>4. ASSUME NEW j \in 1 .. w PROVE next(at(j - 1), j) = at(j)
  <2> DEFINE s == CutAt(o, n, j - 1)
             e == CutAt(o, n, j)
             piece == pieces[j]
             l == Len(piece)
             x == p + s
  <2>1. CutLies(p, n, j)
    BY <1>1, CutsFit
  <2> HIDE DEF pieces, w, S
  <2>2. PieceTakes(piece, S, p, n, j)
    BY <1>2
  <2> HIDE DEF piece
  <2>3. s \in Nat /\ e \in Nat /\ s < e /\ e <= n /\ ((p + s) % BlockSize) + (e - s) <= BlockSize
    BY <2>1 DEF CutLies
  <2>4. Takes(piece, S, x) /\ l = e - s
    BY <2>2 DEF PieceTakes
  <2> HIDE DEF s, e, l
  <2>5. /\ a + s \in Nat /\ x = (a + s) + 2 /\ (a + s) + l = a + e
        /\ x \in Nat /\ l \in Nat /\ l > 0 /\ x + l <= A + 2
    BY <1>0, <1>1, <2>3, <2>4
  <2>6. (x % BlockSize) + l <= BlockSize
    <3>1. (x % BlockSize) + (e - s) <= BlockSize
      BY <2>3
    <3> QED
      BY <2>4, <3>1
  <2> HIDE DEF x
  <2>7. Fits(x, l, A + 2)
    BY <1>1, <2>5, <2>6 DEF Fits
  <2> DEFINE b == a + s
  <2>8. b \in Nat /\ x = b + 2 /\ b + l = a + e
    BY <2>5
  <2>9. l = Len(piece)
    BY DEF l
  <2> HIDE DEF b
  <2>11. CcmAdFits(A, b, x, l, piece)
    BY <1>0, <2>4, <2>7, <2>8, <2>9 DEF CcmAdFits, S
  <2>10. CcmAdPiece(CcmAdAt(A, T, R, b), piece) = CcmAdAt(A, T, R, b + l)
    BY <2>11, CcmAdPieceGoes
  <2> QED
    BY <2>8, <2>10 DEF b, s, e, piece
<1>5. at(0) = first
  <2>1. CutAt(o, n, 0) = 0 /\ a + 0 = a
    BY <1>1 DEF CutAt
  <2> QED
    BY <2>1
<1>6. at(w) = CcmAdAt(A, T, R, y)
  <2>1. CutAt(o, n, w) = n
    BY <1>1, CutsEnd
  <2> HIDE DEF w, o
  <2> QED
    BY <1>0, <2>1
<1> HIDE DEF at, next, first, w
<1>7. g[0] = first /\ \A j \in 1 .. w : g[j] = next(g[j - 1], j)
  <2>1. 0 \in 0 .. w /\ \A j \in 1 .. w : j \in 0 .. w /\ j - 1 \in 0 .. w
    BY <1>3
  <2> QED
    BY <1>4, <1>5, <2>1
<1>8. g = body(g)
  <2>1. ASSUME NEW j \in 0 .. w PROVE g[j] = IF j = 0 THEN first ELSE next(g[j - 1], j)
    <3>1. j = 0 \/ j \in 1 .. w
      BY <1>3
    <3> QED
      BY <1>7, <3>1
  <2>2. g = [j \in 0 .. w |-> g[j]]
    OBVIOUS
  <2> HIDE DEF g
  <2> QED
    BY <2>1, <2>2
<1> DEFINE h == CHOOSE f : f = body(f)
<1>9. h = body(h)
  BY <1>8
<1>10. CcmAdLoop(first, pieces) = h[w]
  <2> HIDE DEF pieces
  <2> QED
    BY <1>2 DEF CcmAdLoop, next
<1> HIDE DEF h
<1>11. h[0] = first /\ \A j \in 1 .. w : h[j] = next(h[j - 1], j)
  <2>1. \A j \in 0 .. w : h[j] = IF j = 0 THEN first ELSE next(h[j - 1], j)
    BY <1>9
  <2>2. 0 \in 0 .. w /\ \A j \in 1 .. w : j \in 0 .. w /\ j # 0
    BY <1>3
  <2> HIDE DEF body
  <2> QED
    BY <2>1, <2>2
<1> HIDE DEF body, g
<1>12. h[w] = g[w]
  <2>1. \A j \in 1 .. w : h[j - 1] = g[j - 1] => h[j] = g[j]
    BY <1>7, <1>11
  <2>2. h[0] = g[0] /\ w \in 0 .. w
    BY <1>3, <1>7, <1>11
  <2> HIDE DEF h, o, pieces
  <2> QED
    BY <1>3, <2>1, <2>2, SameLoops
<1>13. g[w] = at(w)
  <2>1. w \in 0 .. w
    BY <1>3
  <2> QED
    BY <2>1 DEF g
<1> QED
  BY <1>6, <1>10, <1>12, <1>13 DEF first, pieces, o

\* CCM with the nonce and the lengths and a of the A bytes of additional data.
CcmBase(A, T) ==
    IF A = 0 THEN CcmFirst(A, T) ELSE CcmFirst(A, T) \o InBlocks(CcmAdStream(A), A + 2)
CcmAdFlags(A) == IF A = 0 THEN CcmOn ELSE CcmAdOff
CcmAdDone(A, T, R) == Ctx(CcmFrame(CcmAdFlags(A), A, T, R, 0), 1, 0, CcmBase(A, T), <<>>, <<>>)
CcmReady(A, T, R) == Ctx(CcmFrame(CcmOn, A, T, R, 0), 1, 0, CcmFirst(A, T), <<>>, <<>>)
CcmAdCtx(A, T, R, a) ==
    IF a = A THEN CcmAdDone(A, T, R)
    ELSE IF a = 0 THEN CcmReady(A, T, R) ELSE CcmAdAt(A, T, R, a)

\* The stream of the additional data starts with the two bytes of its length.
LEMMA CcmStreamTakes == \A A : A \in Nat => Takes(CcmLengthCells(A), CcmAdStream(A), 0)
<1> TAKE A
<1> HAVE A \in Nat
<1> DEFINE cells == CcmLengthCells(A)
           S == CcmAdStream(A)
<1>1. IsSeq(cells) /\ Len(cells) = 2 /\ cells[1] = <<"add_len", A, 1>> /\ cells[2] = <<"add_len", A, 2>>
  BY TwoCells DEF CcmLengthCells
<1>2. S[1] = <<"add_len", A, 1>> /\ S[2] = <<"add_len", A, 2>>
  BY DEF CcmAdStream
<1> HIDE DEF cells, S
<1>3. ASSUME NEW i \in 1 .. Len(cells) PROVE cells[i] = S[0 + i]
  <2>1. (i = 1 \/ i = 2) /\ 0 + i = i
    BY <1>1
  <2> QED
    BY <1>1, <1>2, <2>1
<1> QED
  BY <1>1, <1>3 DEF Takes, cells, S

\* A chunk of the additional data follows them.
LEMMA CcmAdTakes == \A A, a, n, p : A \in Nat /\ a \in Nat /\ n \in Nat /\ p = a + 2 =>
  Takes(AdCells(a, n), CcmAdStream(A), p) /\ Len(AdCells(a, n)) = n
<1> TAKE A, a, n, p
<1> HAVE A \in Nat /\ a \in Nat /\ n \in Nat /\ p = a + 2
<1> DEFINE cells == AdCells(a, n)
           S == CcmAdStream(A)
           T == AdStream
<1>1. Takes(cells, T, a) /\ Len(cells) = n
  BY AdTakes
<1>2. ASSUME NEW i \in 1 .. n PROVE T[a + i] = S[p + i]
  <2>1. a + i \in Nat /\ p + i \in Nat /\ p + i # 1 /\ p + i # 2 /\ (p + i) - 2 = a + i
    OBVIOUS
  <2>2. T[a + i] = <<"ad", a + i, 0>>
    BY <2>1 DEF AdStream
  <2>3. S[p + i] = <<"ad", (p + i) - 2, 0>>
    BY <2>1 DEF CcmAdStream
  <2> QED
    BY <2>1, <2>2, <2>3
<1> HIDE DEF cells, S, T
<1>3. Takes(cells, S, p)
  BY <1>1, <1>2 DEF Takes
<1> QED
  BY <1>1, <1>3 DEF cells, S

\* The two bytes of the length are mixed in before the first byte.
LEMMA CcmAdBegins == \A A, T, R, a : A \in Nat /\ a \in Nat /\ a < A =>
  CcmAdLength(CcmAdCtx(A, T, R, a)) = CcmAdAt(A, T, R, a)
<1> TAKE A, T, R, a
<1> HAVE A \in Nat /\ a \in Nat /\ a < A
<1> DEFINE c == CcmAdCtx(A, T, R, a)
           base == CcmFirst(A, T)
           S == CcmAdStream(A)
           none == <<>>
<1>1. CASE a = 0
  <2> DEFINE f(flags) == CcmFrame(flags, A, T, R, 0)
             on(flags, n) == Fed(f(flags), 1, 0, base, S, n, none)
             cells == CcmLengthCells(A)
             two == 2
             zero == 0
             mixed == Mix(c, 0, cells)
  <2>1. c = CcmReady(A, T, R)
    BY <1>1 DEF CcmAdCtx
  <2>2. IsSeq(base)
    BY CcmFirstIs
  <2>3. c = on(CcmOn, zero)
    <3> DEFINE g == f(CcmOn)
    <3>1. c = Ctx(g, 1, 0, base, <<>>, none)
      BY <2>1 DEF CcmReady
    <3> HIDE DEF g, base, S, none, c
    <3>2. Fed(g, 1, 0, base, S, 0, none) = Ctx(g, 1, 0, base, <<>>, none)
      BY <2>2, FedNone
    <3> QED
      BY <3>1, <3>2 DEF g
  <2>4. c.flags = CcmOn /\ c.add_len = A
    <3>1. (f(CcmOn)).flags = CcmOn /\ (f(CcmOn)).add_len = A
      BY CcmFrames
    <3> HIDE DEF f, c
    <3> QED
      BY <2>3, <3>1, FedHas
  <2>5. Takes(cells, S, zero) /\ Len(cells) = two
    BY CcmStreamTakes, TwoCells DEF CcmLengthCells
  <2>6. /\ zero % BlockSize = zero /\ zero + two < BlockSize /\ zero + two = two /\ zero \in Nat
        /\ zero + two <= BlockSize
    BY NoRemainder, SizeOfBlock
  <2>7. mixed = on(CcmOn, two)
    <3> DEFINE g == f(CcmOn)
    <3> HIDE DEF g, base, S, none, c, zero, two, cells
    <3>1. FedGoes(Mix(Fed(g, 1, 0, base, S, zero, none), zero % BlockSize, cells), g, 1, 0, base, S, zero, Len(cells), none)
      <4>1. (zero % BlockSize) + Len(cells) <= BlockSize
        BY <2>5, <2>6
      <4> QED
        BY <2>2, <2>5, <2>6, <4>1, PieceFed
    <3>2. Mix(Fed(g, 1, 0, base, S, zero, none), zero % BlockSize, cells) = Fed(g, 1, 0, base, S, zero + Len(cells), none)
      BY <2>5, <2>6, <3>1 DEF FedGoes
    <3>3. c = Fed(g, 1, 0, base, S, zero, none)
      BY <2>3 DEF g
    <3>4. Mix(c, zero, cells) = Fed(g, 1, 0, base, S, two, none)
      BY <2>5, <2>6, <3>2, <3>3
    <3> QED
      BY <3>4 DEF g, zero
  <2>8. \A x, y : [on(x, two) EXCEPT !.flags = y] = on(y, two)
    BY FedFrame DEF CcmFrame
  <2>9. (on(CcmOn, two)).flags = CcmOn
    <3>1. (f(CcmOn)).flags = CcmOn
      BY CcmFrames
    <3> HIDE DEF f
    <3> QED
      BY <3>1, FedHas
  <2>10. CcmOn \cup {"AUTH_DATA_STARTED"} = CcmAdOn /\ "AUTH_DATA_STARTED" \notin CcmOn
    BY DEF CcmAdOn, CcmOn
  <2>11. CcmAdAt(A, T, R, a) = on(CcmAdOn, two)
    <3>1. a # A /\ a + 2 = two
      BY <1>1
    <3> HIDE DEF two
    <3> QED
      BY <1>1, <3>1 DEF CcmAdAt
  <2> HIDE DEF on, c, two
  <2>12. CcmAdLength(c) = [Mix(c, 0, cells) EXCEPT !.flags = @ \cup {"AUTH_DATA_STARTED"}]
    <3>1. c.flags = CcmOn /\ c.add_len = A /\ "AUTH_DATA_STARTED" \notin c.flags
      BY <2>4, <2>10
    <3> QED
      BY <3>1 DEF CcmAdLength, CcmLengthCells
  <2> HIDE DEF mixed
  <2> QED
    BY <2>7, <2>8, <2>9, <2>10, <2>11, <2>12 DEF mixed, c
<1>2. CASE a # 0
  <2>1. c = CcmAdAt(A, T, R, a)
    BY <1>2 DEF CcmAdCtx
  <2> DEFINE f == CcmFrame(CcmAdOn, A, T, R, a)
  <2>2. c = Fed(f, 1, 0, base, S, a + 2, none)
    BY <2>1 DEF CcmAdAt
  <2>3. f.flags = CcmAdOn
    BY CcmFrames
  <2>4. c.flags = CcmAdOn
    <3>1. a + 2 \in Nat
      OBVIOUS
    <3> HIDE DEF f
    <3> QED
      BY <2>2, <2>3, <3>1, FedHas
  <2>5. "AUTH_DATA_STARTED" \in CcmAdOn
    BY DEF CcmAdOn
  <2> HIDE DEF c
  <2>6. CcmAdLength(c) = c
    BY <2>4, <2>5 DEF CcmAdLength
  <2> QED
    BY <2>1, <2>6 DEF c
<1> QED
  BY <1>1, <1>2

\* The fields of the context of CCM in the additional data.
LEMMA CcmAdAtHas == \A A, T, R, a : A \in Nat /\ a \in Nat =>
  LET c == CcmAdAt(A, T, R, a) IN
  /\ c.flags = CcmAdOn /\ c.processed = a /\ c.add_len = A /\ c.total = T /\ c.range = R
  /\ c.first = 1 /\ c.masks = <<>>
<1> TAKE A, T, R, a
<1> HAVE A \in Nat /\ a \in Nat
<1> DEFINE c == CcmAdAt(A, T, R, a)
           f == CcmFrame(CcmAdOn, A, T, R, a)
           x == a + 2
           base == CcmFirst(A, T)
           S == CcmAdStream(A)
           closed == Ctx(f, 1, 0, base \o InBlocks(S, A + 2), <<>>, <<>>)
           d == Fed(f, 1, 0, base, S, x, <<>>)
<1>1. /\ f.flags = CcmAdOn /\ f.processed = a /\ f.add_len = A /\ f.total = T /\ f.range = R
      /\ f.first = 1
  BY CcmFrames
<1>2. c = closed \/ c = d
  BY DEF CcmAdAt
<1>3. x \in Nat
  OBVIOUS
<1> HIDE DEF f, c, base, S, x
<1>4. CASE c = closed
  BY <1>1, <1>4, ContextHas DEF c
<1>5. CASE c = d
  BY <1>1, <1>3, <1>5, FedHas DEF c
<1> QED
  BY <1>2, <1>4, <1>5 DEF c

\* The states of ccm.c that occur without an error.
LEMMA CcmFlags ==
  /\ "ERROR" \notin CcmOn /\ "ERROR" \notin CcmAdOn /\ "ERROR" \notin CcmAdOff
  /\ "AUTH_DATA_FINISHED" \notin CcmOn /\ "AUTH_DATA_FINISHED" \notin CcmAdOn
  /\ "AUTH_DATA_FINISHED" \in CcmAdOff
  /\ {"STARTED", "LENGTHS_SET"} \subseteq CcmOn /\ {"STARTED", "LENGTHS_SET"} \subseteq CcmAdOff
BY DEF CcmOn, CcmAdOn, CcmAdOff

\* The fields of the context of CCM before the body.
LEMMA CcmAdHas == \A A, T, R, a : A \in Nat /\ a \in Nat /\ a <= A =>
  LET c == CcmAdCtx(A, T, R, a) IN
  /\ "ERROR" \notin c.flags /\ c.add_len = A /\ c.total = T /\ c.range = R
  /\ c.first = 1 /\ c.masks = <<>>
  /\ a < A => "AUTH_DATA_FINISHED" \notin c.flags /\ c.processed = a
<1> TAKE A, T, R, a
<1> HAVE A \in Nat /\ a \in Nat /\ a <= A
<1> DEFINE c == CcmAdCtx(A, T, R, a)
<1>1. CASE a = A
  <2> DEFINE fl == CcmAdFlags(A)
             f == CcmFrame(fl, A, T, R, 0)
  <2>1. c = Ctx(f, 1, 0, CcmBase(A, T), <<>>, <<>>)
    BY <1>1 DEF CcmAdCtx, CcmAdDone
  <2>2. f.flags = fl /\ f.add_len = A /\ f.total = T /\ f.range = R /\ f.first = 1
    BY CcmFrames
  <2>3. "ERROR" \notin fl
    BY CcmFlags DEF CcmAdFlags
  <2>4. ~(a < A)
    BY <1>1
  <2> HIDE DEF c, f, fl
  <2> QED
    BY <2>1, <2>2, <2>3, <2>4, ContextHas DEF c
<1>2. CASE a # A /\ a = 0
  <2> DEFINE f == CcmFrame(CcmOn, A, T, R, 0)
  <2>1. c = Ctx(f, 1, 0, CcmFirst(A, T), <<>>, <<>>)
    BY <1>2 DEF CcmAdCtx, CcmReady
  <2>2. /\ f.flags = CcmOn /\ f.add_len = A /\ f.total = T /\ f.range = R /\ f.first = 1
        /\ f.processed = 0
    BY CcmFrames
  <2> HIDE DEF c, f
  <2> QED
    BY <1>2, <2>1, <2>2, CcmFlags, ContextHas DEF c
<1>3. CASE a # A /\ a # 0
  <2>1. c = CcmAdAt(A, T, R, a)
    BY <1>3 DEF CcmAdCtx
  <2> HIDE DEF c
  <2> QED
    BY <2>1, CcmAdAtHas, CcmFlags DEF c
<1> QED
  BY <1>1, <1>2, <1>3

\* The last of the additional data: the next byte is the first of the body.
LEMMA CcmAdEnds == \A A, T, R : A \in Nat /\ A > 0 =>
  [CcmAdAt(A, T, R, A) EXCEPT !.processed = 0, !.flags = @ \cup {"AUTH_DATA_FINISHED"}]
    = CcmAdDone(A, T, R)
<1> TAKE A, T, R
<1> HAVE A \in Nat /\ A > 0
<1> DEFINE base == CcmFirst(A, T) \o InBlocks(CcmAdStream(A), A + 2)
           at(flags, p) == Ctx(CcmFrame(flags, A, T, R, p), 1, 0, base, <<>>, <<>>)
           c == CcmAdAt(A, T, R, A)
           d == [c EXCEPT !.processed = 0]
<1>1. c = at(CcmAdOn, A)
  BY DEF CcmAdAt
<1>2. CcmAdDone(A, T, R) = at(CcmAdOff, 0)
  <2>1. CcmBase(A, T) = base /\ CcmAdFlags(A) = CcmAdOff
    BY DEF CcmBase, CcmAdFlags
  <2> HIDE DEF base
  <2> QED
    BY <2>1 DEF CcmAdDone
<1> HIDE DEF base
<1>3. \A p, x, y : [at(x, p) EXCEPT !.processed = y] = at(x, y)
  BY FrameBut DEF CcmFrame
<1>4. \A p, x, y : [at(x, p) EXCEPT !.flags = y] = at(y, p)
  BY FrameBut DEF CcmFrame
<1>5. (at(CcmAdOn, 0)).flags = CcmAdOn
  <2> DEFINE f == CcmFrame(CcmAdOn, A, T, R, 0)
  <2>1. f.flags = CcmAdOn
    BY CcmFrames
  <2> HIDE DEF f
  <2>2. (Ctx(f, 1, 0, base, <<>>, <<>>)).flags = CcmAdOn
    BY <2>1, ContextHas
  <2> QED
    BY <2>2 DEF f
<1> HIDE DEF at, c
<1>6. d = at(CcmAdOn, 0)
  BY <1>1, <1>3
<1> HIDE DEF d
<1>7. [d EXCEPT !.flags = @ \cup {"AUTH_DATA_FINISHED"}] = at(CcmAdOff, 0)
  <2>1. d.flags \cup {"AUTH_DATA_FINISHED"} = CcmAdOff
    BY <1>5, <1>6 DEF CcmAdOff
  <2>2. [d EXCEPT !.flags = CcmAdOff] = at(CcmAdOff, 0)
    BY <1>4, <1>6
  <2> QED
    BY <2>1, <2>2
<1> QED
  BY <1>2, <1>7 DEF d, c

\* mbedtls_ccm_update_ad() takes all of the additional data that was declared.
LEMMA CcmAdAs == \A A, T, R, a, n : A \in Nat /\ a \in Nat /\ n \in Nat /\ a + n <= A =>
  mbedtls_ccm_update_ad(CcmAdCtx(A, T, R, a), AdCells(a, n)) = Proceed(CcmAdCtx(A, T, R, a + n))
<1> TAKE A, T, R, a, n
<1> HAVE A \in Nat /\ a \in Nat /\ n \in Nat /\ a + n <= A
<1> DEFINE c == CcmAdCtx(A, T, R, a)
           y == a + n
           cells == AdCells(a, n)
           p == a + 2
           pieces(o) == CcmPieces(o, cells)
           added(o) == CcmAdLoop(CcmAdLength(c), pieces(o))
           r == mbedtls_ccm_update_ad(c, cells)
<1>1. Takes(cells, CcmAdStream(A), p) /\ Len(cells) = n /\ IsSeq(cells)
  <2>1. Takes(cells, CcmAdStream(A), p) /\ Len(cells) = n
    BY CcmAdTakes
  <2> HIDE DEF cells, p
  <2> QED
    BY <2>1 DEF Takes
<1>2. "ERROR" \notin c.flags /\ c.add_len = A
        /\ (a < A => "AUTH_DATA_FINISHED" \notin c.flags /\ c.processed = a)
  <2>1. a <= A
    OBVIOUS
  <2> QED
    BY <2>1, CcmAdHas
<1>3. r = LET o == (c.processed + 2) % BlockSize IN
          IF "ERROR" \in c.flags THEN Stop(c, "INVALID_ARGUMENT")
          ELSE IF cells = <<>> THEN Proceed(c)
          ELSE IF \/ "AUTH_DATA_FINISHED" \in c.flags
                  \/ c.processed + Len(cells) > c.add_len
          THEN Stop(c, "INVALID_ARGUMENT")
          ELSE IF (added(o)).processed = (added(o)).add_len
          THEN Proceed([added(o) EXCEPT !.processed = 0,
                                        !.flags = @ \cup {"AUTH_DATA_FINISHED"}])
          ELSE Proceed(added(o))
  BY DEF mbedtls_ccm_update_ad, CcmAdLoop
<1>4. CASE n = 0
  <2>1. cells = <<>>
    BY <1>1, <1>4, NoCells
  <2>2. y = a
    BY <1>4
  <2> HIDE DEF c, cells, added, y, r
  <2>3. r = Proceed(c)
    BY <1>2, <1>3, <2>1
  <2> QED
    BY <2>2, <2>3 DEF c, r, y, cells
<1>5. CASE n # 0
  <2> DEFINE o == p % BlockSize
             at == CcmAdAt(A, T, R, y)
  <2>1. a < A /\ n > 0 /\ y \in Nat /\ y <= A /\ y # 0
    BY <1>5
  <2>2. CcmAdLength(c) = CcmAdAt(A, T, R, a)
    BY <2>1, CcmAdBegins
  <2>3. cells # <<>>
    BY <1>1, <2>1, NoCells
  <2>4. at.flags = CcmAdOn /\ at.processed = y /\ at.add_len = A
    BY <2>1, CcmAdAtHas
  <2>5. y = A => [at EXCEPT !.processed = 0, !.flags = @ \cup {"AUTH_DATA_FINISHED"}] = CcmAdDone(A, T, R)
    <3> SUFFICES ASSUME y = A
                 PROVE  [at EXCEPT !.processed = 0, !.flags = @ \cup {"AUTH_DATA_FINISHED"}] = CcmAdDone(A, T, R)
      OBVIOUS
    <3>1. at = CcmAdAt(A, T, R, A) /\ A > 0
      BY <2>1
    <3> HIDE DEF at, y
    <3> QED
      BY <3>1, CcmAdEnds
  <2>6. CcmAdCtx(A, T, R, y) = IF y = A THEN CcmAdDone(A, T, R) ELSE at
    BY <2>1 DEF CcmAdCtx
  <2> HIDE DEF cells, c
  <2>7. added(o) = at
    <3>1. CcmAdLoop(CcmAdAt(A, T, R, a), CcmPieces(p % BlockSize, cells)) = CcmAdAt(A, T, R, y)
      <4>1. CcmAdAll(A, a, p, n, y, cells)
        BY <1>1, <2>1 DEF CcmAdAll
      <4> HIDE DEF p, y
      <4> QED
        BY <4>1, CcmAdLoopGoes
    <3> HIDE DEF o
    <3>2. added(o) = CcmAdLoop(CcmAdAt(A, T, R, a), CcmPieces(o, cells))
      BY <2>2
    <3> QED
      BY <1>1, <3>1, <3>2 DEF o
  <2>8. (c.processed + 2) % BlockSize = o
    BY <1>2, <2>1
  <2>9. ~(c.processed + Len(cells) > c.add_len)
    BY <1>1, <1>2, <2>1
  <2> HIDE DEF added, y, at, o, r, p
  <2>10. r = IF at.processed = at.add_len
             THEN Proceed([at EXCEPT !.processed = 0, !.flags = @ \cup {"AUTH_DATA_FINISHED"}])
             ELSE Proceed(at)
    BY <1>2, <1>3, <2>1, <2>3, <2>7, <2>8, <2>9
  <2>11. r = Proceed(CcmAdCtx(A, T, R, y))
    BY <2>4, <2>5, <2>6, <2>10
  <2> QED
    BY <2>11 DEF r, y, c, cells
<1> QED
  BY <1>4, <1>5

\* CCM after b of the T bytes of the body.
CcmMasks(R, b) == MaskedAs(1, R, BlockSize, b)
CcmCounter(T, R, b) ==
    (1 + (IF b = T THEN BlocksBegun(b, BlockSize) ELSE b \div BlockSize)) % R
CcmBodyAt(A, T, R, b) ==
    LET f == CcmFrame(CcmAdFlags(A), A, T, R, b) IN
    IF b = T THEN Ctx(f, CcmCounter(T, R, b), 0, CcmBase(A, T) \o InBlocks(BodyStream, b), <<>>,
                      CcmMasks(R, b))
    ELSE Fed(f, CcmCounter(T, R, b), 0, CcmBase(A, T), BodyStream, b, CcmMasks(R, b))

\* The blocks of CCM before the body.
LEMMA CcmBaseIs == \A A, T : A \in Nat => IsSeq(CcmBase(A, T))
<1> TAKE A, T
<1> HAVE A \in Nat
<1> DEFINE base == CcmFirst(A, T)
           S == CcmAdStream(A)
           x == A + 2
<1>1. IsSeq(base) /\ x \in Nat
  BY CcmFirstIs
<1>2. CcmBase(A, T) = base \/ CcmBase(A, T) = base \o InBlocks(S, x)
  BY DEF CcmBase
<1> HIDE DEF base, S, x
<1>3. IsSeq(base \o InBlocks(S, x))
  BY <1>1, FedCloses
<1> QED
  BY <1>1, <1>2, <1>3

CcmBodyFits(A, T, R, b, l, piece) ==
    /\ A \in Nat /\ T \in Nat /\ R \in Nat /\ R > 0 /\ l = Len(piece) /\ Fits(b, l, T)
    /\ Takes(piece, BodyStream, b)

\* The counter after a piece of l bytes.
LEMMA CcmCounts == \A T, R, b, l : Fits(b, l, T) /\ T \in Nat /\ R \in Nat /\ R > 0 =>
  LET k == CcmCounter(T, R, b)
      ends == (b % BlockSize) + l = BlockSize \/ b + l = T
  IN  CcmCounter(T, R, b + l) = IF ends THEN (k + 1) % R ELSE k
<1> TAKE T, R, b, l
<1> HAVE Fits(b, l, T) /\ T \in Nat /\ R \in Nat /\ R > 0
<1> DEFINE B == BlockSize
           q == b \div B
           o == b % B
           y == b + l
           before == 1 + q
           k == CcmCounter(T, R, b)
           more == (k + 1) % R
           most == 1 + (q + 1)
<1>1. b \in Nat /\ l \in Nat /\ l > 0 /\ y <= T /\ b # T /\ y \in Nat
  BY DEF Fits
<1>2. o + l <= B
  BY DEF Fits
<1>3. B \in Nat /\ B > 2
  BY SizeOfBlock
<1>4. q \in Nat /\ o \in Nat
  BY <1>1, <1>3, Divides
<1>5. k = before % R
  BY <1>1 DEF CcmCounter
<1>6. more = most % R
  <2>1. before \in Nat /\ before + 1 = most
    BY <1>4
  <2> HIDE DEF before, most, k
  <2>2. (k + 1) % R = (before + 1) % R
    BY <1>5, <2>1, CountsOn
  <2> QED
    BY <2>1, <2>2
<1>7. Goings(b, B, l)
  BY <1>1, <1>2, <1>3, GoingsAre
<1>8. /\ o + l < B => y \div B = q /\ y % B = o + l
      /\ o + l = B => y \div B = q + 1 /\ y % B = 0
  BY <1>7 DEF Goings
<1>9. CcmCounter(T, R, y) = (1 + (IF y = T THEN (IF y % B = 0 THEN y \div B ELSE y \div B + 1) ELSE y \div B)) % R
  BY DEF CcmCounter, BlocksBegun
<1> HIDE DEF y, o, q, more, k
<1>10. CASE o + l = B
  <2>1. y \div B = q + 1 /\ y % B = 0
    BY <1>8, <1>10
  <2>2. CcmCounter(T, R, y) = (1 + (q + 1)) % R
    BY <1>9, <2>1
  <2>3. CcmCounter(T, R, y) = more
    BY <1>6, <2>2
  <2> QED
    BY <1>10, <2>3 DEF y, o, more, k
<1>11. CASE o + l < B
  <2>1. y \div B = q /\ y % B # 0 /\ o + l # B
    BY <1>1, <1>3, <1>4, <1>8, <1>11
  <2>2. CcmCounter(T, R, y) = (1 + (IF y = T THEN q + 1 ELSE q)) % R
    BY <1>9, <2>1
  <2>3. CcmCounter(T, R, y) = IF y = T THEN more ELSE k
    BY <1>5, <1>6, <2>2
  <2> QED
    BY <2>1, <2>3 DEF y, o, more, k
<1>12. o + l = B \/ o + l < B
  BY <1>1, <1>2, <1>3, <1>4 DEF o
<1> QED
  BY <1>10, <1>11, <1>12

CcmMasksGo(T, R, b, l) ==
    CcmMasks(R, b) \o MaskRun(CcmCounter(T, R, b), b % BlockSize, l) = CcmMasks(R, b + l)

\* CCM masks with a block of the keystream for each block of the body.
LEMMA CcmMasksGrow == \A T, R, b, l : Fits(b, l, T) /\ T \in Nat /\ R \in Nat /\ R > 0 =>
  CcmMasksGo(T, R, b, l)
<1> TAKE T, R, b, l
<1> HAVE Fits(b, l, T) /\ T \in Nat /\ R \in Nat /\ R > 0
<1> DEFINE B == BlockSize
           q == b \div B
           o == b % B
           k == CcmCounter(T, R, b)
           one == 1
<1>1. b \in Nat /\ l \in Nat /\ b # T /\ o + l <= B
  BY DEF Fits
<1>2. B \in Nat /\ B > 2 /\ B > 0 /\ B \in Nat \ {0}
  BY SizeOfBlock
<1>3. q \in Nat /\ o \in Nat /\ b = q * B + o
  BY <1>1, <1>2, Divides
<1>4. k = (one + q) % R
  BY <1>1 DEF CcmCounter
<1> HIDE DEF k, one, q, o
<1> DEFINE y == b + l
<1>5. MasksNext(k, one, R, B, q, o, l, b, y)
  BY <1>1, <1>2, <1>3, <1>4 DEF MaskStep, MasksNext
<1> HIDE DEF y
<1>7. MasksGrown(k, one, R, B, o, l, b, y)
  BY <1>5, MasksGrow
<1>6. MaskedAs(one, R, B, b) \o MaskRun(k, o, l) = MaskedAs(one, R, B, y)
  BY <1>7 DEF MasksGrown
<1> QED
  BY <1>6 DEF CcmMasksGo, CcmMasks, one, k, o, y

\* One turn of the loop of mbedtls_ccm_update().
LEMMA CcmPieceGoes == \A A, T, R, b, l, piece : CcmBodyFits(A, T, R, b, l, piece) =>
    CcmPiece(CcmBodyAt(A, T, R, b), piece) = CcmBodyAt(A, T, R, b + l)
<1> TAKE A, T, R, b, l, piece
<1> HAVE CcmBodyFits(A, T, R, b, l, piece)
<1>0. /\ A \in Nat /\ T \in Nat /\ R \in Nat /\ R > 0 /\ l = Len(piece) /\ Fits(b, l, T)
      /\ Takes(piece, BodyStream, b)
  BY DEF CcmBodyFits
<1> DEFINE base == CcmBase(A, T)
           S == BodyStream
           y == b + l
           o == b % BlockSize
           f(p) == CcmFrame(CcmAdFlags(A), A, T, R, p)
           k == CcmCounter(T, R, b)
           then == CcmCounter(T, R, y)
           m == CcmMasks(R, b)
           more == CcmMasks(R, y)
           c == Fed(f(b), k, 0, base, S, b, m)
           d == Fed(f(y), k, 0, base, S, b, more)
           e == Fed(f(y), k, 0, base, S, y, more)
           closed == Ctx(f(y), k, 0, base \o InBlocks(S, y), <<>>, more)
           mixed == Mix(d, o, piece)
           r == CcmPiece(c, piece)
           end == o + l = BlockSize \/ y = T
<1>1. /\ b \in Nat /\ l \in Nat /\ l > 0 /\ b < T /\ b # T /\ y <= T /\ y \in Nat
  BY <1>0 DEF Fits
<1>2. o + l <= BlockSize
  BY <1>0 DEF Fits
<1>3. IsSeq(base)
  BY <1>0, CcmBaseIs
<1>4. CcmBodyAt(A, T, R, b) = c
  BY <1>1 DEF CcmBodyAt
<1>5. CcmBodyAt(A, T, R, y) =
        IF y = T THEN Ctx(f(y), then, 0, base \o InBlocks(S, y), <<>>, more)
        ELSE Fed(f(y), then, 0, base, S, y, more)
  <2> HIDE DEF y
  <2> QED
    BY DEF CcmBodyAt
<1>6. c.processed = b /\ \A p : (f(p)).total = T /\ (f(p)).processed = p /\ (f(p)).range = R
  <2>1. \A p : (f(p)).total = T /\ (f(p)).processed = p /\ (f(p)).range = R
    BY CcmFrames
  <2> HIDE DEF f
  <2> QED
    BY <1>1, <2>1, FedHas
<1>7. then = IF end THEN (k + 1) % R ELSE k
  BY <1>0, CcmCounts
<1>8. m \o MaskRun(k, o, l) = more
  <2>1. Fits(b, l, T) /\ T \in Nat /\ R \in Nat /\ R > 0
    BY <1>0
  <2>2. CcmMasksGo(T, R, b, l)
    BY <2>1, CcmMasksGrow
  <2> QED
    BY <2>2 DEF CcmMasksGo
<1> HIDE DEF then, k, m, more
<1>9. [Mask(Mix(c, o, piece), o, l) EXCEPT !.processed = y] = mixed
  <2>1. [Mask(Mix(c, o, piece), o, l) EXCEPT !.processed = y]
          = Mix(Fed(f(y), k, 0, base, S, b, m \o MaskRun(k, o, l)), o, piece)
    BY MaskMixBut DEF CcmFrame
  <2> QED
    BY <1>8, <2>1
<1>10. FedGoes(mixed, f(y), k, 0, base, S, b, l, more)
  <2> DEFINE g == f(y)
  <2>1. (b % BlockSize) + Len(piece) <= BlockSize /\ Takes(piece, S, b)
    BY <1>0, <1>2
  <2> HIDE DEF g, base, S
  <2>2. FedGoes(Mix(Fed(g, k, 0, base, S, b, more), b % BlockSize, piece), g, k, 0, base, S, b, Len(piece), more)
    BY <1>0, <1>1, <1>3, <2>1, PieceFed
  <2> QED
    BY <1>0, <2>2 DEF g
<1>11. mixed.processed = y /\ mixed.total = T
  <2> DEFINE bs == FedBlocks(base, S, b)
             p == FedPart(S, b)
  <2>1. d = Ctx(f(y), k, 0, bs, p, more)
    BY FedParts
  <2> HIDE DEF bs, p
  <2>2. mixed = Ctx(f(y), k, 0, bs, p \o AtOffset(o, piece), more)
    <3> HIDE DEF f, d, o
    <3> QED
      BY <2>1, MixIs
  <2> HIDE DEF f, mixed
  <2> QED
    BY <1>6, <2>2, ContextHas
<1>12. (Mask(Mix(c, o, piece), o, l)).processed = b
  <2> DEFINE bs == FedBlocks(base, S, b)
             p == FedPart(S, b)
             q == p \o AtOffset(o, piece)
  <2>1. c = Ctx(f(b), k, 0, bs, p, m)
    BY FedParts
  <2> HIDE DEF bs, p
  <2>2. Mix(c, o, piece) = Ctx(f(b), k, 0, bs, q, m)
    <3> HIDE DEF f, c, o
    <3> QED
      BY <2>1, MixIs
  <2> HIDE DEF q, c, f
  <2>3. Mask(Mix(c, o, piece), o, l) = Ctx(f(b), k, 0, bs, q, m \o MaskRun(k, o, l))
    BY <2>2, MaskIs
  <2> QED
    BY <1>6, <2>3, ContextHas
<1>13. Closes(e, y, closed)
  <2> HIDE DEF f, base, S, y
  <2> QED
    BY <1>1, <1>3, FedClosed
<1>14. /\ Increment(closed) = Ctx(f(y), (k + 1) % R, 0, base \o InBlocks(S, y), <<>>, more)
       /\ Increment(e) = Fed(f(y), (k + 1) % R, 0, base, S, y, more)
  <2> HIDE DEF f, base, S, y
  <2> QED
    BY <1>6, IncrementIs, FedBut
<1> DEFINE whole == Ctx(f(y), then, 0, base \o InBlocks(S, y), <<>>, more)
           part == Fed(f(y), then, 0, base, S, y, more)
<1>15. /\ end => Increment(closed) = whole /\ Increment(e) = part
       /\ ~end => e = part
  <2> HIDE DEF end, f, base, S, y
  <2> QED
    BY <1>7, <1>14
<1> HIDE DEF c, d, mixed, closed, f, whole, part
<1>16. r = IF Len(piece) + o = BlockSize \/ mixed.processed = mixed.total THEN Increment(Absorb(mixed)) ELSE mixed
  <2>1. c.processed % BlockSize = o
    BY <1>6
  <2>2. [Mask(Mix(c, o, piece), o, l) EXCEPT !.processed = @ + l] = mixed
    BY <1>9, <1>12
  <2> HIDE DEF o
  <2> QED
    BY <1>0, <2>1, <2>2 DEF CcmPiece, CcmBlockEnds
<1>17. r = IF y = T THEN whole ELSE part
  <2>1. (b % BlockSize) + l < BlockSize => mixed = e
    BY <1>10 DEF FedGoes
  <2>2. (b % BlockSize) + l = BlockSize => Absorb(mixed) = e
    BY <1>10 DEF FedGoes
  <2>3. Len(piece) + o = o + l /\ o \in Nat
    <3>1. o \in Nat
      BY <1>1, SizeOfBlock, Divides
    <3> HIDE DEF o
    <3> QED
      BY <1>0, <1>1, <3>1
  <2>4. Goings(b, BlockSize, l)
    BY <1>1, <1>2, SizeOfBlock, GoingsAre
  <2>5. /\ o + l < BlockSize => y % BlockSize = o + l
        /\ o + l = BlockSize => y % BlockSize = 0
    BY <2>4 DEF Goings
  <2>6. (y % BlockSize # 0 => Absorb(e) = closed) /\ (y % BlockSize = 0 => e = closed)
    <3> HIDE DEF e, y
    <3> QED
      BY <1>13 DEF Closes
  <2>7. (o + l < BlockSize => mixed = e) /\ (o + l = BlockSize => Absorb(mixed) = e)
    BY <2>1, <2>2 DEF o
  <2> HIDE DEF o, e, y, r
  <2>8. o + l < BlockSize \/ o + l = BlockSize
    BY <1>1, <1>2, <2>3, SizeOfBlock
  <2>9. CASE o + l = BlockSize
    <3>1. r = Increment(Absorb(mixed))
      BY <1>16, <2>3, <2>9
    <3>2. Absorb(mixed) = e /\ e = closed
      BY <2>5, <2>6, <2>7, <2>9
    <3> QED
      BY <1>15, <2>9, <3>1, <3>2
  <2>10. CASE o + l < BlockSize
    <3>1. y % BlockSize # 0 /\ o + l # BlockSize
      BY <1>1, <2>3, <2>5, <2>10, SizeOfBlock
    <3>2. mixed = e /\ Absorb(e) = closed
      BY <2>6, <2>7, <2>10, <3>1
    <3>3. r = IF y = T THEN Increment(Absorb(mixed)) ELSE mixed
      BY <1>11, <1>16, <2>3, <3>1
    <3> QED
      BY <1>15, <3>1, <3>2, <3>3
  <2> QED
    BY <2>8, <2>9, <2>10
<1> QED
  BY <1>4, <1>5, <1>17 DEF r, whole, part

CcmBodyLoop(c, pieces) ==
    LET after[j \in 0 .. Len(pieces)] ==
          IF j = 0 THEN c ELSE CcmPiece(after[j - 1], pieces[j])
    IN  after[Len(pieces)]
CcmBodyAll(A, T, R, p, n, y, cells) ==
    /\ p \in Nat /\ A \in Nat /\ T \in Nat /\ R \in Nat /\ R > 0 /\ Takes(cells, BodyStream, p)
    /\ n = Len(cells) /\ n > 0 /\ y = p + n /\ y <= T

\* The loop of mbedtls_ccm_update() goes on with the body.
LEMMA CcmBodyLoopGoes == \A A, T, R, p, n, y, cells : CcmBodyAll(A, T, R, p, n, y, cells) =>
    CcmBodyLoop(CcmBodyAt(A, T, R, p), CcmPieces(p % BlockSize, cells)) = CcmBodyAt(A, T, R, y)
<1> TAKE A, T, R, p, n, y, cells
<1> HAVE CcmBodyAll(A, T, R, p, n, y, cells)
<1>0. /\ p \in Nat /\ A \in Nat /\ T \in Nat /\ R \in Nat /\ R > 0 /\ Takes(cells, BodyStream, p)
      /\ n = Len(cells) /\ n > 0 /\ y = p + n /\ y <= T
  BY DEF CcmBodyAll
<1> DEFINE S == BodyStream
           o == p % BlockSize
           w == CutCount(o, n)
           pieces == CcmPieces(o, cells)
           at(j) == CcmBodyAt(A, T, R, p + CutAt(o, n, j))
           next(c, j) == CcmPiece(c, pieces[j])
           first == CcmBodyAt(A, T, R, p)
           body(h) == [j \in 0 .. w |-> IF j = 0 THEN first ELSE next(h[j - 1], j)]
           g == [j \in 0 .. w |-> at(j)]
<1>1. n \in Nat /\ n > 0 /\ p + n <= T /\ p \in Nat /\ T \in Nat
  BY <1>0 DEF Takes, IsSeq
<1>2. Len(pieces) = w /\ \A j \in 1 .. w : PieceTakes(pieces[j], S, p, n, j)
  <2>1. Len(pieces) = w /\ \A j \in 1 .. Len(pieces) : PieceTakes(pieces[j], S, p, n, j)
    BY <1>0, <1>1, PiecesCut
  <2> HIDE DEF pieces, w, S
  <2> QED
    BY <2>1
<1>3. w \in Nat
  <2>1. o \in Nat /\ o < BlockSize
    BY <1>1, SizeOfBlock, Divides
  <2> QED
    BY <1>1, <2>1, CutsCount
<1>4. ASSUME NEW j \in 1 .. w PROVE next(at(j - 1), j) = at(j)
  <2> DEFINE s == CutAt(o, n, j - 1)
             e == CutAt(o, n, j)
             piece == pieces[j]
             l == Len(piece)
             x == p + s
  <2>1. CutLies(p, n, j)
    BY <1>1, CutsFit
  <2> HIDE DEF pieces, w, S
  <2>2. PieceTakes(piece, S, p, n, j)
    BY <1>2
  <2> HIDE DEF piece
  <2>3. s \in Nat /\ e \in Nat /\ s < e /\ e <= n /\ ((p + s) % BlockSize) + (e - s) <= BlockSize
    BY <2>1 DEF CutLies
  <2>4. Takes(piece, S, x) /\ l = e - s
    BY <2>2 DEF PieceTakes
  <2> HIDE DEF s, e, l
  <2>5. /\ x \in Nat /\ l \in Nat /\ l > 0 /\ x + l <= T /\ x + l = p + e
    BY <1>0, <1>1, <2>3, <2>4
  <2>6. (x % BlockSize) + l <= BlockSize
    <3>1. (x % BlockSize) + (e - s) <= BlockSize
      BY <2>3
    <3> QED
      BY <2>4, <3>1
  <2>9. l = Len(piece)
    BY DEF l
  <2> HIDE DEF x
  <2>7. Fits(x, l, T)
    BY <1>1, <2>5, <2>6 DEF Fits
  <2>8. CcmBodyFits(A, T, R, x, l, piece)
    BY <1>0, <2>4, <2>7, <2>9 DEF CcmBodyFits, S
  <2>10. CcmPiece(CcmBodyAt(A, T, R, x), piece) = CcmBodyAt(A, T, R, x + l)
    BY <2>8, CcmPieceGoes
  <2> QED
    BY <2>5, <2>10 DEF x, s, e, piece
<1>5. at(0) = first
  <2>1. CutAt(o, n, 0) = 0 /\ p + 0 = p
    BY <1>1 DEF CutAt
  <2> QED
    BY <2>1
<1>6. at(w) = CcmBodyAt(A, T, R, y)
  <2>1. CutAt(o, n, w) = n
    BY <1>1, CutsEnd
  <2> HIDE DEF w, o
  <2> QED
    BY <1>0, <2>1
<1> HIDE DEF at, next, first, w
<1>7. g[0] = first /\ \A j \in 1 .. w : g[j] = next(g[j - 1], j)
  <2>1. 0 \in 0 .. w /\ \A j \in 1 .. w : j \in 0 .. w /\ j - 1 \in 0 .. w
    BY <1>3
  <2> QED
    BY <1>4, <1>5, <2>1
<1>8. g = body(g)
  <2>1. ASSUME NEW j \in 0 .. w PROVE g[j] = IF j = 0 THEN first ELSE next(g[j - 1], j)
    <3>1. j = 0 \/ j \in 1 .. w
      BY <1>3
    <3> QED
      BY <1>7, <3>1
  <2>2. g = [j \in 0 .. w |-> g[j]]
    OBVIOUS
  <2> HIDE DEF g
  <2> QED
    BY <2>1, <2>2
<1> DEFINE h == CHOOSE f : f = body(f)
<1>9. h = body(h)
  BY <1>8
<1>10. CcmBodyLoop(first, pieces) = h[w]
  <2> HIDE DEF pieces
  <2> QED
    BY <1>2 DEF CcmBodyLoop, next
<1> HIDE DEF h
<1>11. h[0] = first /\ \A j \in 1 .. w : h[j] = next(h[j - 1], j)
  <2>1. \A j \in 0 .. w : h[j] = IF j = 0 THEN first ELSE next(h[j - 1], j)
    BY <1>9
  <2>2. 0 \in 0 .. w /\ \A j \in 1 .. w : j \in 0 .. w /\ j # 0
    BY <1>3
  <2> HIDE DEF body
  <2> QED
    BY <2>1, <2>2
<1> HIDE DEF body, g
<1>12. h[w] = g[w]
  <2>1. \A j \in 1 .. w : h[j - 1] = g[j - 1] => h[j] = g[j]
    BY <1>7, <1>11
  <2>2. h[0] = g[0] /\ w \in 0 .. w
    BY <1>3, <1>7, <1>11
  <2> HIDE DEF h, o, pieces
  <2> QED
    BY <1>3, <2>1, <2>2, SameLoops
<1>13. g[w] = at(w)
  <2>1. w \in 0 .. w
    BY <1>3
  <2> QED
    BY <2>1 DEF g
<1> QED
  BY <1>6, <1>10, <1>12, <1>13 DEF first, pieces, o

\* An empty body has no blocks.
LEMMA NoBodyInBlocks == InBlocks(BodyStream, 0) = <<>>
<1>1. InBlocks(BodyStream, 0) = Chop(BodyCells(0, 0))
  BY BodyBlocks
<1> QED
  BY <1>1, NoBodyBlocks

\* Where the additional data ends the body begins.
LEMMA CcmBodyBegins == \A A, T, R : A \in Nat /\ T \in Nat /\ R \in Nat /\ R > 1 =>
  CcmBodyAt(A, T, R, 0) = CcmAdDone(A, T, R)
<1> TAKE A, T, R
<1> HAVE A \in Nat /\ T \in Nat /\ R \in Nat /\ R > 1
<1> DEFINE f == CcmFrame(CcmAdFlags(A), A, T, R, 0)
           base == CcmBase(A, T)
           none == <<>>
           zero == 0
<1>1. IsSeq(base)
  BY CcmBaseIs
<1>2. CcmMasks(R, 0) = none
  BY NoMasks DEF CcmMasks
<1>3. CcmCounter(T, R, 0) = 1
  <2> DEFINE one == 1
  <2>1. BlocksBegun(0, BlockSize) = 0 /\ 0 \div BlockSize = 0
    BY NoRemainder DEF BlocksBegun
  <2>2. CcmCounter(T, R, 0) = one % R
    BY <2>1 DEF CcmCounter
  <2>3. R \in Nat /\ one \in Nat /\ zero \in Nat /\ one < R /\ one = zero * R + one
    OBVIOUS
  <2> HIDE DEF one, zero
  <2>4. one % R = one
    BY <2>3, Divided
  <2> QED
    BY <2>2, <2>4 DEF one
<1>4. base \o InBlocks(BodyStream, 0) = base
  BY <1>1, NoBodyInBlocks, JoinedNone
<1>5. Fed(f, 1, 0, base, BodyStream, 0, none) = Ctx(f, 1, 0, base, <<>>, none)
  <2> HIDE DEF f, base, none
  <2> QED
    BY <1>1, FedNone
<1>6. CcmBodyAt(A, T, R, 0) =
        IF 0 = T THEN Ctx(f, CcmCounter(T, R, 0), 0, base \o InBlocks(BodyStream, 0), <<>>, CcmMasks(R, 0))
        ELSE Fed(f, CcmCounter(T, R, 0), 0, base, BodyStream, 0, CcmMasks(R, 0))
  BY DEF CcmBodyAt
<1>7. CcmAdDone(A, T, R) = Ctx(f, 1, 0, base, <<>>, none)
  BY DEF CcmAdDone
<1> HIDE DEF f, base
<1> QED
  BY <1>2, <1>3, <1>4, <1>5, <1>6, <1>7

\* The fields of the context of CCM in the body.
LEMMA CcmBodyHas == \A A, T, R, b : b \in Nat =>
  LET c == CcmBodyAt(A, T, R, b) IN
  /\ c.flags = CcmAdFlags(A) /\ c.processed = b /\ c.add_len = A /\ c.total = T /\ c.range = R
  /\ c.first = 1 /\ c.masks = CcmMasks(R, b)
<1> TAKE A, T, R, b
<1> HAVE b \in Nat
<1> DEFINE f == CcmFrame(CcmAdFlags(A), A, T, R, b)
           base == CcmBase(A, T)
           k == CcmCounter(T, R, b)
           m == CcmMasks(R, b)
           c == Ctx(f, k, 0, base \o InBlocks(BodyStream, b), <<>>, m)
           d == Fed(f, k, 0, base, BodyStream, b, m)
<1>1. CcmBodyAt(A, T, R, b) = IF b = T THEN c ELSE d
  BY DEF CcmBodyAt
<1>2. /\ f.flags = CcmAdFlags(A) /\ f.processed = b /\ f.add_len = A /\ f.total = T /\ f.range = R
      /\ f.first = 1
  BY CcmFrames
<1> HIDE DEF f, k, m, base
<1>3. /\ c.flags = CcmAdFlags(A) /\ c.processed = b /\ c.add_len = A /\ c.total = T /\ c.range = R
      /\ c.first = 1 /\ c.masks = m
  BY <1>2, ContextHas
<1>4. /\ d.flags = CcmAdFlags(A) /\ d.processed = b /\ d.add_len = A /\ d.total = T /\ d.range = R
      /\ d.first = 1 /\ d.masks = m
  BY <1>2, FedHas
<1> HIDE DEF c, d
<1> QED
  BY <1>1, <1>3, <1>4 DEF m

\* No turn of the loop.
LEMMA CcmNoPieces == \A c : CcmBodyLoop(c, <<>>) = c
<1> TAKE c
<1> DEFINE none == <<>>
           body(g) == [j \in 0 .. 0 |-> IF j = 0 THEN c ELSE CcmPiece(g[j - 1], none[j])]
           g == [j \in 0 .. 0 |-> c]
           e == CHOOSE y : y = body(y)
<1>1. g = body(g)
  OBVIOUS
<1>2. e = body(e)
  BY <1>1
<1>3. CcmBodyLoop(c, none) = e[0]
  <2>1. Len(none) = 0
    OBVIOUS
  <2> HIDE DEF none
  <2> QED
    BY <2>1 DEF CcmBodyLoop
<1> HIDE DEF e
<1>4. e[0] = c
  BY <1>2
<1> QED
  BY <1>3, <1>4

\* n bytes of the body in one call.
CcmGoesTo(A, T, R, b, n, y) ==
    /\ A \in Nat /\ T \in Nat /\ R \in Nat /\ R > 0 /\ b \in Nat /\ n \in Nat
    /\ y = b + n /\ y <= T

\* mbedtls_ccm_update() takes all of the body that was declared.
LEMMA CcmBodyAs == \A A, T, R, b, n, y : CcmGoesTo(A, T, R, b, n, y) =>
  mbedtls_ccm_update(CcmBodyAt(A, T, R, b), BodyCells(b, n)) = Proceed(CcmBodyAt(A, T, R, y))
<1> TAKE A, T, R, b, n, y
<1> HAVE CcmGoesTo(A, T, R, b, n, y)
<1>0. /\ A \in Nat /\ T \in Nat /\ R \in Nat /\ R > 0 /\ b \in Nat /\ n \in Nat
      /\ y = b + n /\ y <= T
  BY DEF CcmGoesTo
<1> DEFINE c == CcmBodyAt(A, T, R, b)
           cells == BodyCells(b, n)
           o == b % BlockSize
           pieces(p) == CcmPieces(p, cells)
           after(p) == CcmBodyLoop(c, pieces(p))
           r == mbedtls_ccm_update(c, cells)
<1>1. Takes(cells, BodyStream, b) /\ Len(cells) = n /\ IsSeq(cells)
  <2>1. Takes(cells, BodyStream, b) /\ Len(cells) = n
    BY <1>0, BodyTakes
  <2> QED
    BY <2>1 DEF Takes
<1>2. c.flags = CcmAdFlags(A) /\ c.processed = b /\ c.total = T
  BY <1>0, CcmBodyHas
<1>3. "ERROR" \notin c.flags
  BY <1>2, CcmFlags DEF CcmAdFlags
<1>4. r = LET p == c.processed % BlockSize IN
          IF "ERROR" \in c.flags \/ c.processed + Len(cells) > c.total THEN Stop(c, "INVALID_ARGUMENT")
          ELSE Proceed(after(p))
  BY DEF mbedtls_ccm_update, CcmBodyLoop
<1> HIDE DEF c, cells, r
<1>5. ~(c.processed + Len(cells) > c.total)
  BY <1>0, <1>1, <1>2
<1> HIDE DEF after
<1>6. r = Proceed(after(o))
  BY <1>2, <1>3, <1>4, <1>5
<1>7. after(o) = CcmBodyAt(A, T, R, y)
  <2>1. CASE n = 0
    <3>1. cells = <<>>
      BY <1>1, <2>1, NoCells
    <3>2. pieces(o) = <<>>
      BY <3>1, NoPieces
    <3>3. y = b
      BY <1>0, <2>1
    <3> HIDE DEF pieces, o
    <3> QED
      BY <3>2, <3>3, CcmNoPieces DEF after, c
  <2>2. CASE n # 0
    <3>1. CcmBodyAll(A, T, R, b, n, y, cells)
      BY <1>0, <1>1, <2>2 DEF CcmBodyAll
    <3> QED
      BY <3>1, CcmBodyLoopGoes DEF after, c
  <2> QED
    BY <2>1, <2>2
<1> QED
  BY <1>6, <1>7 DEF r, c, cells

\* The blocks of the additional data with its length.
LEMMA CcmAdBlocks == \A A : A \in Nat =>
  Chop(CcmLengthCells(A) \o AdCells(0, A)) = InBlocks(CcmAdStream(A), A + 2)
<1> TAKE A
<1> HAVE A \in Nat
<1> DEFINE s == CcmLengthCells(A)
           t == AdCells(0, A)
           z == s \o t
           S == CcmAdStream(A)
           n == A + 2
           two == 2
<1>1. Takes(s, S, 0) /\ Len(s) = two /\ IsSeq(s)
  BY CcmStreamTakes, TwoCells DEF CcmLengthCells
<1>2. Takes(t, S, two) /\ Len(t) = A
  <2> DEFINE zero == 0
  <2>1. zero \in Nat /\ two = zero + 2
    OBVIOUS
  <2> HIDE DEF zero, two
  <2>2. Takes(AdCells(zero, A), S, two) /\ Len(AdCells(zero, A)) = A
    BY <2>1, CcmAdTakes
  <2> QED
    BY <2>2 DEF zero
<1>3. IsSeq(t)
  BY <1>2 DEF Takes
<1> HIDE DEF s, t, S
<1>4. IsJoin(z, s, t)
  BY <1>1, <1>3, Joins
<1> HIDE DEF z
<1>5. /\ IsSeq(z) /\ Len(z) = n
      /\ (\A i \in 1 .. two : z[i] = s[i]) /\ (\A i \in 1 .. A : z[two + i] = t[i])
  BY <1>1, <1>2, <1>4 DEF IsJoin
<1>6. ASSUME NEW i \in 1 .. n PROVE z[i] = S[0 + i]
  <2>1. CASE i <= two
    <3>1. i \in 1 .. two
      BY <2>1
    <3> QED
      BY <1>1, <1>5, <3>1 DEF Takes
  <2>2. CASE ~(i <= two)
    <3> DEFINE j == i - two
    <3>1. j \in 1 .. A /\ two + j = 0 + i /\ two + j = i
      BY <2>2
    <3> HIDE DEF j
    <3>2. z[two + j] = t[j] /\ t[j] = S[two + j]
      BY <1>2, <1>5, <3>1 DEF Takes
    <3> QED
      BY <3>1, <3>2
  <2> QED
    BY <2>1, <2>2
<1>7. Takes(z, S, 0)
  BY <1>5, <1>6 DEF Takes
<1> HIDE DEF n
<1>8. Chop(z) = InBlocks(S, Len(z))
  BY <1>7, ChopAll
<1>9. Chop(z) = InBlocks(S, n)
  BY <1>5, <1>8
<1> QED
  BY <1>9 DEF z, s, t, S, n

\* The blocks of the whole message.
LEMMA CcmAllBlocks == \A A, T : A \in Nat /\ T \in Nat =>
  Authenticated("CCM", A, T) = CcmBase(A, T) \o InBlocks(BodyStream, T)
<1> TAKE A, T
<1> HAVE A \in Nat /\ T \in Nat
<1> DEFINE first == CcmFirst(A, T)
           ad == InBlocks(CcmAdStream(A), A + 2)
           body == InBlocks(BodyStream, T)
           none == <<>>
<1>1. Authenticated("CCM", A, T) = (<<CcmFirstBlock(A, T)>>
          \o (IF A = 0 THEN <<>> ELSE Chop(CcmLengthCells(A) \o AdCells(0, A))))
          \o Chop(BodyCells(0, T))
  BY DEF Authenticated
<1>2. Chop(CcmLengthCells(A) \o AdCells(0, A)) = ad
  BY CcmAdBlocks
<1>3. Chop(BodyCells(0, T)) = body
  BY BodyBlocks
<1>4. IsSeq(first) /\ first = <<CcmFirstBlock(A, T)>>
  BY CcmFirstIs DEF CcmFirst
<1>5. CcmBase(A, T) = IF A = 0 THEN first ELSE first \o ad
  BY DEF CcmBase
<1>6. first \o none = first
  BY <1>4, JoinedNone
<1>7. Authenticated("CCM", A, T) = (first \o (IF A = 0 THEN none ELSE ad)) \o body
  BY <1>1, <1>2, <1>3, <1>4, Zenon
<1> HIDE DEF first, ad, none
<1>8. first \o (IF A = 0 THEN none ELSE ad) = CcmBase(A, T)
  BY <1>5, <1>6
<1> QED
  BY <1>7, <1>8

\* mbedtls_ccm_finish() makes a tag over both parts once they are complete.
LEMMA CcmFinishAs == \A A, T, R : A \in Nat /\ T \in Nat =>
  Covers("CCM", mbedtls_ccm_finish(CcmBodyAt(A, T, R, T)), A, T)
<1> TAKE A, T, R
<1> HAVE A \in Nat /\ T \in Nat
<1> DEFINE c == CcmBodyAt(A, T, R, T)
           r == mbedtls_ccm_finish(c)
<1>1. /\ c.flags = CcmAdFlags(A) /\ c.processed = T /\ c.add_len = A /\ c.total = T
      /\ c.masks = CcmMasks(R, T)
  BY CcmBodyHas
<1>2. c = Ctx(CcmFrame(CcmAdFlags(A), A, T, R, T), CcmCounter(T, R, T), 0,
              CcmBase(A, T) \o InBlocks(BodyStream, T), <<>>, CcmMasks(R, T))
  BY DEF CcmBodyAt
<1>3. c.blocks = CcmBase(A, T) \o InBlocks(BodyStream, T)
  <2> DEFINE f == CcmFrame(CcmAdFlags(A), A, T, R, T)
             k == CcmCounter(T, R, T)
             bs == CcmBase(A, T) \o InBlocks(BodyStream, T)
             m == CcmMasks(R, T)
  <2>1. c = Ctx(f, k, 0, bs, <<>>, m)
    BY <1>2
  <2> HIDE DEF c, f, k, bs, m
  <2>2. c.blocks = bs
    BY <2>1, ContextHas
  <2> QED
    BY <2>2 DEF bs
<1>4. Len(CcmMasks(R, T)) = T
  BY MasksAre DEF CcmMasks
<1> HIDE DEF c
<1>5. "ERROR" \notin c.flags /\ {"STARTED", "LENGTHS_SET"} \subseteq c.flags
      /\ (A > 0 => "AUTH_DATA_FINISHED" \in c.flags)
  BY <1>1, CcmFlags DEF CcmAdFlags
<1>6. r = Proceed(c)
  BY <1>1, <1>5 DEF mbedtls_ccm_finish
<1>7. r.status = "OK" /\ r.ctx = c
  BY <1>6 DEF Proceed
<1> QED
  BY <1>1, <1>3, <1>4, <1>7, CcmAllBlocks DEF Covers, r, c

\* The nonce and the lengths, in either order.
CcmNonceCell == <<"nonce", 0, 0>>
CcmNonced(R) ==
    Ctx(Frame({"STARTED"}, 0, 0, 0, 0, R, 1), 1, 0, <<>>, <<<<1, CcmNonceCell>>>>, <<>>)
CcmSized(A, T) ==
    Ctx(Frame({"LENGTHS_SET"}, A, T, 0, 0, CounterRange, 0), 0, 0, <<>>, <<>>, <<>>)
CcmBoth(A, T, R) ==
    Ctx(Frame(CcmOn, A, T, 0, 0, R, 1), 1, 0, <<>>, <<<<1, CcmNonceCell>>>>, <<>>)
CcmStarts(r, A, T, R) ==
    IF T >= R THEN r.status # "OK" ELSE r = Proceed(CcmReady(A, T, R))

\* One cell, mixed in.
LEMMA CcmOneCell == \A x : IsSeq(<<x>>) /\ AtOffset(0, <<x>>) = <<<<0, x>>>> /\ AtOffset(1, <<x>>) = <<<<1, x>>>>
<1> TAKE x
<1> DEFINE s == <<x>>
<1>1. IsSeq(s) /\ Len(s) = 1 /\ s[1] = x
  BY OneCell
<1> HIDE DEF s
<1>2. ASSUME NEW o \in {0, 1} PROVE AtOffset(o, s) = <<<<o, x>>>>
  <2> DEFINE a == AtOffset(o, s)
             b == <<<<o, x>>>>
  <2>1. IsSeq(a) /\ Len(a) = 1 /\ a[1] = <<o + 1 - 1, s[1]>>
    BY <1>1, OffsetIs
  <2>2. IsSeq(b) /\ Len(b) = 1 /\ b[1] = <<o, x>>
    BY OneCell
  <2>3. o + 1 - 1 = o
    OBVIOUS
  <2> HIDE DEF a, b
  <2>4. \A i \in 1 .. 1 : a[i] = b[i]
    BY <1>1, <2>1, <2>2, <2>3
  <2>5. a = b
    BY <2>1, <2>2, <2>4, SameSeq
  <2> QED
    BY <2>5 DEF a, b
<1> QED
  BY <1>1, <1>2 DEF s

\* The first block is made once the nonce and the lengths are known; a body
\* too long for the nonce is refused then.
LEMMA CcmReadies == \A A, T, R :
  CcmStarts(ccm_calculate_first_block_if_ready(CcmBoth(A, T, R)), A, T, R)
<1> TAKE A, T, R
<1> DEFINE f == Frame(CcmOn, A, T, 0, 0, R, 1)
           x == <<1, CcmNonceCell>>
           y == <<"lengths", A, T>>
           z == <<0, y>>
           c == CcmBoth(A, T, R)
           r == ccm_calculate_first_block_if_ready(c)
           none == <<>>
<1>1. c = Ctx(f, 1, 0, none, <<x>>, none)
  BY DEF CcmBoth
<1>2. f.flags = CcmOn /\ f.add_len = A /\ f.total = T /\ f.range = R
  BY FrameHas
<1> HIDE DEF f, c
<1>3. c.flags = CcmOn /\ c.add_len = A /\ c.total = T /\ c.range = R
  BY <1>1, <1>2, ContextHas
<1>4. r = IF T >= R THEN Stop([c EXCEPT !.flags = @ \cup {"ERROR"}], "INVALID_ARGUMENT")
          ELSE Proceed(Absorb(Mix(c, 0, <<y>>)))
  <2> HIDE DEF y
  <2> QED
    BY <1>3, CcmFlags DEF ccm_calculate_first_block_if_ready, y
<1>5. Absorb(Mix(c, 0, <<y>>)) = CcmReady(A, T, R)
  <2>1. AtOffset(0, <<y>>) = <<z>>
    BY CcmOneCell
  <2> HIDE DEF x, y, z
  <2>2. <<x>> \o <<z>> = <<x, z>>
    <3> DEFINE s == <<x>>
               t == <<z>>
               d == <<x, z>>
               e == s \o t
    <3>1. IsSeq(s) /\ Len(s) = 1 /\ s[1] = x /\ IsSeq(t) /\ Len(t) = 1 /\ t[1] = z
      BY OneCell
    <3>2. IsSeq(d) /\ Len(d) = 2 /\ d[1] = x /\ d[2] = z
      BY TwoCells
    <3> HIDE DEF s, t, d
    <3>3. IsJoin(e, s, t)
      BY <3>1, Joins
    <3> HIDE DEF e
    <3>4. IsSeq(e) /\ Len(e) = 2 /\ e[1] = x /\ e[2] = z
      <4>1. IsSeq(e) /\ Len(e) = 1 + 1 /\ (\A i \in 1 .. 1 : e[i] = s[i]) /\ (\A i \in 1 .. 1 : e[1 + i] = t[i])
        BY <3>1, <3>3 DEF IsJoin
      <4>2. e[1] = s[1] /\ e[1 + 1] = t[1] /\ 1 + 1 = 2
        BY <4>1
      <4> QED
        BY <3>1, <4>1, <4>2
    <3>5. \A i \in 1 .. 2 : e[i] = d[i]
      BY <3>2, <3>4
    <3>6. e = d
      BY <3>2, <3>4, <3>5, SameSeq
    <3> QED
      BY <3>6 DEF e, s, t, d
  <2>3. Mix(c, 0, <<y>>) = Ctx(f, 1, 0, none, <<x>> \o AtOffset(0, <<y>>), none)
    <3> DEFINE part == <<x>>
               cells == <<y>>
    <3>1. c = Ctx(f, 1, 0, none, part, none)
      BY <1>1
    <3> HIDE DEF part, cells, none
    <3>2. Mix(c, 0, cells) = Ctx(f, 1, 0, none, part \o AtOffset(0, cells), none)
      BY <3>1, MixIs
    <3> QED
      BY <3>2 DEF part, cells
  <2>4. Mix(c, 0, <<y>>) = Ctx(f, 1, 0, none, <<x, z>>, none)
    BY <2>1, <2>2, <2>3
  <2>5. Absorb(Ctx(f, 1, 0, none, <<x, z>>, none)) = Ctx(f, 1, 0, Append(none, <<x, z>>), none, none)
    <3> DEFINE part == <<x, z>>
    <3> HIDE DEF part, none
    <3>1. Absorb(Ctx(f, 1, 0, none, part, none)) = Ctx(f, 1, 0, Append(none, part), <<>>, none)
      BY AbsorbIs
    <3> QED
      BY <3>1 DEF part, none
  <2>6. Append(none, <<x, z>>) = CcmFirst(A, T)
    BY DEF CcmFirst, CcmFirstBlock, x, y, z, CcmNonceCell
  <2> QED
    BY <2>4, <2>5, <2>6 DEF CcmReady, CcmFrame, f
<1>6. (Stop([c EXCEPT !.flags = @ \cup {"ERROR"}], "INVALID_ARGUMENT")).status # "OK"
  BY DEF Stop
<1> HIDE DEF r
<1> QED
  BY <1>4, <1>5, <1>6 DEF CcmStarts, r, c

\* ccm.c after the nonce, with flags for what it had before.
CcmBare(flags, A, T, Q, p) == Ctx(Frame(flags, A, T, 0, 0, Q, p), 0, 0, <<>>, <<>>, <<>>)
CcmWithNonce(flags, A, T, R) ==
    Ctx(Frame(flags \cup {"STARTED"}, A, T, 0, 0, R, 1), 1, 0, <<>>, <<<<1, CcmNonceCell>>>>, <<>>)

\* mbedtls_ccm_starts() adds the nonce.
LEMMA CcmTakesNonce == \A flags, A, T, Q, p, nonce : nonce \in CcmNonces =>
  mbedtls_ccm_starts(CcmBare(flags, A, T, Q, p), nonce)
    = ccm_calculate_first_block_if_ready(CcmWithNonce(flags, A, T, LengthRange[nonce]))
<1> TAKE flags, A, T, Q, p, nonce
<1> HAVE nonce \in CcmNonces
<1> DEFINE none == <<>>
           x == CcmNonceCell
           R == LengthRange[nonce]
           c == Ctx(Frame(flags, A, T, 0, 0, Q, p), 0, 0, none, none, none)
           mixed == Mix(c, 1, <<x>>)
           part == <<<<1, x>>>>
           more == flags \cup {"STARTED"}
           d == [mixed EXCEPT !.ctr = 1, !.first = 1, !.range = R, !.flags = @ \cup {"STARTED"}]
           e == Ctx(Frame(more, A, T, 0, 0, R, 1), 1, 0, none, part, none)
<1>1. mixed = Ctx(Frame(flags, A, T, 0, 0, Q, p), 0, 0, none, part, none)
  <2> DEFINE f == Frame(flags, A, T, 0, 0, Q, p)
             cells == <<x>>
             zero == 0
  <2>1. AtOffset(1, cells) = part /\ IsSeq(cells)
    BY CcmOneCell
  <2>2. none \o part = part
    <3>1. IsSeq(part)
      BY OneCell
    <3> HIDE DEF part
    <3> QED
      BY <3>1, JoinedNone
  <2> HIDE DEF f, cells, part, none
  <2>3. Mix(Ctx(f, 0, 0, none, none, none), 1, cells) = Ctx(f, 0, 0, none, none \o AtOffset(1, cells), none)
    BY MixIs
  <2> QED
    BY <2>1, <2>2, <2>3 DEF f, cells
<1>2. mbedtls_ccm_starts(c, nonce) = ccm_calculate_first_block_if_ready(d)
  BY DEF mbedtls_ccm_starts, CcmNonceCell
<1>3. d = e
  <2> DEFINE c0 == Ctx(Frame(flags, A, T, 0, 0, Q, p), 0, 0, none, part, none)
  <2> HIDE DEF mixed, part, none, more, R
  <2>1. [c0 EXCEPT !.ctr = 1, !.first = 1, !.range = R, !.flags = more] = e
    <3> DEFINE c1 == Ctx(Frame(flags, A, T, 0, 0, Q, p), 1, 0, none, part, none)
               c2 == Ctx(Frame(flags, A, T, 0, 0, Q, 1), 1, 0, none, part, none)
               c3 == Ctx(Frame(flags, A, T, 0, 0, R, 1), 1, 0, none, part, none)
    <3>1. [c0 EXCEPT !.ctr = 1] = c1
      BY ContextBut
    <3>2. [c1 EXCEPT !.first = 1] = c2
      BY FrameBut
    <3>3. [c2 EXCEPT !.range = R] = c3
      BY FrameBut
    <3>4. [c3 EXCEPT !.flags = more] = e
      BY FrameBut
    <3> HIDE DEF c0, c1, c2, c3, e
    <3> QED
      BY <3>1, <3>2, <3>3, <3>4
  <2>2. c0.flags = flags
    BY DEF Ctx, Frame
  <2> HIDE DEF c0
  <2>3. d = [c0 EXCEPT !.ctr = 1, !.first = 1, !.range = R, !.flags = @ \cup {"STARTED"}]
    BY <1>1 DEF c0, R
  <2>4. [c0 EXCEPT !.ctr = 1, !.first = 1, !.range = R, !.flags = @ \cup {"STARTED"}]
          = [c0 EXCEPT !.ctr = 1, !.first = 1, !.range = R, !.flags = more]
    BY <2>2 DEF c0, Ctx, more
  <2> QED
    BY <2>1, <2>3, <2>4
<1> HIDE DEF d, e, c
<1>4. mbedtls_ccm_starts(c, nonce) = ccm_calculate_first_block_if_ready(e)
  BY <1>2, <1>3
<1> QED
  BY <1>4 DEF c, e, part, none, x, CcmBare, CcmWithNonce

\* mbedtls_ccm_starts() succeeds only for nonces of 7 to 13 bytes.
LEMMA CcmRefuses == \A c, nonce : (mbedtls_ccm_starts(c, nonce)).status = "OK" => nonce \in CcmNonces
BY DEF mbedtls_ccm_starts, Stop

\* The nonce before the lengths, and after them.
LEMMA CcmStartsAs == \A nonce : nonce \in CcmNonces =>
  mbedtls_ccm_starts(Keyed, nonce) = Proceed(CcmNonced(LengthRange[nonce]))
<1> TAKE nonce
<1> HAVE nonce \in CcmNonces
<1> DEFINE R == LengthRange[nonce]
           none == {}
           c == CcmNonced(R)
<1>1. mbedtls_ccm_starts(Keyed, nonce) = ccm_calculate_first_block_if_ready(CcmWithNonce(none, 0, 0, R))
  <2> HIDE DEF none
  <2>1. Keyed = CcmBare(none, 0, 0, CounterRange, 0)
    BY KeyedIs DEF none, CcmBare
  <2> QED
    BY <2>1, CcmTakesNonce
<1>2. none \cup {"STARTED"} = {"STARTED"}
  OBVIOUS
<1>3. mbedtls_ccm_starts(Keyed, nonce) = ccm_calculate_first_block_if_ready(c)
  BY <1>1, <1>2 DEF CcmNonced, CcmWithNonce
<1>4. c.flags = {"STARTED"}
  BY DEF CcmNonced, Ctx, Frame
<1> HIDE DEF c
<1>5. ~({"STARTED", "LENGTHS_SET"} \subseteq c.flags)
  BY <1>4
<1> QED
  BY <1>3, <1>5 DEF ccm_calculate_first_block_if_ready, c

\* The nonce after the lengths.
LEMMA CcmStartsSized == \A A, T, nonce : nonce \in CcmNonces =>
  CcmStarts(mbedtls_ccm_starts(CcmSized(A, T), nonce), A, T, LengthRange[nonce])
<1> TAKE A, T, nonce
<1> HAVE nonce \in CcmNonces
<1> DEFINE R == LengthRange[nonce]
           flags == {"LENGTHS_SET"}
           c == CcmSized(A, T)
<1>1. mbedtls_ccm_starts(c, nonce) = ccm_calculate_first_block_if_ready(CcmWithNonce(flags, A, T, R))
  <2> HIDE DEF flags
  <2>1. c = CcmBare(flags, A, T, CounterRange, 0)
    BY DEF CcmSized, flags, CcmBare
  <2> HIDE DEF c
  <2> QED
    BY <2>1, CcmTakesNonce
<1>2. flags \cup {"STARTED"} = CcmOn
  BY DEF CcmOn
<1>3. mbedtls_ccm_starts(c, nonce) = ccm_calculate_first_block_if_ready(CcmBoth(A, T, R))
  BY <1>1, <1>2 DEF CcmBoth, CcmWithNonce
<1> HIDE DEF c, R
<1> QED
  BY <1>3, CcmReadies DEF c, R

\* The lengths before the nonce, and after it.
CcmUnsized(flags, R, f, k, part) == Ctx(Frame(flags, 0, 0, 0, 0, R, f), k, 0, <<>>, part, <<>>)
CcmWithLengths(flags, R, f, k, part, A, T) ==
    Ctx(Frame(flags \cup {"LENGTHS_SET"}, A, T, 0, 0, R, f), k, 0, <<>>, part, <<>>)
CcmSizes(r, A, d) ==
    IF A >= CcmAdLimit THEN r.status # "OK" ELSE r = ccm_calculate_first_block_if_ready(d)

\* mbedtls_ccm_set_lengths() adds the lengths.
LEMMA CcmTakesLengths == \A flags, R, f, k, part, A, T :
  CcmSizes(mbedtls_ccm_set_lengths(CcmUnsized(flags, R, f, k, part), A, T), A,
           CcmWithLengths(flags, R, f, k, part, A, T))
<1> TAKE flags, R, f, k, part, A, T
<1> DEFINE none == <<>>
           c == Ctx(Frame(flags, 0, 0, 0, 0, R, f), k, 0, none, part, none)
           more == flags \cup {"LENGTHS_SET"}
           d == [c EXCEPT !.add_len = A, !.total = T, !.processed = 0, !.flags = @ \cup {"LENGTHS_SET"}]
           e == Ctx(Frame(more, A, T, 0, 0, R, f), k, 0, none, part, none)
           r == mbedtls_ccm_set_lengths(c, A, T)
<1>1. r = IF A >= CcmAdLimit THEN Stop(c, "INVALID_ARGUMENT") ELSE ccm_calculate_first_block_if_ready(d)
  <2> HIDE DEF c
  <2> QED
    BY DEF mbedtls_ccm_set_lengths
<1>2. (Stop(c, "INVALID_ARGUMENT")).status # "OK"
  BY DEF Stop
<1>3. d = e
  <2> HIDE DEF none
  <2>1. [c EXCEPT !.add_len = A, !.total = T, !.processed = 0, !.flags = more] = e
    <3> DEFINE c1 == Ctx(Frame(flags, A, 0, 0, 0, R, f), k, 0, none, part, none)
               c2 == Ctx(Frame(flags, A, T, 0, 0, R, f), k, 0, none, part, none)
    <3> HIDE DEF more
    <3>1. [c EXCEPT !.add_len = A] = c1
      BY FrameBut
    <3>2. [c1 EXCEPT !.total = T] = c2
      BY FrameBut
    <3>3. [c2 EXCEPT !.processed = 0] = c2
      BY FrameBut
    <3>4. [c2 EXCEPT !.flags = more] = e
      BY FrameBut
    <3> HIDE DEF c, c1, c2, e
    <3> QED
      BY <3>1, <3>2, <3>3, <3>4
  <2>2. c.flags = flags
    BY DEF Ctx, Frame
  <2>3. d = [c EXCEPT !.add_len = A, !.total = T, !.processed = 0, !.flags = more]
    BY <2>2 DEF Ctx
  <2> QED
    BY <2>1, <2>3
<1> HIDE DEF d, e, c, r
<1>4. IF A >= CcmAdLimit THEN r.status # "OK" ELSE r = ccm_calculate_first_block_if_ready(e)
  BY <1>1, <1>2, <1>3
<1> QED
  BY <1>4 DEF r, e, c, none, CcmSizes, CcmUnsized, CcmWithLengths

\* The lengths before the nonce.
LEMMA CcmSizedAs == \A A, T :
  LET r == mbedtls_ccm_set_lengths(Keyed, A, T)
  IN  IF A >= CcmAdLimit THEN r.status # "OK" ELSE r = Proceed(CcmSized(A, T))
<1> TAKE A, T
<1> DEFINE r == mbedtls_ccm_set_lengths(Keyed, A, T)
           none == {}
           part == <<>>
           c == CcmSized(A, T)
<1>1. CcmSizes(r, A, CcmWithLengths(none, CounterRange, 0, 0, part, A, T))
  <2> HIDE DEF none, part
  <2>1. Keyed = CcmUnsized(none, CounterRange, 0, 0, part)
    BY KeyedIs DEF none, part, CcmUnsized
  <2> QED
    BY <2>1, CcmTakesLengths
<1>2. none \cup {"LENGTHS_SET"} = {"LENGTHS_SET"}
  OBVIOUS
<1>3. CcmWithLengths(none, CounterRange, 0, 0, part, A, T) = c
  BY <1>2 DEF CcmWithLengths, CcmSized
<1>4. c.flags = {"LENGTHS_SET"}
  BY DEF CcmSized, Ctx, Frame
<1> HIDE DEF c, none, part
<1>5. ~({"STARTED", "LENGTHS_SET"} \subseteq c.flags)
  BY <1>4
<1>6. ccm_calculate_first_block_if_ready(c) = Proceed(c)
  BY <1>5 DEF ccm_calculate_first_block_if_ready
<1>7. CcmSizes(r, A, c)
  BY <1>1, <1>3
<1> HIDE DEF r
<1> QED
  BY <1>6, <1>7 DEF CcmSizes, r, c

\* The lengths after the nonce.
LEMMA CcmLengthsAs == \A A, T, R :
  LET r == mbedtls_ccm_set_lengths(CcmNonced(R), A, T)
  IN  IF A >= CcmAdLimit THEN r.status # "OK" ELSE CcmStarts(r, A, T, R)
<1> TAKE A, T, R
<1> DEFINE r == mbedtls_ccm_set_lengths(CcmNonced(R), A, T)
           flags == {"STARTED"}
           part == <<<<1, CcmNonceCell>>>>
           c == CcmBoth(A, T, R)
<1>1. CcmSizes(r, A, CcmWithLengths(flags, R, 1, 1, part, A, T))
  <2>1. CcmNonced(R) = CcmUnsized(flags, R, 1, 1, part)
    BY DEF CcmNonced, CcmUnsized
  <2> HIDE DEF flags, part
  <2> QED
    BY <2>1, CcmTakesLengths
<1>2. flags \cup {"LENGTHS_SET"} = CcmOn
  BY DEF CcmOn
<1>3. CcmWithLengths(flags, R, 1, 1, part, A, T) = c
  BY <1>2 DEF CcmWithLengths, CcmBoth
<1>4. CcmStarts(ccm_calculate_first_block_if_ready(c), A, T, R)
  BY CcmReadies
<1> HIDE DEF c, flags, part
<1>5. CcmSizes(r, A, c)
  BY <1>1, <1>3
<1> HIDE DEF r
<1> QED
  BY <1>4, <1>5 DEF CcmSizes, r

\* CCM with the nonce and the lengths, after a of A bytes of additional data
\* and b of T bytes of the body.
CcmCtx(A, T, R, a, b) ==
    IF a = A THEN CcmBodyAt(A, T, R, b) ELSE CcmAdCtx(A, T, R, a)
CcmSizesAre(A, T, R) == A \in Nat /\ T \in Nat /\ R \in Nat /\ R > 1

\* The context of CCM before the body.
LEMMA CcmAdCtxIs == \A A, T, R, a : CcmSizesAre(A, T, R) => CcmCtx(A, T, R, a, 0) = CcmAdCtx(A, T, R, a)
BY CcmBodyBegins DEF CcmSizesAre, CcmCtx, CcmAdCtx

\* The context of CCM before any data.
LEMMA CcmReadyIs == \A A, T, R : CcmSizesAre(A, T, R) => CcmReady(A, T, R) = CcmCtx(A, T, R, 0, 0)
<1> TAKE A, T, R
<1> HAVE CcmSizesAre(A, T, R)
<1>1. CcmCtx(A, T, R, 0, 0) = CcmAdCtx(A, T, R, 0)
  BY CcmAdCtxIs
<1>2. A = 0 => CcmReady(A, T, R) = CcmAdDone(A, T, R)
  BY DEF CcmReady, CcmAdDone, CcmAdFlags, CcmBase
<1> QED
  BY <1>1, <1>2 DEF CcmAdCtx

CcmAdGoesTo(A, T, R, a, n, y) ==
    CcmSizesAre(A, T, R) /\ a \in Nat /\ n \in Nat /\ y = a + n /\ y <= A

\* CcmAdAs, as it is used.
LEMMA CcmAdTo == \A A, T, R, a, n, y : CcmAdGoesTo(A, T, R, a, n, y) =>
  mbedtls_ccm_update_ad(CcmCtx(A, T, R, a, 0), AdCells(a, n)) = Proceed(CcmCtx(A, T, R, y, 0))
<1> TAKE A, T, R, a, n, y
<1> HAVE CcmAdGoesTo(A, T, R, a, n, y)
<1>1. CcmSizesAre(A, T, R) /\ a \in Nat /\ n \in Nat /\ y = a + n /\ y <= A /\ A \in Nat
  BY DEF CcmAdGoesTo, CcmSizesAre
<1>2. CcmCtx(A, T, R, a, 0) = CcmAdCtx(A, T, R, a) /\ CcmCtx(A, T, R, y, 0) = CcmAdCtx(A, T, R, y)
  BY <1>1, CcmAdCtxIs
<1> DEFINE z == a + n
<1>3. mbedtls_ccm_update_ad(CcmAdCtx(A, T, R, a), AdCells(a, n)) = Proceed(CcmAdCtx(A, T, R, z))
  BY <1>1, CcmAdAs
<1>4. y = z
  BY <1>1
<1> HIDE DEF z
<1> QED
  BY <1>2, <1>3, <1>4

\* CcmBodyAs, as it is used.
LEMMA CcmBodyTo == \A A, T, R, b, n, y : CcmGoesTo(A, T, R, b, n, y) =>
  mbedtls_ccm_update(CcmCtx(A, T, R, A, b), BodyCells(b, n)) = Proceed(CcmCtx(A, T, R, A, y))
BY CcmBodyAs DEF CcmCtx

\* CcmFinishAs, as it is used.
LEMMA CcmCovers == \A A, T, R : CcmSizesAre(A, T, R) =>
  Covers("CCM", mbedtls_ccm_finish(CcmCtx(A, T, R, A, T)), A, T)
BY CcmFinishAs DEF CcmCtx, CcmSizesAre

\* The fields of the context of CCM at any time, once it can go on.
LEMMA CcmHas == \A A, T, R, a, b : CcmSizesAre(A, T, R) /\ a \in Nat /\ a <= A /\ b \in Nat
    /\ (a < A => b = 0) =>
  LET c == CcmCtx(A, T, R, a, b) IN
  c.range = R /\ c.first = 1 /\ c.masks = MaskedAs(1, R, BlockSize, b)
<1> TAKE A, T, R, a, b
<1> HAVE CcmSizesAre(A, T, R) /\ a \in Nat /\ a <= A /\ b \in Nat /\ (a < A => b = 0)
<1>1. A \in Nat
  BY DEF CcmSizesAre
<1>2. CASE a = A
  BY <1>2, CcmBodyHas DEF CcmCtx, CcmMasks
<1>3. CASE a # A
  <2>1. b = 0
    BY <1>1, <1>3
  <2>2. MaskedAs(1, R, BlockSize, 0) = <<>>
    BY NoMasks
  <2>3. CcmCtx(A, T, R, a, b) = CcmAdCtx(A, T, R, a)
    BY <1>3 DEF CcmCtx
  <2>4. (CcmAdCtx(A, T, R, a)).range = R /\ (CcmAdCtx(A, T, R, a)).first = 1 /\ (CcmAdCtx(A, T, R, a)).masks = <<>>
    BY <1>1, CcmAdHas
  <2> QED
    BY <2>1, <2>2, <2>3, <2>4
<1> QED
  BY <1>2, <1>3
=============================================================================

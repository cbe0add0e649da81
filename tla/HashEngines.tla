---------------------------- MODULE HashEngines ----------------------------
(***************************************************************************)
(* The buffering, padding and block order of the hash functions: sha256.c  *)
(* (the other hashes with a length field have the same code) and sha3.c.   *)
(*                                                                         *)
(* The state of a hash is the sequence of blocks it has processed, so two  *)
(* states are equal when the same blocks came in the same order. A digest  *)
(* is a sequence of cells, each naming the state and its place.            *)
(***************************************************************************)
EXTENDS Status

CONSTANTS
    HashBlock,  \* SHA256_BLOCK_SIZE
    HashSize,   \* the length of a digest
    HashWord,   \* the range of a word of the length, 2^32 in the code
    ByteBits,   \* bits of a byte
    Rate,       \* max_block_size of SHA-3
    Lane        \* the bytes that SHA-3 absorbs at a time, 8 in the code

ASSUME HashAssumption ==
    /\ HashBlock \in Nat /\ HashBlock > 3
    /\ HashSize \in 1 .. HashBlock
    /\ HashWord \in Nat /\ HashWord > HashBlock /\ HashWord % HashBlock = 0
    /\ ByteBits \in Nat \ {0} /\ HashWord % ByteBits = 0
    /\ Lane \in Nat \ {0} /\ Rate \in Nat /\ Rate % Lane = 0
    /\ HashSize <= Rate

Digest(state) == [i \in 1 .. HashSize |-> <<state, i>>]

\* memcpy() into a buffer after its first bytes.
Put(buffer, at, cells) ==
    [i \in DOMAIN buffer |->
        IF at < i /\ i <= at + Len(cells) THEN cells[i - at] ELSE buffer[i]]

-----------------------------------------------------------------------------
(* sha256.c.                                                               *)

\* Values in the buffer that are not bytes of the message.
Zero == <<"zero">>
Mark == <<"0x80">>
Length(n) == <<"length", n>>

mbedtls_sha256_starts ==
    [total |-> [low |-> 0, high |-> 0],
     buffer |-> [i \in 1 .. HashBlock |-> Zero], state |-> <<>>]

\* The count of bytes is in two words. The length given is cut to the low word: of the
\* HashWord bytes or more of one call, the whole words are not counted.
Count(total, n) ==
    LET added == n % HashWord
        low == (total.low + added) % HashWord
    IN  [low |-> low, high |-> IF low < added THEN (total.high + 1) % HashWord ELSE total.high]

\* A partial block is completed first, then whole blocks are processed where
\* they are, and what is left is buffered.
mbedtls_sha256_update(ctx, input) ==
    LET left == ctx.total.low % HashBlock
        fill == HashBlock - left
        completes == left # 0 /\ Len(input) >= fill
        taken == IF completes THEN fill ELSE 0
        first == Put(ctx.buffer, left, SubSeq(input, 1, taken))
        blocks == (Len(input) - taken) \div HashBlock
        whole == [b \in 1 .. blocks |->
                    SubSeq(input, taken + (b - 1) * HashBlock + 1, taken + b * HashBlock)]
        rest == SubSeq(input, taken + blocks * HashBlock + 1, Len(input))
    IN  IF input = <<>> THEN ctx
        ELSE [total |-> Count(ctx.total, Len(input)),
              buffer |-> Put(first, IF completes THEN 0 ELSE left, rest),
              state |-> ctx.state \o (IF completes THEN <<first>> ELSE <<>>) \o whole]

\* The number of bits, in two words.
BitsHigh(total) ==
    ((total.low * ByteBits) \div HashWord) + ((total.high * ByteBits) % HashWord)
BitsLow(total) == (total.low * ByteBits) % HashWord

\* The last two places of a block are for the length: 56 is HashBlock - 2.
PadFits(used) == used <= HashBlock - 2

mbedtls_sha256_finish(ctx) ==
    LET used == (ctx.total.low % HashBlock) + 1
        zeros(n) == [i \in 1 .. n |-> Zero]
        marked == Put(ctx.buffer, used - 1, <<Mark>>)
        extra == ~PadFits(used)
        filled == Put(marked, used, zeros(HashBlock - used))
        last == IF extra THEN Put(filled, 0, zeros(HashBlock - 2))
                ELSE Put(marked, used, zeros(HashBlock - 2 - used))
        sized == Put(last, HashBlock - 2,
                     <<Length(BitsHigh(ctx.total)), Length(BitsLow(ctx.total))>>)
    IN  Digest(ctx.state \o (IF extra THEN <<filled>> ELSE <<>>) \o <<sized>>)

\* FIPS 180-4: the message, a mark, zeros up to two places before the end of a
\* block, and the number of bits.
Sha256Reference(cells) ==
    LET n == Len(cells)
        zeros == CHOOSE k \in 0 .. HashBlock - 1 : (n + 1 + k + 2) % HashBlock = 0
        bits == n * ByteBits
        padded == cells \o <<Mark>> \o [i \in 1 .. zeros |-> Zero]
                    \o <<Length(bits \div HashWord), Length(bits % HashWord)>>
    IN  Digest([b \in 1 .. Len(padded) \div HashBlock |->
                  SubSeq(padded, (b - 1) * HashBlock + 1, b * HashBlock)])

-----------------------------------------------------------------------------
(* sha3.c. What was absorbed at a place since the last permutation is a     *)
(* set of cells, each exclusive-ored once.                                 *)

Nothing == [i \in 0 .. Rate - 1 |-> {}]

mbedtls_sha3_starts == [index |-> 0, block |-> Nothing, state |-> <<>>, finished |-> FALSE]

keccak_f1600(ctx) == [ctx EXCEPT !.state = Append(@, ctx.block), !.block = Nothing]
ABSORB(ctx, index, cell) == [ctx EXCEPT !.block[index] = @ \cup {cell}]
SQUEEZE(ctx, index) == <<ctx.state, index>>

\* The index moves on by some bytes; at the end of a block it is permuted.
Advance(ctx, n) ==
    LET c == [ctx EXCEPT !.index = (@ + n) % Rate]
    IN  IF c.index = 0 THEN keccak_f1600(c) ELSE c

\* n bytes at the index, without moving it.
AbsorbAt(ctx, cells) ==
    [ctx EXCEPT !.block = [i \in DOMAIN @ |->
        IF ctx.index <= i /\ i < ctx.index + Len(cells)
        THEN ctx.block[i] \cup {cells[i - ctx.index + 1]} ELSE ctx.block[i]]]

AbsorbBytes(ctx, cells) ==
    LET after[k \in 0 .. Len(cells)] ==
          IF k = 0 THEN ctx
          ELSE LET c == after[k - 1] IN Advance(ABSORB(c, c.index, cells[k]), 1)
    IN  after[Len(cells)]

\* Enough bytes for a lane: first up to the end of the current one, or a whole
\* one, then lane after lane; the rest one by one.
mbedtls_sha3_update(ctx, input) ==
    LET align == Lane - (ctx.index % Lane)
        aligned == Advance(AbsorbAt(ctx, SubSeq(input, 1, align)), align)
        lanes == (Len(input) - align) \div Lane
        lane(j) == SubSeq(input, align + (j - 1) * Lane + 1, align + j * Lane)
        after[j \in 0 .. lanes] ==
          IF j = 0 THEN aligned ELSE Advance(AbsorbAt(after[j - 1], lane(j)), Lane)
    IN  IF Len(input) < Lane THEN AbsorbBytes(ctx, input)
        ELSE AbsorbBytes(after[lanes], SubSeq(input, align + lanes * Lane + 1, Len(input)))

FinishOnce(ctx, suffix) ==
    IF ctx.finished THEN ctx
    ELSE [keccak_f1600(ABSORB(ABSORB(ctx, ctx.index, suffix), Rate - 1, Mark))
            EXCEPT !.index = 0, !.finished = TRUE]

\* olen bytes of output; the first call pads. A SHAKE may be asked again.
mbedtls_sha3_finish(ctx, suffix, olen) ==
    LET after[k \in 0 .. olen] ==
          IF k = 0 THEN [ctx |-> FinishOnce(ctx, suffix), out |-> <<>>]
          ELSE LET r == after[k - 1]
               IN  [ctx |-> Advance(r.ctx, 1),
                    out |-> Append(r.out, SQUEEZE(r.ctx, r.ctx.index))]
    IN  after[olen]

\* FIPS 202: blocks of the message, the suffix after it and the mark in the last
\* place of the last block; then blocks of output with a permutation between.
SpongeReference(cells, suffix, olen) ==
    LET n == Len(cells)
        at(b, i) == b * Rate + i + 1
        block(b) == [i \in 0 .. Rate - 1 |->
                       (IF at(b, i) <= n THEN {cells[at(b, i)]} ELSE {})
                         \cup (IF at(b, i) = n + 1 THEN {suffix} ELSE {})
                         \cup (IF b = n \div Rate /\ i = Rate - 1 THEN {Mark} ELSE {})]
        absorbed == [b \in 1 .. n \div Rate + 1 |-> block(b - 1)]
    IN  [i \in 1 .. olen |->
           <<absorbed \o [k \in 1 .. (i - 1) \div Rate |-> Nothing], (i - 1) % Rate>>]

Sha3Suffix == <<"0x06">>
ShakeSuffix == <<"0x1f">>

-----------------------------------------------------------------------------
(* psa_crypto_hash.c.                                                      *)

HashAlgs == {"SHA_256", "SHA3_256"}

mbedtls_psa_hash_setup(alg) ==
    IF alg = "SHA_256" THEN mbedtls_sha256_starts ELSE mbedtls_sha3_starts
mbedtls_psa_hash_update(alg, ctx, input) ==
    IF alg = "SHA_256" THEN mbedtls_sha256_update(ctx, input)
    ELSE mbedtls_sha3_update(ctx, input)
mbedtls_psa_hash_finish(alg, ctx) ==
    IF alg = "SHA_256" THEN mbedtls_sha256_finish(ctx)
    ELSE mbedtls_sha3_finish(ctx, Sha3Suffix, HashSize).out
mbedtls_psa_hash_compute(alg, input) ==
    mbedtls_psa_hash_finish(alg, mbedtls_psa_hash_update(alg, mbedtls_psa_hash_setup(alg), input))

HashReference(alg, cells) ==
    IF alg = "SHA_256" THEN Sha256Reference(cells)
    ELSE SpongeReference(cells, Sha3Suffix, HashSize)
=============================================================================

---------------------------- MODULE AeadEngines ----------------------------
(***************************************************************************)
(* The streaming code of the built-in AEAD algorithms: ccm.c, gcm.c and    *)
(* chachapoly.c (with chacha20.c and poly1305.c) of drivers/builtin/src.   *)
(* Each function takes the data of one call and leaves a context in which  *)
(* the next call goes on, wherever in a block that is.                     *)
(*                                                                         *)
(* Bytes are symbolic. A context records what was mixed into the block in  *)
(* hand, at which offset, the blocks that were fed to the authentication   *)
(* function, and the counter block and offset every byte of the body was   *)
(* masked with. Results are compared with the definition of the algorithm  *)
(* on the whole message. A byte of the body stands for the plaintext in    *)
(* CCM and for the ciphertext in the others, whichever of the two came in. *)
(* Tags have a length that the algorithm allows, and CCM* is left out.     *)
(***************************************************************************)
EXTENDS Integers, Sequences

CONSTANTS
    BlockSize,      \* 16: blocks of AES, GHASH and Poly1305
    KeystreamSize,  \* MBEDTLS_CHACHA20_BLOCK_SIZE_BYTES
    CounterRange,   \* 2^32: the counters of GCM and ChaCha20
    GcmAdLimit,     \* 2^61
    GcmBodyLimit,   \* 0xFFFFFFFE0
    CcmAdLimit,     \* 0xFF00
    LengthRange     \* 256^q: lengths CCM can encode, by length of the nonce

Algs == {"CCM", "GCM", "CHACHA20_POLY1305"}
CcmNonces == 7 .. 13

ASSUME AeadEnginesAssumption ==
    /\ BlockSize \in Nat /\ BlockSize > 2
    /\ KeystreamSize \in Nat \ {0}
    /\ CounterRange \in Nat /\ CounterRange > 1
    /\ GcmAdLimit \in Nat /\ CcmAdLimit \in Nat
    /\ GcmBodyLimit = (CounterRange - 2) * BlockSize
    /\ LengthRange \in [CcmNonces -> Nat \ {0, 1}]

Least(m, n) == IF m <= n THEN m ELSE n

\* The context after setting the key.
Keyed == [flags |-> {}, add_len |-> 0, total |-> 0, len |-> 0, processed |-> 0,
          range |-> CounterRange, first |-> 0, ctr |-> 0, used |-> 0,
          blocks |-> <<>>, part |-> <<>>, masks |-> <<>>]

Proceed(c) == [ctx |-> c, status |-> "OK"]
Stop(c, st) == [ctx |-> c, status |-> st]

\* mbedtls_xor() of cells into the block in hand.
Mix(c, offset, cells) ==
    [c EXCEPT !.part = @ \o [i \in 1 .. Len(cells) |-> <<offset + i - 1, cells[i]>>]]

\* The block in hand goes through the block cipher, GHASH or Poly1305.
Absorb(c) == [c EXCEPT !.blocks = Append(@, c.part), !.part = <<>>]

\* n bytes are masked with the block of the current counter.
Mask(c, offset, n) ==
    [c EXCEPT !.masks = @ \o [i \in 1 .. n |-> <<c.ctr, offset + i - 1>>]]

Increment(c) == [c EXCEPT !.ctr = (@ + 1) % c.range]

\* Drop the first n cells.
After(cells, n) == SubSeq(cells, n + 1, Len(cells))

\* The whole blocks of size n at the start of a sequence, and the rest.
Whole(cells, n) ==
    [j \in 1 .. Len(cells) \div n |-> SubSeq(cells, (j - 1) * n + 1, j * n)]
Rest(cells, n) == After(cells, (Len(cells) \div n) * n)

\* Whole blocks go into the authentication function, one after the other.
AbsorbBlocks(c, blocks) ==
    LET after[j \in 0 .. Len(blocks)] ==
          IF j = 0 THEN c ELSE Absorb(Mix(after[j - 1], 0, blocks[j]))
    IN  after[Len(blocks)]

\* Cells at an offset: the block in hand is completed if there is one, whole
\* blocks follow, and what is left stays in hand.
AbsorbCells(c, offset, cells) ==
    LET head == IF offset = 0 THEN 0 ELSE Least(BlockSize - offset, Len(cells))
        topped == Mix(c, offset, SubSeq(cells, 1, head))
        filled == IF offset + head = BlockSize THEN Absorb(topped) ELSE topped
        tail == After(cells, head)
    IN  Mix(AbsorbBlocks(filled, Whole(tail, BlockSize)), 0, Rest(tail, BlockSize))

\* A loop whose iterations start at an offset in a block and take what is left,
\* but no more than goes into the block.
CcmPieces(offset, cells) ==
    LET end(j) == Least(j * BlockSize - offset, Len(cells))
        start(j) == IF j = 1 THEN 0 ELSE end(j - 1)
        n == (offset + Len(cells) + BlockSize - 1) \div BlockSize
    IN  IF cells = <<>> THEN <<>>
        ELSE [j \in 1 .. n |-> SubSeq(cells, start(j) + 1, end(j))]

-----------------------------------------------------------------------------
(* CCM. The first block needs the nonce and the lengths, which come in     *)
(* either order.                                                           *)

ccm_calculate_first_block_if_ready(c) ==
    IF ~({"STARTED", "LENGTHS_SET"} \subseteq c.flags) THEN Proceed(c)
    ELSE IF c.total >= c.range
    THEN Stop([c EXCEPT !.flags = @ \cup {"ERROR"}], "INVALID_ARGUMENT")
    ELSE Proceed(Absorb(Mix(c, 0, <<<<"lengths", c.add_len, c.total>>>>)))

mbedtls_ccm_starts(c, nonce) ==
    IF nonce \notin CcmNonces THEN Stop(c, "INVALID_ARGUMENT")
    ELSE ccm_calculate_first_block_if_ready(
           [Mix(c, 1, <<<<"nonce", 0, 0>>>>) EXCEPT
              !.ctr = 1, !.first = 1, !.range = LengthRange[nonce],
              !.flags = @ \cup {"STARTED"}])

mbedtls_ccm_set_lengths(c, ad, body) ==
    IF ad >= CcmAdLimit THEN Stop(c, "INVALID_ARGUMENT")
    ELSE ccm_calculate_first_block_if_ready(
           [c EXCEPT !.add_len = ad, !.total = body, !.processed = 0,
                     !.flags = @ \cup {"LENGTHS_SET"}])

\* Two bytes for the length come before the additional data.
CcmAdLength(c) ==
    IF "AUTH_DATA_STARTED" \in c.flags THEN c
    ELSE [Mix(c, 0, <<<<"add_len", c.add_len, 1>>, <<"add_len", c.add_len, 2>>>>)
            EXCEPT !.flags = @ \cup {"AUTH_DATA_STARTED"}]

CcmAdPiece(c, piece) ==
    LET offset == (c.processed + 2) % BlockSize
        mixed == [Mix(c, offset, piece) EXCEPT !.processed = @ + Len(piece)]
    IN  IF Len(piece) + offset = BlockSize \/ mixed.processed = c.add_len
        THEN Absorb(mixed) ELSE mixed

mbedtls_ccm_update_ad(c, cells) ==
    LET pieces == CcmPieces((c.processed + 2) % BlockSize, cells)
        after[j \in 0 .. Len(pieces)] ==
          IF j = 0 THEN CcmAdLength(c) ELSE CcmAdPiece(after[j - 1], pieces[j])
        added == after[Len(pieces)]
    IN  IF "ERROR" \in c.flags THEN Stop(c, "INVALID_ARGUMENT")
        ELSE IF cells = <<>> THEN Proceed(c)
        ELSE IF \/ "AUTH_DATA_FINISHED" \in c.flags
                \/ c.processed + Len(cells) > c.add_len
        THEN Stop(c, "INVALID_ARGUMENT")
        ELSE IF added.processed = added.add_len
        THEN Proceed([added EXCEPT !.processed = 0,
                                   !.flags = @ \cup {"AUTH_DATA_FINISHED"}])
        ELSE Proceed(added)

CcmBlockEnds(c, end) == end = BlockSize \/ c.processed = c.total

CcmPiece(c, piece) ==
    LET offset == c.processed % BlockSize
        mixed == [Mask(Mix(c, offset, piece), offset, Len(piece)) EXCEPT
                    !.processed = @ + Len(piece)]
    IN  IF CcmBlockEnds(mixed, Len(piece) + offset)
        THEN Increment(Absorb(mixed)) ELSE mixed

mbedtls_ccm_update(c, cells) ==
    LET pieces == CcmPieces(c.processed % BlockSize, cells)
        after[j \in 0 .. Len(pieces)] ==
          IF j = 0 THEN c ELSE CcmPiece(after[j - 1], pieces[j])
    IN  IF "ERROR" \in c.flags \/ c.processed + Len(cells) > c.total
        THEN Stop(c, "INVALID_ARGUMENT")
        ELSE Proceed(after[Len(pieces)])

mbedtls_ccm_finish(c) ==
    IF "ERROR" \in c.flags THEN Stop(c, "CORRUPTION_DETECTED")
    ELSE IF \/ ~({"STARTED", "LENGTHS_SET"} \subseteq c.flags)
            \/ c.add_len > 0 /\ "AUTH_DATA_FINISHED" \notin c.flags
            \/ c.total > 0 /\ c.processed # c.total
    THEN Stop(c, "INVALID_ARGUMENT")
    ELSE Proceed(c)

-----------------------------------------------------------------------------
(* GCM. add_len and len tell how far the block in hand is filled.          *)

\* The counter after the nonce: 1 for 12 bytes, else part of a hash.
mbedtls_gcm_starts(c, nonce, hash) ==
    LET j0 == IF nonce = 12 THEN 1 ELSE hash IN
    IF nonce = 0 THEN Stop(c, "INVALID_ARGUMENT")
    ELSE Proceed([c EXCEPT !.ctr = j0, !.first = j0, !.len = 0, !.add_len = 0])

mbedtls_gcm_update_ad(c, cells) ==
    IF c.add_len + Len(cells) >= GcmAdLimit THEN Stop(c, "INVALID_ARGUMENT")
    ELSE Proceed([AbsorbCells(c, c.add_len % BlockSize, cells) EXCEPT
                    !.add_len = @ + Len(cells)])

\* The last block of the additional data is padded when the body starts.
GcmAdUnpadded(c) == c       \* mutant
GcmAdPadded(c) == IF c.len = 0 /\ c.add_len % BlockSize # 0 THEN Absorb(c) ELSE c

GcmFitsLoosely(c, n) == c.len + n <= GcmBodyLimit + 2 * BlockSize      \* mutant
GcmFits(c, n) == c.len + n <= GcmBodyLimit

gcm_mask(c, offset, cells) == Mix(Mask(c, offset, Len(cells)), offset, cells)

GcmBlocks(c, blocks) ==
    LET after[j \in 0 .. Len(blocks)] ==
          IF j = 0 THEN c ELSE Absorb(gcm_mask(Increment(after[j - 1]), 0, blocks[j]))
    IN  after[Len(blocks)]

mbedtls_gcm_update(c, cells) ==
    LET offset == c.len % BlockSize
        head == IF offset = 0 THEN 0 ELSE Least(BlockSize - offset, Len(cells))
        topped == gcm_mask(GcmAdPadded(c), offset, SubSeq(cells, 1, head))
        filled == IF offset + head = BlockSize THEN Absorb(topped) ELSE topped
        tail == After(cells, head)
        done == GcmBlocks(filled, Whole(tail, BlockSize))
        rest == Rest(tail, BlockSize)
        last == IF rest = <<>> THEN done ELSE gcm_mask(Increment(done), 0, rest)
    IN  IF cells = <<>> THEN Proceed(c)
        ELSE IF ~GcmFits(c, Len(cells)) THEN Stop(c, "INVALID_ARGUMENT")
        ELSE Proceed([last EXCEPT !.len = @ + Len(cells)])

\* The lengths of both parts, as they are authenticated at the end.
Lengths(ad, body) == [i \in 1 .. BlockSize |-> <<"lengths", ad, body>>]

mbedtls_gcm_finish(c) ==
    LET ended == IF c.len % BlockSize # 0 THEN Absorb(GcmAdPadded(c))
                 ELSE GcmAdPadded(c)
    IN  Proceed(IF c.len = 0 /\ c.add_len = 0 THEN ended
             ELSE Absorb(Mix(ended, 0, Lengths(c.add_len, c.len))))

-----------------------------------------------------------------------------
(* ChaCha20-Poly1305; the state of chachapoly.c is the one flag.           *)

\* mbedtls_poly1305_update(): part is the queue.
mbedtls_poly1305_update(c, cells) == AbsorbCells(c, Len(c.part), cells)

\* mbedtls_chacha20_update() of n bytes: used counts the bytes taken from the
\* current block of the keystream and ctr is the counter that block was made
\* with, one less than the counter the context holds.
mbedtls_chacha20_update(c, n) ==
    LET head == Least(KeystreamSize - c.used, n)
        left == n - head
        begun == [Mask(c, c.used, head) EXCEPT !.used = @ + head]
        after[i \in 0 .. left \div KeystreamSize] ==
          IF i = 0 THEN begun ELSE Mask(Increment(after[i - 1]), 0, KeystreamSize)
        done == after[left \div KeystreamSize]
        rest == left % KeystreamSize
    IN  IF rest = 0 THEN done
        ELSE [Mask(Increment(done), 0, rest) EXCEPT !.used = rest]

Zeroes(n) == [i \in 1 .. (BlockSize - (n % BlockSize)) % BlockSize |->
                 <<"zero", 0, 0>>]

\* chachapoly_pad_aad() and chachapoly_pad_ciphertext().
Pad(c, n) == mbedtls_poly1305_update(c, Zeroes(n))

\* The key of Poly1305 uses up the first block of the keystream.
mbedtls_chachapoly_starts(c) ==
    Proceed([c EXCEPT !.flags = {"AAD"}, !.first = 1, !.ctr = 0,
                   !.used = KeystreamSize, !.add_len = 0, !.len = 0])

mbedtls_chachapoly_update_aad(c, cells) ==
    IF c.flags # {"AAD"} THEN Stop(c, "BAD_STATE")
    ELSE Proceed([mbedtls_poly1305_update(c, cells) EXCEPT !.add_len = @ + Len(cells)])

mbedtls_chachapoly_update(c, cells) ==
    LET begun == IF c.flags = {"AAD"}
                 THEN [Pad(c, c.add_len) EXCEPT !.flags = {"CIPHERTEXT"}] ELSE c
    IN  IF c.flags \notin {{"AAD"}, {"CIPHERTEXT"}} THEN Stop(c, "BAD_STATE")
        ELSE Proceed([mbedtls_chacha20_update(mbedtls_poly1305_update(begun, cells),
                                           Len(cells))
                     EXCEPT !.len = @ + Len(cells)])

mbedtls_chachapoly_finish(c) ==
    LET padded == IF c.flags = {"AAD"} THEN Pad(c, c.add_len)
                  ELSE IF c.flags = {"CIPHERTEXT"} THEN Pad(c, c.len) ELSE c
        queued == mbedtls_poly1305_update(padded, Lengths(c.add_len, c.len))
        ended == IF queued.part # <<>> THEN Absorb(queued) ELSE queued
    IN  IF c.flags = {} THEN Stop(c, "BAD_STATE")
        ELSE Proceed([ended EXCEPT !.flags = {"FINISHED"}])

-----------------------------------------------------------------------------
(* What the algorithms compute of a whole message of ad and body bytes.    *)

AdCells(from, n) == [i \in 1 .. n |-> <<"ad", from + i, 0>>]
BodyCells(from, n) == [i \in 1 .. n |-> <<"body", from + i, 0>>]

\* Cells in blocks, the last of which may be short.
Chop(cells) ==
    [j \in 1 .. (Len(cells) + BlockSize - 1) \div BlockSize |->
       [i \in 1 .. Least(BlockSize, Len(cells) - (j - 1) * BlockSize) |->
          <<i - 1, cells[(j - 1) * BlockSize + i]>>]]

CcmFirstBlock(ad, body) == <<<<1, <<"nonce", 0, 0>>>>, <<0, <<"lengths", ad, body>>>>>>
CcmLengthCells(ad) == <<<<"add_len", ad, 1>>, <<"add_len", ad, 2>>>>

Authenticated(alg, ad, body) ==
    CASE alg = "CCM" ->
           <<CcmFirstBlock(ad, body)>>
             \o (IF ad = 0 THEN <<>> ELSE Chop(CcmLengthCells(ad) \o AdCells(0, ad)))
             \o Chop(BodyCells(0, body))
      [] alg = "GCM" ->
           Chop(AdCells(0, ad)) \o Chop(BodyCells(0, body))
             \o (IF ad + body = 0 THEN <<>> ELSE Chop(Lengths(ad, body)))
      [] alg = "CHACHA20_POLY1305" ->
           Chop(AdCells(0, ad) \o Zeroes(ad))
             \o Chop(BodyCells(0, body) \o Zeroes(body)) \o Chop(Lengths(ad, body))

\* The counter of the first block of the body, and the size of a block of the
\* keystream. GCM keeps the counter before it for the tag.
FirstCounter(alg, c) == IF alg = "GCM" THEN c.first + 1 ELSE c.first
MaskSize(alg) == IF alg = "CHACHA20_POLY1305" THEN KeystreamSize ELSE BlockSize

Masks(alg, c, body) ==
    [i \in 1 .. body |->
       <<(FirstCounter(alg, c) + (i - 1) \div MaskSize(alg)) % c.range,
         (i - 1) % MaskSize(alg)>>]

\* The counter that masks the tag, or makes the key of Poly1305.
TagCounter(alg, c) == IF alg = "GCM" THEN c.first ELSE 0
=============================================================================

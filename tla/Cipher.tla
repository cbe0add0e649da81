------------------------------- MODULE Cipher -------------------------------
(***************************************************************************)
(* Unauthenticated encryption: the calls psa_cipher_*() of                 *)
(* core/psa_crypto.c on one operation object, the built-in driver          *)
(* psa_crypto_cipher.c, the buffering and padding of cipher.c, and the     *)
(* modes of aes.c.                                                         *)
(*                                                                         *)
(* Byte i of the message is the number i. A byte of output names the       *)
(* block or byte of input it is made of, what that is chained to or masked *)
(* with, and its place in the block. cgot and cgiven are what the caller   *)
(* received and gave since the operation was set up.                       *)
(***************************************************************************)
EXTENDS Status

CONSTANTS
    CipherBlock,    \* the size of a block
    MaxMessage      \* bound: bytes of a message

ASSUME CipherAssumption ==
    /\ CipherBlock \in Nat \ {0, 1}
    /\ MaxMessage \in Nat

VARIABLES
    cop,    \* psa_cipher_operation_t, with the algorithm of the driver
    cctx,   \* mbedtls_cipher_context_t
    cgiven, \* how many bytes were given
    cgot,   \* the bytes of output so far
    cdone   \* the message that the last call completed
cipherVars == <<cop, cctx, cgiven, cgot, cdone>>

BlockAlgs == {"ECB_NO_PADDING", "CBC_NO_PADDING", "CBC_PKCS7"}
StreamAlgs == {"CTR", "CFB", "OFB"}
CipherAlgs == BlockAlgs \cup StreamAlgs

NoCipher == [id |-> FALSE, alg |-> "NONE", encrypt |-> FALSE,
             iv_required |-> FALSE, iv_set |-> FALSE]
\* unprocessed_data, unprocessed_len and iv. In the modes that make a stream the
\* length is the place in the current block of it, and data names that block.
NoBuffer == [data |-> <<>>, len |-> 0, iv |-> <<>>]
NoMessage == [alg |-> "NONE"]

CipherInit ==
    /\ cop = NoCipher
    /\ cctx = NoBuffer
    /\ cgiven = 0
    /\ cgot = <<>>
    /\ cdone = NoMessage

-----------------------------------------------------------------------------
(* aes.c and cipher.c.                                                     *)

\* n bytes of the message after the first m, and block b of some bytes.
Cells(m, n) == [i \in 1 .. n |-> m + i]
Block(cells, b) == SubSeq(cells, (b - 1) * CipherBlock + 1, b * CipherBlock)

Output(made, chain, place) == [made |-> made, chain |-> chain, place |-> place]
Result(c, out) == [status |-> "OK", ctx |-> c, out |-> out]
Fail(c, status) == [status |-> status, ctx |-> c, out |-> <<>>]

\* Whole blocks, each chained to the one before, the first one to iv.
CbcChain(cells, iv, b) == IF b = 1 THEN iv ELSE Block(cells, b - 1)
mbedtls_aes_crypt_cbc(iv, cells) ==
    [i \in 1 .. Len(cells) |->
        LET b == (i - 1) \div CipherBlock + 1
        IN  Output(Block(cells, b), CbcChain(cells, iv, b), (i - 1) % CipherBlock)]
CbcLast(iv, cells) ==
    IF cells = <<>> THEN iv ELSE Block(cells, Len(cells) \div CipherBlock)

Withholds(alg, encrypt) == alg = "CBC_PKCS7" /\ ~encrypt

\* mutant: a whole block is not kept for the padding
CachesPartial(c, n, withhold) == n < CipherBlock - c.len
Caches(c, n, withhold) ==
    IF withhold THEN n <= CipherBlock - c.len ELSE n < CipherBlock - c.len

Keeps(n, withhold) ==
    IF withhold /\ n # 0 /\ n % CipherBlock = 0 THEN CipherBlock ELSE n % CipherBlock

\* The block in the buffer, filled from the input.
FilledBlock(c, cells) ==
    IF c.len = 0 THEN <<>> ELSE c.data \o SubSeq(cells, 1, CipherBlock - c.len)

\* CBC of some bytes: the cached ones come first, the last ones are cached.
CbcUpdate(c, cells, withhold) ==
    IF Caches(c, Len(cells), withhold)
    THEN Result([c EXCEPT !.data = @ \o cells, !.len = @ + Len(cells)], <<>>)
    ELSE LET room == IF c.len = 0 THEN 0 ELSE CipherBlock - c.len
             head == FilledBlock(c, cells)
             rest == Len(cells) - room
             kept == Keeps(rest, withhold)
             whole == head \o SubSeq(cells, room + 1, Len(cells) - kept)
         IN  Result([data |-> SubSeq(cells, Len(cells) - kept + 1, Len(cells)),
                     len |-> kept, iv |-> CbcLast(c.iv, whole)],
                    mbedtls_aes_crypt_cbc(c.iv, whole))

\* One byte of a stream. CTR and OFB number the blocks of the stream in iv; CFB
\* makes the next one of the ciphertext that it puts in iv byte after byte.
CtrByte(r, cell) ==
    LET c == IF r.ctx.len # 0 THEN r.ctx
             ELSE [r.ctx EXCEPT !.data = r.ctx.iv, !.iv = <<r.ctx.iv[1] + 1>>]
    IN  Result([c EXCEPT !.len = (@ + 1) % CipherBlock],
               Append(r.out, Output(<<cell>>, c.data, c.len)))

OfbByte(r, cell) ==
    LET c == IF r.ctx.len # 0 THEN r.ctx ELSE [r.ctx EXCEPT !.iv = <<@[1] + 1>>]
    IN  Result([c EXCEPT !.len = (@ + 1) % CipherBlock],
               Append(r.out, Output(<<cell>>, c.iv, c.len)))

\* data is the block that was last encrypted to get the mask.
CfbByte(r, cell) ==
    LET c == IF r.ctx.len # 0 THEN r.ctx ELSE [r.ctx EXCEPT !.data = r.ctx.iv, !.iv = <<>>]
    IN  Result([c EXCEPT !.iv = Append(@, cell), !.len = (@ + 1) % CipherBlock],
               Append(r.out, Output(<<cell>>, c.data, c.len)))

StreamByte(alg, r, cell) ==
    CASE alg = "CTR" -> CtrByte(r, cell)
      [] alg = "OFB" -> OfbByte(r, cell)
      [] OTHER -> CfbByte(r, cell)

\* psa_cipher_update_ecb(): mbedtls_cipher_update() takes one block at a time.
psa_cipher_update_ecb(c, cells) ==
    LET all == c.data \o cells
        kept == Len(all) % CipherBlock
        whole == SubSeq(all, 1, Len(all) - kept)
    IN  Result([c EXCEPT !.data = SubSeq(all, Len(all) - kept + 1, Len(all)), !.len = kept],
               [i \in 1 .. Len(whole) |->
                   Output(Block(whole, (i - 1) \div CipherBlock + 1), <<>>,
                          (i - 1) % CipherBlock)])

mbedtls_cipher_update(alg, encrypt, c, cells) ==
    IF alg \in BlockAlgs THEN CbcUpdate(c, cells, Withholds(alg, encrypt))
    ELSE FoldLeft(LAMBDA r, cell : StreamByte(alg, r, cell), Result(c, <<>>), cells)

\* Bytes of padding have the number of them as their value; they are apart from
\* the bytes of the message.
Pad(n) == MaxMessage + n
add_pkcs_padding(data) ==
    LET n == CipherBlock - Len(data) IN data \o [i \in 1 .. n |-> Pad(n)]

\* The bytes of plaintext in a last block: its last byte says how many bytes of
\* padding there are, and all of them must say the same.
mbedtls_get_pkcs_padding(plain) ==
    LET n == plain[CipherBlock]
        bad == \/ n > CipherBlock
               \/ n = 0
               \/ \E i \in 0 .. CipherBlock - 1 : i >= CipherBlock - n /\ plain[i + 1] # n
    IN  [status |-> IF bad THEN "INVALID_PADDING" ELSE "OK",
         length |-> IF bad THEN 0 ELSE CipherBlock - n]

\* plain is what the last block decrypts to.
mbedtls_cipher_finish_padded(alg, encrypt, c, plain) ==
    LET last == mbedtls_aes_crypt_cbc(c.iv, c.data)
        unpadded == mbedtls_get_pkcs_padding(plain)
    IN  CASE alg # "CBC_PKCS7" -> Result(c, <<>>)
          [] alg = "CBC_PKCS7" /\ encrypt ->
               Result(c, mbedtls_aes_crypt_cbc(c.iv, add_pkcs_padding(c.data)))
          [] alg = "CBC_PKCS7" /\ ~encrypt /\ c.len # CipherBlock ->
               Fail(c, "INVALID_ARGUMENT")
          [] OTHER -> [status |-> unpadded.status, ctx |-> c,
                       out |-> SubSeq(last, 1, unpadded.length)]

-----------------------------------------------------------------------------
(* psa_crypto_cipher.c.                                                    *)

ExpectedOutput(alg, c, n) ==
    IF alg \in BlockAlgs THEN ((c.len + n) \div CipherBlock) * CipherBlock ELSE n

mbedtls_psa_cipher_update(o, c, cells, output_size) ==
    IF output_size < ExpectedOutput(o.alg, c, Len(cells)) THEN Fail(c, "BUFFER_TOO_SMALL")
    ELSE IF o.alg = "ECB_NO_PADDING" THEN psa_cipher_update_ecb(c, cells)
    ELSE IF cells = <<>> THEN Result(c, <<>>)
    ELSE mbedtls_cipher_update(o.alg, o.encrypt, c, cells)

mbedtls_psa_cipher_finish(o, c, plain, output_size) ==
    LET r == mbedtls_cipher_finish_padded(o.alg, o.encrypt, c, plain) IN
    IF c.len # 0 /\ o.alg \in {"ECB_NO_PADDING", "CBC_NO_PADDING"}
    THEN Fail(c, "INVALID_ARGUMENT")
    ELSE IF output_size < Len(r.out) THEN Fail(c, "BUFFER_TOO_SMALL") ELSE r

StartIv(alg) == IF alg \in {"CTR", "OFB"} THEN <<0>> ELSE <<>>
IvRequired(alg) == alg # "ECB_NO_PADDING"

-----------------------------------------------------------------------------
(* psa_crypto.c.                                                           *)

\* An operation that is not in use is left as it is. The algorithm of the driver,
\* which nobody reads from then on, is dropped.
psa_cipher_abort(o) == IF o.id THEN NoCipher ELSE o

CipherEnds(o, done) ==
    /\ cop' = psa_cipher_abort(o)
    /\ cctx' = NoBuffer
    /\ cgiven' = 0
    /\ cgot' = <<>>
    /\ cdone' = done

\* A call in the middle: a status of checks and of the driver, and what follows
\* when both are good. Otherwise the operation is aborted.
CipherCall(status, o, c, given, got) ==
    IF status # "OK" THEN CipherEnds(cop, NoMessage)
    ELSE cop' = o /\ cctx' = c /\ cgiven' = given /\ cgot' = got /\ cdone' = NoMessage

\* The members of the operation are set before the driver is, which may still
\* fail, and only then is the operation in use.
psa_cipher_setup(alg, encrypt) ==
    \E key \in {"OK", "INVALID_ARGUMENT", "NOT_PERMITTED"}, driver \in {"OK", "NOT_SUPPORTED"} :
      LET status == First(Check(~cop.id, "BAD_STATE"), key)
          set == [cop EXCEPT !.iv_set = FALSE, !.iv_required = IvRequired(alg)]
      IN  IF First(status, driver) = "OK"
          THEN CipherCall("OK", [set EXCEPT !.id = TRUE, !.alg = alg, !.encrypt = encrypt],
                          NoBuffer, 0, <<>>)
          ELSE CipherEnds(IF status = "OK" THEN set ELSE cop, NoMessage)

IvChecks == First(Check(cop.id, "BAD_STATE"),
                  Check(~cop.iv_set /\ cop.iv_required, "BAD_STATE"))
IvSet(status) ==
    CipherCall(status, [cop EXCEPT !.iv_set = TRUE],
               [cctx EXCEPT !.iv = StartIv(cop.alg)], cgiven, cgot)

psa_cipher_generate_iv ==
    \E size \in {"OK", "BUFFER_TOO_SMALL"}, memory \in Memory,
       random \in {"OK", "INSUFFICIENT_ENTROPY"} :
      IvSet(First4(IvChecks, size, memory, random))

psa_cipher_set_iv ==
    \E length \in {"OK", "INVALID_ARGUMENT"}, memory \in Memory :
      IvSet(First3(IvChecks, length, memory))

DataChecks == First(Check(cop.id, "BAD_STATE"),
                    Check(cop.iv_required => cop.iv_set, "BAD_STATE"))

psa_cipher_update(n, output_size) ==
    \E memory \in Memory :
      LET r == mbedtls_psa_cipher_update(cop, cctx, Cells(cgiven, n), output_size)
      IN  CipherCall(First3(DataChecks, memory, r.status), cop, r.ctx,
                     cgiven + n, cgot \o r.out)

Message(alg, encrypt, given, plain, got) ==
    [alg |-> alg, encrypt |-> encrypt, given |-> given, plain |-> plain, got |-> got]

\* The operation ends whatever happens.
psa_cipher_finish(plain, output_size) ==
    \E memory \in Memory :
      LET r == mbedtls_psa_cipher_finish(cop, cctx, plain, output_size)
          status == First3(DataChecks, memory, r.status)
      IN  CipherEnds(cop, IF status # "OK" THEN NoMessage
                          ELSE Message(cop.alg, cop.encrypt, cgiven, plain, cgot \o r.out))

CipherAbort == CipherEnds(cop, NoMessage)

\* mbedtls_psa_cipher_encrypt() and mbedtls_psa_cipher_decrypt(): all in one,
\* with an operation of their own. room: what is left of the output buffer.
BothParts(r, last) == [status |-> First(r.status, last.status), out |-> r.out \o last.out]
CipherFinished(o, r, plain) ==
    BothParts(r, mbedtls_psa_cipher_finish(o, r.ctx, plain, CipherBlock))
CipherAtOnce(alg, encrypt, n, plain) ==
    LET o == [NoCipher EXCEPT !.alg = alg, !.encrypt = encrypt]
    IN  CipherFinished(o, mbedtls_psa_cipher_update(o, [NoBuffer EXCEPT !.iv = StartIv(alg)],
                                                    Cells(0, n), n), plain)

\* psa_cipher_encrypt() and psa_cipher_decrypt(), made while the operation is
\* not in use.
CipherOneShot(alg, encrypt, n, plain) ==
    \E key \in {"OK", "NOT_PERMITTED"}, random \in {"OK", "INSUFFICIENT_ENTROPY"},
       memory \in Memory :
      LET r == CipherAtOnce(alg, encrypt, n, plain)
          status == First4(key, IF encrypt /\ IvRequired(alg) THEN random ELSE "OK",
                            memory, r.status)
      IN  /\ ~cop.id /\ cdone = NoMessage
          /\ cdone' = IF status # "OK" THEN NoMessage
                      ELSE Message(alg, encrypt, n, plain, r.out)
          /\ UNCHANGED <<cop, cctx, cgiven, cgot>>

\* What a last block of ciphertext may decrypt to.
Plains(alg, encrypt) ==
    IF Withholds(alg, encrypt) THEN [1 .. CipherBlock -> 0 .. CipherBlock + 1]
    ELSE {[i \in 1 .. CipherBlock |-> 0]}

CipherNext ==
    \/ \E alg \in CipherAlgs, encrypt \in BOOLEAN : psa_cipher_setup(alg, encrypt)
    \/ psa_cipher_generate_iv
    \/ psa_cipher_set_iv
    \/ \E n \in 0 .. MaxMessage - cgiven : \E output_size \in {0, n, n + CipherBlock} :
         psa_cipher_update(n, output_size)
    \/ \E plain \in Plains(cop.alg, cop.encrypt), output_size \in {0, CipherBlock} :
         psa_cipher_finish(plain, output_size)
    \/ CipherAbort
    \/ \E alg \in CipherAlgs, encrypt \in BOOLEAN, n \in 0 .. MaxMessage :
         \E plain \in Plains(alg, encrypt) : CipherOneShot(alg, encrypt, n, plain)

-----------------------------------------------------------------------------
(* What the output should be.                                              *)

\* Byte i of the output for a message of some bytes, padding included.
CipherByte(alg, cells, i) ==
    LET b == (i - 1) \div CipherBlock + 1
        place == (i - 1) % CipherBlock
        before == IF b = 1 THEN <<>> ELSE Block(cells, b - 1)
    IN  CASE alg = "ECB_NO_PADDING" -> Output(Block(cells, b), <<>>, place)
          [] alg \in {"CBC_NO_PADDING", "CBC_PKCS7"} -> Output(Block(cells, b), before, place)
          [] alg = "CTR" -> Output(<<cells[i]>>, <<b - 1>>, place)
          [] alg = "OFB" -> Output(<<cells[i]>>, <<b>>, place)
          [] OTHER -> Output(<<cells[i]>>, before, place)

\* PKCS#7: the last k bytes are k, for some k from 1 to a block.
PaddingLengths(plain) ==
    {k \in 1 .. CipherBlock : \A i \in CipherBlock - k + 1 .. CipherBlock : plain[i] = k}

CipherValid(alg, encrypt, n, plain) ==
    /\ alg \in BlockAlgs /\ (alg = "CBC_PKCS7" => ~encrypt) => n % CipherBlock = 0
    /\ alg = "CBC_PKCS7" /\ ~encrypt => n # 0 /\ PaddingLengths(plain) # {}

CipherReference(alg, encrypt, n, plain) ==
    LET k == CipherBlock - (n % CipherBlock)
        cells == IF alg = "CBC_PKCS7" /\ encrypt
                 THEN Cells(0, n) \o [i \in 1 .. k |-> Pad(k)] ELSE Cells(0, n)
        length == IF alg = "CBC_PKCS7" /\ ~encrypt
                  THEN n - (CHOOSE m \in PaddingLengths(plain) : TRUE) ELSE Len(cells)
    IN  [i \in 1 .. length |-> CipherByte(alg, cells, i)]

-----------------------------------------------------------------------------
(* Properties.                                                             *)

\* An operation that is not in use holds nothing (but what a failed setup noted
\* about the IV), and one in use buffers less than a block, or a whole block when
\* it may be the padding.
CipherTypeOK ==
    /\ cop \in [id : BOOLEAN, alg : CipherAlgs \cup {"NONE"}, encrypt : BOOLEAN,
                iv_required : BOOLEAN, iv_set : BOOLEAN]
    /\ ~cop.id => ~cop.iv_set /\ cop.alg = "NONE" /\ cctx = NoBuffer
    /\ cctx.len < CipherBlock \/ (cctx.len = CipherBlock /\ cop.alg = "CBC_PKCS7")

\* However the message is cut into chunks, the output so far is the beginning of
\* the output for the whole message, and what is missing is in the buffer: no
\* byte is lost, repeated, chained or masked wrongly (cipher.c, aes.c).
CipherStreamExact ==
    cop.id =>
      /\ \A i \in DOMAIN cgot : cgot[i] = CipherByte(cop.alg, Cells(0, cgiven), i)
      /\ Len(cgot) = cgiven - (IF cop.alg \in StreamAlgs THEN 0 ELSE cctx.len)

\* A message that a call completes, in one part or in several, is the message
\* the standard defines, without its padding.
CipherDoneExact ==
    cdone # NoMessage =>
      /\ CipherValid(cdone.alg, cdone.encrypt, cdone.given, cdone.plain)
      /\ cdone.got = CipherReference(cdone.alg, cdone.encrypt, cdone.given, cdone.plain)

\* psa_cipher_finish() accepts exactly the messages that have a right length and
\* padding, whatever was buffered on the way: a padded message that came in whole
\* blocks still has its last block when it ends.
CipherCompletes ==
    DataChecks = "OK" =>
      \A plain \in Plains(cop.alg, cop.encrypt) :
        (mbedtls_psa_cipher_finish(cop, cctx, plain, CipherBlock).status = "OK")
          <=> CipherValid(cop.alg, cop.encrypt, cgiven, plain)

\* No update writes more than the size it compares the buffer with.
CipherNoOverflow ==
    \A n \in 0 .. MaxMessage :
      DataChecks = "OK" =>
        Len(mbedtls_psa_cipher_update(cop, cctx, Cells(cgiven, n), n + CipherBlock).out)
          <= ExpectedOutput(cop.alg, cctx, n)

\* crypto_sizes.h on PSA_CIPHER_UPDATE_OUTPUT_SIZE(): "If the size of the output
\* buffer is at least this large, it is guaranteed that psa_cipher_update() will
\* not fail due to an insufficient buffer size."
RoundUp(n) == ((n + CipherBlock - 1) \div CipherBlock) * CipherBlock
PSA_CIPHER_UPDATE_OUTPUT_SIZE(alg, n) == IF alg \in BlockAlgs THEN RoundUp(n) ELSE n
CipherSizePromise ==
    DataChecks = "OK" => \A n \in 0 .. MaxMessage :
      mbedtls_psa_cipher_update(cop, cctx, Cells(cgiven, n),
                                PSA_CIPHER_UPDATE_OUTPUT_SIZE(cop.alg, n)).status
        # "BUFFER_TOO_SMALL"
\* However a message is cut, psa_cipher_update() and psa_cipher_finish() give
\* the message of the mode of operation, at once or in parts, without writing
\* past the output buffer and without withholding a byte that could be given.
CipherCorrect ==
    /\ CipherTypeOK
    /\ CipherStreamExact
    /\ CipherDoneExact
    /\ CipherCompletes
    /\ CipherNoOverflow
=============================================================================

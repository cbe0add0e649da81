-------------------------------- MODULE Rsa --------------------------------
(***************************************************************************)
(* The padding of rsa.c and the layer of psa_crypto_rsa.c above it.  The   *)
(* RSA permutation itself is symbolic here: a number that comes out of it  *)
(* is named by the block that went in.  RsaNumbers has the permutation.    *)
(***************************************************************************)
EXTENDS Status, Integers

CONSTANTS MdSize,         \* the size of the digest of every built-in hash algorithm
          MdOid,          \* and its object identifier, a byte string
          MaxKeyBits      \* PSA_VENDOR_RSA_MAX_KEY_BITS

Failed(err) == [err |-> err]
Zeros(n) == [i \in 1 .. n |-> 0]
Tail0(s, n) == SubSeq(s, n + 1, Len(s))      \* s + n
Head0(s, n) == SubSeq(s, 1, n)
WithByte(s, i, b) == [j \in DOMAIN s |-> IF j = i THEN b ELSE s[j]]

NibbleXor == [a \in 0 .. 15, b \in 0 .. 15 |->
    LET bit(v, i) == (v \div 2 ^ i) % 2
        x(i) == IF bit(a, i) # bit(b, i) THEN 2 ^ i ELSE 0
    IN  x(0) + x(1) + x(2) + x(3)]
XorByte(a, b) == 16 * NibbleXor[a \div 16, b \div 16] + NibbleXor[a % 16, b % 16]

mbedtls_md_get_size_from_type(md) == IF md \in DOMAIN MdSize THEN MdSize[md] ELSE 0

\* A digest stands for any function that spreads its input well.
Digest(md, s) ==
    LET h[n \in 0 .. Len(s)] == IF n = 0 THEN MdSize[md] ELSE (h[n - 1] * 131 + s[n] + 7) % 7919
    IN  [i \in 1 .. MdSize[md] |-> ((h[Len(s)] * (2 * i + 1)) \div 5 + h[Len(s)] \div i) % 256]

\* A context after mbedtls_rsa_init() and the import of a key with a modulus of so many bits.
Context(bits) == [bits |-> bits, len |-> (bits + 7) \div 8, padding |-> "PKCS_V15", hash_id |-> "none"]
mbedtls_rsa_set_padding(k, padding, hash_id) ==
    IF /\ padding \in {"PKCS_V15", "PKCS_V21"}
       /\ (padding = "PKCS_V21" /\ hash_id # "none" => hash_id \in DOMAIN MdSize)
    THEN [err |-> "OK", key |-> [k EXCEPT !.padding = padding, !.hash_id = hash_id]]
    ELSE Failed("INVALID_PADDING")

-----------------------------------------------------------------------------
(* The permutation: what the public and the private operation make of a    *)
(* block, for a modulus whose bits are all set.                            *)

Plain(em) == [by |-> "none", em |-> em]
Below(k, em) == /\ em[1] < 2 ^ (8 - (8 * k.len - k.bits))
                /\ \E i \in 2 .. Len(em) : em[i] # 255
RsaPublic(k, x) ==
    CASE x.by = "private" -> [err |-> "OK", x |-> Plain(x.em)]
      [] x.by = "none" /\ Below(k, x.em) -> [err |-> "OK", x |-> [by |-> "public", em |-> x.em]]
      [] OTHER -> Failed("BAD_INPUT_DATA")
\* fault: an error, or a result that the check of mbedtls_rsa_private() does not see,
\* because the fault comes after it.
RsaPrivate(k, x, fault) ==
    CASE fault \notin {"OK", "late"} -> Failed(fault)
      [] fault \in {"OK", "late"} /\ x.by = "public" -> [err |-> "OK", x |-> Plain(x.em)]
      [] fault = "OK" /\ x.by = "none" /\ Below(k, x.em) -> [err |-> "OK", x |-> [by |-> "private", em |-> x.em]]
      [] fault = "late" /\ x.by = "none" /\ Below(k, x.em) ->
            [err |-> "OK", x |-> [by |-> "private", em |-> WithByte(x.em, 3, (x.em[3] + 1) % 256)]]
      [] OTHER -> Failed("BAD_INPUT_DATA")

-----------------------------------------------------------------------------
(* PKCS#1 v1.5 encryption.                                                 *)

Old == -1               \* what was in a byte of the output before
Untouched(n) == [i \in 1 .. n |-> Old]

PadCount(input) ==
    CHOOSE n \in 0 .. Len(input) - 2 :
        /\ \A i \in 3 .. n + 2 : input[i] # 0
        /\ n + 2 < Len(input) => input[n + 3] = 0
BadPadding(input) ==
    \/ input[1] # 0
    \/ input[2] # 2
    \/ PadCount(input) + 2 = Len(input)
    \/ PadCount(input) < 8
\* The bytes that reach the output, at its start, with zeros behind them.
Unpadded(input, max, size, wiped, output_max_len) ==
    LET window == Tail0(input, Len(input) - size)
    IN  (IF wiped THEN Zeros(max) ELSE window \o Zeros(max - size)) \o Untouched(output_max_len - max)
Unpad(input, max, plaintext_size, bad, output_max_len) ==
    LET output_too_large == plaintext_size > max
        size == IF output_too_large THEN max ELSE plaintext_size
    IN  [err |-> IF bad THEN "INVALID_PADDING" ELSE IF output_too_large THEN "OUTPUT_TOO_LARGE" ELSE "OK",
         olen |-> size,
         out |-> Unpadded(input, max, size, bad \/ output_too_large, output_max_len)]
mbedtls_ct_rsaes_pkcs1_v15_unpadding(input, output_max_len) ==
    LET max == IF output_max_len > Len(input) - 11 THEN Len(input) - 11 ELSE output_max_len
    IN  Unpad(input, max, IF BadPadding(input) THEN max ELSE Len(input) - PadCount(input) - 3,
              BadPadding(input), output_max_len)

\* draws is what the generator gives for every byte of padding: how many zeros, then a byte
\* or Broken.
Broken == -1
DrawError(d) == IF d.zeros >= 100 THEN "RNG_FAILED" ELSE Check(d.byte # Broken, "INSUFFICIENT_ENTROPY")
PaddingDrawn(draws, n) ==
    LET bad == {i \in 1 .. n : DrawError(draws[i]) # "OK"} IN
    IF bad = {} THEN "OK" ELSE DrawError(draws[CHOOSE i \in bad : \A j \in bad : i <= j])
mbedtls_rsa_rsaes_pkcs1_v15_encrypt(k, draws, input) ==
    LET nb_pad == k.len - 3 - Len(input) IN
    CASE k.len < Len(input) + 11 -> Failed("BAD_INPUT_DATA")
      [] k.len >= Len(input) + 11 /\ PaddingDrawn(draws, nb_pad) # "OK" ->
            Failed(PaddingDrawn(draws, nb_pad))
      [] OTHER -> RsaPublic(k, Plain(<<0, 2>> \o [i \in 1 .. nb_pad |-> draws[i].byte] \o <<0>> \o input))
V15Opened(r, output_max_len) ==
    IF r.err # "OK" THEN r ELSE mbedtls_ct_rsaes_pkcs1_v15_unpadding(r.x.em, output_max_len)
mbedtls_rsa_rsaes_pkcs1_v15_decrypt(k, x, output_max_len, fault) ==
    IF k.padding # "PKCS_V15" \/ k.len < 16 THEN Failed("BAD_INPUT_DATA")
    ELSE V15Opened(RsaPrivate(k, x, fault), output_max_len)

-----------------------------------------------------------------------------
(* OAEP.                                                                   *)

Mgf1(src, n, md) ==
    LET hlen == MdSize[md]
        blocks == [c \in 0 .. n \div hlen |-> Digest(md, src \o <<0, 0, 0, c % 256>>)]
    IN  [i \in 1 .. n |-> blocks[(i - 1) \div hlen][((i - 1) % hlen) + 1]]
Masked(dst, mask) == [i \in DOMAIN dst |-> XorByte(dst[i], mask[i])]
mgf_mask(dst, src, md) == Masked(dst, Mgf1(src, Len(dst), md))

OaepMasked(k, seed, DB, md) ==
    LET maskedDB == mgf_mask(DB, seed, md)
    IN  <<0>> \o mgf_mask(seed, maskedDB, md) \o maskedDB
OaepDB(k, label, input, md) ==
    Digest(md, label) \o Zeros(k.len - 2 * MdSize[md] - 2 - Len(input)) \o <<1>> \o input
mbedtls_rsa_rsaes_oaep_encrypt(k, seed, label, input) ==
    LET hlen == mbedtls_md_get_size_from_type(k.hash_id) IN
    CASE hlen = 0 \/ k.len < Len(input) + 2 * hlen + 2 -> Failed("BAD_INPUT_DATA")
      [] hlen # 0 /\ k.len >= Len(input) + 2 * hlen + 2 /\ seed = <<>> -> Failed("INSUFFICIENT_ENTROPY")
      [] OTHER -> RsaPublic(k, Plain(OaepMasked(k, Head0(seed, hlen), OaepDB(k, label, input, k.hash_id), k.hash_id)))

\* The zeros before the 01, of which the last byte of the block is never one.
PadLen(DB, hlen) ==
    CHOOSE n \in 0 .. Len(DB) - hlen - 1 :
        /\ \A i \in 1 .. n : DB[hlen + i] = 0
        /\ n < Len(DB) - hlen - 1 => DB[hlen + n + 1] # 0
OaepResult(first, DB, lhash, hlen, output_max_len) ==
    LET p == hlen + PadLen(DB, hlen) + 1 IN
    CASE first # 0 \/ Head0(DB, hlen) # lhash \/ DB[p] # 1 -> Failed("INVALID_PADDING")
      [] first = 0 /\ Head0(DB, hlen) = lhash /\ DB[p] = 1 /\ Len(DB) - p > output_max_len ->
            Failed("OUTPUT_TOO_LARGE")
      [] OTHER -> [err |-> "OK", olen |-> Len(DB) - p, out |-> Tail0(DB, p)]
OaepUnmasked(buf, md, hlen, label, output_max_len) ==
    LET maskedDB == Tail0(buf, hlen + 1)
        seed == mgf_mask(SubSeq(buf, 2, hlen + 1), maskedDB, md)
    IN  OaepResult(buf[1], mgf_mask(maskedDB, seed, md), Digest(md, label), hlen, output_max_len)
OaepOpened(k, r, label, output_max_len) ==
    IF r.err # "OK" THEN r
    ELSE OaepUnmasked(r.x.em, k.hash_id, MdSize[k.hash_id], label, output_max_len)
mbedtls_rsa_rsaes_oaep_decrypt(k, label, x, output_max_len, fault) ==
    LET hlen == mbedtls_md_get_size_from_type(k.hash_id) IN
    IF k.padding # "PKCS_V21" \/ k.len < 16 \/ hlen = 0 \/ 2 * hlen + 2 > k.len
    THEN Failed("BAD_INPUT_DATA")
    ELSE OaepOpened(k, RsaPrivate(k, x, fault), label, output_max_len)

mbedtls_rsa_pkcs1_encrypt(k, draws, seed, input) ==
    IF k.padding = "PKCS_V15" THEN mbedtls_rsa_rsaes_pkcs1_v15_encrypt(k, draws, input)
    ELSE mbedtls_rsa_rsaes_oaep_encrypt(k, seed, <<>>, input)
mbedtls_rsa_pkcs1_decrypt(k, x, output_max_len, fault) ==
    IF k.padding = "PKCS_V15" THEN mbedtls_rsa_rsaes_pkcs1_v15_decrypt(k, x, output_max_len, fault)
    ELSE mbedtls_rsa_rsaes_oaep_decrypt(k, <<>>, x, output_max_len, fault)

-----------------------------------------------------------------------------
(* Signatures with PSS.                                                    *)

\* The hash must be of the size of its algorithm, when one is named.
WrongHash(md_alg, hash) ==
    md_alg # "none" /\ (mbedtls_md_get_size_from_type(md_alg) = 0 \/ MdSize[md_alg] # Len(hash))
PssHash(k, md_alg) == IF k.hash_id = "none" THEN md_alg ELSE k.hash_id

NoSalt == -2
AnySalt == -1           \* MBEDTLS_RSA_SALT_LEN_ANY
SaltLen(olen, hlen, saltlen) ==
    CASE saltlen = AnySalt /\ olen < hlen + (hlen - 2) + 2 -> NoSalt
      [] saltlen = AnySalt /\ olen >= hlen + hlen + 2 -> hlen
      [] saltlen = AnySalt /\ olen >= hlen + (hlen - 2) + 2 /\ olen < hlen + hlen + 2 -> olen - hlen - 2
      [] saltlen # AnySalt /\ (saltlen < 0 \/ saltlen + hlen + 2 > olen) -> NoSalt
      [] OTHER -> saltlen

msb(k) == k.bits - 1
\* When the encoded message has one byte less than the modulus.
offset(k) == IF msb(k) % 8 = 0 THEN 1 ELSE 0
TopBits(k) == 2 ^ (8 - (8 * k.len - msb(k)))
hash_mprime(md, hash, salt) == Digest(md, Zeros(8) \o hash \o salt)

PssDB(k, hlen, salt) == Zeros(k.len - hlen - Len(salt) - 2) \o <<1>> \o salt
PssCut(k, em) == WithByte(em, 1, em[1] % TopBits(k))
PssEncoded(k, md, hash, salt) ==
    LET H == hash_mprime(md, hash, salt)
        DB == PssDB(k, MdSize[md], salt)
        masked == Head0(DB, offset(k)) \o mgf_mask(Tail0(DB, offset(k)), H, md)
    IN  PssCut(k, masked \o H \o <<188>>)

\* salt is what the generator gives: as many bytes as are asked for, or none when it fails.
PssSigned(k, md, hash, slen, salt, fault) ==
    CASE slen = NoSalt -> Failed("BAD_INPUT_DATA")
      [] slen # NoSalt /\ Len(salt) < slen -> Failed("INSUFFICIENT_ENTROPY")
      [] OTHER -> RsaPrivate(k, Plain(PssEncoded(k, md, hash, Head0(salt, slen))), fault)
rsa_rsassa_pss_sign_no_mode_check(k, md_alg, hash, saltlen, salt, fault) ==
    LET md == PssHash(k, md_alg) IN
    IF WrongHash(md_alg, hash) \/ mbedtls_md_get_size_from_type(md) = 0 THEN Failed("BAD_INPUT_DATA")
    ELSE PssSigned(k, md, hash, SaltLen(k.len, MdSize[md], saltlen), salt, fault)
rsa_rsassa_pss_sign(k, md_alg, hash, saltlen, salt, fault) ==
    IF k.padding # "PKCS_V21" \/ (k.hash_id = "none" /\ md_alg = "none") THEN Failed("BAD_INPUT_DATA")
    ELSE rsa_rsassa_pss_sign_no_mode_check(k, md_alg, hash, saltlen, salt, fault)

\* The zeros before the 01; the byte before the hash is never one of them.
LeadingZeros(DB) ==
    CHOOSE n \in 0 .. Len(DB) - 1 :
        /\ \A i \in 1 .. n : DB[i] = 0
        /\ n < Len(DB) - 1 => DB[n + 1] # 0
PssSaltChecked(DB, H, md, hash, expected_salt_len) ==
    LET n == LeadingZeros(DB)
        salt == Tail0(DB, n + 1)
    IN  CASE DB[n + 1] # 1 \/ (expected_salt_len # AnySalt /\ Len(salt) # expected_salt_len) -> "INVALID_PADDING"
          [] /\ DB[n + 1] = 1 /\ (expected_salt_len = AnySalt \/ Len(salt) = expected_salt_len)
             /\ hash_mprime(md, hash, salt) # H -> "VERIFY_FAILED"
          [] OTHER -> "OK"
\* buf[0] is cut only when it is the first byte of the encoded message.
PssUnmasked(k, DB, H, md, hash, expected_salt_len) ==
    PssSaltChecked(IF offset(k) = 0 THEN PssCut(k, DB) ELSE DB, H, md, hash, expected_salt_len)
PssOpened(k, em, md, hash, expected_salt_len) ==
    LET hlen == MdSize[md]
        n == Len(em) - hlen - 1
    IN  IF Len(em) < hlen + 2 THEN "BAD_INPUT_DATA"
        ELSE PssUnmasked(k, mgf_mask(Head0(em, n), SubSeq(em, n + 1, n + hlen), md),
                         SubSeq(em, n + 1, n + hlen), md, hash, expected_salt_len)
PssBlock(k, buf, md_alg, md, hash, expected_salt_len) ==
    First4(Check(buf[k.len] = 188, "INVALID_PADDING"),
           Check(~WrongHash(md_alg, hash) /\ mbedtls_md_get_size_from_type(md) # 0, "BAD_INPUT_DATA"),
           Check(buf[1] < TopBits(k), "BAD_INPUT_DATA"),
           PssOpened(k, Tail0(buf, offset(k)), md, hash, expected_salt_len))
mbedtls_rsa_rsassa_pss_verify_ext(k, md_alg, hash, mgf1_hash_id, expected_salt_len, x) ==
    LET r == RsaPublic(k, x) IN
    CASE k.len < 16 -> "BAD_INPUT_DATA"
      [] k.len >= 16 /\ r.err # "OK" -> r.err
      [] OTHER -> PssBlock(k, r.x.em, md_alg, mgf1_hash_id, hash, expected_salt_len)

-----------------------------------------------------------------------------
(* Signatures with PKCS#1 v1.5.                                            *)

\* SEQUENCE { SEQUENCE { OID, NULL }, OCTET STRING }
DigestInfo(md, hash) ==
    LET oid == MdOid[md]
        n == Len(oid)
    IN  <<48, 8 + n + Len(hash), 48, 4 + n, 6, n>> \o oid \o <<5, 0, 4, Len(hash)>> \o hash
V15Block(info, dst_len) ==
    IF dst_len < Len(info) + 11 THEN Failed("BAD_INPUT_DATA")
    ELSE [err |-> "OK", em |-> <<0, 1>> \o [i \in 1 .. dst_len - Len(info) - 3 |-> 255] \o <<0>> \o info]
rsa_rsassa_pkcs1_v15_encode(md_alg, hash, dst_len) ==
    CASE md_alg = "none" -> V15Block(hash, dst_len)
      [] md_alg # "none" /\ (WrongHash(md_alg, hash) \/ 8 + Len(hash) + Len(MdOid[md_alg]) >= 128) ->
            Failed("BAD_INPUT_DATA")
      [] OTHER -> V15Block(DigestInfo(md_alg, hash), dst_len)

V15Checked(k, em, r) ==
    LET verif == RsaPublic(k, r.x) IN
    CASE r.err # "OK" -> r
      [] r.err = "OK" /\ verif.err # "OK" -> verif
      [] r.err = "OK" /\ verif.err = "OK" /\ verif.x.em # em -> Failed("PRIVATE_FAILED")
      [] OTHER -> r
mbedtls_rsa_rsassa_pkcs1_v15_sign(k, md_alg, hash, fault) ==
    LET e == rsa_rsassa_pkcs1_v15_encode(md_alg, hash, k.len) IN
    CASE k.padding # "PKCS_V15" -> Failed("BAD_INPUT_DATA")
      [] k.padding = "PKCS_V15" /\ e.err # "OK" -> e
      [] OTHER -> V15Checked(k, e.em, RsaPrivate(k, Plain(e.em), fault))
mbedtls_rsa_rsassa_pkcs1_v15_verify(k, md_alg, hash, x) ==
    LET e == rsa_rsassa_pkcs1_v15_encode(md_alg, hash, k.len)
        r == RsaPublic(k, x)
    IN  CASE e.err # "OK" -> e.err
          [] e.err = "OK" /\ r.err # "OK" -> r.err
          [] OTHER -> Check(r.x.em = e.em, "VERIFY_FAILED")

mbedtls_rsa_pkcs1_sign(k, md_alg, hash, salt, fault) ==
    IF k.padding = "PKCS_V15" THEN mbedtls_rsa_rsassa_pkcs1_v15_sign(k, md_alg, hash, fault)
    ELSE rsa_rsassa_pss_sign(k, md_alg, hash, AnySalt, salt, fault)
mbedtls_rsa_pkcs1_verify(k, md_alg, hash, x) ==
    IF k.padding = "PKCS_V15" THEN mbedtls_rsa_rsassa_pkcs1_v15_verify(k, md_alg, hash, x)
    ELSE mbedtls_rsa_rsassa_pss_verify_ext(k, md_alg, hash, PssHash(k, md_alg), AnySalt, x)

-----------------------------------------------------------------------------
(* psa_crypto_rsa.c.  A key is given by the bits of its modulus.           *)

mbedtls_to_psa_error(err) ==
    CASE err = "BAD_INPUT_DATA" -> "INVALID_ARGUMENT"
      [] err = "VERIFY_FAILED" -> "INVALID_SIGNATURE"
      [] err = "OUTPUT_TOO_LARGE" -> "BUFFER_TOO_SMALL"
      [] err = "RNG_FAILED" -> "INSUFFICIENT_ENTROPY"
      [] err = "PRIVATE_FAILED" -> "CORRUPTION_DETECTED"
      [] err \in {"KEY_CHECK_FAILED", "NOT_ACCEPTABLE"} -> "INVALID_ARGUMENT"
      [] OTHER -> err

psa_check_rsa_key_byte_aligned(k) == Check(k.bits % 8 = 0, "NOT_SUPPORTED")
mbedtls_psa_rsa_load_representation(bits, memory) ==
    First3(memory, Check(8 * Context(bits).len <= MaxKeyBits, "NOT_SUPPORTED"),
           psa_check_rsa_key_byte_aligned(Context(bits)))

\* An algorithm: its kind, its hash algorithm and, for PSS, whether any salt will do.
psa_rsa_decode_md_type(alg, hash) ==
    CASE alg.kind = "V15_RAW" -> "OK"
      [] alg.kind # "V15_RAW" /\ alg.hash \notin DOMAIN MdSize -> "NOT_SUPPORTED"
      [] OTHER -> Check(MdSize[alg.hash] = Len(hash), "INVALID_ARGUMENT")
IsV15(alg) == alg.kind \in {"V15", "V15_RAW"}
V15Md(alg) == IF alg.kind = "V15_RAW" THEN "none" ELSE alg.hash

SignBy(k, alg, hash, salt, fault) ==
    CASE IsV15(alg) -> mbedtls_rsa_pkcs1_sign(mbedtls_rsa_set_padding(k, "PKCS_V15", "none").key,
                                             V15Md(alg), hash, salt, fault)
      [] alg.kind = "PSS" -> rsa_rsassa_pss_sign(mbedtls_rsa_set_padding(k, "PKCS_V21", alg.hash).key,
                                                 "none", hash, AnySalt, salt, fault)
      [] OTHER -> Failed("INVALID_ARGUMENT")
Answered(r) == [r EXCEPT !.err = mbedtls_to_psa_error(@)]
mbedtls_psa_rsa_sign_hash(bits, memory, alg, hash, signature_size, salt, fault) ==
    LET k == Context(bits)
        checked == First3(mbedtls_psa_rsa_load_representation(bits, memory), psa_rsa_decode_md_type(alg, hash),
                          Check(signature_size >= k.len, "BUFFER_TOO_SMALL"))
    IN  IF checked # "OK" THEN Failed(checked) ELSE Answered(SignBy(k, alg, hash, salt, fault))

rsa_pss_expected_salt_len(alg, klen, hlen) ==
    LET room == klen - 2 - hlen IN
    CASE alg.any -> AnySalt
      [] ~alg.any /\ room < 0 -> 0
      [] ~alg.any /\ room > hlen -> hlen
      [] OTHER -> room
VerifyBy(k, alg, hash, x) ==
    CASE IsV15(alg) -> mbedtls_rsa_pkcs1_verify(mbedtls_rsa_set_padding(k, "PKCS_V15", "none").key,
                                               V15Md(alg), hash, x)
      [] alg.kind = "PSS" ->
            mbedtls_rsa_rsassa_pss_verify_ext(mbedtls_rsa_set_padding(k, "PKCS_V21", alg.hash).key, alg.hash, hash,
                alg.hash, rsa_pss_expected_salt_len(alg, k.len, Len(hash)), x)
      [] OTHER -> "INVALID_ARGUMENT"
mbedtls_psa_rsa_verify_hash(bits, memory, alg, hash, signature_length, x) ==
    LET k == Context(bits)
        checked == First3(mbedtls_psa_rsa_load_representation(bits, memory), psa_rsa_decode_md_type(alg, hash),
                          Check(signature_length = k.len, "INVALID_SIGNATURE"))
        ret == VerifyBy(k, alg, hash, x)
    IN  IF checked # "OK" THEN checked
        ELSE IF ret = "INVALID_PADDING" THEN "INVALID_SIGNATURE" ELSE mbedtls_to_psa_error(ret)

psa_rsa_oaep_set_padding_mode(alg, k) ==
    IF alg.hash \notin DOMAIN MdSize THEN Failed("NOT_SUPPORTED")
    ELSE mbedtls_rsa_set_padding(k, "PKCS_V21", alg.hash)
EncryptBy(k, alg, input, label, draws, seed) ==
    CASE alg.kind = "V15_CRYPT" -> mbedtls_rsa_pkcs1_encrypt(k, draws, seed, input)
      [] alg.kind = "OAEP" -> LET padding == psa_rsa_oaep_set_padding_mode(alg, k)
                              IN  IF padding.err # "OK" THEN padding
                                  ELSE mbedtls_rsa_rsaes_oaep_encrypt(padding.key, seed, label, input)
      [] OTHER -> Failed("INVALID_ARGUMENT")
mbedtls_psa_asymmetric_encrypt(bits, memory, alg, input, label, output_size, draws, seed) ==
    LET k == Context(bits)
        checked == First(mbedtls_psa_rsa_load_representation(bits, memory),
                         Check(output_size >= k.len, "BUFFER_TOO_SMALL"))
    IN  IF checked # "OK" THEN Failed(checked)
        ELSE Answered(EncryptBy(k, alg, input, label, draws, seed))
DecryptBy(k, alg, x, label, output_size, fault) ==
    CASE alg.kind = "V15_CRYPT" -> mbedtls_rsa_pkcs1_decrypt(k, x, output_size, fault)
      [] alg.kind = "OAEP" -> LET padding == psa_rsa_oaep_set_padding_mode(alg, k)
                              IN  IF padding.err # "OK" THEN padding
                                  ELSE mbedtls_rsa_rsaes_oaep_decrypt(padding.key, label, x, output_size, fault)
      [] OTHER -> Failed("INVALID_ARGUMENT")
mbedtls_psa_asymmetric_decrypt(bits, memory, alg, x, input_length, label, output_size, fault) ==
    LET k == Context(bits)
        checked == First(mbedtls_psa_rsa_load_representation(bits, memory),
                         Check(input_length = k.len, "INVALID_ARGUMENT"))
    IN  IF checked # "OK" THEN Failed(checked)
        ELSE Answered(DecryptBy(k, alg, x, label, output_size, fault))
=============================================================================

------------------------------ MODULE RsaCalls ------------------------------
(***************************************************************************)
(* Calls of the functions of Rsa and RsaNumbers, and what their results    *)
(* must be.                                                                *)
(***************************************************************************)
EXTENDS Rsa, RsaNumbers, Calls

CONSTANTS Primes1, Primes2,     \* primes for P and for Q
          BlockBits,            \* sizes of keys for the padding
          RoomBits              \* and sizes with room for a DigestInfo

-----------------------------------------------------------------------------
(* Numbers.                                                                *)

Keys == {k \in {[P |-> p, Q |-> q, E |-> e] : p \in Primes1, q \in Primes2, e \in {3, 5, 7}} :
             k.P > k.Q /\ k.E < k.P * k.Q /\ Gcd(k.E, (k.P - 1) * (k.Q - 1)) = 1}
ExponentOf(g) == mbedtls_rsa_deduce_private_exponent(g.P, g.Q, g.E).D
KeyWith(g, D, c) == Key(g.P * g.Q, g.E, D, g.P, g.Q, c.DP, c.DQ, c.QP)
FullKey(g) == KeyWith(g, ExponentOf(g), mbedtls_rsa_deduce_crt(g.P, g.Q, ExponentOf(g)))

CallPrivate == \E g \in Keys, T \in 0 .. 40, R \in 0 .. 1, glitch \in 0 .. 1 :
    \E Ap \in {1, g.P - 1, 2}, Aq \in {1, g.Q - 2} :
       /\ T <= g.P * g.Q
       /\ Calls("private", [k |-> FullKey(g), T |-> T, glitch |-> glitch],
                mbedtls_rsa_private(FullKey(g), T, Ap, Aq, R, glitch))
\* Again with the context that the operation leaves.
CallPrivateAgain == \E R \in 0 .. 1, T \in {0, 2, 9} :
    /\ call.f = "private" /\ call.out.err = "OK"
    /\ Calls("private", [k |-> call.out.key, T |-> T, glitch |-> 0],
             mbedtls_rsa_private(call.out.key, T, 1, 1, R, 0))
CallPublic == \E g \in Keys, T \in 0 .. 40 :
    Calls("public", [k |-> FullKey(g), T |-> T], mbedtls_rsa_public(FullKey(g), T))

\* A key with one part changed, or with a composite number for a prime.
Spoilt(k) == {k} \cup
    {[k EXCEPT ![f] = v] : f \in {"E", "D", "P", "Q", "DP", "DQ", "QP"}, v \in 0 .. 16} \cup
    {[k EXCEPT !.N = v, !.len = ByteLength(v)] : v \in 0 .. 40} \cup
    {[k EXCEPT !.D = @ + (k.P - 1) * (k.Q - 1)], [k EXCEPT !.len = @ + 1]} \cup
    {[k EXCEPT !.P = k.N, !.Q = 1], [k EXCEPT !.P = k.Q, !.Q = k.P]}
CallCheckKey == \E g \in Keys : \E k \in Spoilt(FullKey(g)) :
    Calls("check_key", k, [pub |-> mbedtls_rsa_check_pubkey(k), prv |-> mbedtls_rsa_check_privkey(k),
                           pair |-> mbedtls_rsa_check_pub_priv(FullKey(g), k)])
CallGenKey == \E nbits \in {6, 9, 10}, E \in 2 .. 9, first \in {23, 29, 31} \X {23, 29, 31} :
    \E second \in {<<29, 31>>, <<23, 31>>} :
       Calls("gen_key", [nbits |-> nbits, E |-> E, pairs |-> <<first, second>>],
             mbedtls_rsa_gen_key(nbits, E, <<first, second>>))
CallExponent == \E e \in UNION {[1 .. n -> {0, 1, 127, 128, 255}] : n \in 0 .. 4} \cup {<<0, 0, 0, 0, 3>>} :
    Calls("exponent", e, psa_rsa_read_exponent(e))

-----------------------------------------------------------------------------
(* Encryption.                                                             *)

Bytes(n) == {[i \in 1 .. n |-> 0], [i \in 1 .. n |-> i], [i \in 1 .. n |-> 256 - i]}
CryptAlgs ==
       {[kind |-> "V15_CRYPT", hash |-> "none", any |-> FALSE], [kind |-> "OTHER", hash |-> "none", any |-> FALSE]}
        \cup {[kind |-> "OAEP", hash |-> h, any |-> FALSE] : h \in DOMAIN MdSize \cup {"unknown"}}
Draw(zeros, byte) == [zeros |-> zeros, byte |-> byte]
Padding == {[i \in 1 .. 40 |-> Draw(0, i)], [i \in 1 .. 40 |-> Draw(IF i = 3 THEN 99 ELSE 0, 255)],
            [i \in 1 .. 40 |-> Draw(IF i = 8 THEN 100 ELSE 0, 1)],
            [i \in 1 .. 40 |-> Draw(0, IF i = 5 THEN Broken ELSE 9)]}
Seeds == {<<>>, [i \in 1 .. 16 |-> 17 * i % 256], [i \in 1 .. 16 |-> 0]}

Opened(bits, alg, enc, label, output_size) ==
    IF enc.err # "OK" THEN "none"
    ELSE mbedtls_psa_asymmetric_decrypt(bits, "OK", alg, enc.x, Context(bits).len, label, output_size, "OK")
Encrypted(in, enc, output_size) ==
    Calls("encrypt", [in EXCEPT !.room = output_size],
          [enc |-> enc, dec |-> Opened(in.bits, in.alg, enc, in.label, output_size)])
CallEncrypt == \E bits \in BlockBits, alg \in CryptAlgs, n \in 0 .. 8, label \in {<<>>, <<7>>} :
    \E input \in Bytes(n), draws \in Padding, seed \in Seeds, memory \in Memory, short \in 0 .. 1, room \in {0, n - 1, n, 20} :
       /\ alg.kind # "OAEP" => label = <<>> /\ seed = <<>>
       /\ alg.kind # "V15_CRYPT" => draws[3].zeros = 99
       /\ memory # "OK" \/ short = 1 => n = 0 /\ room = 20
       /\ room >= 0
       /\ Encrypted([bits |-> bits, alg |-> alg, input |-> input, label |-> label, draws |-> draws, seed |-> seed,
                     memory |-> memory, short |-> short, room |-> 0],
                    mbedtls_psa_asymmetric_encrypt(bits, memory, alg, input, label, Context(bits).len - short, draws,
                                                   seed), room)

Ciphertext(em) == [by |-> "public", em |-> em]
CallOpenV15 == \E bits \in BlockBits, first \in 0 .. 1, type \in 1 .. 2, zeros \in SUBSET {3, 10, 11, 12, 15, 16},
                  room \in {0, 1, 4, 20}, fault \in {"OK", "VERIFY_FAILED"} :
    LET k == Context(bits)
        em == [i \in 1 .. k.len |-> CASE i = 1 -> first [] i = 2 -> type [] i \in zeros -> 0 [] OTHER -> i]
    IN  Calls("open_v15", [em |-> em, room |-> room, fault |-> fault],
              mbedtls_rsa_pkcs1_decrypt(k, Ciphertext(em), room, fault))
CallOpenOaep == \E bits \in BlockBits, md \in DOMAIN MdSize, first \in 0 .. 1, wrong \in 0 .. 1, pad \in 0 .. 6, marker \in 0 .. 2,
                   room \in {0, 3, 20} :
    LET k == [Context(bits) EXCEPT !.padding = "PKCS_V21", !.hash_id = md]
        n == k.len - 2 * MdSize[md] - 1
        rest == [i \in 1 .. n |-> IF i <= pad THEN 0 ELSE IF i = pad + 1 THEN marker ELSE i % 3]
        lhash == WithByte(Digest(md, <<>>), 2, (Digest(md, <<>>)[2] + wrong) % 256)
        em == OaepMasked(k, [i \in 1 .. MdSize[md] |-> i], lhash \o rest, md)
    IN  /\ n > 0
        /\ Calls("open_oaep", [first |-> first, wrong |-> wrong, rest |-> rest, room |-> room],
                 mbedtls_rsa_pkcs1_decrypt(k, Ciphertext(WithByte(em, 1, first)), room, "OK"))

-----------------------------------------------------------------------------
(* Signatures.                                                             *)

SignAlgs == {[kind |-> kind, hash |-> h, any |-> any] :
                 kind \in {"V15", "PSS"}, h \in DOMAIN MdSize \cup {"unknown"}, any \in BOOLEAN}
            \cup {[kind |-> "V15_RAW", hash |-> "none", any |-> FALSE]}
HashOf(alg, b) == [i \in 1 .. mbedtls_md_get_size_from_type(alg.hash) |-> (b + 3 * i) % 256]
VerifyTries == {"same", "any", "short", "other"}
Verified2(in, sig) ==
    IF sig.err # "OK" THEN "none"
    ELSE [try \in VerifyTries |->
             mbedtls_psa_rsa_verify_hash(in.bits, "OK", [in.alg EXCEPT !.any = @ \/ try = "any"],
                 IF try = "other" THEN [i \in DOMAIN in.hash |-> (in.hash[i] + 1) % 256] ELSE in.hash,
                 Context(in.bits).len - (IF try = "short" THEN 1 ELSE 0), sig.x)]
Signed(in, sig) == Calls("sign", in, [sig |-> sig, verify |-> Verified2(in, sig)])
CallSign == \E bits \in BlockBits \cup RoomBits, alg \in SignAlgs, salt \in {<<>>, [i \in 1 .. 16 |-> 5 * i]},
               fault \in {"OK", "late", "VERIFY_FAILED"}, memory \in Memory, cut \in 0 .. 1, extra \in 0 .. 3 :
    LET hash == HashOf(alg, 7) \o Zeros(extra) IN
    /\ memory # "OK" \/ cut = 1 => fault = "OK"
    /\ Signed([bits |-> bits, alg |-> alg, hash |-> hash, salt |-> salt, fault |-> fault, memory |-> memory, cut |-> cut],
              mbedtls_psa_rsa_sign_hash(bits, memory, alg, hash, Context(bits).len - cut, salt, fault))

PssContext(bits, md) == [Context(bits) EXCEPT !.padding = "PKCS_V21", !.hash_id = md]
PssSalt == [i \in 1 .. 20 |-> (11 * i) % 256]
PssVerified(k, md, hash, sig, expected) ==
    IF sig.err # "OK" THEN "none" ELSE mbedtls_rsa_rsassa_pss_verify_ext(k, md, hash, md, expected, sig.x)
PssTried(in, sig) ==
    Calls("pss", in, [err |-> sig.err, verify |-> PssVerified(in.k, in.md, in.hash, sig, in.expected)])
\* Keys whose sizes are no multiples of 8 and salts of every length.
CallPss == \E bits \in 121 .. 137, md \in DOMAIN MdSize, saltlen \in -2 .. 9, expected \in {AnySalt, 2, 4} :
    LET k == PssContext(bits, md) IN
    PssTried([k |-> k, md |-> md, hash |-> HashOf([hash |-> md], 1), saltlen |-> saltlen, expected |-> expected],
             rsa_rsassa_pss_sign(k, "none", HashOf([hash |-> md], 1), saltlen, PssSalt, "OK"))

\* A signature of any block: of the right one with one byte of its data before the mask,
\* or of the block itself, changed.
Changed(s, byte, by) == IF byte \in DOMAIN s THEN WithByte(s, byte, XorByte(s[byte], by)) ELSE s
BlockOf(k, md, H, DB) ==
    PssCut(k, Head0(DB, offset(k)) \o mgf_mask(Tail0(DB, offset(k)), H, md) \o H \o <<188>>)
ForgedBlock(k, md, H, DB, inside, byte, by) ==
    IF inside THEN BlockOf(k, md, H, Changed(DB, byte, by)) ELSE Changed(BlockOf(k, md, H, DB), byte, by)
Forged(k, md, hash, slen, same, em) ==
    Calls("pss_forged", [same |-> same, slen |-> slen],
          [expected \in {AnySalt, 2} |->
              mbedtls_rsa_rsassa_pss_verify_ext(k, md, hash, md, expected, [by |-> "private", em |-> em])])
ForgedWith(k, md, hash, slen, H, inside, byte, by) ==
    Forged(k, md, hash, slen, ForgedBlock(k, md, H, PssDB(k, MdSize[md], Head0(PssSalt, slen)), FALSE, 0, by)
                              = ForgedBlock(k, md, H, PssDB(k, MdSize[md], Head0(PssSalt, slen)), inside, byte, by),
           ForgedBlock(k, md, H, PssDB(k, MdSize[md], Head0(PssSalt, slen)), inside, byte, by))
CallPssForged ==
    \E bits \in 125 .. 129, md \in DOMAIN MdSize, slen \in 0 .. 3, byte \in 0 .. 17, inside \in BOOLEAN, by \in {1, 128} :
       /\ slen + MdSize[md] + 2 + offset(Context(bits)) <= Context(bits).len
       /\ byte <= Context(bits).len
       /\ ForgedWith(PssContext(bits, md), md, HashOf([hash |-> md], 2), slen,
                     hash_mprime(md, HashOf([hash |-> md], 2), Head0(PssSalt, slen)), inside, byte, by)
CallV15Forged == \E bits \in RoomBits, md \in DOMAIN MdSize \cup {"none"}, byte \in 0 .. 64, by \in {1, 5, 255} :
    LET k == Context(bits)
        hash == HashOf([hash |-> md], 2)
        e == rsa_rsassa_pkcs1_v15_encode(md, hash, k.len)
        em == IF byte = 0 THEN e.em ELSE WithByte(e.em, byte, XorByte(e.em[byte], by))
    IN  /\ byte <= k.len /\ e.err = "OK"
        /\ Calls("v15_forged", [same |-> byte = 0],
                 mbedtls_rsa_pkcs1_verify(k, md, hash, [by |-> "private", em |-> em]))

RsaNext ==
    \/ /\ Idle
       /\ \/ CallPrivate \/ CallPublic \/ CallCheckKey \/ CallGenKey \/ CallExponent \/ CallEncrypt \/ CallOpenV15
          \/ CallOpenOaep \/ CallSign \/ CallPss \/ CallPssForged \/ CallV15Forged
    \/ CallPrivateAgain

-----------------------------------------------------------------------------
\* The blinding pair stays a pair of inverses through any series of operations, so that
\* the result is right; a fault in one half of the computation never gives a result.
PrivateRight ==
    LET k == call.in.k
        r == call.out
    IN  /\ r.err = IF call.in.T >= k.N THEN "BAD_INPUT_DATA"
                   ELSE Check(call.in.glitch = 0, "VERIFY_FAILED")
        /\ r.err = "OK" => /\ r.out < k.N /\ PowerMod(r.out, k.E, k.N) = call.in.T
                           /\ (PowerMod(r.key.Vf, k.E, k.N) * r.key.Vi) % k.N = 1
PublicRight == (call.out.err = "OK") <=> (call.in.T < call.in.k.N)

IsPrime(n) == n > 1 /\ \A d \in 2 .. n - 1 : n % d # 0
\* What the public operation does is undone with D, and with the CRT parts as well.
Undone(k) == \A T \in 0 .. k.N - 1 :
    /\ PowerMod(PowerMod(T, k.E, k.N), k.D, k.N) = T
    /\ CrtPower(k, T, 0, 0) = PowerMod(T, k.D, k.N)
CheckKeyRight ==
    LET k == call.in
        shape == /\ k.P * k.Q = k.N /\ IsPrime(k.P) /\ IsPrime(k.Q) /\ k.P > 2 /\ k.Q > 2
                 /\ k.len = ByteLength(k.N) /\ k.E \in 3 .. k.N - 1 /\ k.E % 2 = 1
                 /\ k.D \in 2 .. k.N - 1 /\ k.DP > 0 /\ k.DQ > 0
    IN  /\ shape => (call.out.prv <=> Undone(k))
        /\ call.out.pair => call.out.prv
        /\ call.out.prv => call.out.pub
GenKeyRight ==
    LET in == call.in IN
    /\ (call.out.err = "BAD_INPUT_DATA") <=> (in.E < 3 \/ in.nbits % 2 = 1 \/ in.nbits < GenKeyMinBits)
    /\ call.out.err = "OK" => LET k == call.out.key IN
           /\ Undone(k) /\ k.P > k.Q /\ Bitlen(k.N) = in.nbits /\ 2 * Bitlen(k.D) > in.nbits
           /\ \A D \in 1 .. k.D - 1 : (D * k.E - 1) % (k.P - 1) # 0 \/ (D * k.E - 1) % (k.Q - 1) # 0
ExponentRight ==
    call.out.err = "OK" => call.out.exponent % 256 = (IF call.in = <<>> THEN 0 ELSE Last(call.in))
                           /\ call.out.exponent >= 0

Short(in) == IF in.alg.kind = "OAEP" THEN 2 * mbedtls_md_get_size_from_type(in.alg.hash) + 2 ELSE 11
NothingShown(out) == \A i \in DOMAIN out : out[i] \in {0, Old}
EncryptRight ==
    LET in == call.in
        len == (in.bits + 7) \div 8
        n == Len(in.input)
        dec == call.out.dec
        known == in.alg.kind = "V15_CRYPT" \/ (in.alg.kind = "OAEP" /\ in.alg.hash \in DOMAIN MdSize)
        drawn == IF in.alg.kind = "OAEP" THEN in.seed # <<>>
                 ELSE \A i \in 1 .. len - 3 - n : in.draws[i].zeros < 100 /\ in.draws[i].byte # Broken
    IN  /\ (call.out.enc.err = "OK") <=> (in.memory = "OK" /\ in.bits % 8 = 0 /\ in.short = 0 /\ known
                                          /\ n + Short(in) <= len /\ drawn)
        /\ call.out.enc.err = "OK" =>
              IF in.room < n THEN dec.err = "BUFFER_TOO_SMALL" /\ (in.alg.kind # "OAEP" => NothingShown(dec.out))
              ELSE dec.err = "OK" /\ dec.olen = n /\ Head0(dec.out, n) = in.input
\* For any block: the padding is taken exactly when it is well formed, and nothing of a
\* block with a bad one, or with a message that is too long, is shown.
OpenV15Right ==
    LET em == call.in.em
        ends == {n \in 8 .. Len(em) - 3 : em[n + 3] = 0 /\ \A i \in 3 .. n + 2 : em[i] # 0}
        valid == em[1] = 0 /\ em[2] = 2 /\ ends # {}
        message == Tail0(em, (CHOOSE n \in ends : TRUE) + 3)
        r == call.out
    IN  CASE call.in.fault # "OK" -> r.err = call.in.fault
          [] call.in.fault = "OK" /\ ~valid -> r.err = "INVALID_PADDING" /\ NothingShown(r.out)
          [] call.in.fault = "OK" /\ valid /\ Len(message) > call.in.room ->
                r.err = "OUTPUT_TOO_LARGE" /\ NothingShown(r.out)
          [] OTHER -> r.err = "OK" /\ r.olen = Len(message) /\ Head0(r.out, r.olen) = message
OpenOaepRight ==
    LET rest == call.in.rest
        ends == {n \in 0 .. Len(rest) - 1 : rest[n + 1] = 1 /\ \A i \in 1 .. n : rest[i] = 0}
        message == Tail0(rest, (CHOOSE n \in ends : TRUE) + 1)
    IN  CASE call.in.first # 0 \/ call.in.wrong # 0 \/ ends = {} -> call.out = Failed("INVALID_PADDING")
          [] OTHER -> call.out = IF Len(message) > call.in.room THEN Failed("OUTPUT_TOO_LARGE")
                                 ELSE [err |-> "OK", olen |-> Len(message), out |-> message]

Needed(alg, hash) ==
    CASE alg.kind = "PSS" -> 2 * Len(hash)
      [] alg.kind = "V15_RAW" -> Len(hash) + 11
      [] OTHER -> Len(MdOid[alg.hash]) + Len(hash) + 21
SignRight ==
    LET in == call.in
        out == call.out
        len == (in.bits + 7) \div 8
        fitting == in.alg.kind = "V15_RAW"
                   \/ (in.alg.hash \in DOMAIN MdSize /\ Len(in.hash) = mbedtls_md_get_size_from_type(in.alg.hash))
        made == IF in.alg.kind = "PSS" THEN in.salt # <<>> /\ in.fault \in {"OK", "late"} ELSE in.fault = "OK"
    IN  /\ (out.sig.err = "OK") <=> (in.memory = "OK" /\ in.bits % 8 = 0 /\ in.bits <= MaxKeyBits /\ in.cut = 0 /\ fitting
                                     /\ Needed(in.alg, in.hash) <= len /\ made)
        /\ out.sig.err = "OK" /\ in.fault = "OK" =>
              out.verify.same = "OK" /\ out.verify.any = "OK" /\ (in.hash # <<>> => out.verify.other = "INVALID_SIGNATURE")
        /\ out.sig.err = "OK" => out.verify.short = "INVALID_SIGNATURE"
        /\ out.sig.err = "OK" /\ in.fault # "OK" => out.verify.same # "OK"

PssSaltOf(in) ==
    LET hlen == MdSize[in.md] IN
    CASE in.saltlen # AnySalt -> in.saltlen
      [] in.saltlen = AnySalt /\ in.k.len - hlen - 2 > hlen -> hlen
      [] OTHER -> in.k.len - hlen - 2
\* The block has a byte less than the modulus, and the salt leaves no room for it.
NoRoomForMarker(in) == in.k.bits % 8 = 1 /\ PssSaltOf(in) + MdSize[in.md] + 2 = in.k.len
PssRight ==
    LET in == call.in
        slen == PssSaltOf(in)
        room == slen + MdSize[in.md] + 2 <= in.k.len
    IN  /\ (call.out.err = "OK") <=> (room /\ slen >= IF in.saltlen = AnySalt THEN MdSize[in.md] - 2 ELSE 0)
        /\ call.out.err = "OK" /\ ~NoRoomForMarker(in) =>
              call.out.verify = Check(in.expected \in {AnySalt, slen}, "INVALID_PADDING")
PssForgedRight == /\ (call.out[AnySalt] = "OK") <=> call.in.same
                  /\ (call.out[2] = "OK") <=> (call.in.same /\ call.in.slen = 2)
V15ForgedRight == (call.out = "OK") <=> call.in.same

\* RSA: whatever the blinding drew and however often the context was used, the private
\* operation inverts the public one or fails (rsa.c:1038-1300); a key is accepted exactly
\* when its parts, the CRT ones included, belong together; what is encrypted is decrypted
\* and any other block is refused without showing a byte of it (rsa.c:403-527, 1610-1730);
\* what is signed verifies, at the smallest sizes and for keys that are not a whole number
\* of bytes too, and a block with any byte changed does not (rsa.c:1806-1915, 2209-2320).
RsaCorrect ==
    /\ Of("private", PrivateRight) /\ Of("public", PublicRight) /\ Of("check_key", CheckKeyRight)
    /\ Of("gen_key", GenKeyRight) /\ Of("exponent", ExponentRight) /\ Of("encrypt", EncryptRight)
    /\ Of("open_v15", OpenV15Right) /\ Of("open_oaep", OpenOaepRight) /\ Of("sign", SignRight)
    /\ Of("pss", PssRight) /\ Of("pss_forged", PssForgedRight) /\ Of("v15_forged", V15ForgedRight)

\* mbedtls_rsa_rsassa_pss_sign_ext() refuses a salt for which there is no room, as rsa.h
\* says: a signature it makes can be verified.
PssSignatureVerifies ==
    Of("pss", call.out.err = "OK" /\ call.in.expected = AnySalt => call.out.verify = "OK")
=============================================================================

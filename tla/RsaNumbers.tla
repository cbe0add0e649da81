----------------------------- MODULE RsaNumbers -----------------------------
(***************************************************************************)
(* rsa.c and rsa_alt_helpers.c on numbers: the relations between the parts *)
(* of a key, the public operation, and the private one with the Chinese    *)
(* remainder theorem, two kinds of blinding and a check of the result.     *)
(* Numbers are the integers of TLA+: Bignum has the arithmetic on limbs.   *)
(***************************************************************************)
EXTENDS Status, Integers, FiniteSets

CONSTANTS MinModulusBits,       \* the 128 bits of mbedtls_rsa_check_pubkey()
          GenKeyMinBits         \* MBEDTLS_RSA_GEN_KEY_MIN_BITS

Bitlen(v) == CHOOSE n \in 0 .. 31 : v < 2 ^ n /\ (n = 0 \/ v >= 2 ^ (n - 1))
ByteLength(v) == (Bitlen(v) + 7) \div 8
IsOdd(v) == v % 2 = 1

\* mbedtls_mpi_exp_mod().
PowerMod(a, e, n) ==
    LET p[k \in Nat] == IF k = 0 THEN 1 % n
                        ELSE LET h == p[k \div 2] IN (((h * h) % n) * (IF IsOdd(k) THEN a % n ELSE 1)) % n
    IN  p[e]
Gcd(a, b) == LET g[x \in Nat, y \in Nat] == IF y = 0 THEN x ELSE g[y, x % y] IN g[a, b]
InverseMod(a, n) == CHOOSE x \in 0 .. n - 1 : (a * x) % n = 1 % n

\* Vf is zero while ctx->Vf.p is NULL.
Key(N, E, D, P, Q, DP, DQ, QP) ==
    [N |-> N, E |-> E, D |-> D, P |-> P, Q |-> Q, DP |-> DP, DQ |-> DQ, QP |-> QP,
     len |-> ByteLength(N), Vi |-> 0, Vf |-> 0]

-----------------------------------------------------------------------------
(* rsa_alt_helpers.c.                                                      *)

PrivateExponent(E, lcm) ==
    IF Gcd(lcm, E) # 1 THEN [err |-> "NOT_ACCEPTABLE"] ELSE [err |-> "OK", D |-> InverseMod(E, lcm)]
mbedtls_rsa_deduce_private_exponent(P, Q, E) ==
    CASE P <= 1 \/ Q <= 1 \/ E = 0 -> [err |-> "BAD_INPUT_DATA"]
      [] P > 1 /\ Q > 1 /\ E # 0 /\ ~IsOdd(E) -> [err |-> "NOT_ACCEPTABLE"]
      [] OTHER -> PrivateExponent(E, ((P - 1) * (Q - 1)) \div Gcd(P - 1, Q - 1))

mbedtls_rsa_deduce_crt(P, Q, D) ==
    [DP |-> D % (P - 1), DQ |-> D % (Q - 1), QP |-> InverseMod(Q, P)]

\* The primality of P and Q is only looked at with a generator, which no caller gives.
mbedtls_rsa_validate_params(k) ==
    /\ k.N > 1 /\ k.P * k.Q = k.N
    /\ k.D > 1 /\ k.E > 1 /\ k.D < k.N /\ k.E < k.N
    /\ k.P > 1 /\ k.Q > 1
    /\ (k.D * k.E - 1) % (k.P - 1) = 0
    /\ (k.D * k.E - 1) % (k.Q - 1) = 0
mbedtls_rsa_validate_crt(k) ==
    /\ (k.DP - k.D) % (k.P - 1) = 0
    /\ (k.DQ - k.D) % (k.Q - 1) = 0
    /\ (k.QP * k.Q - 1) % k.P = 0

-----------------------------------------------------------------------------
(* rsa.c: the checks of a key.                                             *)

rsa_check_context(k, is_priv) ==
    /\ k.len = ByteLength(k.N)
    /\ k.N > 0 /\ IsOdd(k.N) /\ k.E > 0
    /\ is_priv => /\ k.P > 0 /\ IsOdd(k.P) /\ k.Q > 0 /\ IsOdd(k.Q)
                  /\ k.DP > 0 /\ k.DQ > 0 /\ k.QP > 0
mbedtls_rsa_check_pubkey(k) ==
    /\ rsa_check_context(k, FALSE)
    /\ Bitlen(k.N) >= MinModulusBits
    /\ IsOdd(k.E) /\ Bitlen(k.E) >= 2 /\ k.E < k.N
mbedtls_rsa_check_privkey(k) ==
    mbedtls_rsa_check_pubkey(k) /\ rsa_check_context(k, TRUE)
    /\ mbedtls_rsa_validate_params(k) /\ mbedtls_rsa_validate_crt(k)
mbedtls_rsa_check_pub_priv(pub, prv) ==
    /\ mbedtls_rsa_check_pubkey(pub) /\ mbedtls_rsa_check_privkey(prv)
    /\ pub.N = prv.N /\ pub.E = prv.E

-----------------------------------------------------------------------------
(* The operations.                                                         *)

mbedtls_rsa_public(k, T) ==
    IF ~rsa_check_context(k, FALSE) \/ T >= k.N THEN [err |-> "BAD_INPUT_DATA"]
    ELSE [err |-> "OK", out |-> PowerMod(T, k.E, k.N)]

\* (TP - TQ) * QP mod P is not negative: mbedtls_mpi_mod_mpi() sees to it, like %.
rsa_apply_crt(k, TP, TQ) == (((TP - TQ) * k.QP) % k.P) * k.Q + TQ

\* Ap and Aq are what the generator draws, from 1 to P - 1 and Q - 1.
rsa_gen_rand_with_inverse(k, Ap, Aq) ==
    IF Gcd(Ap, k.P) # 1 \/ Gcd(Aq, k.Q) # 1 THEN [err |-> "RNG_FAILED"]
    ELSE [err |-> "OK", A |-> rsa_apply_crt(k, Ap, Aq),
          B |-> rsa_apply_crt(k, InverseMod(Ap, k.P), InverseMod(Aq, k.Q))]

Blinded(k, r) ==
    IF r.err # "OK" THEN r ELSE [err |-> "OK", Vf |-> r.A, Vi |-> PowerMod(r.B, k.E, k.N)]
BlindingKept(k, Ap, Aq) == [err |-> "OK", Vf |-> (k.Vf * k.Vf) % k.N, Vi |-> k.Vi]      \* mutant
rsa_prepare_blinding(k, Ap, Aq) ==
    IF k.Vf # 0 THEN [err |-> "OK", Vf |-> (k.Vf * k.Vf) % k.N, Vi |-> (k.Vi * k.Vi) % k.N]
    ELSE Blinded(k, rsa_gen_rand_with_inverse(k, Ap, Aq))

rsa_unblind(T, Vf, N) == (T * Vf) % N

\* Both powers with their exponents blinded by R; glitch is what a fault adds to one of them.
CrtPower(k, T, R, glitch) ==
    rsa_apply_crt(k, (PowerMod(T, (k.P - 1) * R + k.DP, k.P) + glitch) % k.P,
                     PowerMod(T, (k.Q - 1) * R + k.DQ, k.Q))
Verified(k, b, input_blinded, T) ==
    IF PowerMod(T, k.E, k.N) # input_blinded THEN [err |-> "VERIFY_FAILED"]
    ELSE [err |-> "OK", out |-> rsa_unblind(T, b.Vf, k.N), key |-> [k EXCEPT !.Vf = b.Vf, !.Vi = b.Vi]]
WithBlinding(k, b, T, R, glitch) ==
    IF b.err # "OK" THEN b
    ELSE Verified(k, b, (T * b.Vi) % k.N, CrtPower(k, (T * b.Vi) % k.N, R, glitch))
mbedtls_rsa_private(k, T, Ap, Aq, R, glitch) ==
    IF ~rsa_check_context(k, TRUE) \/ T >= k.N THEN [err |-> "BAD_INPUT_DATA"]
    ELSE WithBlinding(k, rsa_prepare_blinding(k, Ap, Aq), T, R, glitch)

-----------------------------------------------------------------------------
(* The generation of a key.                                                *)

\* The difference of P and Q has more bits than this.
CloseBits(nbits) == IF nbits >= 200 THEN nbits \div 2 - 99 ELSE 0
PrimesApart(P, Q, nbits) == Bitlen(IF P > Q THEN P - Q ELSE Q - P) > CloseBits(nbits)
ExponentLarge(D, nbits) == Bitlen(D) > (nbits + 1) \div 2

\* pairs is what mbedtls_mpi_gen_prime() gives at each turn.
Completed(k, P, Q) ==
    LET c == mbedtls_rsa_deduce_crt(P, Q, k.D)
        key == Key(P * Q, k.E, k.D, P, Q, c.DP, c.DQ, c.QP)
    IN  IF mbedtls_rsa_check_privkey(key) THEN [err |-> "OK", key |-> key]
        ELSE [err |-> "KEY_CHECK_FAILED"]
Accepted(d, P, Q, nbits) ==
    /\ PrimesApart(P, Q, nbits)
    /\ d.err = "OK" /\ ExponentLarge(d.D, nbits)
Greater(pair) == IF pair[1] > pair[2] THEN pair[1] ELSE pair[2]
Lesser(pair) == IF pair[1] > pair[2] THEN pair[2] ELSE pair[1]
Turn(pair, nbits, E) ==
    LET P == Greater(pair)
        Q == Lesser(pair)
        d == mbedtls_rsa_deduce_private_exponent(P, Q, E)
    IN  IF ~Accepted(d, P, Q, nbits) THEN [err |-> "another"]
        ELSE Completed([E |-> E, D |-> d.D], P, Q)
mbedtls_rsa_gen_key(nbits, E, pairs) ==
    LET turns == {i \in DOMAIN pairs : Turn(pairs[i], nbits, E).err # "another"}
    IN  CASE E < 3 \/ nbits % 2 # 0 \/ nbits < GenKeyMinBits -> [err |-> "BAD_INPUT_DATA"]
          [] E >= 3 /\ nbits % 2 = 0 /\ nbits >= GenKeyMinBits /\ turns # {} ->
                Turn(pairs[CHOOSE i \in turns : \A j \in turns : i <= j], nbits, E)
          [] OTHER -> [err |-> "another"]

\* psa_rsa_read_exponent(): at most four bytes, and at most INT_MAX.
psa_rsa_read_exponent(e_bytes) ==
    IF Len(e_bytes) > 4 \/ (Len(e_bytes) = 4 /\ e_bytes[1] >= 128) THEN [err |-> "NOT_SUPPORTED"]
    ELSE [err |-> "OK", exponent |-> FoldLeft(LAMBDA acc, b : 256 * acc + b, 0, e_bytes)]
=============================================================================

------------------------------- MODULE Bignum -------------------------------
(***************************************************************************)
(* bignum.c: integers as a sign and limbs.  A function that writes into X  *)
(* takes what X holds: its limbs stay where the code leaves them, and X    *)
(* never has fewer.  An argument that is X itself is given twice.          *)
(***************************************************************************)
EXTENDS BignumCore, Calls, FiniteSets

CONSTANTS SmallPrimes,          \* the odd primes that mpi_check_small_factors() tries
          MillerRabinTries,     \* draws for one base (31 in the code)
          SearchSteps           \* bound: candidates of the search for a safe prime

ASSUME PrimesAssumption == SmallPrimes \in Seq(Nat) /\ MillerRabinTries \in Nat

Mpi(s, p) == [s |-> s, p |-> p]
Empty == Mpi(1, <<>>)
Value(X) == X.s * LimbVal(X.p)
IsError(X) == "err" \in DOMAIN X
Err(code) == [err |-> code]

\* The limbs, the sign and the size.
mbedtls_mpi_grow(X, n) == IF Len(X.p) < n THEN Mpi(X.s, X.p \o Zeros(n - Len(X.p))) ELSE X
AtLeast(a, b) == IF a < b THEN b ELSE a
mbedtls_mpi_shrink(X, n) ==
    IF Len(X.p) <= n THEN mbedtls_mpi_grow(X, n)
    ELSE Mpi(X.s, SubSeq(X.p, 1, AtLeast(AtLeast(UsedLimbs(X.p), 1), n)))
mbedtls_mpi_resize_clear(X, limbs) == Mpi(1, Zeros(limbs))
mbedtls_mpi_copy(X, Y) ==
    LET copied(i) == Mpi(Y.s, SubSeq(Y.p, 1, i) \o Zeros(AtLeast(Len(X.p) - i, 0)))
    IN  IF Y.p = <<>> THEN (IF X.p = <<>> THEN X ELSE Mpi(1, Zeros(Len(X.p))))
        ELSE copied(AtLeast(UsedLimbs(Y.p), 1))

mpi_sint_abs(z) == IF z < 0 THEN -z ELSE z
TO_SIGN(z) == IF z < 0 THEN -1 ELSE 1
Small(z) == Mpi(TO_SIGN(z), <<mpi_sint_abs(z)>>)
mbedtls_mpi_lset(X, z) ==
    Mpi(TO_SIGN(z), [i \in 1 .. AtLeast(Len(X.p), 1) |-> IF i = 1 THEN mpi_sint_abs(z) ELSE 0])

mbedtls_mpi_get_bit(X, pos) == IF Len(X.p) * LimbBits <= pos THEN 0 ELSE BitOf(X.p, pos)
mbedtls_mpi_set_bit(X, pos, val) ==
    LET G == mbedtls_mpi_grow(X, pos \div LimbBits + 1)
        bit == 2 ^ (pos % LimbBits)
    IN  CASE val \notin {0, 1} -> Err("BAD_INPUT_DATA")
          [] val = 0 /\ Len(X.p) * LimbBits <= pos -> X
          [] OTHER -> [G EXCEPT !.p[pos \div LimbBits + 1] = @ + (val - BitOf(G.p, pos)) * bit]
mbedtls_mpi_lsb(X) ==
    LET ones == {pos \in 0 .. Len(X.p) * LimbBits - 1 : BitOf(X.p, pos) = 1}
    IN  IF ones = {} THEN 0 ELSE CHOOSE pos \in ones : \A q \in ones : pos <= q
mbedtls_mpi_bitlen(X) == mbedtls_mpi_core_bitlen(X.p)
mbedtls_mpi_size(X) == (mbedtls_mpi_bitlen(X) + ByteWidth - 1) \div ByteWidth

ShiftedLimbs(G, count) == Mpi(G.s, mbedtls_mpi_core_shift_l(G.p, count))
GrownTo(X, bits) == IF Len(X.p) * LimbBits < bits THEN mbedtls_mpi_grow(X, BITS_TO_LIMBS(bits)) ELSE X
mbedtls_mpi_shift_l(X, count) == ShiftedLimbs(GrownTo(X, mbedtls_mpi_bitlen(X) + count), count)
mbedtls_mpi_shift_r(X, count) ==
    IF X.p = <<>> THEN X ELSE Mpi(X.s, mbedtls_mpi_core_shift_r(X.p, count))

\* The constant-time variants: X gets the limbs of Y, the ones it has more of are
\* cleared.  They cannot shrink a number.
mbedtls_mpi_safe_cond_assign(X, Y, assign) ==
    LET G == mbedtls_mpi_grow(X, Len(Y.p))
        n == Len(Y.p)
    IN  Mpi(IF assign THEN Y.s ELSE G.s,
            mbedtls_mpi_core_cond_assign(SubSeq(G.p, 1, n), Y.p, assign)
              \o IF assign THEN Zeros(Len(G.p) - n) ELSE SubSeq(G.p, n + 1, Len(G.p)))
mbedtls_mpi_safe_cond_swap(X, Y, swap) ==
    LET GX == mbedtls_mpi_grow(X, Len(Y.p))
        GY == mbedtls_mpi_grow(Y, Len(X.p))
        p == mbedtls_mpi_core_cond_swap(GX.p, GY.p, swap)
    IN  IF swap THEN <<Mpi(GY.s, p[1]), Mpi(GX.s, p[2])>> ELSE <<GX, GY>>

\* Comparisons.  The limbs in use are counted first.
TopDiffers(X, Y, n) ==
    LET top(i) == X.p[i] # Y.p[i] /\ \A k \in i + 1 .. n : X.p[k] = Y.p[k]
    IN  IF SubSeq(X.p, 1, n) = SubSeq(Y.p, 1, n) THEN 0
        ELSE IF \E i \in 1 .. n : top(i) /\ X.p[i] > Y.p[i] THEN 1 ELSE -1
CompareAbs(X, Y, i, j) == IF i # j THEN (IF i > j THEN 1 ELSE -1) ELSE TopDiffers(X, Y, i)
mbedtls_mpi_cmp_abs(X, Y) == CompareAbs(X, Y, UsedLimbs(X.p), UsedLimbs(Y.p))
CompareSigned(X, Y, i, j) ==
    CASE i = 0 /\ j = 0 -> 0
      [] i > j -> X.s
      [] j > i -> -Y.s
      [] i = j /\ i > 0 /\ X.s # Y.s -> X.s
      [] OTHER -> X.s * TopDiffers(X, Y, i)
mbedtls_mpi_cmp_mpi(X, Y) == CompareSigned(X, Y, UsedLimbs(X.p), UsedLimbs(Y.p))
mbedtls_mpi_cmp_int(X, z) == mbedtls_mpi_cmp_mpi(X, Small(z))
mbedtls_mpi_lt_mpi_ct(X, Y) ==
    IF Len(X.p) # Len(Y.p) THEN Err("BAD_INPUT_DATA")
    ELSE LET lt == IF X.s < 0 THEN mbedtls_mpi_core_lt_ct(Y.p, X.p) ELSE mbedtls_mpi_core_lt_ct(X.p, Y.p)
         IN  [lt |-> (X.s # Y.s /\ X.s < 0) \/ (X.s = Y.s /\ lt)]

\* |A| + |B| and |A| - |B|: the limbs that B has, then the carry through the rest.
CarryLimb(r, a) == LET t == Wrap(a + r.c) IN [x |-> Append(r.x, t), c |-> Carry(t < r.c)]
WithCarry(high) == high.x \o IF high.c # 0 THEN <<high.c>> ELSE <<>>
PropagateCarry(low, rest) ==
    low.x \o WithCarry(Iterate(LAMBDA r, i : CarryLimb(r, rest[i]), [x |-> <<>>, c |-> low.c], Len(rest)))
AddLimbs(C, B, j) ==
    IF j = 0 THEN C
    ELSE PropagateCarry(mbedtls_mpi_core_add(SubSeq(C, 1, j), SubSeq(B, 1, j)),
                        SubSeq(C, j + 1, Len(C)))
AddLow(X, A, B, j) == Mpi(1, AddLimbs(mbedtls_mpi_grow(mbedtls_mpi_copy(X, A), j).p, B.p, j))
mbedtls_mpi_add_abs(X, A, B) == AddLow(X, A, B, UsedLimbs(B.p))
NotNegative(low, high) == IF high.c # 0 THEN Err("NEGATIVE_VALUE") ELSE Mpi(1, low.x \o high.x)
PropagateBorrow(low, rest) == NotNegative(low, mbedtls_mpi_core_sub_int(rest, low.c))
SubLow(X, A, B, n) ==
    IF n > Len(A.p) THEN Err("NEGATIVE_VALUE")
    ELSE PropagateBorrow(mbedtls_mpi_core_sub(SubSeq(A.p, 1, n), SubSeq(B.p, 1, n)),
                         SubSeq(A.p, n + 1, Len(A.p))
                           \o Zeros(AtLeast(Len(X.p), Len(A.p)) - Len(A.p)))
mbedtls_mpi_sub_abs(X, A, B) == SubLow(X, A, B, UsedLimbs(B.p))

\* The sign of 0 is always +, and |A| = |B| is where that could be missed.
DifferenceSign(s, cmp) == IF cmp = 0 THEN 1 ELSE s
Difference(X, A, B, cmp) ==
    [mbedtls_mpi_sub_abs(X, IF cmp >= 0 THEN A ELSE B, IF cmp >= 0 THEN B ELSE A)
        EXCEPT !.s = IF cmp >= 0 THEN DifferenceSign(A.s, cmp) ELSE -A.s]
add_sub_mpi(X, A, B, flip_B) ==
    IF A.s * B.s * flip_B < 0 THEN Difference(X, A, B, mbedtls_mpi_cmp_abs(A, B))
    ELSE [mbedtls_mpi_add_abs(X, A, B) EXCEPT !.s = A.s]
mbedtls_mpi_add_mpi(X, A, B) == add_sub_mpi(X, A, B, 1)
mbedtls_mpi_sub_mpi(X, A, B) == add_sub_mpi(X, A, B, -1)
mbedtls_mpi_add_int(X, A, b) == mbedtls_mpi_add_mpi(X, A, Small(b))
mbedtls_mpi_sub_int(X, A, b) == mbedtls_mpi_sub_mpi(X, A, Small(b))

mbedtls_mpi_mul_mpi(X, A, B) ==
    LET i == UsedLimbs(A.p)
        j == UsedLimbs(B.p)
        size == AtLeast(AtLeast(Len(X.p), i + j), 1)
    IN  Mpi(IF i = 0 \/ j = 0 THEN 1 ELSE A.s * B.s,
            mbedtls_mpi_core_mul(SubSeq(A.p, 1, i), SubSeq(B.p, 1, j)) \o Zeros(size - i - j))
\* A * b is computed as A + A * (b - 1), so that X may be A.
mbedtls_mpi_mul_int(X, A, b) ==
    LET n == UsedLimbs(A.p)
        C == mbedtls_mpi_copy(mbedtls_mpi_grow(X, n + 1), A)
    IN  IF b = 0 \/ n = 0 THEN mbedtls_mpi_lset(X, 0)
        ELSE Mpi(C.s, mbedtls_mpi_core_mla(C.p, SubSeq(A.p, 1, n), b - 1).x)

\* Knuth's algorithm D on two half limbs, for the compilers without a double limb.
HalfRadix == 2 ^ (LimbBits \div 2)
RECURSIVE Estimate(_, _, _, _)
Estimate(q, r, d, u) ==   \* d = <<high half, low half>>
    IF q >= HalfRadix \/ q * d[2] > HalfRadix * r + u
    THEN IF r + d[1] >= HalfRadix THEN [q |-> q - 1, r |-> r + d[1]]
         ELSE Estimate(q - 1, r + d[1], d, u)
    ELSE [q |-> q, r |-> r]
\* One half limb of the quotient: of h, with the next half limb u, by dn.
HalfQuotient(h, u, dn) ==
    Estimate(h \div (dn \div HalfRadix), h % (dn \div HalfRadix),
             <<dn \div HalfRadix, dn % HalfRadix>>, u).q
HalfRemainder(h, u, q, dn) == Wrap(h * HalfRadix + u - q * dn)
LowHalf(q1, q0, rest, u, dn, s) ==
    [q |-> Wrap(q1 * HalfRadix + q0), r |-> HalfRemainder(rest, u, q0, dn) \div 2 ^ s]
SecondHalf(q1, rest, u, dn, s) == LowHalf(q1, HalfQuotient(rest, u, dn), rest, u, dn, s)
HighHalf(q1, h, l, dn, s) ==
    SecondHalf(q1, HalfRemainder(h, l \div HalfRadix, q1, dn), l % HalfRadix, dn, s)
FirstHalf(h, l, dn, s) == HighHalf(HalfQuotient(h, l \div HalfRadix, dn), h, l, dn, s)
DivideAligned(u1, u0, d, s) ==
    FirstHalf(Wrap(u1 * 2 ^ s) + IF s = 0 THEN 0 ELSE u0 \div 2 ^ (LimbBits - s),
              Wrap(u0 * 2 ^ s), Wrap(d * 2 ^ s), s)
mbedtls_int_div_int(u1, u0, d) ==
    IF d = 0 \/ u1 >= d THEN [q |-> Radix - 1, r |-> Radix - 1]
    ELSE DivideAligned(u1, u0, d, mbedtls_mpi_core_clz(d))

\* The long division.  Y is normalised so that its top bit but one is set; each limb
\* of the quotient is estimated from two limbs of X, corrected while three limbs of X
\* say that it is too large, and corrected once more if X became negative.
RECURSIVE TopQuotient(_, _, _)
TopQuotient(X, Y, q) ==
    IF mbedtls_mpi_cmp_mpi(X, Y) >= 0 THEN TopQuotient(mbedtls_mpi_sub_mpi(X, X, Y), Y, q + 1)
    ELSE [X |-> X, q |-> q]
LimbAt(p, i) == IF i < 0 THEN 0 ELSE p[i + 1]
QuotientFits(T1, T2) == mbedtls_mpi_cmp_mpi(T1, T2) <= 0
RECURSIVE Lower(_, _, _)
Lower(Y2, X3, q) ==
    IF QuotientFits(mbedtls_mpi_mul_int(Y2, Y2, q), X3) THEN q ELSE Lower(Y2, X3, Wrap(q - 1))
NeverAddsBack(X) == FALSE
AddBack(X) == mbedtls_mpi_cmp_int(X, 0) < 0
Corrected(R, Y, q, shift) ==
    IF AddBack(R) THEN [X |-> mbedtls_mpi_add_mpi(R, R, mbedtls_mpi_shift_l(Y, shift)), q |-> Wrap(q - 1)]
    ELSE [X |-> R, q |-> q]
Subtracted(X, Y, q, shift) ==
    Corrected(mbedtls_mpi_sub_mpi(X, X, mbedtls_mpi_shift_l(mbedtls_mpi_mul_int(Empty, Y, q), shift)),
              Y, q, shift)
FirstEstimate(x2, x1, y) == IF x2 >= y THEN Radix - 1 ELSE mbedtls_int_div_int(x2, x1, y).q
DivLimb(X, Y, t, i) ==
    LET x(k) == LimbAt(X.p, k)
        y == Y.p[t + 1]
    IN  Subtracted(X, Y, Lower(Mpi(1, <<LimbAt(Y.p, t - 1), y>>), Mpi(1, <<x(i - 2), x(i - 1), x(i)>>),
                               FirstEstimate(x(i), x(i - 1), y)),
                   LimbBits * (i - t - 1))
Normalisation(bits) == IF bits < LimbBits - 1 THEN LimbBits - 1 - bits ELSE 0
Shifted(X, k) == IF k = 0 THEN X ELSE mbedtls_mpi_shift_l(X, k)
\* The limbs of the quotient below the top one; n - t is how far Y is shifted.
NextLimb(d, z) == [X |-> d.X, z |-> <<d.q>> \o z]
LowLimbs(top, Y, t, n) ==
    Iterate(LAMBDA r, j : NextLimb(DivLimb(r.X, Y, t, n - j + 1), r.z),
            [X |-> top.X, z |-> <<top.q>>], n - t)
AlignedQuotient(X, aligned, Y, t, n) == LowLimbs(TopQuotient(X, aligned, 0), Y, t, n)
Quotient(X, Y, t, n) == AlignedQuotient(X, mbedtls_mpi_shift_l(Y, LimbBits * (n - t)), Y, t, n)
Unsigned(Rem) == IF mbedtls_mpi_cmp_int(Rem, 0) = 0 THEN Mpi(1, Rem.p) ELSE Rem
DivisionResult(Q, R, A, B, end, k) ==
    [q |-> [mbedtls_mpi_copy(Q, Mpi(1, end.z \o <<0>>)) EXCEPT !.s = A.s * B.s],
     r |-> Unsigned(mbedtls_mpi_copy(R, Mpi(A.s, mbedtls_mpi_shift_r(end.X, k).p)))]
Divide(Q, R, A, B, X, Y, k) == DivisionResult(Q, R, A, B, Quotient(X, Y, Len(Y.p) - 1, Len(X.p) - 1), k)
DivideNormalised(Q, R, A, B, k) ==
    Divide(Q, R, A, B, Shifted(Mpi(1, mbedtls_mpi_copy(Empty, A).p), k),
           Shifted(Mpi(1, mbedtls_mpi_copy(Empty, B).p), k), k)
mbedtls_mpi_div_mpi(Q, R, A, B) ==
    CASE mbedtls_mpi_cmp_int(B, 0) = 0 -> Err("DIVISION_BY_ZERO")
      [] mbedtls_mpi_cmp_int(B, 0) # 0 /\ mbedtls_mpi_cmp_abs(A, B) < 0 ->
            [q |-> mbedtls_mpi_lset(Q, 0), r |-> mbedtls_mpi_copy(R, A)]
      [] OTHER -> DivideNormalised(Q, R, A, B, Normalisation(mbedtls_mpi_bitlen(B) % LimbBits))
mbedtls_mpi_div_int(Q, R, A, b) == mbedtls_mpi_div_mpi(Q, R, A, Small(b))

RECURSIVE IntoRange(_, _)
IntoRange(R, B) ==
    CASE mbedtls_mpi_cmp_int(R, 0) < 0 -> IntoRange(mbedtls_mpi_add_mpi(R, R, B), B)
      [] mbedtls_mpi_cmp_mpi(R, B) >= 0 -> IntoRange(mbedtls_mpi_sub_mpi(R, R, B), B)
      [] OTHER -> R
Remainder(d, B) == IF IsError(d) THEN d ELSE IntoRange(d.r, B)
mbedtls_mpi_mod_mpi(R, A, B) ==
    IF mbedtls_mpi_cmp_int(B, 0) < 0 THEN Err("NEGATIVE_VALUE")
    ELSE Remainder(mbedtls_mpi_div_mpi(Empty, R, A, B), B)

\* One half limb at a time, so that the shifted remainder fits a limb.
mbedtls_mpi_mod_int(A, b) ==
    LET half(y, h) == (Wrap(y * HalfRadix) + h) % b
        limb(y, j) == LET x == A.p[Len(A.p) - j + 1]
                      IN  half(half(y, x \div HalfRadix), x % HalfRadix)
        y == Iterate(limb, 0, Len(A.p))
    IN  CASE b = 0 -> Err("DIVISION_BY_ZERO")
          [] b < 0 -> Err("NEGATIVE_VALUE")
          [] b > 0 /\ (b = 1 \/ A.p = <<>>) -> [r |-> 0]
          [] b = 2 /\ A.p # <<>> -> [r |-> A.p[1] % 2]
          [] OTHER -> [r |-> IF A.s < 0 /\ y # 0 THEN b - y ELSE y]

\* R^2 modulo N for the Montgomery form.
MontgomerySquare(one, N) == mbedtls_mpi_shrink(mbedtls_mpi_mod_mpi(one, one, N), Len(N.p))
mbedtls_mpi_core_get_mont_r2_unsafe(N) ==
    MontgomerySquare(mbedtls_mpi_shift_l(mbedtls_mpi_lset(Empty, 1), Len(N.p) * 2 * LimbBits), N)

ReducedBase(abs, N) ==
    mbedtls_mpi_grow(IF mbedtls_mpi_cmp_mpi(abs, N) >= 0 THEN mbedtls_mpi_mod_mpi(abs, abs, N) ELSE abs,
                     Len(N.p))
\* In Montgomery form and back; limbs above those of N stay.
MontgomeryPower(B, E, public, N, RR, mm) ==
    LET n == Len(N.p) IN
    mbedtls_mpi_core_from_mont_rep(
        mbedtls_mpi_core_exp_mod(mbedtls_mpi_core_to_mont_rep(SubSeq(B.p, 1, n), N.p, mm, RR.p),
                                 N.p, E.p, RR.p, public), N.p, mm)
      \o SubSeq(B.p, n + 1, Len(B.p))
Plus(Neg, N) == mbedtls_mpi_add_mpi(Neg, N, Neg)
Signed(p, N, negative) ==
    IF negative THEN Plus(Mpi(IF mbedtls_mpi_core_check_zero_ct(p) THEN -1 ELSE 1, p), N)
    ELSE Mpi(1, p)
mbedtls_mpi_exp_mod_optionally_safe(X, A, E, public, N, prec_RR) ==
    CASE mbedtls_mpi_cmp_int(N, 0) <= 0 -> Err("BAD_INPUT_DATA")
      [] mbedtls_mpi_cmp_int(N, 0) > 0 /\ (N.p[1] % 2 = 0 \/ mbedtls_mpi_cmp_int(E, 0) < 0) ->
            Err("BAD_INPUT_DATA")
      [] OTHER ->
            IF E.p = <<>> THEN mbedtls_mpi_lset(X, 1)
            ELSE Signed(MontgomeryPower(ReducedBase(Mpi(1, mbedtls_mpi_copy(X, A).p), N), E, public, N,
                            IF prec_RR.p = <<>> THEN mbedtls_mpi_core_get_mont_r2_unsafe(N)
                            ELSE mbedtls_mpi_grow(prec_RR, Len(N.p)),
                            mbedtls_mpi_core_montmul_init(N.p[1], LimbBits)),
                        N, A.s = -1 /\ E.p[1] % 2 # 0)
mbedtls_mpi_exp_mod(X, A, E, N) == mbedtls_mpi_exp_mod_optionally_safe(X, A, E, FALSE, N, Empty)
mbedtls_mpi_exp_mod_unsafe(X, A, E, N) == mbedtls_mpi_exp_mod_optionally_safe(X, A, E, TRUE, N, Empty)

\* Numbers as text: a sign and digits, the most significant first.
HexRadix == 2 ^ (ByteWidth \div 2)
Text(minus, digits) == [minus |-> minus, digits |-> digits]
DigitsOk(s, radix) == \A i \in DOMAIN s.digits : s.digits[i] < radix
mbedtls_mpi_read_string(X, radix, s) ==
    LET half == ByteWidth \div 2
        G == mbedtls_mpi_lset(mbedtls_mpi_grow(X, BITS_TO_LIMBS(Len(s.digits) * half)), 0)
        limbs(n) == LimbsOf(LET b == [i \in 1 .. n * LimbBytes * 2 |->
                                        IF i > Len(s.digits) THEN 0
                                        ELSE s.digits[Len(s.digits) - i + 1]]
                            IN  [k \in 1 .. n * LimbBytes |-> b[2 * k - 1] + b[2 * k] * HexRadix])
        digit(Y, i) == mbedtls_mpi_add_int(Y, mbedtls_mpi_mul_int(Empty, Y, radix), s.digits[i])
        Y == IF radix = HexRadix THEN Mpi(1, limbs(Len(G.p)))
             ELSE Iterate(digit, mbedtls_mpi_lset(X, 0), Len(s.digits))
    IN  CASE radix < 2 \/ radix > 16 -> Err("BAD_INPUT_DATA")
          [] radix \in 2 .. 16 /\ ~s.minus /\ s.digits = <<>> -> Empty
          [] OTHER -> IF ~DigitsOk(s, radix) THEN Err("INVALID_CHARACTER")
                      ELSE IF s.minus /\ mbedtls_mpi_bitlen(Y) # 0 THEN Mpi(-1, Y.p) ELSE Y

\* The room asked for: a bound on the digits, one for the division that rounds down,
\* the sign and the 0 at the end, made even.
TextRoom(bits, radix) ==
    LET n == (IF radix >= 16 THEN bits \div 4 ELSE IF radix >= 4 THEN bits \div 2 ELSE bits) + 3
    IN  n + (n % 2)
\* The digits come out of repeated divisions, at least one, and at most room of them.
RECURSIVE mpi_write_hlp(_, _, _), HigherDigits(_, _, _, _)
AppendDigit(high, digit) == IF high = NoBytes THEN high ELSE Append(high, digit)
HigherDigits(q, radix, room, digit) ==
    IF mbedtls_mpi_cmp_int(q, 0) = 0 THEN <<digit>> ELSE AppendDigit(mpi_write_hlp(q, radix, room), digit)
mpi_write_hlp(X, radix, room) ==
    IF room = 0 THEN NoBytes
    ELSE HigherDigits(mbedtls_mpi_div_int(X, Empty, X, radix).q, radix, room - 1,
                      mbedtls_mpi_mod_int(X, radix).r)
\* Hexadecimal digits come in pairs; zero bytes at the top are left out, but the last.
HexText(p) ==
    LET bytes == Reverse(BytesOf(p))
        kept == {i \in DOMAIN bytes : i = Len(bytes) \/ \E k \in 1 .. i : bytes[k] # 0}
        first == CHOOSE i \in kept : \A k \in kept : i <= k
    IN  IF bytes = <<>> THEN <<>>
        ELSE [k \in 1 .. 2 * (Len(bytes) - first + 1) |->
                LET c == bytes[first + (k - 1) \div 2]
                IN  IF k % 2 = 1 THEN c \div HexRadix ELSE c % HexRadix]
Written(digits, minus) ==
    IF digits = NoBytes THEN Err("BUFFER_TOO_SMALL")
    ELSE [text |-> Text(minus, digits), olen |-> Len(digits) + 1 + IF minus THEN 1 ELSE 0]
TextOf(X, radix, room) ==
    IF radix = HexRadix THEN HexText(X.p)
    ELSE mpi_write_hlp(Mpi(1, mbedtls_mpi_copy(Empty, X).p), radix, room)
mbedtls_mpi_write_string(X, radix, buflen) ==
    LET minus == X.s = -1
        need == TextRoom(mbedtls_mpi_bitlen(X), radix)
    IN  CASE radix < 2 \/ radix > 16 -> Err("BAD_INPUT_DATA")
          [] radix \in 2 .. 16 /\ buflen < need -> [err |-> "BUFFER_TOO_SMALL", olen |-> need]
          [] OTHER -> Written(TextOf(X, radix, buflen - IF minus THEN 1 ELSE 0), minus)

\* Bytes.
mbedtls_mpi_read_binary_le(input) == Mpi(1, mbedtls_mpi_core_read_le(CHARS_TO_LIMBS(Len(input)), input))
mbedtls_mpi_read_binary(input) == Mpi(1, mbedtls_mpi_core_read_be(CHARS_TO_LIMBS(Len(input)), input))
mbedtls_mpi_write_binary_le(X, n) == mbedtls_mpi_core_write_le(X.p, n)
mbedtls_mpi_write_binary(X, n) == mbedtls_mpi_core_write_be(X.p, n)

-----------------------------------------------------------------------------
\* The number theory: greatest common divisors, inverses, random numbers in a
\* range, and primes.
Into(X, p, n) == Mpi(1, p \o Zeros(AtLeast(Len(X.p) - n, 0)))
GcdResults(G, I, core, n) == [gcd |-> Into(G, core.gcd, n), inv |-> Into(I, core.inv, n)]
\* G and I = A^-1 from one loop; needs 0 <= A <= N and N odd.
mbedtls_mpi_gcd_modinv_odd(G, I, inverse, A, N) ==
    LET n == Len(N.p)
        Ap == IF Len(A.p) >= n THEN SubSeq(A.p, 1, n) ELSE IF A.p = <<>> THEN <<0>> ELSE A.p
    IN  IF \/ mbedtls_mpi_cmp_int(A, 0) < 0 \/ mbedtls_mpi_cmp_mpi(A, N) > 0
           \/ mbedtls_mpi_get_bit(N, 0) # 1 \/ (inverse /\ mbedtls_mpi_cmp_int(N, 1) = 0)
        THEN Err("BAD_INPUT_DATA")
        ELSE GcdResults(G, I, mbedtls_mpi_core_gcd_modinv_odd(Ap, N.p), n)

\* The powers of 2 are put aside, and the smaller number is A.
CommonTwos(za, zb) == IF za > zb THEN zb ELSE za
Ordered(a, b) == mbedtls_mpi_core_cond_swap(a, b, mbedtls_mpi_core_lt_ct(b, a))
GcdOdd(G, p) == mbedtls_mpi_gcd_modinv_odd(G, Empty, FALSE, Mpi(1, p[1]), Mpi(1, p[2])).gcd
GcdWithoutTwos(G, TA, TB, za, zb) ==
    mbedtls_mpi_shift_l(GcdOdd(G, Ordered(mbedtls_mpi_shift_r(TA, za).p, mbedtls_mpi_shift_r(TB, zb).p)),
                        CommonTwos(za, zb))
GcdOfMagnitudes(G, TA, TB) ==
    CASE ~mbedtls_mpi_core_check_zero_ct(TA.p) -> mbedtls_mpi_copy(G, TB)
      [] mbedtls_mpi_core_check_zero_ct(TA.p) /\ ~mbedtls_mpi_core_check_zero_ct(TB.p) ->
            mbedtls_mpi_copy(G, TA)
      [] OTHER -> GcdWithoutTwos(G, TA, TB, mbedtls_mpi_lsb(TA), mbedtls_mpi_lsb(TB))
GcdGrown(G, TA, CB) == GcdOfMagnitudes(G, TA, Mpi(1, mbedtls_mpi_grow(CB, Len(TA.p)).p))
GcdCopies(G, CA, CB) == GcdGrown(G, Mpi(1, mbedtls_mpi_grow(CA, AtLeast(Len(CB.p), 1)).p), CB)
mbedtls_mpi_gcd(G, A, B) ==
    GcdCopies(G, mbedtls_mpi_copy(Empty, A), mbedtls_mpi_copy(Empty, B))

InverseModulo(T, N) == mbedtls_mpi_gcd_modinv_odd(Empty, T, TRUE, T, N)
CopyInverse(X, g) ==
    IF mbedtls_mpi_cmp_int(g.gcd, 1) # 0 THEN Err("NOT_ACCEPTABLE") ELSE mbedtls_mpi_copy(X, g.inv)
mbedtls_mpi_inv_mod_odd(X, A, N) ==
    CopyInverse(X, InverseModulo(mbedtls_mpi_mod_mpi(Empty, A, N), N))

QuotientOf(product, G, A) ==
    mbedtls_mpi_div_mpi(G, Empty, mbedtls_mpi_sub_int(product, product, 1), A).q
InverseFrom(X, A, N, g) ==
    IF mbedtls_mpi_cmp_int(g.gcd, 1) # 0 THEN Err("NOT_ACCEPTABLE")
    ELSE mbedtls_mpi_sub_mpi(X, N, QuotientOf(mbedtls_mpi_mul_mpi(g.inv, g.inv, N), g.gcd, A))
\* N is even and A odd: from N * I = 1 + k * A it follows that A^-1 = N - k.
mbedtls_mpi_inv_mod_even_in_range(X, A, N) ==
    InverseFrom(X, A, N, InverseModulo(mbedtls_mpi_mod_mpi(Empty, N, A), A))
InverseInRange(X, AA, N) ==
    LET cmp == mbedtls_mpi_cmp_int(AA, 1)
    IN  CASE cmp < 0 -> Err("NOT_ACCEPTABLE")
          [] cmp = 0 -> mbedtls_mpi_lset(X, 1)
          [] OTHER -> mbedtls_mpi_inv_mod_even_in_range(X, AA, N)
mbedtls_mpi_inv_mod_even(X, A, N) ==
    InverseInRange(X, mbedtls_mpi_mod_mpi(Empty, A, N), N)
mbedtls_mpi_inv_mod(X, A, N) ==
    CASE mbedtls_mpi_cmp_int(N, 1) <= 0 -> Err("BAD_INPUT_DATA")
      [] mbedtls_mpi_cmp_int(N, 1) > 0 /\ mbedtls_mpi_get_bit(N, 0) = 1 ->
            mbedtls_mpi_inv_mod_odd(X, A, N)
      [] mbedtls_mpi_cmp_int(N, 1) > 0 /\ mbedtls_mpi_get_bit(N, 0) = 0
           /\ mbedtls_mpi_get_bit(A, 0) = 1 -> mbedtls_mpi_inv_mod_even(X, A, N)
      [] OTHER -> Err("NOT_ACCEPTABLE")

\* What the generator gives is an input: a sequence of byte strings.
mbedtls_mpi_fill_random(bytes) ==
    Mpi(1, mbedtls_mpi_core_fill_random(CHARS_TO_LIMBS(Len(bytes)), bytes))
mbedtls_mpi_random(min, N, draws) ==
    IF min < 0 THEN Err("BAD_INPUT_DATA")
    ELSE IF mbedtls_mpi_cmp_int(N, min) <= 0 THEN Err("BAD_INPUT_DATA")
    ELSE LET p == mbedtls_mpi_core_random(min, N.p, draws)
         IN  IF p # NoBytes THEN Mpi(1, p)
             ELSE Err(IF Len(draws) < TriesFor(N.p) THEN "NO_RANDOM" ELSE "NOT_ACCEPTABLE")

\* Trial division: 0 is undecided, 1 one of the primes themselves.
Divides(prime, X) == mbedtls_mpi_mod_int(X, prime).r = 0
FirstHit(X, hits) ==
    IF hits = {} THEN "OK"
    ELSE IF mbedtls_mpi_cmp_int(X, SmallPrimes[CHOOSE i \in hits : \A k \in hits : i <= k]) = 0
         THEN "PRIME" ELSE "NOT_ACCEPTABLE"
mpi_check_small_factors(X) ==
    IF X.p[1] % 2 = 0 THEN "NOT_ACCEPTABLE"
    ELSE FirstHit(X, {i \in DOMAIN SmallPrimes : Divides(SmallPrimes[i], X)})

\* One base of Miller and Rabin: A^R, then squared until X - 1 is reached.
RECURSIVE Square(_, _, _, _, _), Squared(_, _, _, _, _)
Square(A, W, X, s, j) ==
    IF j >= s \/ mbedtls_mpi_cmp_mpi(A, W) = 0 THEN A
    ELSE Squared(mbedtls_mpi_mod_mpi(A, mbedtls_mpi_mul_mpi(Empty, A, A), X), W, X, s, j)
Squared(T, W, X, s, j) == IF mbedtls_mpi_cmp_int(T, 1) = 0 THEN T ELSE Square(T, W, X, s, j + 1)
Reached(L, W) == mbedtls_mpi_cmp_mpi(L, W) = 0 /\ mbedtls_mpi_cmp_int(L, 1) # 0
PowerPasses(A, W, X, s) ==
    \/ mbedtls_mpi_cmp_mpi(A, W) = 0 \/ mbedtls_mpi_cmp_int(A, 1) = 0
    \/ Reached(Square(A, W, X, s, 1), W)
MillerRabinBase(A, W, R, X, s) == PowerPasses(mbedtls_mpi_exp_mod(A, A, R, X), W, X, s)

\* A random base that is too long is cut to one bit less than X - 1 has.
RandomBase(bytes, W) ==
    LET A == mbedtls_mpi_fill_random(bytes)
        k == mbedtls_mpi_bitlen(W)
        top == Len(A.p)
    IN  IF mbedtls_mpi_bitlen(A) <= k THEN A
        ELSE [A EXCEPT !.p[top] = @ % 2 ^ (k - (top - 1) * LimbBits - 1)]
GoodBase(A, W) == mbedtls_mpi_cmp_mpi(A, W) < 0 /\ mbedtls_mpi_cmp_int(A, 1) > 0

TestBase(A, W, R, X, s) == IF ~GoodBase(A, W) THEN "another" ELSE
                           IF MillerRabinBase(A, W, R, X, s) THEN "passed" ELSE "composite"

\* draws is what the generator gives, one byte string after the other.
RECURSIVE MillerRabinRounds(_, _, _, _, _, _, _), NextRound(_, _, _, _, _, _, _, _)
MillerRabinRounds(X, W, R, s, rounds, draws, count) ==
    CASE rounds = 0 -> "OK"
      [] rounds > 0 /\ draws = <<>> -> "NO_RANDOM"
      [] rounds > 0 /\ draws # <<>> /\ count >= MillerRabinTries -> "NOT_ACCEPTABLE"
      [] OTHER -> NextRound(TestBase(RandomBase(draws[1], W), W, R, X, s), X, W, R, s, rounds, draws, count)
NextRound(test, X, W, R, s, rounds, draws, count) ==
    IF test = "composite" THEN "NOT_ACCEPTABLE"
    ELSE MillerRabinRounds(X, W, R, s, rounds - IF test = "passed" THEN 1 ELSE 0, Tail(draws),
                           IF test = "passed" THEN 0 ELSE count + 1)
OddPart(X, W, s, rounds, draws) ==
    MillerRabinRounds(X, W, mbedtls_mpi_shift_r(W, s), s, rounds, draws, 0)
Predecessor(X, W, rounds, draws) == OddPart(X, W, mbedtls_mpi_lsb(W), rounds, draws)
mpi_miller_rabin(X, rounds, draws) ==
    Predecessor(X, mbedtls_mpi_sub_int(Empty, X, 1), rounds, draws)

SmallDecides(small, X, rounds, draws) ==
    IF small = "PRIME" THEN "OK" ELSE IF small # "OK" THEN small ELSE mpi_miller_rabin(X, rounds, draws)
PrimeBeyondTwo(X, rounds, draws) == SmallDecides(mpi_check_small_factors(X), X, rounds, draws)
mbedtls_mpi_is_prime_ext(X, rounds, draws) ==
    LET XX == Mpi(1, X.p)
    IN  CASE mbedtls_mpi_cmp_int(XX, 1) <= 0 -> "NOT_ACCEPTABLE"
          [] mbedtls_mpi_cmp_int(XX, 2) = 0 -> "OK"
          [] OTHER -> PrimeBeyondTwo(XX, rounds, draws)

\* The top limb is at least 2^(LimbBits - 1/2): the candidate has all its bits, and the
\* product of two has all of theirs.
CEIL_MAXUINT_DIV_SQRT2 ==
    CHOOSE c \in 0 .. Radix - 1 : c * c >= (Radix * Radix) \div 2
                                    /\ (c - 1) * (c - 1) < (Radix * Radix) \div 2
TopLimbGood(X) == X.p[Len(X.p)] >= CEIL_MAXUINT_DIV_SQRT2
OddNumber(S) == [S EXCEPT !.p[1] = @ + 1 - (@ % 2)]
CutTo(X, nbits) == OddNumber(mbedtls_mpi_shift_r(X, Len(X.p) * LimbBits - nbits))
PrimeCandidate(bytes, nbits) == CutTo(mbedtls_mpi_fill_random(bytes), nbits)
\* candidates is what the generator gives for them; one that is not a prime is dropped.
RECURSIVE GenPrime(_, _, _, _), PrimeOrNext(_, _, _, _, _, _)
GenPrime(nbits, rounds, candidates, draws) ==
    CASE candidates = <<>> -> Err("NO_RANDOM")
      [] candidates # <<>> /\ ~TopLimbGood(mbedtls_mpi_fill_random(candidates[1])) ->
            GenPrime(nbits, rounds, Tail(candidates), draws)
      [] OTHER -> PrimeOrNext(
            mbedtls_mpi_is_prime_ext(PrimeCandidate(candidates[1], nbits), rounds, draws),
            PrimeCandidate(candidates[1], nbits), nbits, rounds, Tail(candidates), draws)
PrimeOrNext(result, X, nbits, rounds, candidates, draws) ==
    CASE result = "OK" -> X
      [] result = "NOT_ACCEPTABLE" -> GenPrime(nbits, rounds, candidates, draws)
      [] OTHER -> Err(result)
mbedtls_mpi_gen_prime(nbits, rounds, candidates, draws) ==
    IF nbits < 3 THEN Err("BAD_INPUT_DATA") ELSE GenPrime(nbits, rounds, candidates, draws)

\* For Diffie-Hellman X and (X - 1) / 2 are both prime: X is moved to 11 modulo 12 and
\* then on by 12.
ThreeModuloFour(X) == [X EXCEPT !.p[1] = @ + 2 - 2 * ((@ \div 2) % 2)]
TwoModuloThree(X, r) == mbedtls_mpi_add_int(X, X, CASE r = 0 -> 8 [] r = 1 -> 4 [] OTHER -> 0)
SafeStart(X) == TwoModuloThree(X, mbedtls_mpi_mod_int(X, 3).r)
BothPrime(X, Y, rounds, draws) ==
    First4(mpi_check_small_factors(X), mpi_check_small_factors(Y),
           mpi_miller_rabin(X, rounds, draws), mpi_miller_rabin(Y, rounds, draws))
RECURSIVE SafePrime(_, _, _, _, _), SafeOrNext(_, _, _, _, _, _)
SafePrime(X, Y, rounds, draws, steps) ==
    IF steps = 0 THEN Err("NO_RANDOM")
    ELSE SafeOrNext(BothPrime(X, Y, rounds, draws), X, Y, rounds, draws, steps - 1)
SafeOrNext(result, X, Y, rounds, draws, steps) ==
    IF result # "NOT_ACCEPTABLE" THEN [ret |-> result, X |-> X]
    ELSE SafePrime(mbedtls_mpi_add_int(X, X, 12), mbedtls_mpi_add_int(Y, Y, 6), rounds, draws, steps)
SafeSearch(X, rounds, draws) == SafePrime(X, mbedtls_mpi_shift_r(X, 1), rounds, draws, SearchSteps)
GenSafePrime(nbits, rounds, candidate, draws) ==
    SafeSearch(SafeStart(ThreeModuloFour(PrimeCandidate(candidate, nbits))), rounds, draws)
=============================================================================

----------------------------- MODULE BignumCalls -----------------------------
(***************************************************************************)
(* Calls of the functions of Bignum, and what their results must be, said  *)
(* with the integers of TLA+.                                              *)
(***************************************************************************)
EXTENDS Bignum

CONSTANTS Magnitudes,     \* integers, with either sign
          Operands,       \* the ones for the functions that take many steps
          Moduli, Exponents,
          Shifts,         \* bit positions and counts
          Radices,
          Odds,           \* numbers tested for primality
          Bases           \* sequences of draws of the generator, each a byte string

\* v with zero limbs at the top.
OfInt(v, zeros) ==
    LET a == mpi_sint_abs(v)
        n == CHOOSE k \in 0 .. 3 : a < Radix ^ k /\ (k = 0 \/ a >= Radix ^ (k - 1))
    IN  Mpi(TO_SIGN(v), [i \in 1 .. n |-> (a \div Radix ^ (i - 1)) % Radix] \o Zeros(zeros))
Naturals0 == {OfInt(v, zeros) : v \in Magnitudes, zeros \in 0 .. 1}
Numbers == Naturals0 \cup {OfInt(-v, zeros) : v \in Magnitudes \ {0}, zeros \in 0 .. 1}
Stale == {Empty, Mpi(-1, <<1, 2, Radix - 1>>)}   \* what the result may hold before
LittleBytes(X, n) == [i \in 1 .. n |-> (LimbVal(X.p) \div 2 ^ (ByteWidth * (i - 1))) % 2 ^ ByteWidth]

CallSum == \E X \in Stale, A \in Numbers, B \in Numbers :
    Calls("sum", [X |-> X, A |-> A, B |-> B],
          [add |-> mbedtls_mpi_add_mpi(X, A, B), sub |-> mbedtls_mpi_sub_mpi(X, A, B),
           onto |-> mbedtls_mpi_add_mpi(B, A, B), cmp |-> mbedtls_mpi_cmp_mpi(A, B),
           lt |-> mbedtls_mpi_lt_mpi_ct(A, B)])
CallProduct == \E X \in Stale, A \in Numbers, B \in Numbers :
    /\ UsedLimbs(A.p) + UsedLimbs(B.p) <= 3
    /\ Calls("product", [X |-> X, A |-> A, B |-> B],
             [mul |-> mbedtls_mpi_mul_mpi(X, A, B),
              int |-> IF B.p = <<>> THEN mbedtls_mpi_mul_int(X, A, 0)
                      ELSE mbedtls_mpi_mul_int(X, A, B.p[1])])
CallDivision == \E X \in Stale, A \in Numbers, B \in Numbers :
    Calls("division", [A |-> A, B |-> B],
          [div |-> mbedtls_mpi_div_mpi(X, X, A, B), mod |-> mbedtls_mpi_mod_mpi(X, A, B)])
CallModInt == \E A \in Numbers, b \in {-1, 0, 1, 2, 3, HalfRadix - 1, HalfRadix} :
    Calls("mod_int", [A |-> A, b |-> b], mbedtls_mpi_mod_int(A, b))
CallBits == \E A \in Numbers, k \in Shifts, bit \in 0 .. 2 :
    Calls("bits", [A |-> A, k |-> k, bit |-> bit],
          [shl |-> mbedtls_mpi_shift_l(A, k), shr |-> mbedtls_mpi_shift_r(A, k),
           get |-> mbedtls_mpi_get_bit(A, k), set |-> mbedtls_mpi_set_bit(A, k, bit),
           lsb |-> mbedtls_mpi_lsb(A), len |-> mbedtls_mpi_bitlen(A), size |-> mbedtls_mpi_size(A),
           shrink |-> mbedtls_mpi_shrink(A, k % 4)])
CallMove == \E X \in Numbers \cup Stale, Y \in Numbers, b \in BOOLEAN :
    Calls("move", [X |-> X, Y |-> Y, b |-> b],
          [copy |-> mbedtls_mpi_copy(X, Y), assign |-> mbedtls_mpi_safe_cond_assign(X, Y, b),
           swap |-> mbedtls_mpi_safe_cond_swap(X, Y, b)])
ReadBack(A, radix, w) ==
    [write |-> w, read |-> IF IsError(w) THEN Empty ELSE mbedtls_mpi_read_string(A, radix, w.text)]
CallText == \E A \in Numbers, radix \in Radices, buflen \in {3, 40} :
    Calls("text", [A |-> A, radix |-> radix, buflen |-> buflen],
          ReadBack(A, radix, mbedtls_mpi_write_string(A, radix, buflen)))
CallBinary == \E A \in Naturals0, n \in 0 .. 7 :
    LET be == mbedtls_mpi_write_binary(A, n)
        le == mbedtls_mpi_write_binary_le(A, n)
    IN  Calls("binary", [A |-> A, n |-> n],
              [be |-> be, le |-> le,
               back |-> IF be = NoBytes THEN {A}
                        ELSE {mbedtls_mpi_read_binary(be), mbedtls_mpi_read_binary_le(le)}])

CallPower == \E a \in Operands, e \in Exponents, m \in Moduli, public \in BOOLEAN :
    LET A == OfInt(a, 0)
        N == OfInt(m, 0)
        E == OfInt(e, e % 2)
    IN  Calls("power", [A |-> A, E |-> E, N |-> N],
              mbedtls_mpi_exp_mod_optionally_safe(Empty, A, E, public, N, Empty))
CallGcd == \E X \in Stale, a \in Operands, b \in Operands :
    LET A == OfInt(a, 1)
        B == OfInt(b, 0)
    IN  X.s = B.s /\ Calls("gcd", [A |-> A, B |-> B], mbedtls_mpi_gcd(X, A, B))
CallInverse == \E A \in {OfInt(a, 1) : a \in Operands}, m \in Moduli \cup {-3, 0, 1}, zeros \in 0 .. 1 :
    Calls("inverse", [A |-> A, N |-> OfInt(m, zeros)], mbedtls_mpi_inv_mod(Empty, A, OfInt(m, zeros)))
CallRandom == \E min \in -1 .. 2, m \in Moduli, draws \in Bases :
    LET N == OfInt(m, 1)
        cut == [i \in DOMAIN draws |->
                  SubSeq(draws[i] \o draws[i] \o draws[i], 1, RandomBytes(N.p))]
    IN  Calls("random", [min |-> min, N |-> N, draws |-> cut], mbedtls_mpi_random(min, N, cut))

CallPrime == \E n \in Odds, draws \in Bases, rounds \in 1 .. 2 :
    LET X == OfInt(n, 0) IN
    Calls("is_prime", [X |-> X, draws |-> draws, rounds |-> rounds],
          mbedtls_mpi_is_prime_ext(X, rounds, draws))
CallGenPrime == \E nbits \in {2, 3, 6, 7, 8}, draws \in Bases, from \in Bases :
    Calls("gen_prime", [nbits |-> nbits, draws |-> draws],
          mbedtls_mpi_gen_prime(nbits, 1, from, draws))
CallGenSafePrime == \E nbits \in 5 .. 8, draws \in Bases, from \in Bases :
    LET X == mbedtls_mpi_fill_random(from[1]) IN
    /\ TopLimbGood(X)
    /\ Calls("gen_safe_prime", [nbits |-> nbits, draws |-> draws],
             GenSafePrime(nbits, 1, from[1], draws))

BignumNext ==
    /\ Idle
    /\ \/ CallSum \/ CallProduct \/ CallDivision \/ CallModInt \/ CallBits \/ CallMove \/ CallText
       \/ CallBinary \/ CallPower \/ CallGcd \/ CallInverse \/ CallRandom \/ CallPrime
       \/ CallGenPrime \/ CallGenSafePrime

-----------------------------------------------------------------------------
\* A number is v: there is no -0, and every limb is one.
Is(X, v) == /\ Value(X) = v
            /\ v = 0 => X.s = 1
            /\ \A i \in DOMAIN X.p : X.p[i] \in 0 .. Radix - 1

SumRight ==
    LET a == Value(call.in.A)
        b == Value(call.in.B)
    IN  /\ Is(call.out.add, a + b) /\ Is(call.out.onto, a + b) /\ Is(call.out.sub, a - b)
        /\ call.out.cmp = IF a < b THEN -1 ELSE IF a = b THEN 0 ELSE 1
        /\ ~IsError(call.out.lt) => call.out.lt.lt = (a < b)
        /\ Len(call.out.add.p) >= Len(call.in.X.p)
ProductRight ==
    LET a == Value(call.in.A)
        l == call.in.B.p
    IN  /\ Is(call.out.mul, a * Value(call.in.B))
        /\ Is(call.out.int, a * IF l = <<>> THEN 0 ELSE l[1])
DivisionRight ==
    LET a == Value(call.in.A)
        b == Value(call.in.B)
        d == call.out.div
        sign(v) == IF v < 0 THEN -1 ELSE 1
        abs(v) == v * sign(v)
        q == sign(a) * sign(b) * (abs(a) \div abs(b))
    IN  IF b = 0 THEN d = Err("DIVISION_BY_ZERO") /\ call.out.mod = d
        ELSE /\ Is(d.q, q) /\ Is(d.r, a - q * b)
             /\ IF b < 0 THEN call.out.mod = Err("NEGATIVE_VALUE") ELSE Is(call.out.mod, a % b)
ModIntRight ==
    call.out = CASE call.in.b = 0 -> Err("DIVISION_BY_ZERO")
                 [] call.in.b < 0 -> Err("NEGATIVE_VALUE")
                 [] OTHER -> [r |-> Value(call.in.A) % call.in.b]
BitsRight ==
    LET v == LimbVal(call.in.A.p)
        k == call.in.k
        bit == (v \div 2 ^ k) % 2
        out == call.out
    IN  /\ v < 2 ^ (30 - k) => Is(out.shl, call.in.A.s * v * 2 ^ k)
        /\ LimbVal(out.shr.p) = v \div 2 ^ k
        /\ out.get = bit
        /\ IF call.in.bit = 2 THEN IsError(out.set)
           ELSE LimbVal(out.set.p) = v + (call.in.bit - bit) * 2 ^ k
        /\ v # 0 => v % 2 ^ out.lsb = 0 /\ (v \div 2 ^ out.lsb) % 2 = 1
        /\ v < 2 ^ out.len /\ (v # 0 => v >= 2 ^ (out.len - 1))
        /\ (out.size - 1) * ByteWidth < out.len /\ out.len <= out.size * ByteWidth
        /\ Is(out.shrink, Value(call.in.A)) /\ Len(out.shrink.p) >= k % 4
MoveRight ==
    LET x == Value(call.in.X)
        y == Value(call.in.Y)
        out == call.out
    IN  /\ Is(out.copy, y)
        /\ Is(out.assign, IF call.in.b THEN y ELSE x)
        /\ Is(out.swap[1], IF call.in.b THEN y ELSE x) /\ Is(out.swap[2], IF call.in.b THEN x ELSE y)
\* The estimate of the room is enough for every number, and what is read back is it.
TextRight ==
    /\ ~IsError(call.out.write) => /\ Is(call.out.read, Value(call.in.A))
                                  /\ call.out.write.olen <= call.in.buflen
    /\ call.in.buflen > 30 => (IsError(call.out.write) <=> call.in.radix \notin 2 .. 16)
BinaryRight ==
    LET fits == mbedtls_mpi_size(call.in.A) <= call.in.n IN
    /\ fits <=> call.out.be # NoBytes
    /\ fits <=> call.out.le # NoBytes
    /\ fits => /\ call.out.le = LittleBytes(call.in.A, call.in.n) /\ call.out.be = Reverse(call.out.le)
               /\ \A X \in call.out.back : Is(X, Value(call.in.A))

PowerModulo(a, e, m) ==
    LET power[k \in 0 .. e] == IF k = 0 THEN 1 % m
            ELSE IF k % 2 = 1 THEN (power[k - 1] * (a % m)) % m
            ELSE LET h == power[k \div 2] IN (h * h) % m
    IN  power[e]
\* A negative multiple of the modulus gives the modulus instead of 0, and an exponent
\* without limbs gives 1 even for the modulus 1.
PowerRight ==
    LET a == Value(call.in.A)
        e == Value(call.in.E)
        m == Value(call.in.N)
    IN  CASE m % 2 = 0 -> IsError(call.out)
          [] m % 2 = 1 /\ a < 0 /\ e % 2 = 1 /\ PowerModulo(a, e, m) = 0 -> Is(call.out, m) \/ Is(call.out, 0)
          [] m = 1 /\ (a >= 0 \/ e % 2 = 0) -> Is(call.out, 0) \/ (call.in.E.p = <<>> /\ Is(call.out, 1))
          [] OTHER -> Is(call.out, PowerModulo(a, e, m))
RECURSIVE Euclid(_, _)
Euclid(a, b) == IF b = 0 THEN a ELSE Euclid(b, a % b)
GcdRight == Is(call.out, Euclid(mpi_sint_abs(Value(call.in.A)), mpi_sint_abs(Value(call.in.B))))
InverseRight ==
    LET a == Value(call.in.A)
        m == Value(call.in.N)
    IN  CASE m <= 1 -> call.out = Err("BAD_INPUT_DATA")
          [] m > 1 /\ Euclid(m, a % m) # 1 -> call.out = Err("NOT_ACCEPTABLE")
          [] OTHER -> /\ Is(call.out, Value(call.out)) /\ Value(call.out) \in 1 .. m - 1
                      /\ (Value(call.out) * (a % m)) % m = 1
\* The leading bits of what the generator gives, as many as m has; the first number in
\* range of the tries but the last.
Leading(bytes, m) ==
    LET all[i \in 0 .. Len(bytes)] == IF i = 0 THEN 0 ELSE all[i - 1] * 2 ^ ByteWidth + bytes[i]
        bits == CHOOSE k \in 1 .. 16 : m \in 2 ^ (k - 1) .. 2 ^ k - 1
    IN  all[Len(bytes)] \div 2 ^ (Len(bytes) * ByteWidth - bits)
RandomRight ==
    LET m == Value(call.in.N)
        draws == call.in.draws
        tries == IF m >= 2 ^ (ByteWidth * SmallBytes) THEN RandomTries ELSE SmallTries
        good == {i \in 1 .. tries - 1 : i <= Len(draws) /\ Leading(draws[i], m) \in call.in.min .. m - 1}
    IN  IF call.in.min < 0 \/ m <= call.in.min THEN call.out = Err("BAD_INPUT_DATA")
        ELSE IF good = {}
        THEN call.out = Err(IF Len(draws) < tries THEN "NO_RANDOM" ELSE "NOT_ACCEPTABLE")
        ELSE Is(call.out, Leading(draws[CHOOSE i \in good : \A j \in good : i <= j], m))

Prime(n) == n >= 2 /\ \A d \in 2 .. n - 1 : d * d <= n => n % d # 0
\* A base that a number passes although it may be composite.
Liar(a, n) ==
    LET s == mbedtls_mpi_lsb(OfInt(n - 1, 0))
        d == (n - 1) \div 2 ^ s
    IN  PowerModulo(a, d, n) = 1 \/ \E r \in 0 .. s - 1 : PowerModulo(a, d * 2 ^ r, n) = n - 1
IsPrimeRight ==
    LET n == Value(call.in.X)
        bases == {b \in {Value(RandomBase(call.in.draws[i], OfInt(n - 1, 0))) : i \in DOMAIN call.in.draws} :
                     1 < b /\ b < n - 1}
    IN  /\ Prime(n) => call.out # "NOT_ACCEPTABLE" \/ Len(call.in.draws) >= MillerRabinTries
        /\ call.out = "OK" /\ n > 2 /\ ~Prime(n) =>
              Cardinality({b \in bases : Liar(b, n)}) >= 1 /\ \A i \in DOMAIN SmallPrimes : n % SmallPrimes[i] # 0
GenPrimeRight ==
    IF IsError(call.out) THEN call.in.nbits < 3 <=> call.out = Err("BAD_INPUT_DATA")
    ELSE LET p == Value(call.out) IN
         mbedtls_mpi_bitlen(call.out) = call.in.nbits /\ (p + 1) * (p + 1) > 2 ^ (2 * call.in.nbits - 1)
            /\ (Prime(p) \/ \E i \in DOMAIN call.in.draws : Liar(Value(RandomBase(call.in.draws[i],
                                                                         OfInt(p - 1, 0))), p))
\* For tiny numbers the search can meet one of the small primes; it then stops with 1.
GenSafePrimeRight ==
    LET x == Value(call.out.X) IN
    ~IsError(call.out) /\ call.out.ret = "OK" => x % 12 = 11 /\ \A i \in DOMAIN SmallPrimes :
                               x % SmallPrimes[i] # 0 /\ (x \div 2) % SmallPrimes[i] # 0

\* Every function of the big-number module gives the result that the integers have, for
\* numbers of one or several limbs, with zero limbs at the top, either sign, and any
\* old contents of the result: sums and differences (the sign of 0), products, Knuth's
\* division with its corrections (bignum.c:1398), bits and shifts, text and bytes,
\* Montgomery powers with the window (bignum_core.c:856), the constant-time gcd and the
\* inverses for odd and even moduli (bignum.c:1752-2058), numbers in a range, and the
\* primality test, which never rejects a prime and accepts a composite number only for
\* bases that are strong liars.
BignumCorrect ==
    /\ Of("sum", SumRight) /\ Of("product", ProductRight) /\ Of("division", DivisionRight)
    /\ Of("mod_int", ModIntRight) /\ Of("bits", BitsRight) /\ Of("move", MoveRight)
    /\ Of("text", TextRight) /\ Of("binary", BinaryRight) /\ Of("power", PowerRight)
    /\ Of("gcd", GcdRight) /\ Of("inverse", InverseRight) /\ Of("random", RandomRight)
    /\ Of("is_prime", IsPrimeRight) /\ Of("gen_prime", GenPrimeRight)
    /\ Of("gen_safe_prime", GenSafePrimeRight)
=============================================================================

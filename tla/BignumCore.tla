----------------------------- MODULE BignumCore -----------------------------
(***************************************************************************)
(* bignum_core.c: arithmetic on arrays of limbs, the least significant one *)
(* first.  A limb has LimbBits bits in LimbBytes bytes, and arithmetic on  *)
(* it wraps; carries are found by comparing, as in the code.               *)
(***************************************************************************)
EXTENDS Status, Integers

CONSTANTS LimbBits, LimbBytes, MPI_WINDOW_SIZE,
          WindowFrom,       \* exponents of more bits than this use the window
          RandomTries, SmallTries, SmallBytes   \* of mpi_core_random: 30, 250, 4

ASSUME LimbAssumption ==
    /\ LimbBits \in Nat \ {0} /\ LimbBytes \in Nat \ {0}
    /\ LimbBits % LimbBytes = 0
    /\ MPI_WINDOW_SIZE \in Nat \ {0} /\ WindowFrom \in Nat
    /\ {RandomTries, SmallTries} \subseteq Nat \ {0} /\ SmallBytes \in Nat

Radix == 2 ^ LimbBits
ByteWidth == LimbBits \div LimbBytes
Wrap(t) == t % Radix
Carry(b) == IF b THEN 1 ELSE 0
Zeros(n) == [i \in 1 .. n |-> 0]

\* The loop  for (i = 1; i <= n; i++) r = op(r, i).  The bound variable makes TLC
\* compute each value of r before it goes on.
Iterate(op(_, _), begin, n) ==
    LET r[i \in 0 .. n] == IF i = 0 THEN begin
                           ELSE CHOOSE next \in {op(now, i) : now \in {r[i - 1]}} : TRUE
    IN  r[n]

BITS_TO_LIMBS(n) == (n + LimbBits - 1) \div LimbBits
CHARS_TO_LIMBS(n) == (n + LimbBytes - 1) \div LimbBytes

\* The number that limbs stand for.
LimbVal(p) ==
    LET v[i \in 0 .. Len(p)] == IF i = 0 THEN 0 ELSE v[i - 1] + p[i] * Radix ^ (i - 1)
    IN  v[Len(p)]

\* The number of limbs without the zeros at the top.
UsedLimbs(p) ==
    LET u[i \in 0 .. Len(p)] == IF i = 0 \/ p[i] # 0 THEN i ELSE u[i - 1] IN u[Len(p)]

\* The number of bits of a limb, which is biL - mbedtls_mpi_core_clz().
mbedtls_mpi_core_clz(a) == CHOOSE z \in 0 .. LimbBits : a < 2 ^ (LimbBits - z)
                                     /\ (z = LimbBits \/ a >= 2 ^ (LimbBits - z - 1))
mbedtls_mpi_core_bitlen(p) ==
    LET top == UsedLimbs(p)
    IN  IF top = 0 THEN 0 ELSE (top - 1) * LimbBits + LimbBits - mbedtls_mpi_core_clz(p[top])

mbedtls_mpi_core_uint_le_mpi(min, A) == A[1] >= min \/ \E i \in 2 .. Len(A) : A[i] # 0

\* Every limb is looked at, from the top, whether or not it still matters.
mbedtls_mpi_core_lt_ct(A, B) ==
    LET limb(r, k) == LET i == Len(A) - k + 1
                          done == r.done \/ B[i] < A[i]
                      IN  [lt |-> r.lt \/ (A[i] < B[i] /\ ~done), done |-> done \/ A[i] < B[i]]
    IN  Iterate(limb, [lt |-> FALSE, done |-> FALSE], Len(A)).lt

mbedtls_mpi_core_check_zero_ct(A) == \E i \in DOMAIN A : A[i] # 0
mbedtls_mpi_core_cond_assign(X, A, assign) == IF assign THEN A ELSE X
mbedtls_mpi_core_cond_swap(X, Y, swap) == IF swap THEN <<Y, X>> ELSE <<X, Y>>

mbedtls_mpi_core_shift_r(X, count) ==
    LET v0 == count \div LimbBits
        v1 == count % LimbBits
        n == Len(X)
        limb(i) == IF i + v0 > n THEN 0 ELSE X[i + v0]
    IN  IF v0 > n \/ (v0 = n /\ v1 > 0) THEN Zeros(n)
        ELSE [i \in 1 .. n |-> limb(i) \div 2 ^ v1 + Wrap(limb(i + 1) * 2 ^ (LimbBits - v1))]

mbedtls_mpi_core_shift_l(X, count) ==
    LET v0 == count \div LimbBits
        v1 == count % LimbBits
        limb(i) == IF i <= v0 THEN 0 ELSE X[i - v0]
    IN  [i \in 1 .. Len(X) |-> Wrap(limb(i) * 2 ^ v1) + limb(i - 1) \div 2 ^ (LimbBits - v1)]

AddLimb(r, a, b) ==
    LET t0 == Wrap(r.c + a)
        t == Wrap(t0 + b)
    IN  [x |-> Append(r.x, t), c |-> Carry(t0 < a) + Carry(t < b)]
mbedtls_mpi_core_add(A, B) ==
    Iterate(LAMBDA r, i : AddLimb(r, A[i], B[i]), [x |-> <<>>, c |-> 0], Len(B))
mbedtls_mpi_core_add_if(X, A, cond) ==
    mbedtls_mpi_core_add(X, IF cond THEN A ELSE Zeros(Len(A)))

SubLimb(r, a, b) ==
    LET t == Wrap(a - r.c)
    IN  [x |-> Append(r.x, Wrap(t - b)), c |-> Carry(t < b) + Carry(a < r.c)]
mbedtls_mpi_core_sub(A, B) ==
    Iterate(LAMBDA r, i : SubLimb(r, A[i], B[i]), [x |-> <<>>, c |-> 0], Len(B))
mbedtls_mpi_core_sub_int(A, c) ==
    Iterate(LAMBDA r, i : [x |-> Append(r.x, Wrap(A[i] - r.c)), c |-> Carry(Wrap(A[i] - r.c) > A[i])],
         [x |-> <<>>, c |-> c], Len(A))

\* d + s * b, with the carry that leaves d.
mbedtls_mpi_core_mla(d, s, b) ==
    LET muladdc(r, i) == LET t == d[i] + s[i] * b + r.c
                         IN  [x |-> Append(r.x, Wrap(t)), c |-> t \div Radix]
        excess(r, i) == LET t == Wrap(d[i] + r.c) IN [x |-> Append(r.x, t), c |-> Carry(t < r.c)]
    IN  Iterate(LAMBDA r, i : IF i <= Len(s) THEN muladdc(r, i) ELSE excess(r, i),
             [x |-> <<>>, c |-> 0], Len(d))

\* The product is accumulated into len limbs from limb i on.
MlaAt(X, i, len, s, b) ==
    SubSeq(X, 1, i) \o mbedtls_mpi_core_mla(SubSeq(X, i + 1, i + len), s, b).x
        \o SubSeq(X, i + len + 1, Len(X))
mbedtls_mpi_core_mul(A, B) ==
    Iterate(LAMBDA X, i : MlaAt(X, i - 1, Len(A) + 1, A, B[i]), Zeros(Len(A) + Len(B)), Len(B))

\* -1/n0 modulo a limb of width bits, by doubling the correct bits.
mbedtls_mpi_core_montmul_init(n0, width) ==
    LET limb(t) == t % 2 ^ width
        steps == [w \in {4, 8, 16, 32, 64} |-> CASE w = 4 -> 0 [] w = 8 -> 1 [] w = 16 -> 2
                                                 [] w = 32 -> 3 [] OTHER -> 4]
        start == limb(n0 + (((n0 + 2) \div 4) % 2) * 8)
    IN  limb(-Iterate(LAMBDA x, i : limb(x * limb(2 - n0 * x)), start, steps[width]))

\* A * B / R modulo N with R = Radix ^ Len(N): one limb of A at a time, and at
\* the end at most one subtraction, chosen by the carry and the borrow.
Reduces(carry, borrow) == carry = borrow
mbedtls_mpi_core_montmul(A, B, N, mm) ==
    LET n == Len(N)
        round(T, i) == LET u1 == Wrap(Wrap(T[i] + A[i] * B[1]) * mm)
                       IN  MlaAt(MlaAt(T, i - 1, n + 2, B, A[i]), i - 1, n + 2, N, u1)
        T == Iterate(round, Zeros(2 * n + 1), n)
        low == SubSeq(T, n + 1, 2 * n)
        X == mbedtls_mpi_core_sub(low, N)
    IN  IF Reduces(T[2 * n + 1], X.c) THEN X.x ELSE low

mbedtls_mpi_core_to_mont_rep(A, N, mm, rr) == mbedtls_mpi_core_montmul(A, rr, N, mm)
mbedtls_mpi_core_from_mont_rep(A, N, mm) == mbedtls_mpi_core_montmul(A, <<1>>, N, mm)

exp_mod_get_window_size(Ebits) == IF Ebits > WindowFrom THEN MPI_WINDOW_SIZE ELSE 1

\* The number of bits of E to go through: all of them, or none of the zeros at the
\* top when E is public.
exp_mod_calc_first_bit(E, public) ==
    LET bits == mbedtls_mpi_core_bitlen(E)
    IN  IF ~public THEN Len(E) * LimbBits ELSE IF bits = 0 THEN 1 ELSE bits

\* W[i + 1] = A^i in Montgomery form.
exp_mod_precompute_window(A, N, mm, RR, welem) ==
    LET one == mbedtls_mpi_core_montmul([Zeros(Len(N)) EXCEPT ![1] = 1], RR, N, mm)
    IN  Iterate(LAMBDA W, i : Append(W, mbedtls_mpi_core_montmul(W[i + 1], A, N, mm)),
             <<one, A>>, welem - 2)

BitOf(p, i) == (p[i \div LimbBits + 1] \div 2 ^ (i % LimbBits)) % 2

\* When the window is emptied: it is full, or the exponent ends.
WindowDone(bits, wsize, i) == bits = wsize \/ i = 0
EmptyWindow(X, bits, window, done, W, N, mm) ==
    IF done THEN [X |-> mbedtls_mpi_core_montmul(X, W[window + 1], N, mm), bits |-> 0, window |-> 0]
    ELSE [X |-> X, bits |-> bits, window |-> window]
mbedtls_mpi_core_exp_mod(A, N, E, RR, public) ==
    LET first == exp_mod_calc_first_bit(E, public)
        wsize == exp_mod_get_window_size((IF public THEN first \div LimbBits ELSE Len(E)) * LimbBits)
        mm == mbedtls_mpi_core_montmul_init(N[1], LimbBits)
        W == exp_mod_precompute_window(A, N, mm, RR, 2 ^ wsize)
        step(r, k) == EmptyWindow(mbedtls_mpi_core_montmul(r.X, r.X, N, mm), r.bits + 1,
                                  2 * r.window + BitOf(E, first - k),
                                  WindowDone(r.bits + 1, wsize, first - k), W, N, mm)
    IN  Iterate(step, [X |-> W[1], bits |-> 0, window |-> 0], first).X

mpi_core_sub_mod(A, B, N) ==
    LET d == mbedtls_mpi_core_sub(A, B) IN mbedtls_mpi_core_add_if(d.x, N, d.c # 0).x

\* The carry of the addition comes back as the top bit.
mbedtls_mpi_core_div2_mod_odd(X, N) ==
    LET sum == mbedtls_mpi_core_add_if(X, N, X[1] % 2 = 1)
        half == mbedtls_mpi_core_shift_r(sum.x, 1)
    IN  [half EXCEPT ![Len(X)] = @ + sum.c * 2 ^ (LimbBits - 1)]

\* One round: of u, v and v - u one is kept, one halved and one dropped, and the
\* same is done to r, q and q - r modulo N.
Odd(p) == p[1] % 2 = 1
GcdNext(uv, rq) == [u |-> uv[1], v |-> uv[2], r |-> rq[1], q |-> rq[2]]
GcdOrder(u, v, r, q, swap) ==
    GcdNext(mbedtls_mpi_core_cond_swap(u, v, swap), mbedtls_mpi_core_cond_swap(r, q, swap))
GcdKeep(u, v, r, q) == GcdOrder(u, v, r, q, mbedtls_mpi_core_lt_ct(v, u))
\* d = v - u and e = q - r.
GcdHalve(c, N, d, e, both) ==
    GcdKeep(IF both THEN c.u ELSE d,
            mbedtls_mpi_core_shift_r(IF both THEN d ELSE IF Odd(c.u) THEN c.v ELSE c.u, 1),
            IF both THEN c.r ELSE e,
            mbedtls_mpi_core_div2_mod_odd(IF both THEN e ELSE IF Odd(c.u) THEN c.q ELSE c.r, N))
GcdRound(c, N) ==
    GcdHalve(c, N, mbedtls_mpi_core_sub(c.v, c.u).x, mpi_core_sub_mod(c.q, c.r, N),
             Odd(c.u) /\ Odd(c.v))

\* As many rounds as A and N have bits together.
GcdRounds(A, N) == (Len(A) + Len(N)) * LimbBits
mbedtls_mpi_core_gcd_modinv_odd(A, N) ==
    LET n == Len(N)
        begin == [u |-> A \o Zeros(n - Len(A)), v |-> N, q |-> Zeros(n),
                  r |-> [Zeros(n) EXCEPT ![1] = 1]]
        end == Iterate(LAMBDA c, i : GcdRound(c, N), begin, GcdRounds(A, N))
    IN  [gcd |-> end.v, inv |-> end.q]

\* Bytes in memory order, the least significant byte of each limb first.
BytesOf(p) == [i \in 1 .. Len(p) * LimbBytes |->
                 (p[(i - 1) \div LimbBytes + 1] \div 2 ^ (ByteWidth * ((i - 1) % LimbBytes)))
                    % 2 ^ ByteWidth]
LimbsOf(bytes) ==
    [i \in 1 .. Len(bytes) \div LimbBytes |->
       LET b[k \in 0 .. LimbBytes] == IF k = 0 THEN 0
             ELSE b[k - 1] + bytes[(i - 1) * LimbBytes + k] * 2 ^ (ByteWidth * (k - 1))
       IN  b[LimbBytes]]

\* In place: the limbs change places and each turns its bytes around.
mbedtls_mpi_core_bigendian_to_host(p) == LimbsOf(Reverse(BytesOf(p)))

mbedtls_mpi_core_read_le(limbs, input) == LimbsOf(input \o Zeros(limbs * LimbBytes - Len(input)))
mbedtls_mpi_core_read_be(limbs, input) ==
    mbedtls_mpi_core_bigendian_to_host(
        LimbsOf(Zeros(limbs * LimbBytes - Len(input)) \o input))

\* NoBytes when a byte that is not zero would be lost.
NoBytes == <<-1>>
mbedtls_mpi_core_write_le(A, n) ==
    LET bytes == BytesOf(A) IN
    IF \E i \in n + 1 .. Len(bytes) : bytes[i] # 0 THEN NoBytes
    ELSE [i \in 1 .. n |-> IF i > Len(bytes) THEN 0 ELSE bytes[i]]
mbedtls_mpi_core_write_be(A, n) ==
    LET out == mbedtls_mpi_core_write_le(A, n) IN IF out = NoBytes THEN out ELSE Reverse(out)

\* The generator gives the bytes, most significant first, and the number is cut to
\* the bits of N at its low end; draws are what it gives at each try. The count ends
\* before the number of the last try is looked at.
mbedtls_mpi_core_fill_random(limbs, bytes) ==
    LET n == CHARS_TO_LIMBS(Len(bytes))
    IN  mbedtls_mpi_core_bigendian_to_host(LimbsOf(Zeros(n * LimbBytes - Len(bytes)) \o bytes))
            \o Zeros(limbs - n)
RandomBytes(N) == (mbedtls_mpi_core_bitlen(N) + ByteWidth - 1) \div ByteWidth
TriesFor(N) == IF RandomBytes(N) > SmallBytes THEN RandomTries ELSE SmallTries
mbedtls_mpi_core_random(min, N, draws) ==
    LET candidate(bytes) ==
            mbedtls_mpi_core_shift_r(mbedtls_mpi_core_fill_random(Len(N), bytes),
                                     ByteWidth * RandomBytes(N) - mbedtls_mpi_core_bitlen(N))
        good(X) == mbedtls_mpi_core_uint_le_mpi(min, X) /\ mbedtls_mpi_core_lt_ct(X, N)
        hits == {i \in DOMAIN draws : i < TriesFor(N) /\ good(candidate(draws[i]))}
    IN  IF hits = {} THEN NoBytes
        ELSE candidate(draws[CHOOSE i \in hits : \A j \in hits : i <= j])
=============================================================================

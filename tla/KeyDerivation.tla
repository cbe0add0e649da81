--------------------------- MODULE KeyDerivation ---------------------------
(***************************************************************************)
(* Key derivation: the calls psa_key_derivation_*() of core/psa_crypto.c   *)
(* on one operation object, with HKDF, the PRF of TLS 1.2, the key         *)
(* derivation of its PSK and J-PAKE suites, and PBKDF2.                    *)
(*                                                                         *)
(* Bytes are symbolic: a byte of output is its block and its place in it,  *)
(* and a block is the HMAC it is computed by. kin is what the caller gave  *)
(* and drew since the operation was set up, and is not in the program.     *)
(***************************************************************************)
EXTENDS Status

CONSTANTS
    HashLength,     \* PSA_HASH_LENGTH(), and the length of the PRF of PBKDF2
    LastBlock,      \* 0xff, the last number of a block in a uint8_t
    LastCount,      \* UINT32_MAX, the last number of a block of PBKDF2
    InputCost,      \* bound: the input_cost of PBKDF2 that callers give
    SizeMax,        \* SIZE_MAX
    MasterSecret,   \* 48, the bytes of a master secret of TLS 1.2
    MaxDraw,        \* bound: bytes asked for in one call
    MaxRepeats,     \* bound: times that one input is given
    MaxTries        \* bound: candidates for a key on a Weierstrass curve

ASSUME KdfAssumption ==
    /\ {HashLength, LastBlock, LastCount, InputCost, MasterSecret} \subseteq Nat \ {0}
    /\ {SizeMax, MaxDraw, MaxRepeats, MaxTries} \subseteq Nat
    /\ MasterSecret <= LastBlock * HashLength

VARIABLES
    kop,    \* psa_key_derivation_operation_t without its context
    kctx,   \* operation->ctx
    kin,    \* inputs accepted, bytes drawn, and how many could be
    kout    \* the bytes the last call gave; none unless its status was OK
kdfVars == <<kop, kctx, kin, kout>>

Hkdfs == {"HKDF", "HKDF_EXTRACT", "HKDF_EXPAND"}
Prfs == {"TLS12_PRF", "TLS12_PSK_TO_MS"}
Kdfs == Hkdfs \cup Prfs \cup {"TLS12_ECJPAKE_TO_PMS", "PBKDF2"}
ByteSteps == {"SECRET", "OTHER_SECRET", "PASSWORD", "LABEL", "SALT", "INFO", "SEED"}
KdfSteps == ByteSteps \cup {"COST"}
KeyTypes == {"DERIVE", "RAW_DATA", "PASSWORD"}

\* Terms: some data, a number, and an HMAC (or other PRF) under a key.
Data(x) == [data |-> x]
Number(n) == [number |-> n]
Hmac(key, message) == [hmac |-> key, of |-> message]
None == Data("none")
Xor(terms) == [xor |-> terms]
Byte(block, i) == [block |-> block, at |-> i]

NoCtx ==
    [state |-> "INIT", info |-> None, info_set |-> FALSE, number |-> 0, pos |-> 0,
     block |-> None, ai |-> None, key |-> None, hmac |-> None, salt |-> <<>>,
     seed |-> None, label |-> None, other |-> None, cost |-> 0]
NoKdf == [alg |-> "NONE", agreement |-> FALSE, capacity |-> 0, can_output_key |-> FALSE]
NoInput == [steps |-> [step \in KdfSteps |-> <<>>], drawn |-> 0, limit |-> 0]

KdfInit ==
    /\ kop = NoKdf
    /\ kctx = NoCtx
    /\ kin = NoInput
    /\ kout = <<>>

-----------------------------------------------------------------------------
(* Output.                                                                 *)

Going(c) == [status |-> "OK", ctx |-> c, out |-> <<>>]
Failed(c, status) == [status |-> status, ctx |-> c, out |-> <<>>]

\* Another byte of the block in hand.
Take(r, c, i) == [r EXCEPT !.ctx = c, !.out = Append(@, Byte(c.block, i))]

HkdfBlock(c) ==
    LET number == c.number + 1
        chained == IF number = 1 THEN <<>> ELSE <<c.block>>
    IN  [c EXCEPT !.number = number, !.pos = 0,
                  !.block = Hmac(c.key, chained \o <<c.info, Number(number)>>)]

HkdfOneLess(alg) == IF alg = "HKDF_EXTRACT" THEN 0 ELSE LastBlock - 1    \* mutant
HkdfLast(alg) == IF alg = "HKDF_EXTRACT" THEN 0 ELSE LastBlock

HkdfByte(alg, r) ==
    LET c == IF r.ctx.pos = HashLength THEN HkdfBlock(r.ctx) ELSE r.ctx IN
    IF r.ctx.pos = HashLength /\ r.ctx.number = HkdfLast(alg)
    THEN Failed(r.ctx, "BAD_STATE")
    ELSE Take(r, [c EXCEPT !.pos = @ + 1], c.pos)

\* pos is left_in_block here.
psa_key_derivation_tls12_prf_generate_next_block(c) ==
    LET number == c.number + 1
        seeds == <<c.label, c.seed>>
        ai == Hmac(c.key, IF number = 1 THEN seeds ELSE <<c.ai>>)
    IN  [c EXCEPT !.number = number, !.pos = HashLength, !.ai = ai,
                  !.block = Hmac(c.key, <<ai>> \o seeds)]

PrfByte(r) ==
    LET c == IF r.ctx.pos = 0
             THEN psa_key_derivation_tls12_prf_generate_next_block(r.ctx) ELSE r.ctx
    IN  IF r.ctx.pos = 0 /\ r.ctx.number = LastBlock
        THEN Failed(r.ctx, "CORRUPTION_DETECTED")
        ELSE Take(r, [c EXCEPT !.pos = @ - 1], HashLength - c.pos)

\* The input_cost rounds of a block: U_i, and the sum of those made so far.
PbkdfRounds(key, message, cost) ==
    LET first == Hmac(key, message)
        after[i \in 1 .. cost] ==
          IF i = 1 THEN [U_i |-> first, sum |-> <<first>>]
          ELSE LET U_i == Hmac(key, <<after[i - 1].U_i>>)
               IN  [U_i |-> U_i, sum |-> Append(after[i - 1].sum, U_i)]
    IN  after[cost]

psa_key_derivation_pbkdf2_generate_block(c) ==
    LET number == (c.number + 1) % (LastCount + 1)
    IN  [c EXCEPT !.number = number, !.pos = 0,
                  !.block = Xor(PbkdfRounds(c.key, Append(c.salt, Number(number)), c.cost).sum)]

PbkdfByte(r) ==
    LET c == IF r.ctx.pos = HashLength
             THEN psa_key_derivation_pbkdf2_generate_block(r.ctx) ELSE r.ctx
    IN  Take(r, [c EXCEPT !.pos = @ + 1], c.pos)

NextByte(alg, r) ==
    CASE alg \in Hkdfs -> HkdfByte(alg, r)
      [] alg \in Prfs -> PrfByte(r)
      [] OTHER -> PbkdfByte(r)

\* The loops copy the rest of a block at a time; here it is a byte at a time,
\* and a block is made when a byte is wanted and none is left.
Loop(alg, c, n) ==
    LET after[k \in 0 .. n] ==
          IF k = 0 THEN Going(c)
          ELSE LET r == after[k - 1] IN IF r.status = "OK" THEN NextByte(alg, r) ELSE r
    IN  after[n]

HkdfReady(c, alg) ==
    /\ c.state \in {"KEYED", "OUTPUT"}
    /\ c.info_set \/ alg = "HKDF_EXTRACT"

psa_key_derivation_hkdf_read(c, alg, n) ==
    IF ~HkdfReady(c, alg) THEN Failed(c, "BAD_STATE")
    ELSE Loop(alg, [c EXCEPT !.state = "OUTPUT"], n)

psa_key_derivation_tls12_prf_read(c, alg, n) ==
    IF c.state \notin {"LABEL_SET", "OUTPUT"} THEN Failed(c, "BAD_STATE")
    ELSE Loop(alg, [c EXCEPT !.state = "OUTPUT"], n)

psa_key_derivation_tls12_ecjpake_to_pms_read(c, n) ==
    IF n # HashLength THEN Failed(c, "INVALID_ARGUMENT")
    ELSE [Going(c) EXCEPT !.out = [i \in 1 .. n |-> Byte(Hmac(None, <<c.key>>), i - 1)]]

psa_key_derivation_pbkdf2_read(c, n) ==
    IF c.state \notin {"PASSWORD_SET", "OUTPUT"} THEN Failed(c, "BAD_STATE")
    ELSE Loop("PBKDF2",
              [c EXCEPT !.pos = IF c.state = "OUTPUT" THEN @ ELSE HashLength,
                        !.state = "OUTPUT"], n)

KdfRead(c, alg, n) ==
    CASE alg \in Hkdfs -> psa_key_derivation_hkdf_read(c, alg, n)
      [] alg \in Prfs -> psa_key_derivation_tls12_prf_read(c, alg, n)
      [] alg = "PBKDF2" -> psa_key_derivation_pbkdf2_read(c, n)
      [] OTHER -> psa_key_derivation_tls12_ecjpake_to_pms_read(c, n)

psa_key_derivation_abort(o) == NoKdf
\* The operation after its context is wiped: the algorithm stays after an error
\* of the output, so that the operation is exhausted and not blank.
WipeKeepingAlg(o) == [psa_key_derivation_abort(o) EXCEPT !.alg = o.alg,
                                                         !.agreement = o.agreement]

Spend(capacity, n) == capacity - n

\* psa_key_derivation_output_bytes() in state d = [op, ctx, in, ...].
psa_key_derivation_output_bytes(d, n, memory) ==
    LET early == First(Check(d.op.alg # "NONE", "BAD_STATE"),
                       Check(n # 0 \/ d.op.capacity # 0, "INSUFFICIENT_DATA"))
        r == KdfRead(d.ctx, d.op.alg, n)
        status == First3(IF n = 0 THEN "OK" ELSE memory,
                          Check(n <= d.op.capacity, "INSUFFICIENT_DATA"), r.status)
    IN  CASE early # "OK" -> [d EXCEPT !.status = early, !.out = <<>>]
          [] early = "OK" /\ status = "OK" ->
               [status |-> "OK", out |-> r.out, ctx |-> r.ctx,
                op |-> [d.op EXCEPT !.capacity = Spend(@, n)],
                in |-> [d.in EXCEPT !.drawn = @ + n]]
          [] OTHER ->
               [status |-> status, out |-> <<>>, ctx |-> NoCtx, op |-> WipeKeepingAlg(d.op),
                in |-> [NoInput EXCEPT !.drawn = d.in.drawn, !.limit = d.in.drawn]]

Now == [status |-> "OK", out |-> <<>>, ctx |-> kctx, op |-> kop, in |-> kin]

-----------------------------------------------------------------------------
(* Inputs. Each gives the status and the context after one step.           *)

Ok(c) == [status |-> "OK", ctx |-> c]
Refuse(c, status) == [status |-> status, ctx |-> c]
Accept(status, c, after) == IF status = "OK" THEN Ok(after) ELSE Refuse(c, status)

HkdfKeyed(c, alg, prk) ==
    [c EXCEPT !.state = "KEYED", !.number = 0, !.key = prk,
              !.block = IF alg = "HKDF_EXTRACT" THEN prk ELSE @,
              !.pos = IF alg = "HKDF_EXTRACT" THEN 0 ELSE HashLength]

\* fits: the secret has the length of a PRK, for HKDF-Expand.
psa_hkdf_input(c, alg, step, data, fits) ==
    CASE step = "SALT" ->
           Accept(First(Check(alg # "HKDF_EXPAND", "INVALID_ARGUMENT"),
                        Check(c.state = "INIT", "BAD_STATE")),
                  c, [c EXCEPT !.state = "STARTED", !.hmac = data])
      [] step = "SECRET" /\ alg = "HKDF_EXPAND" ->
           Accept(First(Check(c.state = "INIT", "BAD_STATE"),
                        Check(fits, "INVALID_ARGUMENT")),
                  c, HkdfKeyed(c, alg, data))
      [] step = "SECRET" /\ alg # "HKDF_EXPAND" ->
           Accept(Check(c.state = "STARTED" \/ (c.state = "INIT" /\ alg = "HKDF"),
                        "BAD_STATE"),
                  c, HkdfKeyed(c, alg, Hmac(c.hmac, <<data>>)))
      [] step = "INFO" ->
           Accept(First(Check(alg # "HKDF_EXTRACT", "INVALID_ARGUMENT"),
                        Check(/\ alg = "HKDF_EXPAND" => c.state # "INIT"
                              /\ c.state # "OUTPUT"
                              /\ ~c.info_set, "BAD_STATE")),
                  c, [c EXCEPT !.info = data, !.info_set = TRUE])
      [] OTHER -> Refuse(c, "INVALID_ARGUMENT")

psa_tls12_prf_set_key(c, secret) ==
    Accept(Check(c.state \in {"SEED_SET", "OTHER_KEY_SET"}, "BAD_STATE"),
           c, [c EXCEPT !.state = "KEY_SET", !.key = secret])

psa_tls12_prf_input(c, step, data) ==
    CASE step = "SEED" ->
           Accept(Check(c.state = "INIT", "BAD_STATE"),
                  c, [c EXCEPT !.state = "SEED_SET", !.seed = data])
      [] step = "SECRET" -> psa_tls12_prf_set_key(c, data)
      [] step = "LABEL" ->
           Accept(Check(c.state = "KEY_SET", "BAD_STATE"),
                  c, [c EXCEPT !.state = "LABEL_SET", !.label = data])
      [] OTHER -> Refuse(c, "INVALID_ARGUMENT")

\* The premaster secret: the other secret, or as many zeros as the PSK is long,
\* and the PSK. fits: the PSK is not longer than the largest one.
psa_tls12_prf_psk_to_ms_set_key(c, data, fits) ==
    IF ~fits THEN Refuse(c, "INVALID_ARGUMENT")
    ELSE LET left == IF c.state = "OTHER_KEY_SET" THEN c.other ELSE Data("zeros")
         IN  psa_tls12_prf_set_key(c, [left |-> left, psk |-> data])

psa_tls12_prf_psk_to_ms_input(c, step, data, fits) ==
    CASE step = "SECRET" -> psa_tls12_prf_psk_to_ms_set_key(c, data, fits)
      [] step = "OTHER_SECRET" ->
           Accept(Check(c.state = "SEED_SET", "BAD_STATE"),
                  c, [c EXCEPT !.state = "OTHER_KEY_SET", !.other = data])
      [] OTHER -> psa_tls12_prf_input(c, step, data)

\* fits: the data is an uncompressed point.
psa_tls12_ecjpake_to_pms_input(c, step, data, fits) ==
    Accept(Check(fits /\ step = "SECRET", "INVALID_ARGUMENT"), c, [c EXCEPT !.key = data])

psa_pbkdf2_set_input_cost(c, step, cost) ==
    Accept(First4(Check(step = "COST", "INVALID_ARGUMENT"),
                   Check(c.state = "INIT", "BAD_STATE"),
                   Check(cost # "huge", "NOT_SUPPORTED"),
                   Check(cost # "zero", "INVALID_ARGUMENT")),
           c, [c EXCEPT !.state = "INPUT_COST_SET", !.cost = InputCost])

psa_pbkdf2_input(c, step, data) ==
    CASE step = "SALT" ->
           Accept(Check(c.state \in {"INPUT_COST_SET", "SALT_SET"}, "BAD_STATE"),
                  c, [c EXCEPT !.state = "SALT_SET", !.salt = Append(@, data)])
      [] step = "PASSWORD" ->
           Accept(Check(c.state = "SALT_SET", "BAD_STATE"),
                  c, [c EXCEPT !.state = "PASSWORD_SET", !.key = data])
      [] OTHER -> Refuse(c, "INVALID_ARGUMENT")

\* A buffer of the caller has type NONE.
psa_key_derivation_check_input_type(step, type) ==
    \/ type = "NONE" /\ step \in ByteSteps
    \/ type = "DERIVE" /\ step \in {"SECRET", "OTHER_SECRET", "PASSWORD"}
    \/ type = "RAW_DATA" /\ step \in {"LABEL", "SALT", "INFO", "SEED"}
    \/ type = "PASSWORD" /\ step = "PASSWORD"

KdfInput(c, alg, step, data, fits) ==
    CASE alg \in Hkdfs -> psa_hkdf_input(c, alg, step, data, fits)
      [] alg = "TLS12_PRF" -> psa_tls12_prf_input(c, step, data)
      [] alg = "TLS12_PSK_TO_MS" -> psa_tls12_prf_psk_to_ms_input(c, step, data, fits)
      [] alg = "PBKDF2" -> psa_pbkdf2_input(c, step, data)
      [] OTHER -> psa_tls12_ecjpake_to_pms_input(c, step, data, fits)

\* The status of an input and what it does to the operation: an error aborts it.
Input(o, step, data, r, memory) ==
    LET status == First(r.status, memory) IN
    /\ kout' = <<>>
    /\ kop' = IF status = "OK" THEN o ELSE psa_key_derivation_abort(o)
    /\ kctx' = IF status = "OK" THEN r.ctx ELSE NoCtx
    /\ kin' = IF status = "OK" THEN [kin EXCEPT !.steps[step] = Append(@, data)] ELSE NoInput

psa_key_derivation_input_internal(o, step, type, data, fits, memory) ==
    LET status == First(Check(o.alg # "NONE", "BAD_STATE"),
                        Check(psa_key_derivation_check_input_type(step, type),
                              "INVALID_ARGUMENT"))
    IN  Input(o, step, data,
              IF status = "OK" THEN KdfInput(kctx, o.alg, step, data, fits)
              ELSE Refuse(kctx, status),
              memory)

-----------------------------------------------------------------------------
(* The calls.                                                              *)

\* A call that leaves the operation alone.
KdfRefuses(status) ==
    /\ kout' = <<>>
    /\ UNCHANGED <<kop, kctx, kin>>

psa_key_derivation_set_maximum_capacity(alg) ==
    CASE alg \in {"HKDF", "HKDF_EXPAND"} -> LastBlock * HashLength
      [] alg \in {"HKDF_EXTRACT", "TLS12_ECJPAKE_TO_PMS"} -> HashLength
      [] alg = "TLS12_PRF" -> SizeMax
      [] alg = "TLS12_PSK_TO_MS" -> MasterSecret
      [] OTHER -> LastCount * HashLength

\* A key agreement needs a key derivation that takes any secret.
psa_key_derivation_setup(alg, agreement) ==
    \E supported \in {"OK", "NOT_SUPPORTED", "INVALID_ARGUMENT"} :
      LET status == First3(Check(kop.alg = "NONE", "BAD_STATE"), supported,
                            Check(agreement => alg # "TLS12_ECJPAKE_TO_PMS",
                                  "INVALID_ARGUMENT"))
          capacity == psa_key_derivation_set_maximum_capacity(alg)
      IN  IF status # "OK" THEN KdfRefuses(status)
          ELSE /\ kop' = [kop EXCEPT !.alg = alg, !.agreement = agreement,
                                     !.capacity = capacity]
               /\ kctx' = NoCtx
               /\ kin' = [NoInput EXCEPT !.limit = capacity]
               /\ kout' = <<>>

KdfAbort ==
    /\ kop' = psa_key_derivation_abort(kop)
    /\ kctx' = NoCtx
    /\ kin' = NoInput
    /\ kout' = <<>>

psa_key_derivation_set_capacity(capacity) ==
    LET status == First(Check(kop.alg # "NONE", "BAD_STATE"),
                        Check(capacity <= kop.capacity, "INVALID_ARGUMENT"))
    IN  IF status # "OK" THEN KdfRefuses(status)
        ELSE /\ kop' = [kop EXCEPT !.capacity = capacity]
             /\ kin' = [kin EXCEPT !.limit = kin.drawn + capacity]
             /\ kout' = <<>>
             /\ UNCHANGED kctx

\* Without a copy of the data the operation is not aborted.
psa_key_derivation_input_bytes(step, fits) ==
    \/ KdfRefuses("INSUFFICIENT_MEMORY")
    \/ \E memory \in Memory :
         psa_key_derivation_input_internal(kop, step, "NONE",
                                           Data("bytes"), fits, memory)

psa_key_derivation_input_integer(step, cost) ==
    LET status == First(Check(kop.alg # "NONE", "BAD_STATE"),
                        Check(kop.alg = "PBKDF2", "INVALID_ARGUMENT"))
    IN  Input(kop, step, Data("bytes"),
              IF status = "OK" THEN psa_pbkdf2_set_input_cost(kctx, step, cost)
              ELSE Refuse(kctx, status),
              "OK")

\* found: whether the key exists and permits the algorithm.
psa_key_derivation_input_key(step, type, fits) ==
    \E found \in {"OK", "NOT_PERMITTED"}, memory \in Memory :
      IF found # "OK"
      THEN Input(kop, step, Data("key"), Refuse(kctx, found), "OK")
      ELSE psa_key_derivation_input_internal(
               [kop EXCEPT !.can_output_key = @ \/ step \in {"SECRET", "PASSWORD"}],
             step, type, Data("key"), fits, memory)

\* The shared secret is given as if it were a key of type DERIVE.
psa_key_derivation_key_agreement(step, fits) ==
    \E found \in {"OK", "NOT_PERMITTED"},
       agreed \in {"OK", "INVALID_ARGUMENT", "INSUFFICIENT_MEMORY"} :
      CASE ~kop.agreement -> KdfRefuses("INVALID_ARGUMENT")
        [] kop.agreement /\ found # "OK" -> KdfRefuses(found)
        [] OTHER ->
             psa_key_derivation_input_internal(
               [kop EXCEPT !.can_output_key = @ \/ step = "SECRET"],
               step, "DERIVE", Data("agreed"), fits, agreed)

Draw(d, status) ==
    /\ kop' = d.op
    /\ kctx' = d.ctx
    /\ kin' = d.in
    /\ kout' = IF First(d.status, status) = "OK" THEN d.out ELSE <<>>

KdfOutputBytes(n) ==
    \E memory \in Memory :
      Draw(psa_key_derivation_output_bytes(Now, n, memory), "OK")

\* On a Weierstrass curve candidates of n bytes are drawn until one is in range.
Candidates(n, tries, memory) ==
    LET after[k \in 0 .. tries] ==
          IF k = 0 THEN Now
          ELSE LET d == after[k - 1]
               IN  IF d.status = "OK"
                   THEN psa_key_derivation_output_bytes(d, n, memory) ELSE d
    IN  after[tries]

\* A key of n bytes. Creating it may fail before or after they are drawn.
KdfOutputKey(n, tries) ==
    \E before \in {"OK", "INVALID_ARGUMENT", "INSUFFICIENT_MEMORY"},
       memory \in Memory, after \in Memory :
      LET status == First3(Check(kop.alg # "NONE", "BAD_STATE"),
                            Check(kop.can_output_key, "NOT_PERMITTED"), before)
      IN  IF status # "OK" THEN KdfRefuses(status)
          ELSE Draw(Candidates(n, tries, memory), after)

KdfNext ==
    \/ \E alg \in Kdfs, agreement \in BOOLEAN : psa_key_derivation_setup(alg, agreement)
    \/ KdfAbort
    \/ \E capacity \in 0 .. SizeMax : psa_key_derivation_set_capacity(capacity)
    \/ \E step \in KdfSteps : \E fits \in {TRUE, step # "SECRET"} :
         /\ Len(kin.steps[step]) < MaxRepeats
         /\ \/ psa_key_derivation_input_bytes(step, fits)
            \/ \E type \in KeyTypes : psa_key_derivation_input_key(step, type, fits)
            \/ psa_key_derivation_key_agreement(step, fits)
    \/ \E step \in {"COST", "SALT"}, cost \in {"zero", "some", "huge"} :
         psa_key_derivation_input_integer(step, cost)
    \/ \E n \in 0 .. MaxDraw : KdfOutputBytes(n)
    \/ \E n \in 1 .. MaxDraw, tries \in 1 .. MaxTries : KdfOutputKey(n, tries)

KdfSpec == KdfInit /\ [][KdfNext]_kdfVars

-----------------------------------------------------------------------------
(* What the output should be, by RFC 5869, RFC 5246 and RFC 8018.          *)

Given(in, step) == IF in.steps[step] = <<>> THEN None ELSE Last(in.steps[step])

\* The inputs an algorithm needs are there, each once (the salt of PBKDF2 may
\* come in several).
Complete(alg, in) ==
    LET Once(step) == Len(in.steps[step]) = 1 IN
    CASE alg = "HKDF" -> Once("SECRET") /\ Once("INFO")
      [] alg = "HKDF_EXTRACT" -> Once("SALT") /\ Once("SECRET")
      [] alg = "HKDF_EXPAND" -> Once("SECRET") /\ Once("INFO")
      [] alg \in Prfs -> Once("SEED") /\ Once("SECRET") /\ Once("LABEL")
      [] alg = "PBKDF2" -> Once("COST") /\ in.steps["SALT"] # <<>> /\ Once("PASSWORD")
      [] OTHER -> TRUE

HkdfReference(prk, info, b) ==
    LET T[i \in 1 .. b] ==
          Hmac(prk, (IF i = 1 THEN <<>> ELSE <<T[i - 1]>>) \o <<info, Number(i)>>)
    IN  T[b]

PrfReference(secret, label, seed, b) ==
    LET A[i \in 1 .. b] == Hmac(secret, IF i = 1 THEN <<label, seed>> ELSE <<A[i - 1]>>)
    IN  Hmac(secret, <<A[b], label, seed>>)

PbkdfReference(password, salt, cost, b) ==
    LET U[i \in 1 .. cost] ==
          Hmac(password, IF i = 1 THEN Append(salt, Number(b)) ELSE <<U[i - 1]>>)
    IN  Xor(U)

Reference(alg, in, b) ==
    LET secret == Given(in, "SECRET") IN
    CASE alg = "HKDF" ->
           HkdfReference(Hmac(Given(in, "SALT"), <<secret>>), Given(in, "INFO"), b)
      [] alg = "HKDF_EXTRACT" -> Hmac(Given(in, "SALT"), <<secret>>)
      [] alg = "HKDF_EXPAND" -> HkdfReference(secret, Given(in, "INFO"), b)
      [] alg = "TLS12_PRF" ->
           PrfReference(secret, Given(in, "LABEL"), Given(in, "SEED"), b)
      [] alg = "TLS12_PSK_TO_MS" ->
           LET other == Given(in, "OTHER_SECRET")
           IN  PrfReference([left |-> IF other = None THEN Data("zeros") ELSE other,
                             psk |-> secret],
                            Given(in, "LABEL"), Given(in, "SEED"), b)
      [] alg = "PBKDF2" -> PbkdfReference(Given(in, "PASSWORD"), in.steps["SALT"], InputCost, b)
      [] OTHER -> Hmac(None, <<secret>>)

-----------------------------------------------------------------------------
(* Properties.                                                             *)

KdfStates == {"INIT", "STARTED", "KEYED", "OUTPUT", "SEED_SET", "OTHER_KEY_SET",
              "KEY_SET", "LABEL_SET", "INPUT_COST_SET", "SALT_SET", "PASSWORD_SET"}

\* The numbers of the operation stay in their widths, the place in the block
\* stays in it, and an operation that is not in use is all zero.
KdfTypeOK ==
    /\ kop \in [alg : Kdfs \cup {"NONE"}, agreement : BOOLEAN,
                capacity : Nat, can_output_key : BOOLEAN]
    /\ kctx.state \in KdfStates
    /\ kctx.pos \in 0 .. HashLength
    /\ kctx.number \in 0 .. IF kop.alg = "PBKDF2" THEN LastCount ELSE LastBlock
    /\ kop.alg = "NONE" => kop = NoKdf /\ kctx = NoCtx

\* Whatever the lengths of the requests, byte i that an operation gives is byte
\* i of the stream that the standard defines for its inputs: the rest of a block
\* is kept for the next call, blocks are chained and numbered from one, and the
\* chunks of a salt are put together in order.
KdfStreamExact ==
    LET n == Len(kout) IN
    \A i \in 1 .. n :
      LET byte == kin.drawn - n + i - 1
      IN  kout[i] = Byte(Reference(kop.alg, kin, byte \div HashLength + 1),
                             byte % HashLength)

\* No byte is given before the inputs of the algorithm were. TLS 1.2 J-PAKE is an
\* exception in the code, which keeps no state for it.
KdfInputsFirst == kout # <<>> => Complete(kop.alg, kin)

\* Bytes given and bytes that can still be drawn never exceed the capacity at
\* setup or any capacity set later, and an operation whose output failed gives
\* none, even if inputs are given to it again.
KdfWithinCapacity == kin.drawn + kop.capacity <= kin.limit

\* The capacity is never promised beyond what the block counter can number: when
\* the inputs are there, a request within the capacity is served (unless memory
\* runs out). The PRF of TLS 1.2 has no limit but its counter, and J-PAKE gives
\* all or nothing.
KdfCapacityServed ==
    \A n \in 1 .. kop.capacity :
      (/\ Complete(kop.alg, kin)
       /\ kop.alg = "TLS12_PRF" => kin.drawn + n <= LastBlock * HashLength
       /\ kop.alg = "TLS12_ECJPAKE_TO_PMS" => n = HashLength)
      => KdfRead(kctx, kop.alg, n).status = "OK"

\* A key object can be derived only from a key object: the permission of
\* psa_key_derivation_output_key() does not outlive the secret it was given for.
\* With TLS 1.2 J-PAKE a second secret may replace the first.
KdfKeyFromKey ==
    kop.can_output_key /\ kop.alg # "TLS12_ECJPAKE_TO_PMS" =>
        Given(kin, IF kop.alg = "PBKDF2" THEN "PASSWORD" ELSE "SECRET")
            \in {Data("key"), Data("agreed")}
\* Whatever calls are made in whatever order, psa_key_derivation_output_bytes()
\* and psa_key_derivation_output_key() give the stream of the algorithm over the
\* inputs in the order of its definition, no more and no less than the capacity,
\* never before the inputs are complete, and a key only from the secret of a key.
KdfCorrect ==
    /\ KdfTypeOK
    /\ KdfStreamExact
    /\ KdfInputsFirst
    /\ KdfWithinCapacity
    /\ KdfCapacityServed
    /\ KdfKeyFromKey
=============================================================================

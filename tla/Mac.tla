-------------------------------- MODULE Mac --------------------------------
(***************************************************************************)
(* Message authentication codes: the calls psa_mac_*() of                  *)
(* core/psa_crypto.c, the built-in driver psa_crypto_mac.c (HMAC, from the *)
(* hash operations) and cmac.c.                                            *)
(***************************************************************************)
EXTENDS HashEngines

CONSTANTS
    CmacBlock,      \* the block size of the cipher under CMAC
    MinMac,         \* the shortest MAC, 4 in the code
    KeyLengths,     \* bound: lengths of HMAC keys
    MaxMacced       \* bound: bytes of a message
ASSUME MacAssumption ==
    /\ CmacBlock \in Nat \ {0} /\ MinMac \in Nat \ {0} /\ MaxMacced \in Nat
    /\ KeyLengths \subseteq 0 .. HashWord - 1
    /\ (HashBlock + HashWord + MaxMacced) * ByteBits < HashWord * HashWord

VARIABLES
    mop,    \* psa_mac_operation_t
    mctx,   \* mbedtls_psa_mac_operation_t: algorithm and context
    mkey,   \* the key the operation was set up with
    mgiven, \* the bytes of the message that were accepted
    mdone   \* the MAC that the last call gave or verified, and of what
macVars == <<mop, mctx, mkey, mgiven, mdone>>

NoMac == [id |-> FALSE, is_sign |-> FALSE, mac_size |-> 0]
NoMacContext == [alg |-> "NONE"]
NoCode == [alg |-> "NONE"]

MacInit ==
    mop = NoMac /\ mctx = NoMacContext /\ mkey = <<>> /\ mgiven = <<>> /\ mdone = NoCode

-----------------------------------------------------------------------------
(* psa_crypto_mac.c and cmac.c.                                            *)

HmacHash == "SHA_256"
KeyBytes(n) == [i \in 1 .. n |-> <<"key", i>>]
Xored(pad, key) == [i \in 1 .. HashBlock |->
                      IF i <= Len(key) THEN <<pad, key[i]>> ELSE <<pad, Zero>>]

HmacKey(key) ==
    IF Len(key) > HashBlock THEN mbedtls_psa_hash_compute(HmacHash, key) ELSE key

HashMore(ctx, cells) == mbedtls_psa_hash_update(HmacHash, ctx, cells)

psa_hmac_setup_internal(key) ==
    [alg |-> "HMAC", opad |-> Xored("opad", HmacKey(key)),
     ctx |-> HashMore(mbedtls_psa_hash_setup(HmacHash), Xored("ipad", HmacKey(key)))]
psa_hmac_update_internal(c, input) == [c EXCEPT !.ctx = HashMore(@, input)]
psa_hmac_finish_internal(c, mac_size) ==
    LET inner == mbedtls_psa_hash_finish(HmacHash, c.ctx)
        outer == HashMore(HashMore(mbedtls_psa_hash_setup(HmacHash), c.opad), inner)
    IN  SubSeq(mbedtls_psa_hash_finish(HmacHash, outer), 1, mac_size)

cmac_setup == [alg |-> "CMAC", state |-> <<>>, unprocessed |-> <<>>]

Pieces(cells, n) ==
    [b \in 1 .. n |-> SubSeq(cells, (b - 1) * CmacBlock + 1, b * CmacBlock)]

\* Whole blocks to process: all but the last one, whole or not.
BlocksBeforeLast(n) ==
    LET blocks == (n + CmacBlock - 1) \div CmacBlock IN IF blocks = 0 THEN 0 ELSE blocks - 1

\* mutant: a block that becomes exactly full is processed at once
FlushesFull(held, n) == held > 0 /\ n >= CmacBlock - held
\* The block held back is processed when more comes than completes it.
Flushes(held, n) == held > 0 /\ n > CmacBlock - held

mbedtls_cipher_cmac_update(c, input) ==
    LET held == Len(c.unprocessed)
        flush == Flushes(held, Len(input))
        taken == IF flush THEN CmacBlock - held ELSE 0
        rest == SubSeq(input, taken + 1, Len(input))
        n == BlocksBeforeLast(Len(rest))
    IN  [c EXCEPT
          !.state = @ \o (IF flush THEN <<c.unprocessed \o SubSeq(input, 1, taken)>> ELSE <<>>)
                      \o Pieces(rest, n),
          !.unprocessed = (IF flush THEN <<>> ELSE @)
                            \o SubSeq(rest, n * CmacBlock + 1, Len(rest))]

cmac_pad(cells) ==
    [j \in 1 .. CmacBlock |-> CASE j <= Len(cells) -> cells[j]
                                [] j = Len(cells) + 1 -> Mark
                                [] OTHER -> Zero]
Tag(state, mac_size) == [i \in 1 .. mac_size |-> <<state, i>>]
mbedtls_cipher_cmac_finish(c, mac_size) ==
    LET last == IF Len(c.unprocessed) < CmacBlock
                THEN <<"K2", cmac_pad(c.unprocessed)>> ELSE <<"K1", c.unprocessed>>
    IN  Tag(Append(c.state, last), mac_size)

MacAlgs == {"HMAC", "CMAC"}
mac_setup(alg, key) == IF alg = "HMAC" THEN psa_hmac_setup_internal(key) ELSE cmac_setup
mbedtls_psa_mac_update(c, input) ==
    IF c.alg = "HMAC" THEN psa_hmac_update_internal(c, input)
    ELSE mbedtls_cipher_cmac_update(c, input)
psa_mac_finish_internal(c, mac_size) ==
    IF c.alg = "HMAC" THEN psa_hmac_finish_internal(c, mac_size)
    ELSE mbedtls_cipher_cmac_finish(c, mac_size)
mbedtls_psa_mac_compute(alg, key, input, mac_size) ==
    LET c == mac_setup(alg, key)
    IN  psa_mac_finish_internal(IF input = <<>> THEN c ELSE mbedtls_psa_mac_update(c, input),
                                mac_size)

-----------------------------------------------------------------------------
(* psa_crypto.c.                                                           *)

FullMac(alg) == IF alg = "HMAC" THEN HashSize ELSE CmacBlock

psa_mac_finalize_alg_and_key_validation(alg, size) ==
    First(Check(size >= MinMac, "NOT_SUPPORTED"), Check(size <= FullMac(alg), "INVALID_ARGUMENT"))

\* The driver's part; an operation that is not in use is not touched.
psa_mac_abort ==
    /\ mop' = IF mop.id THEN NoMac ELSE mop
    /\ mctx' = NoMacContext
    /\ mkey' = <<>> /\ mgiven' = <<>>

MacKeys(alg) == IF alg = "HMAC" THEN {KeyBytes(n) : n \in KeyLengths} ELSE {<<"key">>}

\* mac_size and is_sign are set before the driver is called, and stay when it
\* fails, in an operation that is not in use.
psa_mac_setup(alg, size, key, is_sign) ==
    \E policy \in {"OK", "NOT_PERMITTED"}, driver \in Memory :
      LET valid == psa_mac_finalize_alg_and_key_validation(alg, size) IN
      /\ CASE mop.id -> psa_mac_abort
           [] ~mop.id /\ First3(policy, valid, driver) = "OK" ->
                /\ mop' = [id |-> TRUE, is_sign |-> is_sign, mac_size |-> size]
                /\ mctx' = mac_setup(alg, key)
                /\ mkey' = key /\ mgiven' = <<>>
           [] OTHER ->
                /\ mop' = IF policy # "OK" THEN mop
                          ELSE [mop EXCEPT !.mac_size = size,
                                           !.is_sign = IF valid = "OK" THEN is_sign ELSE @]
                /\ UNCHANGED <<mctx, mkey, mgiven>>
      /\ mdone' = NoCode

\* Without memory for the local copy the operation stays as it is; a failure of
\* the driver ends it.
psa_mac_update(n) ==
    \E copy \in Memory, driver \in Memory :
      LET input == [i \in 1 .. n |-> <<"byte", Len(mgiven) + i>>] IN
      /\ CASE First(Check(mop.id, "BAD_STATE"), copy) # "OK" \/ n = 0 ->
                UNCHANGED <<mop, mctx, mkey, mgiven>>
           [] mop.id /\ n # 0 /\ copy = "OK" /\ driver # "OK" -> psa_mac_abort
           [] OTHER -> /\ mctx' = mbedtls_psa_mac_update(mctx, input)
                       /\ mgiven' = mgiven \o input
                       /\ UNCHANGED <<mop, mkey>>
      /\ mdone' = NoCode

MacDone(status, alg, key, given, size, mac) ==
    mdone' = IF status # "OK" THEN NoCode
             ELSE [alg |-> alg, key |-> key, given |-> given, size |-> size, mac |-> mac]

SignChecks(memory, size) ==
    First(memory, First4(Check(mop.id, "BAD_STATE"), Check(mop.is_sign, "BAD_STATE"),
                         Check(mop.mac_size # 0, "BAD_STATE"),
                         Check(size >= mop.mac_size, "BUFFER_TOO_SMALL")))

\* The operation ends whatever happens; mac_size is cleared even in one that was
\* not in use.
psa_mac_sign_finish(size) ==
    \E memory \in Memory, driver \in Memory :
      /\ mop' = IF mop.id THEN NoMac ELSE [mop EXCEPT !.mac_size = 0]
      /\ mctx' = NoMacContext /\ mkey' = <<>> /\ mgiven' = <<>>
      /\ MacDone(First(SignChecks(memory, size), driver), mctx.alg, mkey, mgiven,
                 mop.mac_size, psa_mac_finish_internal(mctx, mop.mac_size))

\* The length must be that of the MAC, then the bytes.
VerifyMac(mac, actual) ==
    First(Check(Len(mac) = Len(actual), "INVALID_SIGNATURE"),
          Check(mac = actual, "INVALID_SIGNATURE"))

psa_mac_verify_finish(mac) ==
    \E memory \in Memory, driver \in Memory :
      LET status == First(First4(Check(mop.id, "BAD_STATE"), Check(~mop.is_sign, "BAD_STATE"),
                                 memory, driver),
                          VerifyMac(mac, psa_mac_finish_internal(mctx, mop.mac_size)))
      IN  /\ psa_mac_abort
          /\ MacDone(status, mctx.alg, mkey, mgiven, mop.mac_size, mac)

MacAbort == psa_mac_abort /\ mdone' = NoCode

\* psa_mac_compute() and psa_mac_verify(), made while no operation is in use.
MacJudged(status, mac, alg, size, key, input, check) ==
    LET given == IF check = <<>> THEN mac ELSE check
    IN  MacDone(First(status, VerifyMac(given, mac)), alg, key, input, size, given)
MacAtOnce(alg, size, key, n, output_size, check) ==
    \E policy \in {"OK", "NOT_PERMITTED"}, memory \in Memory, driver \in Memory :
      LET input == [i \in 1 .. n |-> <<"byte", i>>]
          status == First4(memory, policy, psa_mac_finalize_alg_and_key_validation(alg, size),
                           First(Check(size <= output_size, "BUFFER_TOO_SMALL"), driver))
      IN  /\ MacJudged(status, mbedtls_psa_mac_compute(alg, key, input, size), alg, size, key,
                       input, check)
          /\ UNCHANGED <<mop, mctx, mkey, mgiven>>

psa_mac_compute(alg, size, key, n, output_size) ==
    MacAtOnce(alg, size, key, n, output_size, <<>>)
psa_mac_verify(alg, size, key, n, mac) == MacAtOnce(alg, size, key, n, FullMac(alg), mac)

\* RFC 2104 and RFC 4493.
HmacReference(key, cells) ==
    LET k == IF Len(key) > HashBlock THEN Sha256Reference(key) ELSE key
        pad(name) == [i \in 1 .. HashBlock |->
                        <<name, IF i \in DOMAIN k THEN k[i] ELSE Zero>>]
    IN  Sha256Reference(pad("opad") \o Sha256Reference(pad("ipad") \o cells))
CmacReference(cells) ==
    LET whole == cells # <<>> /\ Len(cells) % CmacBlock = 0
        padded == IF whole THEN cells
                  ELSE cells \o <<Mark>> \o
                       [i \in 1 .. CmacBlock - 1 - (Len(cells) % CmacBlock) |-> Zero]
        blocks == Len(padded) \div CmacBlock
    IN  Tag(Append(Pieces(padded, blocks - 1),
                   <<IF whole THEN "K1" ELSE "K2",
                     SubSeq(padded, Len(padded) - CmacBlock + 1, Len(padded))>>), CmacBlock)
MacReference(alg, key, cells, size) ==
    SubSeq(IF alg = "HMAC" THEN HmacReference(key, cells) ELSE CmacReference(cells), 1, size)

\* What a caller may present: the MAC, a shorter one, another one.
PresentedMacs(mac) ==
    {mac, SubSeq(mac, 1, Len(mac) - 1), [i \in DOMAIN mac |-> Zero]} \ {<<>>}
MacSizes == MinMac - 1 .. CmacBlock + 1

MacNext ==
    \/ \E alg \in MacAlgs, size \in MacSizes, is_sign \in BOOLEAN :
         \E key \in MacKeys(alg) : psa_mac_setup(alg, size, key, is_sign)
    \/ \E n \in 0 .. MaxMacced - Len(mgiven) : n < HashWord /\ psa_mac_update(n)
    \/ \E size \in {MinMac, CmacBlock} : psa_mac_sign_finish(size)
    \/ \E mac \in PresentedMacs(IF mop.id
                                THEN MacReference(mctx.alg, mkey, mgiven, mop.mac_size)
                                ELSE <<Zero>>) : psa_mac_verify_finish(mac)
    \/ MacAbort
    \/ \E alg \in MacAlgs, size \in MacSizes, n \in 0 .. HashWord - 1,
          output_size \in {MinMac, CmacBlock} :
         \E key \in MacKeys(alg) :
           mop = NoMac /\ psa_mac_compute(alg, size, key, n, output_size)
    \/ \E alg \in MacAlgs, size \in MinMac .. HashSize, n \in 0 .. HashWord - 1 :
         \E key \in MacKeys(alg) :
           \E mac \in PresentedMacs(MacReference(alg, key,
                                                 [i \in 1 .. n |-> <<"byte", i>>], size)) :
             mop = NoMac /\ psa_mac_verify(alg, size, key, n, mac)

MacSpec == MacInit /\ [][MacNext]_macVars

-----------------------------------------------------------------------------
(* Properties.                                                             *)

\* An operation in use has a MAC size that its algorithm allows, one that is not
\* has no key, and CMAC holds back at most one block.
MacTypeOK ==
    /\ mop.id <=> mctx # NoMacContext
    /\ mop.id => mop.mac_size \in MinMac .. FullMac(mctx.alg)
    /\ mop.id /\ mctx.alg = "CMAC" => Len(mctx.unprocessed) <= CmacBlock

\* However the message is cut into chunks, the MAC of an operation is that of the
\* key and of the bytes it accepted, cut to the size of the algorithm: the last
\* block of CMAC gets the right subkey, a long HMAC key is hashed, and a call that
\* failed without ending the operation left nothing behind.
MacExact ==
    mop.id => psa_mac_finish_internal(mctx, mop.mac_size)
                = MacReference(mctx.alg, mkey, mgiven, mop.mac_size)

\* A MAC that a call gives or accepts is the whole MAC of the message: neither a
\* shorter one nor one of another message is accepted.
MacDoneExact ==
    mdone # NoCode =>
      mdone.mac = MacReference(mdone.alg, mdone.key, mdone.given, mdone.size)
\* However a message is cut, psa_mac_sign_finish() gives and
\* psa_mac_verify_finish() accepts the MAC of the whole message, at the length
\* that the algorithm asks for, and no other.
MacCorrect ==
    /\ MacTypeOK
    /\ MacExact
    /\ MacDoneExact
=============================================================================

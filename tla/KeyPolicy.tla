------------------------------ MODULE KeyPolicy ------------------------------
(***************************************************************************)
(* The rules about keys (core/psa_crypto.c): which attributes, material    *)
(* and size make a key, which algorithms its policy permits, what becomes  *)
(* of the policy in a copy, and which checks an operation makes before it  *)
(* hands the key to a driver.                                              *)
(*                                                                         *)
(* The slot that holds the key, and the calls that fail for want of one,   *)
(* are in KeyStore; the buffers for results are large enough.  A key is    *)
(* here its attributes.  Its material is [bytes, good, bits]: the length,  *)
(* whether the driver can read it, and the size of the modulus of an RSA   *)
(* key.                                                                    *)
(***************************************************************************)
EXTENDS Algorithms, Status, FiniteSets

NoKey == [type |-> 0]
\* What a call that makes a key gives back.
Made(status, key) == [status |-> status, key |-> IF status = "OK" THEN key ELSE NoKey]
Bytes2Bits(bytes) == 8 * bytes
Bits2Bytes(bits) == (bits + 7) \div 8

psa_extend_key_usage_flags(usage) ==
    usage \cup {f \in {"SIGN_MESSAGE"} : "SIGN_HASH" \in usage}
          \cup {f \in {"VERIFY_MESSAGE"} : "VERIFY_HASH" \in usage}

-----------------------------------------------------------------------------
(* Policies of algorithms.                                                 *)

psa_mac_key_can_do(alg, type) ==
    \/ PSA_ALG_IS_HMAC(alg) /\ type = PSA_KEY_TYPE_HMAC
    \/ PSA_ALG_IS_BLOCK_CIPHER_MAC(alg) /\ PSA_BLOCK_CIPHER_BLOCK_LENGTH(type) > 1

SameMac(a, b) == /\ PSA_ALG_IS_MAC(a) /\ PSA_ALG_IS_MAC(b)
                 /\ PSA_ALG_FULL_LENGTH_MAC(a) = PSA_ALG_FULL_LENGTH_MAC(b)
SameAead(a, b) == /\ PSA_ALG_IS_AEAD(a) /\ PSA_ALG_IS_AEAD(b)
                  /\ MBEDTLS_PSA_ALG_AEAD_EQUAL(a, b)
SameSignature(a, b) == /\ PSA_ALG_IS_SIGN_HASH(a) /\ PSA_ALG_IS_SIGN_HASH(b)
                       /\ Family(a) = Family(b)
AnyHash(alg) == PSA_ALG_SIGN_GET_HASH(alg) = PSA_ALG_ANY_HASH
Longer(m, n) == IF m > n THEN m ELSE n

\* Two algorithms of a family with the lengths m and n, each exact or a minimum; both is the
\* minimum for two minimal lengths, and exact the result for two exact ones.
NarrowerOf(both, a, m, b, n, exact) ==
    CASE AtLeastFlag(a) /\ AtLeastFlag(b) -> OfAtLeast(a, both)
      [] AtLeastFlag(a) /\ ~AtLeastFlag(b) /\ m <= n -> b
      [] ~AtLeastFlag(a) /\ AtLeastFlag(b) /\ n <= m -> a
      [] ~AtLeastFlag(a) /\ ~AtLeastFlag(b) /\ m = n -> exact
      [] OTHER -> 0
\* mutant: the less restrictive of the two lengths
NarrowerSwapped(a, m, b, n, exact) == NarrowerOf(m + n - Longer(m, n), a, m, b, n, exact)
Narrower(a, m, b, n, exact) == NarrowerOf(Longer(m, n), a, m, b, n, exact)

psa_key_policy_algorithm_intersection(type, a, b) ==
    CASE a = b -> a
      [] a # b /\ SameSignature(a, b) /\ AnyHash(a) -> b
      [] a # b /\ SameSignature(a, b) /\ AnyHash(b) -> a
      [] a # b /\ SameAead(a, b) ->
             Narrower(a, PSA_ALG_AEAD_GET_TAG_LENGTH(a), b, PSA_ALG_AEAD_GET_TAG_LENGTH(b), 0)
      [] a # b /\ SameMac(a, b) /\ psa_mac_key_can_do(a, type) ->
             Narrower(a, PSA_MAC_LENGTH(type, a), b, PSA_MAC_LENGTH(type, b),
                      PSA_ALG_TRUNCATED_MAC(a, PSA_MAC_LENGTH(type, a)))
      [] OTHER -> 0

MacPermits(type, policy, full, requested) ==
    /\ psa_mac_key_can_do(policy, type)
    /\ CASE PSA_MAC_TRUNCATED_LENGTH(policy) = 0 -> PSA_MAC_LENGTH(type, requested) = full
         [] PSA_MAC_TRUNCATED_LENGTH(policy) # 0 ->
                \/ PSA_MAC_TRUNCATED_LENGTH(requested) = 0
                   /\ PSA_MAC_TRUNCATED_LENGTH(policy) = full
                \/ AtLeastFlag(policy)
                   /\ PSA_MAC_TRUNCATED_LENGTH(policy) <= PSA_MAC_LENGTH(type, requested)

psa_key_algorithm_permits(type, policy, requested) ==
    \/ requested = policy
    \/ PSA_ALG_IS_SIGN_HASH(requested) /\ AnyHash(policy) /\ Family(policy) = Family(requested)
    \/ SameAead(policy, requested) /\ AtLeastFlag(policy)
       /\ PSA_ALG_AEAD_GET_TAG_LENGTH(policy) <= PSA_ALG_AEAD_GET_TAG_LENGTH(requested)
    \/ SameMac(policy, requested)
       /\ MacPermits(type, policy, PSA_MAC_LENGTH(type, PSA_ALG_FULL_LENGTH_MAC(requested)), requested)
    \/ PSA_ALG_IS_RAW_KEY_AGREEMENT(policy) /\ PSA_ALG_IS_KEY_AGREEMENT(requested)
       /\ PSA_ALG_KEY_AGREEMENT_GET_BASE(requested) = policy
    \/ policy = PSA_ALG_JPAKE_BETA /\ PSA_ALG_IS_JPAKE(requested)

psa_key_policy_permits(key, alg) ==
    First(Check(alg # 0 /\ ~PSA_ALG_IS_WILDCARD(alg), "INVALID_ARGUMENT"),
          Check(\E policy \in {key.alg, key.alg2} : psa_key_algorithm_permits(key.type, policy, alg),
                "NOT_PERMITTED"))

Fits(meet, a, b) == meet # 0 \/ a = 0 \/ b = 0
\* [status, usage, alg, alg2], from the intersections of the algorithms
Restricted(p, constraint, algs) ==
    [status |-> Check(/\ Fits(algs[1], p.alg, constraint.alg)
                      /\ Fits(algs[2], p.alg2, constraint.alg2), "INVALID_ARGUMENT"),
     usage |-> p.usage \cap constraint.usage, alg |-> algs[1], alg2 |-> algs[2]]
psa_restrict_key_policy(type, p, constraint) ==
    Restricted(p, constraint,
               [i \in 1 .. 2 |-> psa_key_policy_algorithm_intersection(
                                    type, <<p.alg, p.alg2>>[i], <<constraint.alg, constraint.alg2>>[i])])

-----------------------------------------------------------------------------
(* Attributes.                                                             *)

PSA_MAX_KEY_BITS == 65528
UsageFlags == {"EXPORT", "COPY", "ENCRYPT", "DECRYPT", "SIGN_MESSAGE", "VERIFY_MESSAGE",
               "SIGN_HASH", "VERIFY_HASH", "VERIFY_DERIVATION", "DERIVE"}

psa_validate_key_policy(a) == Check(a.usage \subseteq UsageFlags, "INVALID_ARGUMENT")
psa_validate_key_persistence(lifetime) == Check(lifetime # "READ_ONLY", "INVALID_ARGUMENT")

psa_validate_key_attributes(a) ==
    First4(psa_validate_key_persistence(a.lifetime),
           Check(a.id = IF a.lifetime = "VOLATILE" THEN "none" ELSE "user", "INVALID_ARGUMENT"),
           psa_validate_key_policy(a),
           Check(a.bits <= PSA_MAX_KEY_BITS, "NOT_SUPPORTED"))

psa_validate_optional_attributes(key, a) ==
    Check(a.type \in {0, key.type} /\ a.bits \in {0, key.bits}, "INVALID_ARGUMENT")

psa_is_dh_key_size_valid(bits) == bits \in {2048, 3072, 4096, 6144, 8192}
psa_validate_unstructured_key_bit_size(type, bits) ==
    CASE type \in {PSA_KEY_TYPE_RAW_DATA, PSA_KEY_TYPE_HMAC, PSA_KEY_TYPE_DERIVE,
                   PSA_KEY_TYPE_PASSWORD, PSA_KEY_TYPE_PASSWORD_HASH} ->
             Check(bits % 8 = 0, "INVALID_ARGUMENT")
      [] type \in {PSA_KEY_TYPE_AES, PSA_KEY_TYPE_ARIA, PSA_KEY_TYPE_CAMELLIA} ->
             Check(bits \in {128, 192, 256}, "INVALID_ARGUMENT")
      [] type = PSA_KEY_TYPE_CHACHA20 -> Check(bits = 256, "INVALID_ARGUMENT")
      [] OTHER -> "NOT_SUPPORTED"

-----------------------------------------------------------------------------
(* What the drivers make of the material: [status, bits].                  *)

\* The sizes of the curves, and of the ones that are built in.
CurveSizes(family) == CASE family = PSA_ECC_FAMILY_SECP_R1 -> {192, 224, 256, 384, 521}
                        [] family = PSA_ECC_FAMILY_BRAINPOOL_P_R1 -> {256, 384, 512}
                        [] family = PSA_ECC_FAMILY_MONTGOMERY -> {255, 448}
                        [] family = PSA_ECC_FAMILY_SECP_K1 -> {192, 256}
                        [] OTHER -> {}
mbedtls_ecc_group_from_psa(family, bits) ==
    bits \in CurveSizes(family) \ (IF family = PSA_ECC_FAMILY_SECP_K1 THEN {192} ELSE {192, 224})
\* A size that was inferred from a length in bytes is too large by the bits of padding.
ExactBits(family, bits) == CASE family = PSA_ECC_FAMILY_SECP_R1 /\ bits = 528 -> 521
                             [] family = PSA_ECC_FAMILY_MONTGOMERY /\ bits = 256 -> 255
                             [] OTHER -> bits
check_ecc_parameters(family, bits) ==
    Check(ExactBits(family, bits) \in CurveSizes(family), "INVALID_ARGUMENT")

WithPoint(type) == /\ PSA_KEY_TYPE_IS_PUBLIC_KEY(type)
                   /\ PSA_KEY_TYPE_ECC_GET_FAMILY(type) # PSA_ECC_FAMILY_MONTGOMERY
LoadOnCurve(family, bits, data, curve_bytes, even) ==
    LET curve_bits == IF bits # 0 THEN bits ELSE Bytes2Bits(curve_bytes)
    IN  [status |-> First(Check(even, "INVALID_ARGUMENT"),
                    First4(Check(bits # 0 => curve_bytes = Bits2Bytes(bits), "INVALID_ARGUMENT"),
                           check_ecc_parameters(family, curve_bits),
                           Check(mbedtls_ecc_group_from_psa(family, ExactBits(family, curve_bits)),
                                 "NOT_SUPPORTED"),
                           Check(data.good, "INVALID_ARGUMENT"))),
         bits |-> ExactBits(family, curve_bits)]
mbedtls_psa_ecp_load_representation(type, bits, data) ==
    LoadOnCurve(PSA_KEY_TYPE_ECC_GET_FAMILY(type), bits, data,
                IF WithPoint(type) THEN data.bytes \div 2 ELSE data.bytes,
                WithPoint(type) => data.bytes % 2 = 1)

PSA_VENDOR_RSA_MAX_KEY_BITS == 4096
mbedtls_psa_rsa_load_representation(data) ==
    LET bits == Bytes2Bits(Bits2Bytes(data.bits))
    IN  [status |-> First3(Check(data.good, "INVALID_ARGUMENT"),
                           Check(bits <= PSA_VENDOR_RSA_MAX_KEY_BITS, "NOT_SUPPORTED"),
                           Check(data.bits % 8 = 0, "NOT_SUPPORTED")),
         bits |-> bits]

psa_import_key_into_slot(a, data) ==
    LET bits == Bytes2Bits(data.bytes) IN
    CASE data.bytes = 0 -> [status |-> "NOT_SUPPORTED", bits |-> 0]
      [] data.bytes # 0 /\ PSA_KEY_TYPE_IS_UNSTRUCTURED(a.type) ->
             [status |-> psa_validate_unstructured_key_bit_size(a.type, bits), bits |-> bits]
      [] data.bytes # 0 /\ PSA_KEY_TYPE_IS_DH(a.type) ->
             [status |-> Check(psa_is_dh_key_size_valid(bits), "NOT_SUPPORTED"), bits |-> bits]
      [] data.bytes # 0 /\ PSA_KEY_TYPE_IS_ECC(a.type) ->
             mbedtls_psa_ecp_load_representation(a.type, a.bits, data)
      [] data.bytes # 0 /\ PSA_KEY_TYPE_IS_RSA(a.type) -> mbedtls_psa_rsa_load_representation(data)
      [] OTHER -> [status |-> "NOT_SUPPORTED", bits |-> 0]

-----------------------------------------------------------------------------
(* The calls that make a key.                                              *)

\* psa_key_bits_t is uint16_t.
StoredBits(bits) == bits % 2 ^ 16
\* The key that was read; its size is checked against the one that was asked for.
ReadKey(a, data, read) ==
    LET key == [a EXCEPT !.bits = IF a.bits = 0 THEN StoredBits(read.bits) ELSE a.bits]
    IN  Made(First4(read.status,
                    Check(a.bits \in {0, read.bits}, "INVALID_ARGUMENT"),
                    Check(read.bits <= PSA_MAX_KEY_BITS, "NOT_SUPPORTED"),
                    psa_validate_optional_attributes(key, a)),
             key)
psa_import_key(a, data) ==
    LET status == First3(Check(data.bytes # 0, "INVALID_ARGUMENT"),
                         psa_validate_key_attributes(a),
                         Check(a.local, "INVALID_ARGUMENT"))
    IN  IF status # "OK" THEN Made(status, NoKey)
        ELSE ReadKey(a, data, psa_import_key_into_slot(a, data))

PSA_VENDOR_RSA_GENERATE_MIN_KEY_BITS == 1024
psa_validate_key_type_and_size_for_key_generation(type, bits) ==
    CASE PSA_KEY_TYPE_IS_UNSTRUCTURED(type) -> psa_validate_unstructured_key_bit_size(type, bits)
      [] type = PSA_KEY_TYPE_RSA_KEY_PAIR ->
             Check(/\ bits \in PSA_VENDOR_RSA_GENERATE_MIN_KEY_BITS .. PSA_VENDOR_RSA_MAX_KEY_BITS
                   /\ bits % 8 = 0, "NOT_SUPPORTED")
      [] PSA_KEY_TYPE_IS_ECC(type) /\ PSA_KEY_TYPE_IS_KEY_PAIR(type) -> "OK"
      [] PSA_KEY_TYPE_IS_DH(type) /\ PSA_KEY_TYPE_IS_KEY_PAIR(type) ->
             Check(psa_is_dh_key_size_valid(bits), "NOT_SUPPORTED")
      [] OTHER -> "NOT_SUPPORTED"
psa_generate_key_internal(a) ==
    Check(PSA_KEY_TYPE_IS_ECC(a.type) =>
              mbedtls_ecc_group_from_psa(PSA_KEY_TYPE_ECC_GET_FAMILY(a.type), a.bits),
          "NOT_SUPPORTED")
psa_generate_key(a) ==
    Made(First3(Check(a.bits # 0 /\ ~PSA_KEY_TYPE_IS_PUBLIC_KEY(a.type), "INVALID_ARGUMENT"),
                psa_validate_key_attributes(a),
         First3(Check(a.local, "INVALID_ARGUMENT"),
                psa_validate_key_type_and_size_for_key_generation(a.type, a.bits),
                psa_generate_key_internal(a))),
         a)

-----------------------------------------------------------------------------
(* The uses of a key.  OK: the driver gets it.                             *)

psa_get_and_lock_key_slot_with_policy(key, usage, alg) ==
    LET needed == IF PSA_KEY_TYPE_IS_PUBLIC_KEY(key.type) THEN usage \ {"EXPORT"} ELSE usage
    IN  First(Check(needed \subseteq key.usage, "NOT_PERMITTED"),
              IF alg = 0 THEN "OK" ELSE psa_key_policy_permits(key, alg))
psa_get_and_lock_transparent_key_slot_with_policy(key, usage, alg) ==
    First(psa_get_and_lock_key_slot_with_policy(key, usage, alg), Check(key.local, "NOT_SUPPORTED"))

CopyTo(key, a, policy, copy) ==
    Made(First4(psa_get_and_lock_key_slot_with_policy(key, {"COPY"}, 0),
                psa_validate_optional_attributes(key, a),
                policy.status,
          First(psa_validate_key_attributes(copy), Check(a.local = key.local, "NOT_SUPPORTED"))),
         copy)
CopyUnder(key, a, policy) ==
    CopyTo(key, a, policy, [a EXCEPT !.type = key.type, !.bits = key.bits, !.usage = policy.usage,
                                     !.alg = policy.alg, !.alg2 = policy.alg2])
psa_copy_key(key, a) == CopyUnder(key, a, psa_restrict_key_policy(key.type, a, key))

psa_export_key(key) == psa_get_and_lock_key_slot_with_policy(key, {"EXPORT"}, 0)
psa_export_public_key(key) ==
    First(psa_get_and_lock_key_slot_with_policy(key, {}, 0),
          Check(PSA_KEY_TYPE_IS_ASYMMETRIC(key.type), "INVALID_ARGUMENT"))

MacSizeFits(mac_size, full) == First(Check(mac_size >= 4, "NOT_SUPPORTED"),
                                     Check(mac_size <= full, "INVALID_ARGUMENT"))
\* psa_mac_setup(), whose streaming is in Mac.
MacAlgFitsKey(type, alg) ==
    First3(Check(PSA_ALG_IS_MAC(alg), "INVALID_ARGUMENT"),
           Check(psa_mac_key_can_do(alg, type), "INVALID_ARGUMENT"),
           MacSizeFits(PSA_MAC_LENGTH(type, alg), PSA_MAC_LENGTH(type, PSA_ALG_FULL_LENGTH_MAC(alg))))
MacMayStart(key, alg, is_sign) ==
    First(psa_get_and_lock_key_slot_with_policy(
              key, {IF is_sign THEN "SIGN_MESSAGE" ELSE "VERIFY_MESSAGE"}, alg),
          MacAlgFitsKey(key.type, alg))

is_hash_supported(hash_alg) ==
    hash_alg \in {PSA_ALG_SHA_1, PSA_ALG_SHA_256, PSA_ALG_SHA_384, PSA_ALG_SHA_512}
SignHashAllowed(is_message, hash_alg) ==
    First(Check(hash_alg # PSA_ALG_ANY_HASH /\ (is_message => hash_alg # 0), "INVALID_ARGUMENT"),
          Check(hash_alg = 0 \/ is_hash_supported(hash_alg), "NOT_SUPPORTED"))
psa_sign_verify_check_alg(is_message, alg) ==
    First(Check(is_message => PSA_ALG_IS_SIGN_MESSAGE(alg), "INVALID_ARGUMENT"),
          SignHashAllowed(is_message, PSA_ALG_SIGN_GET_HASH(alg)))
\* psa_sign_hash_builtin() and psa_verify_hash_builtin(), which both get the message too,
\* once it is hashed.
SignatureFits(key, alg, rsa) ==
    CASE rsa -> Check(PSA_ALG_IS_RSA_PKCS1V15_SIGN(alg) \/ PSA_ALG_IS_RSA_PSS(alg), "INVALID_ARGUMENT")
      [] ~rsa /\ PSA_KEY_TYPE_IS_ECC(key.type) -> Check(PSA_ALG_IS_ECDSA(alg), "INVALID_ARGUMENT")
      [] OTHER -> "NOT_SUPPORTED"
psa_sign_internal(key, is_message, alg) ==
    First4(psa_sign_verify_check_alg(is_message, alg),
           psa_get_and_lock_key_slot_with_policy(
               key, {IF is_message THEN "SIGN_MESSAGE" ELSE "SIGN_HASH"}, alg),
           Check(PSA_KEY_TYPE_IS_KEY_PAIR(key.type), "INVALID_ARGUMENT"),
           SignatureFits(key, alg, key.type = PSA_KEY_TYPE_RSA_KEY_PAIR))
psa_verify_internal(key, is_message, alg) ==
    First3(psa_sign_verify_check_alg(is_message, alg),
           psa_get_and_lock_key_slot_with_policy(
               key, {IF is_message THEN "VERIFY_MESSAGE" ELSE "VERIFY_HASH"}, alg),
           SignatureFits(key, alg, PSA_KEY_TYPE_IS_RSA(key.type)))

psa_asymmetric_encrypt(key, alg, salted) ==
    First3(Check(salted => PSA_ALG_IS_RSA_OAEP(alg), "INVALID_ARGUMENT"),
           psa_get_and_lock_key_slot_with_policy(key, {"ENCRYPT"}, alg),
           Check(\/ PSA_KEY_TYPE_IS_PUBLIC_KEY(key.type)
                 \/ PSA_KEY_TYPE_IS_KEY_PAIR(key.type), "INVALID_ARGUMENT"))
psa_asymmetric_decrypt(key, alg, salted) ==
    First3(Check(salted => PSA_ALG_IS_RSA_OAEP(alg), "INVALID_ARGUMENT"),
           psa_get_and_lock_key_slot_with_policy(key, {"DECRYPT"}, alg),
           Check(PSA_KEY_TYPE_IS_KEY_PAIR(key.type), "INVALID_ARGUMENT"))

\* agrees: what the driver says of the key of the peer.
psa_key_agreement_raw_builtin(key, alg, agrees) ==
    IF alg \notin {PSA_ALG_ECDH, PSA_ALG_FFDH} THEN "NOT_SUPPORTED"
    ELSE First(Check(/\ PSA_KEY_TYPE_IS_KEY_PAIR(key.type)
                     /\ IF alg = PSA_ALG_ECDH THEN PSA_KEY_TYPE_IS_ECC(key.type)
                        ELSE PSA_KEY_TYPE_IS_DH(key.type), "INVALID_ARGUMENT"),
               agrees)
psa_raw_key_agreement(key, alg, agrees) ==
    First4(Check(PSA_ALG_IS_KEY_AGREEMENT(alg), "INVALID_ARGUMENT"),
           psa_get_and_lock_transparent_key_slot_with_policy(key, {"DERIVE"}, alg),
           Check(PSA_ALG_IS_RAW_KEY_AGREEMENT(alg), "NOT_SUPPORTED"),
           psa_key_agreement_raw_builtin(key, alg, agrees))
validate_key_agreement_params(a, alg) ==
    First(Check(PSA_ALG_IS_RAW_KEY_AGREEMENT(alg), "NOT_SUPPORTED"),
          Check(a.type \in {PSA_KEY_TYPE_DERIVE, PSA_KEY_TYPE_RAW_DATA, PSA_KEY_TYPE_HMAC,
                            PSA_KEY_TYPE_PASSWORD}, "INVALID_ARGUMENT"))
\* The shared secret becomes a key like any other.
psa_key_agreement(key, alg, agrees, a) ==
    LET status == First(validate_key_agreement_params(a, alg), psa_raw_key_agreement(key, alg, agrees))
    IN  IF status = "OK" THEN psa_import_key(a, [bytes |-> Bits2Bytes(key.bits), good |-> TRUE, bits |-> 0])
        ELSE Made(status, NoKey)
=============================================================================

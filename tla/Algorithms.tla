----------------------------- MODULE Algorithms -----------------------------
(***************************************************************************)
(* The identifiers of algorithms and key types: 32 and 16 bits with fields *)
(* for the category, the hash, the length of a tag and the flags of        *)
(* wildcards (include/psa/crypto_values.h).  The macros are here what they *)
(* are there, on numbers.                                                  *)
(***************************************************************************)
EXTENDS Integers

Field(v, lo, width) == (v \div 2 ^ lo) % 2 ^ width
ClearField(v, lo, width) == v - Field(v, lo, width) * 2 ^ lo
WithField(v, lo, width, x) == ClearField(v, lo, width) + (x % 2 ^ width) * 2 ^ lo

Category(alg) == Field(alg, 24, 7)
Subcategory(alg) == Field(alg, 22, 2)      \* of a MAC
\* PSA_ALG_HASH_MASK: the same bits in each category that has a hash.
HashField(alg) == Field(alg, 0, 8)
Family(alg) == ClearField(alg, 0, 8)
WithHash(base, hash_alg) == base + HashField(hash_alg)
HashOf(alg) == \h02000000 + HashField(alg)

PSA_ALG_SHA_1 == \h02000005
PSA_ALG_SHA_256 == \h02000009
PSA_ALG_SHA_384 == \h0200000a
PSA_ALG_SHA_512 == \h0200000b
PSA_ALG_SHAKE256_512 == \h02000015
PSA_ALG_ANY_HASH == \h020000ff
PSA_HASH_LENGTH(hash_alg) ==
    CASE hash_alg = PSA_ALG_SHA_1 -> 20
      [] hash_alg = PSA_ALG_SHA_256 -> 32
      [] hash_alg = PSA_ALG_SHA_384 -> 48
      [] hash_alg \in {PSA_ALG_SHA_512, PSA_ALG_SHAKE256_512} -> 64
      [] OTHER -> 0

-----------------------------------------------------------------------------
(* Message authentication codes.  A length of 0 is the full length.        *)

PSA_ALG_HMAC(hash_alg) == WithHash(\h03800000, hash_alg)
PSA_ALG_CBC_MAC == \h03c00100
PSA_ALG_CMAC == \h03c00200
PSA_ALG_IS_MAC(alg) == Category(alg) = 3
PSA_ALG_IS_HMAC(alg) == PSA_ALG_IS_MAC(alg) /\ Subcategory(alg) = 2
PSA_ALG_IS_BLOCK_CIPHER_MAC(alg) == PSA_ALG_IS_MAC(alg) /\ Subcategory(alg) = 3

\* PSA_ALG_MAC_AT_LEAST_THIS_LENGTH_FLAG and PSA_ALG_AEAD_AT_LEAST_THIS_LENGTH_FLAG,
\* and the bits of the lengths, are the same for MAC and AEAD.
AtLeastFlag(alg) == Field(alg, 15, 1) = 1
TagLength(alg) == Field(alg, 16, 6)
OfTagLength(alg, n) == WithField(ClearField(alg, 15, 1), 16, 6, n)
OfAtLeast(alg, n) == OfTagLength(alg, n) + 2 ^ 15

PSA_ALG_TRUNCATED_MAC(alg, n) == OfTagLength(alg, n)
PSA_ALG_FULL_LENGTH_MAC(alg) == OfTagLength(alg, 0)
PSA_MAC_TRUNCATED_LENGTH(alg) == TagLength(alg)
PSA_ALG_AT_LEAST_THIS_LENGTH_MAC(alg, n) == OfAtLeast(alg, n)

(* Authenticated encryption.  The tag length is always explicit.           *)
PSA_ALG_CCM == \h05500100
PSA_ALG_GCM == \h05500200
PSA_ALG_CHACHA20_POLY1305 == \h05100500
PSA_ALG_IS_AEAD(alg) == Category(alg) = 5
PSA_ALG_AEAD_WITH_SHORTENED_TAG(alg, n) == OfTagLength(alg, n)
PSA_ALG_AEAD_GET_TAG_LENGTH(alg) == TagLength(alg)
PSA_ALG_AEAD_WITH_AT_LEAST_THIS_LENGTH_TAG(alg, n) == OfAtLeast(alg, n)
MBEDTLS_PSA_ALG_AEAD_EQUAL(a, b) == OfTagLength(a, 0) = OfTagLength(b, 0)

(* Signatures.                                                             *)
PSA_ALG_RSA_PKCS1V15_SIGN_RAW == \h06000200
PSA_ALG_RSA_PKCS1V15_SIGN(hash_alg) == WithHash(\h06000200, hash_alg)
PSA_ALG_RSA_PSS(hash_alg) == WithHash(\h06000300, hash_alg)
PSA_ALG_RSA_PSS_ANY_SALT(hash_alg) == WithHash(\h06001300, hash_alg)
PSA_ALG_ECDSA(hash_alg) == WithHash(\h06000600, hash_alg)
PSA_ALG_DETERMINISTIC_ECDSA(hash_alg) == WithHash(\h06000700, hash_alg)
PSA_ALG_PURE_EDDSA == \h06000800
PSA_ALG_ED25519PH == WithHash(\h06000900, PSA_ALG_SHA_512)
PSA_ALG_IS_RSA_PKCS1V15_SIGN(alg) == Family(alg) = \h06000200
PSA_ALG_IS_RSA_PSS(alg) == Family(alg) \in {\h06000300, \h06001300}
PSA_ALG_IS_ECDSA(alg) == ClearField(Family(alg), 8, 1) = \h06000600
PSA_ALG_IS_HASH_EDDSA(alg) == Family(alg) = \h06000900
PSA_ALG_IS_SIGN_HASH(alg) == \/ PSA_ALG_IS_RSA_PSS(alg) \/ PSA_ALG_IS_RSA_PKCS1V15_SIGN(alg)
                             \/ PSA_ALG_IS_ECDSA(alg) \/ PSA_ALG_IS_HASH_EDDSA(alg)
PSA_ALG_IS_SIGN_MESSAGE(alg) == PSA_ALG_IS_SIGN_HASH(alg) \/ alg = PSA_ALG_PURE_EDDSA
PSA_ALG_IS_HASH_AND_SIGN(alg) == PSA_ALG_IS_SIGN_HASH(alg) /\ HashField(alg) # 0
PSA_ALG_SIGN_GET_HASH(alg) == IF PSA_ALG_IS_HASH_AND_SIGN(alg) THEN HashOf(alg) ELSE 0

(* Asymmetric encryption, key agreement, key derivation and PAKE.          *)
PSA_ALG_RSA_PKCS1V15_CRYPT == \h07000200
PSA_ALG_RSA_OAEP(hash_alg) == WithHash(\h07000300, hash_alg)
PSA_ALG_IS_RSA_OAEP(alg) == Family(alg) = \h07000300
PSA_ALG_HKDF(hash_alg) == WithHash(\h08000100, hash_alg)
PSA_ALG_TLS12_PRF(hash_alg) == WithHash(\h08000200, hash_alg)
PSA_ALG_FFDH == \h09010000
PSA_ALG_ECDH == \h09020000
PSA_ALG_IS_KEY_AGREEMENT(alg) == Category(alg) = 9
\* The category of the KDF is a part of the bits of the one of the key agreement.
PSA_ALG_KEY_AGREEMENT(ka_alg, kdf_alg) == ka_alg + ClearField(kdf_alg, 24, 7)
PSA_ALG_KEY_AGREEMENT_GET_BASE(alg) == ClearField(ClearField(alg, 0, 16), 24, 7) + \h09000000
PSA_ALG_KEY_AGREEMENT_GET_KDF(alg) == Field(alg, 0, 16) + \h08000000
PSA_ALG_IS_RAW_KEY_AGREEMENT(alg) ==
    PSA_ALG_IS_KEY_AGREEMENT(alg) /\ PSA_ALG_KEY_AGREEMENT_GET_KDF(alg) = \h08000000
PSA_ALG_JPAKE_BETA == \h0a000100
PSA_ALG_JPAKE(hash_alg) == WithHash(PSA_ALG_JPAKE_BETA, hash_alg)
PSA_ALG_IS_JPAKE(alg) == Family(alg) = PSA_ALG_JPAKE_BETA
PSA_ALG_CTR == \h04c01000

PSA_ALG_IS_WILDCARD(alg) ==
    IF PSA_ALG_IS_HASH_AND_SIGN(alg) THEN PSA_ALG_SIGN_GET_HASH(alg) = PSA_ALG_ANY_HASH
    ELSE IF PSA_ALG_IS_MAC(alg) \/ PSA_ALG_IS_AEAD(alg) THEN AtLeastFlag(alg)
    ELSE alg = PSA_ALG_ANY_HASH

-----------------------------------------------------------------------------
(* Key types.                                                              *)

PSA_KEY_TYPE_RAW_DATA == \h1001
PSA_KEY_TYPE_HMAC == \h1100
PSA_KEY_TYPE_DERIVE == \h1200
PSA_KEY_TYPE_PASSWORD == \h1203
PSA_KEY_TYPE_PASSWORD_HASH == \h1205
PSA_KEY_TYPE_AES == \h2400
PSA_KEY_TYPE_CAMELLIA == \h2403
PSA_KEY_TYPE_ARIA == \h2406
PSA_KEY_TYPE_CHACHA20 == \h2004
PSA_KEY_TYPE_RSA_PUBLIC_KEY == \h4001
PSA_KEY_TYPE_RSA_KEY_PAIR == \h7001
PSA_KEY_TYPE_ECC_PUBLIC_KEY(curve) == \h4100 + curve
PSA_KEY_TYPE_ECC_KEY_PAIR(curve) == \h7100 + curve
PSA_KEY_TYPE_DH_KEY_PAIR(group) == \h7200 + group
PSA_ECC_FAMILY_SECP_R1 == \h12
PSA_ECC_FAMILY_SECP_K1 == \h17
PSA_ECC_FAMILY_BRAINPOOL_P_R1 == \h30
PSA_ECC_FAMILY_MONTGOMERY == \h41
PSA_DH_FAMILY_RFC7919 == \h03

TypeCategory(type) == Field(type, 12, 3)
PSA_KEY_TYPE_IS_UNSTRUCTURED(type) == TypeCategory(type) \in {1, 2}
PSA_KEY_TYPE_IS_ASYMMETRIC(type) == Field(type, 14, 1) = 1
PSA_KEY_TYPE_IS_PUBLIC_KEY(type) == TypeCategory(type) = 4
PSA_KEY_TYPE_IS_KEY_PAIR(type) == TypeCategory(type) = 7
PSA_KEY_TYPE_PUBLIC_KEY_OF_KEY_PAIR(type) == ClearField(type, 12, 2)
PSA_KEY_TYPE_IS_RSA(type) == PSA_KEY_TYPE_PUBLIC_KEY_OF_KEY_PAIR(type) = PSA_KEY_TYPE_RSA_PUBLIC_KEY
PSA_KEY_TYPE_IS_ECC(type) == ClearField(PSA_KEY_TYPE_PUBLIC_KEY_OF_KEY_PAIR(type), 0, 8) = \h4100
PSA_KEY_TYPE_IS_DH(type) == ClearField(PSA_KEY_TYPE_PUBLIC_KEY_OF_KEY_PAIR(type), 0, 8) = \h4200
PSA_KEY_TYPE_ECC_GET_FAMILY(type) == IF PSA_KEY_TYPE_IS_ECC(type) THEN Field(type, 0, 8) ELSE 0
PSA_BLOCK_CIPHER_BLOCK_LENGTH(type) == IF TypeCategory(type) = 2 THEN 2 ^ Field(type, 8, 3) ELSE 0

PSA_MAC_LENGTH(type, alg) ==
    CASE TagLength(alg) # 0 -> TagLength(alg)
      [] TagLength(alg) = 0 /\ PSA_ALG_IS_HMAC(alg) -> PSA_HASH_LENGTH(HashOf(alg))
      [] TagLength(alg) = 0 /\ PSA_ALG_IS_BLOCK_CIPHER_MAC(alg) -> PSA_BLOCK_CIPHER_BLOCK_LENGTH(type)
      [] OTHER -> 0
=============================================================================

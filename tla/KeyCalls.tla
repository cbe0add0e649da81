------------------------------ MODULE KeyCalls ------------------------------
(***************************************************************************)
(* Calls of the functions of KeyPolicy.  What their results must be is     *)
(* said with algorithms that are records, not numbers, and with what one   *)
(* key may do and another may not.                                         *)
(***************************************************************************)
EXTENDS KeyPolicy, Calls

CONSTANTS TagLengths,     \* lengths of MACs and tags; 0 is the full length of a MAC
          KeySizes,       \* sizes in bits asked of a key
          DataLengths     \* lengths in bytes of material

(* Algorithms as records.                                                  *)
Macs == [kind : {"mac"}, base : {PSA_ALG_HMAC(PSA_ALG_SHA_256), PSA_ALG_CMAC, PSA_ALG_CBC_MAC},
         n : TagLengths, min : BOOLEAN]
Aeads == [kind : {"aead"}, base : {PSA_ALG_CCM, PSA_ALG_GCM}, n : TagLengths \ {0}, min : BOOLEAN]
Signatures == [kind : {"sign"},
               base : {PSA_ALG_RSA_PKCS1V15_SIGN_RAW, PSA_ALG_RSA_PSS(0), PSA_ALG_ECDSA(0)},
               hash : {0, PSA_ALG_SHA_256, PSA_ALG_SHA_512, PSA_ALG_SHAKE256_512, PSA_ALG_ANY_HASH}]
Agreements == [kind : {"agree"}, base : {PSA_ALG_FFDH, PSA_ALG_ECDH},
               kdf : {0, PSA_ALG_HKDF(PSA_ALG_SHA_256), PSA_ALG_TLS12_PRF(PSA_ALG_SHA_384)}]
Jpakes == [kind : {"jpake"}, hash : {0, PSA_ALG_SHA_256, PSA_ALG_SHA_512}]
Others == [kind : {"other"},
           alg : {PSA_ALG_CTR, PSA_ALG_PURE_EDDSA, PSA_ALG_RSA_PKCS1V15_CRYPT,
                  PSA_ALG_RSA_OAEP(PSA_ALG_SHA_256), PSA_ALG_HKDF(PSA_ALG_SHA_256)}]
OfKind(kind) == CASE kind = "mac" -> Macs
                  [] kind = "aead" -> Aeads
                  [] kind = "sign" -> Signatures
                  [] kind = "agree" -> Agreements
                  [] kind = "jpake" -> Jpakes
                  [] kind = "other" -> Others
AlgKinds == {"mac", "aead", "sign", "agree", "jpake", "other"}
\* One of each kind, for pairs of different kinds.
Mixed == {CHOOSE s \in OfKind(kind) : TRUE : kind \in AlgKinds}

Encode(s) ==
    CASE s.kind \in {"mac", "aead"} -> IF s.min THEN OfAtLeast(s.base, s.n) ELSE OfTagLength(s.base, s.n)
      [] s.kind = "sign" -> WithHash(s.base, s.hash)
      [] s.kind = "agree" -> PSA_ALG_KEY_AGREEMENT(s.base, s.kdf)
      [] s.kind = "jpake" -> PSA_ALG_JPAKE(s.hash)
      [] s.kind = "other" -> s.alg

(* What a policy means.                                                    *)
FullLength(s) == IF PSA_ALG_IS_HMAC(s.base) THEN 32 ELSE 16
TagOf(s) == IF s.n = 0 THEN FullLength(s) ELSE s.n
Suits(type, s) == type = IF PSA_ALG_IS_HMAC(s.base) THEN PSA_KEY_TYPE_HMAC ELSE PSA_KEY_TYPE_AES
\* An algorithm that may be asked for.
Specific(s) == CASE s.kind = "mac" -> ~s.min /\ TagOf(s) <= FullLength(s)
                 [] s.kind = "aead" -> ~s.min
                 [] s.kind = "sign" -> s.hash # PSA_ALG_ANY_HASH
                 [] OTHER -> TRUE
Allows(type, p, r) ==
    \/ p = r
    \/ /\ p.kind = r.kind
       /\ CASE p.kind = "mac" -> /\ p.base = r.base /\ Suits(type, p)
                                 /\ IF p.min THEN TagOf(p) <= TagOf(r) ELSE TagOf(p) = TagOf(r)
            [] p.kind = "aead" -> p.base = r.base /\ p.min /\ p.n <= r.n
            [] p.kind = "sign" -> p.base = r.base /\ p.hash = PSA_ALG_ANY_HASH
            [] p.kind = "agree" -> p.base = r.base /\ p.kdf = 0
            [] p.kind = "jpake" -> p.hash = 0
            [] OTHER -> FALSE

-----------------------------------------------------------------------------
Policy(usage, alg, alg2) == [usage |-> psa_extend_key_usage_flags(usage), alg |-> alg, alg2 |-> alg2]
Attributes(type, bits, p) ==
    [type |-> type, bits |-> bits, usage |-> p.usage, alg |-> p.alg, alg2 |-> p.alg2,
     lifetime |-> "VOLATILE", id |-> "none", local |-> TRUE]

CallPolicies == \E kind \in AlgKinds, type \in {PSA_KEY_TYPE_HMAC, PSA_KEY_TYPE_AES, PSA_KEY_TYPE_CHACHA20} :
    /\ kind # "mac" => type = PSA_KEY_TYPE_AES
    /\ \E a \in OfKind(kind), b \in OfKind(kind) \cup Mixed :
           Calls("policies", [type |-> type, a |-> a, b |-> b],
                 [meet |-> psa_key_policy_algorithm_intersection(type, Encode(a), Encode(b)),
                  turned |-> psa_key_policy_algorithm_intersection(type, Encode(b), Encode(a)),
                  permits |-> {r \in OfKind(kind) :
                                  psa_key_policy_permits(Attributes(type, 0, Policy({}, Encode(a), 0)),
                                                         Encode(r)) = "OK"}])

(* A key is imported, the key is copied, and the copy is copied.           *)
ChainTypes == {PSA_KEY_TYPE_HMAC, PSA_KEY_TYPE_AES, PSA_KEY_TYPE_RSA_KEY_PAIR,
               PSA_KEY_TYPE_ECC_KEY_PAIR(PSA_ECC_FAMILY_SECP_R1),
               PSA_KEY_TYPE_ECC_PUBLIC_KEY(PSA_ECC_FAMILY_SECP_R1)}
Material(type) == CASE PSA_KEY_TYPE_IS_RSA(type) -> [bytes |-> 270, good |-> TRUE, bits |-> 2048]
                    [] PSA_KEY_TYPE_IS_PUBLIC_KEY(type) /\ ~PSA_KEY_TYPE_IS_RSA(type) ->
                           [bytes |-> 65, good |-> TRUE, bits |-> 0]
                    [] OTHER -> [bytes |-> 32, good |-> TRUE, bits |-> 0]
ChainAlgs(type) ==
    CASE type = PSA_KEY_TYPE_HMAC -> {OfTagLength(PSA_ALG_HMAC(PSA_ALG_SHA_256), n) : n \in {0, 8, 32}}
                                     \cup {OfAtLeast(PSA_ALG_HMAC(PSA_ALG_SHA_256), n) : n \in {4, 8}}
      [] type = PSA_KEY_TYPE_AES -> {OfAtLeast(PSA_ALG_GCM, 8), OfTagLength(PSA_ALG_GCM, 16),
                                     OfAtLeast(PSA_ALG_CMAC, 4), PSA_ALG_CMAC, PSA_ALG_CTR}
      [] PSA_KEY_TYPE_IS_RSA(type) -> {PSA_ALG_RSA_PSS(PSA_ALG_ANY_HASH), PSA_ALG_RSA_PSS(PSA_ALG_SHA_256),
                                       PSA_ALG_RSA_PKCS1V15_SIGN_RAW,
                                       PSA_ALG_RSA_PKCS1V15_SIGN(PSA_ALG_ANY_HASH),
                                       PSA_ALG_RSA_OAEP(PSA_ALG_SHA_256)}
      [] OTHER -> {PSA_ALG_ECDSA(PSA_ALG_ANY_HASH), PSA_ALG_ECDSA(PSA_ALG_SHA_512), PSA_ALG_ECDH,
                   PSA_ALG_KEY_AGREEMENT(PSA_ALG_ECDH, PSA_ALG_HKDF(PSA_ALG_SHA_256)),
                   PSA_ALG_JPAKE_BETA, PSA_ALG_PURE_EDDSA}
Usages == {UsageFlags, {"COPY", "SIGN_HASH", "VERIFY_HASH", "DERIVE", "ENCRYPT"}}
ChainPolicies(type) == {Policy(usage, alg, alg2) : usage \in Usages, alg \in ChainAlgs(type),
                                                   alg2 \in {0, CHOOSE a \in ChainAlgs(type) : TRUE}}
CopyOf(made, a) == IF made.status = "OK" THEN psa_copy_key(made.key, a) ELSE made
Copies(import, wanted) == FoldLeft(LAMBDA made, a : Append(made, CopyOf(Last(made), a)), <<import>>, wanted)
CallChain == \E type \in ChainTypes :
    \E p1 \in ChainPolicies(type), p2 \in ChainPolicies(type) : \E alg \in {p1.alg, p2.alg} :
        Calls("chain", [p |-> <<p1, p2>>],
              Copies(psa_import_key(Attributes(type, 0, p1), Material(type)),
                     <<Attributes(IF p2.alg2 = 0 THEN type ELSE 0, 0, p2),
                       Attributes(0, 0, Policy({"DECRYPT", "SIGN_HASH"}, alg, alg))>>))

(* Keys that are made, with the sizes that were asked for.                 *)
MadeTypes == {PSA_KEY_TYPE_RAW_DATA, PSA_KEY_TYPE_AES, PSA_KEY_TYPE_CHACHA20, PSA_KEY_TYPE_RSA_KEY_PAIR,
              PSA_KEY_TYPE_DH_KEY_PAIR(PSA_DH_FAMILY_RFC7919)}
             \cup UNION {{PSA_KEY_TYPE_ECC_KEY_PAIR(f), PSA_KEY_TYPE_ECC_PUBLIC_KEY(f)} :
                            f \in {PSA_ECC_FAMILY_SECP_R1, PSA_ECC_FAMILY_SECP_K1,
                                   PSA_ECC_FAMILY_BRAINPOOL_P_R1, PSA_ECC_FAMILY_MONTGOMERY}}
Owners == {<<"VOLATILE", "none">>, <<"VOLATILE", "user">>, <<"PERSISTENT", "user">>,
           <<"PERSISTENT", "vendor">>, <<"READ_ONLY", "user">>}
Owned(a, owner) == [a EXCEPT !.lifetime = owner[1], !.id = owner[2]]
CallImport == \E type \in MadeTypes, bits \in KeySizes, bytes \in DataLengths, good \in BOOLEAN, slack \in {0, 3} :
    LET a == Attributes(type, bits, Policy({}, 0, 0)) IN
    /\ slack # 0 => PSA_KEY_TYPE_IS_RSA(type) /\ bytes # 0
    \* An RSA key is some bytes of DER longer than its modulus.
    /\ LET data == [bytes |-> IF PSA_KEY_TYPE_IS_RSA(type) /\ bytes # 0 THEN bytes + 14 ELSE bytes,
                    good |-> good, bits |-> 8 * bytes - slack]
       IN  Calls("import", [a |-> a, data |-> data], psa_import_key(a, data))
CallGenerate == \E type \in MadeTypes, bits \in KeySizes, owner \in Owners, flag \in {"DERIVE", "DERIVE_PUBLIC"} :
    LET a == Owned(Attributes(type, bits, Policy({flag}, 0, 0)), owner)
    IN  Calls("generate", a, psa_generate_key(a))
CallAgree == \E type \in {PSA_KEY_TYPE_DERIVE, PSA_KEY_TYPE_AES, PSA_KEY_TYPE_PASSWORD}, bits \in KeySizes,
                p \in {Policy({"DERIVE"}, PSA_ALG_ECDH, 0), Policy({"DERIVE"}, PSA_ALG_FFDH, 0),
                       Policy({}, PSA_ALG_ECDH, 0)}, agrees \in {"OK", "INVALID_ARGUMENT"},
                alg \in {Encode(s) : s \in Agreements}, size \in {256, 521} :
    LET key == Attributes(PSA_KEY_TYPE_ECC_KEY_PAIR(PSA_ECC_FAMILY_SECP_R1), size, p)
    IN  Calls("agree", [key |-> key, alg |-> alg, type |-> type, bits |-> bits],
              psa_key_agreement(key, alg, agrees, Attributes(type, bits, Policy({}, 0, 0))))

KeyCallsNext ==
    /\ Idle
    /\ CallPolicies \/ CallChain \/ CallImport \/ CallGenerate \/ CallAgree

-----------------------------------------------------------------------------
\* A policy permits what it means, and the intersection of two permits what both do.  For a
\* key agreement and for J-PAKE, whose general policies are not wildcards, it may permit less.
Sound(may, both, exact) == (may => both) /\ (exact /\ both => may)
PoliciesRight ==
    LET type == call.in.type
        a == call.in.a
        b == call.in.b
        allowed == {r \in OfKind(a.kind) : Specific(r) /\ Allows(type, a, r)}
    IN  /\ {r \in call.out.permits : Specific(r)} = allowed
        /\ \A r \in call.out.permits : ~PSA_ALG_IS_WILDCARD(Encode(r))
        /\ \A alg \in {call.out.meet, call.out.turned}, r \in OfKind(a.kind) :
               Specific(r) => Sound(psa_key_algorithm_permits(type, alg, Encode(r)),
                                    r \in allowed /\ Allows(type, b, r),
                                    a.kind \notin {"agree", "jpake"})

Uses(type) ==
    [f : {"sign_message", "sign_hash", "verify_message", "verify_hash", "encrypt", "decrypt",
          "agree", "mac_sign", "mac_verify"},
     alg : {alg \in ChainAlgs(type) : ~PSA_ALG_IS_WILDCARD(alg)}
           \cup {alg - 255 + 9 : alg \in {x \in ChainAlgs(type) : AnyHash(x)}}]
    \cup [f : {"export", "export_public", "copy"}, alg : {0}]
Use(key, u) ==
    CASE u.f \in {"sign_message", "sign_hash"} -> psa_sign_internal(key, u.f = "sign_message", u.alg)
      [] u.f \in {"verify_message", "verify_hash"} -> psa_verify_internal(key, u.f = "verify_message", u.alg)
      [] u.f = "encrypt" -> psa_asymmetric_encrypt(key, u.alg, FALSE)
      [] u.f = "decrypt" -> psa_asymmetric_decrypt(key, u.alg, FALSE)
      [] u.f = "agree" -> psa_raw_key_agreement(key, u.alg, "OK")
      [] u.f \in {"mac_sign", "mac_verify"} -> MacMayStart(key, u.alg, u.f = "mac_sign")
      [] u.f = "export" -> psa_export_key(key)
      [] u.f = "export_public" -> psa_export_public_key(key)
      [] u.f = "copy" -> psa_get_and_lock_key_slot_with_policy(key, {"COPY"}, 0)
Possible(made) == IF made.status # "OK" THEN {} ELSE {u \in Uses(made.key.type) : Use(made.key, u) = "OK"}
UnderPolicy(made, p) ==
    IF made.status # "OK" THEN made
    ELSE [made EXCEPT !.key.usage = p.usage, !.key.alg = p.alg, !.key.alg2 = p.alg2]

SameKey(key, from) == key.type = from.type /\ key.bits = from.bits
\* What may be done with one key.
UsesFit(key, can) ==
    /\ \A u \in can : u.f = "sign_hash" /\ PSA_ALG_SIGN_GET_HASH(u.alg) # 0 => [u EXCEPT !.f = "sign_message"] \in can
    /\ \A u \in can : u.f = "verify_hash" /\ PSA_ALG_SIGN_GET_HASH(u.alg) # 0 => [u EXCEPT !.f = "verify_message"] \in can
    /\ PSA_KEY_TYPE_IS_PUBLIC_KEY(key.type) =>
           /\ [f |-> "export", alg |-> 0] \in can
           /\ \A u \in can : u.f \in {"verify_message", "verify_hash", "encrypt", "export", "export_public", "copy"}
\* A copy is the same key, and is good for nothing that its origin, or the policy asked for
\* it, is not.  Who may sign a hash may sign a message, in each copy.  A public key may be
\* exported and has no secret use.
\* can: what may be done with the three keys, and with the first under the policy asked for its copy.
ChainFits(p, made, can) ==
    /\ \A i \in 2 .. 3 : can[i] \subseteq can[i - 1]
    /\ can[2] \subseteq can[4]
    /\ \A i \in 2 .. 3 : made[i].status = "OK" => SameKey(made[i].key, made[i - 1].key)
    /\ \A i \in 1 .. 3 : made[i].status = "OK" => UsesFit(made[i].key, can[i])
    /\ made[2].status = "OK" /\ p[1].alg # 0 /\ p[2].alg # 0 => made[2].key.alg # 0
    /\ \A i \in 1 .. 3 : [f |-> "export", alg |-> 0] \in can[i] =>
           PSA_KEY_TYPE_IS_PUBLIC_KEY(made[i].key.type) \/ "EXPORT" \in p[1].usage
ChainRight ==
    ChainFits(call.in.p, call.out,
              [i \in 1 .. 4 |-> Possible(IF i = 4 THEN UnderPolicy(call.out[1], call.in.p[2]) ELSE call.out[i])])

\* The length of the material of a key.
LengthOf(type, bits) == LET bytes == (bits + 7) \div 8 IN IF WithPoint(type) THEN 2 * bytes + 1 ELSE bytes
ImportRight ==
    call.out.status = "OK" =>
        LET key == call.out.key IN
        /\ key.bits \in 1 .. PSA_MAX_KEY_BITS /\ call.in.a.bits \in {0, key.bits}
        /\ IF PSA_KEY_TYPE_IS_RSA(key.type) THEN key.bits = call.in.data.bits
           ELSE LengthOf(key.type, key.bits) = call.in.data.bytes
\* A key that was generated can be imported again by who knows its type only.
GenerateRight ==
    call.out.status = "OK" =>
        LET key == call.out.key IN
        /\ key.usage \subseteq UsageFlags /\ (key.id = "none") = (key.lifetime = "VOLATILE")
        /\ psa_import_key([key EXCEPT !.bits = 0], [bytes |-> LengthOf(key.type, key.bits), good |-> TRUE,
                                                    bits |-> key.bits]) = call.out
AgreeRight ==
    call.out.status = "OK" =>
        /\ "DERIVE" \in call.in.key.usage /\ call.in.alg = call.in.key.alg
        /\ call.out.key.type \in {PSA_KEY_TYPE_DERIVE, PSA_KEY_TYPE_PASSWORD}
        /\ call.out.key.bits - call.in.key.bits \in 0 .. 7

\* The rules about keys hold together: policies mean what they say, no copy of a copy widens
\* one, the size of a key is the one of its material, and what can be made can be made again
\* (psa_import_key(), psa_generate_key(), psa_copy_key() and the checks before each operation).
KeyRulesCorrect ==
    /\ Of("policies", PoliciesRight) /\ Of("chain", ChainRight) /\ Of("import", ImportRight)
    /\ Of("generate", GenerateRight) /\ Of("agree", AgreeRight)
=============================================================================

-------------------------------- MODULE Aead --------------------------------
(***************************************************************************)
(* Authenticated encryption: the calls psa_aead_*() of core/psa_crypto.c   *)
(* on one operation object, the dispatch of psa_crypto_aead.c, and the     *)
(* streaming code of AeadEngines below it.                                 *)
(*                                                                         *)
(* The caller makes any calls in any order, with any chunks. A call that   *)
(* fails aborts the operation. given is what the caller passed since the   *)
(* operation was set up, and is not part of the program.                   *)
(***************************************************************************)
EXTENDS AeadEngines, Status

CONSTANTS
    NonceLengths,   \* lengths of the nonces that are passed
    AdLengths,      \* lengths of the additional data that are declared
    BodyLengths,    \* lengths of the body that are declared
    MaxAd,          \* bound: additional data in all
    MaxBody,        \* bound: body in all
    TagLength,      \* PSA_ALG_AEAD_GET_TAG_LENGTH()
    CanFail         \* subset of {"setup", "calloc", "entropy"}

ASSUME AeadAssumption ==
    /\ NonceLengths \subseteq Nat
    /\ AdLengths \subseteq Nat
    /\ BodyLengths \subseteq Nat
    /\ MaxAd \in Nat /\ MaxBody \in Nat
    /\ TagLength \in Nat \ {0}
    /\ CanFail \subseteq {"setup", "calloc", "entropy"}

VARIABLES
    op,     \* psa_aead_operation_t
    ctx,    \* the context of the algorithm in it
    given,  \* lengths of what was passed and declared
    ret,    \* the last call, its status and what it wiped
    out     \* what the last call authenticated, if it did
vars == <<op, ctx, given, ret, out>>

NoOp == [id |-> FALSE, alg |-> "NONE", is_encrypt |-> FALSE, nonce_set |-> FALSE,
         lengths_set |-> FALSE, ad_started |-> FALSE, body_started |-> FALSE,
         ad_remaining |-> 0, body_remaining |-> 0]
NothingGiven == [ad |-> 0, body |-> 0, declared |-> <<>>]
NoOutput == [alg |-> "NONE", given |-> NothingGiven, blocks |-> <<>>, masks |-> <<>>]

AeadCalls ==
    {"none", "setup", "set_nonce", "generate_nonce", "set_lengths",
     "update_ad", "update", "finish", "verify", "abort", "encrypt", "decrypt"}
Statuses == {"OK", "BAD_STATE", "INVALID_ARGUMENT", "NOT_PERMITTED",
             "NOT_SUPPORTED", "INSUFFICIENT_MEMORY", "INSUFFICIENT_ENTROPY",
             "BUFFER_TOO_SMALL", "INVALID_SIGNATURE", "CORRUPTION_DETECTED"}

Init ==
    /\ op = NoOp
    /\ ctx = Keyed
    /\ given = NothingGiven
    /\ ret = [call |-> "none", status |-> "OK", wiped |-> "nothing"]
    /\ out = NoOutput

-----------------------------------------------------------------------------
(* psa_crypto_aead.c: the operation of the built-in driver.                *)

mbedtls_psa_aead_set_nonce(alg, c, nonce, hash) ==
    CASE alg = "GCM" -> mbedtls_gcm_starts(c, nonce, hash)
      [] alg = "CCM" -> mbedtls_ccm_starts(c, nonce)
      [] OTHER -> IF nonce # 12 THEN Stop(c, "INVALID_ARGUMENT")
                  ELSE mbedtls_chachapoly_starts(c)

mbedtls_psa_aead_set_lengths(alg, c, ad, body) ==
    IF alg = "CCM" THEN mbedtls_ccm_set_lengths(c, ad, body) ELSE Proceed(c)

mbedtls_psa_aead_update_ad(alg, c, cells) ==
    CASE alg = "GCM" -> mbedtls_gcm_update_ad(c, cells)
      [] alg = "CCM" -> mbedtls_ccm_update_ad(c, cells)
      [] OTHER -> mbedtls_chachapoly_update_aad(c, cells)

mbedtls_psa_aead_update(alg, c, cells, output_size) ==
    IF output_size < Len(cells) THEN Stop(c, "BUFFER_TOO_SMALL")
    ELSE CASE alg = "GCM" -> mbedtls_gcm_update(c, cells)
           [] alg = "CCM" -> mbedtls_ccm_update(c, cells)
           [] OTHER -> mbedtls_chachapoly_update(c, cells)

mbedtls_psa_aead_finish(alg, c, tag_size) ==
    IF tag_size < TagLength THEN Stop(c, "BUFFER_TOO_SMALL")
    ELSE CASE alg = "GCM" -> mbedtls_gcm_finish(c)
           [] alg = "CCM" -> mbedtls_ccm_finish(c)
           [] OTHER -> mbedtls_chachapoly_finish(c)

\* psa_driver_wrapper_aead_verify(): the tag is computed and compared.
psa_driver_wrapper_aead_verify(alg, c, genuine) ==
    LET r == mbedtls_psa_aead_finish(alg, c, TagLength) IN
    IF r.status = "OK" /\ ~genuine THEN Stop(r.ctx, "INVALID_SIGNATURE") ELSE r

\* One function of an algorithm after another, while there is no error.
Then(r, Step(_)) == IF r.status = "OK" THEN Step(r.ctx) ELSE r

\* A message in one call: the nonce, for CCM the lengths, all of the data and
\* the tag.
ccm_auth_crypt(nonce, ad, body) ==
    LET started == mbedtls_ccm_starts(Keyed, nonce)
        sized == Then(started, LAMBDA c : mbedtls_ccm_set_lengths(c, ad, body))
        added == Then(sized, LAMBDA c : mbedtls_ccm_update_ad(c, AdCells(0, ad)))
        crypted == Then(added, LAMBDA c : mbedtls_ccm_update(c, BodyCells(0, body)))
    IN  Then(crypted, mbedtls_ccm_finish)

mbedtls_gcm_crypt_and_tag(nonce, hash, ad, body) ==
    LET started == mbedtls_gcm_starts(Keyed, nonce, hash)
        added == Then(started, LAMBDA c : mbedtls_gcm_update_ad(c, AdCells(0, ad)))
        crypted == Then(added, LAMBDA c : mbedtls_gcm_update(c, BodyCells(0, body)))
    IN  Then(crypted, mbedtls_gcm_finish)

chachapoly_crypt_and_tag(ad, body) ==
    LET started == mbedtls_chachapoly_starts(Keyed)
        added == Then(started, LAMBDA c : mbedtls_chachapoly_update_aad(c, AdCells(0, ad)))
        crypted == Then(added, LAMBDA c :
                     mbedtls_chachapoly_update(c, BodyCells(0, body)))
    IN  Then(crypted, mbedtls_chachapoly_finish)

\* mbedtls_psa_aead_encrypt() and mbedtls_psa_aead_decrypt() up to the tag.
mbedtls_psa_aead_crypt(alg, nonce, hash, ad, body) ==
    CASE alg = "CCM" -> ccm_auth_crypt(nonce, ad, body)
      [] alg = "GCM" -> mbedtls_gcm_crypt_and_tag(nonce, hash, ad, body)
      [] OTHER -> chachapoly_crypt_and_tag(ad, body)

-----------------------------------------------------------------------------
(* psa_crypto.c: what the calls have in common.                            *)

psa_aead_check_nonce_length(alg, nonce) ==
    CASE alg = "GCM" -> nonce # 0
      [] alg = "CCM" -> nonce \in 7 .. 13
      [] OTHER -> nonce = 12

\* The local copies of the buffers of the caller are made, or not.
LocalCopies ==
    {"OK"} \cup (IF "calloc" \in CanFail THEN {"INSUFFICIENT_MEMORY"} ELSE {})

psa_aead_abort(o) == IF o.id THEN NoOp ELSE o

Returns(call, status) == ret' = [call |-> call, status |-> status, wiped |-> "nothing"]

Ends ==
    /\ op' = psa_aead_abort(op)
    /\ ctx' = Keyed
    /\ given' = NothingGiven

\* A call in the middle of an operation: the checks of the core, the result r
\* of the driver, and the operation and the data when both are good.
Call(call, checks, r, after, data) ==
    LET status == First(checks, r.status) IN
    /\ Returns(call, status)
    /\ out' = NoOutput
    /\ IF status = "OK" THEN op' = after /\ ctx' = r.ctx /\ given' = data ELSE Ends

-----------------------------------------------------------------------------
(* The calls.                                                              *)

\* psa_aead_encrypt_setup() and psa_aead_decrypt_setup(). The algorithm, the
\* key, its policy or the length of the tag may be refused.
SetupErrors ==
    IF "setup" \in CanFail THEN {"INVALID_ARGUMENT", "NOT_PERMITTED", "NOT_SUPPORTED"}
    ELSE {}

psa_aead_setup(alg, is_encrypt) ==
    \E found \in {"OK"} \cup SetupErrors :
      LET fresh == ~(op.id \/ op.nonce_set \/ op.lengths_set
                       \/ op.ad_started \/ op.body_started)
      IN  Call("setup", First(Check(fresh, "BAD_STATE"), found), Proceed(Keyed),
               [op EXCEPT !.id = TRUE, !.alg = alg, !.is_encrypt = is_encrypt],
               NothingGiven)

NonceChecks(nonce) ==
    First(Check(op.id /\ ~op.nonce_set, "BAD_STATE"),
          Check(psa_aead_check_nonce_length(op.alg, nonce), "INVALID_ARGUMENT"))

\* hash is the counter that GCM takes from other nonces than of 12 bytes.
psa_aead_set_nonce_internal(call, checks, nonce, hash) ==
    Call(call, First(checks, NonceChecks(nonce)),
         mbedtls_psa_aead_set_nonce(op.alg, ctx, nonce, hash),
         [op EXCEPT !.nonce_set = TRUE], given)

\* When there is no copy of the nonce the operation is not aborted.
psa_aead_set_nonce(nonce, hash) ==
    \E copied \in LocalCopies :
      IF copied = "OK" \/ nonce = 0
      THEN psa_aead_set_nonce_internal("set_nonce", "OK", nonce, hash)
      ELSE /\ Returns("set_nonce", copied)
           /\ out' = NoOutput
           /\ UNCHANGED <<op, ctx, given>>

\* PSA_AEAD_NONCE_LENGTH().
RequiredNonce(alg) == IF alg = "CCM" THEN 13 ELSE 12

psa_aead_generate_nonce(nonce_size) ==
    \E copied \in LocalCopies :
    \E random \in {"OK"} \cup
                  (IF "entropy" \in CanFail THEN {"INSUFFICIENT_ENTROPY"} ELSE {}) :
      LET required == RequiredNonce(op.alg)
          checks == First(copied,
                    First(Check(op.id /\ ~op.nonce_set /\ op.is_encrypt, "BAD_STATE"),
                    First(Check(nonce_size >= required, "BUFFER_TOO_SMALL"), random)))
      IN  psa_aead_set_nonce_internal("generate_nonce", checks, required, 1)

LengthsUnlimited(alg, ad, body) == alg = "CCM" => ad <= CcmAdLimit      \* mutant
LengthsAllowed(alg, ad, body) ==
    CASE alg = "GCM" -> ad < GcmAdLimit /\ body <= GcmBodyLimit
      [] alg = "CCM" -> ad <= CcmAdLimit
      [] OTHER -> TRUE

psa_aead_set_lengths(ad, body) ==
    Call("set_lengths",
         First(Check(op.id /\ ~op.lengths_set /\ ~op.ad_started /\ ~op.body_started,
                     "BAD_STATE"),
               Check(LengthsAllowed(op.alg, ad, body), "INVALID_ARGUMENT")),
         mbedtls_psa_aead_set_lengths(op.alg, ctx, ad, body),
         [op EXCEPT !.lengths_set = TRUE, !.ad_remaining = ad, !.body_remaining = body],
         [given EXCEPT !.declared = <<ad, body>>])

AdFits(o, n) == o.lengths_set => n <= o.ad_remaining

\* CCM cannot go on before it knows the lengths.
Sized(o) == o.alg = "CCM" => o.lengths_set

\* An empty chunk is accepted before the lengths are looked at.
psa_aead_update_ad(n) ==
    \E copied \in LocalCopies :
      LET allowed == op.id /\ op.nonce_set /\ ~op.body_started
          fits == First(Check(AdFits(op, n), "INVALID_ARGUMENT"),
                        Check(Sized(op), "BAD_STATE"))
          checks == First(IF n = 0 THEN "OK" ELSE copied,
                    First(Check(allowed, "BAD_STATE"), IF n = 0 THEN "OK" ELSE fits))
          r == IF n = 0 THEN Proceed(ctx)
               ELSE mbedtls_psa_aead_update_ad(op.alg, ctx, AdCells(given.ad, n))
      IN  Call("update_ad", checks, r,
               [op EXCEPT !.ad_started = TRUE,
                          !.ad_remaining = IF op.lengths_set THEN @ - n ELSE @],
               [given EXCEPT !.ad = @ + n])

psa_aead_update(n, output_size) ==
    \E copied \in LocalCopies :
      LET fits == Check(op.lengths_set => op.ad_remaining = 0 /\ n <= op.body_remaining,
                        "INVALID_ARGUMENT")
          checks == First(IF n = 0 /\ output_size = 0 THEN "OK" ELSE copied,
                    First(Check(op.id /\ op.nonce_set, "BAD_STATE"),
                    First(fits, Check(Sized(op), "BAD_STATE"))))
      IN  Call("update", checks,
               mbedtls_psa_aead_update(op.alg, ctx, BodyCells(given.body, n), output_size),
               [op EXCEPT !.body_started = TRUE,
                          !.body_remaining = IF op.lengths_set THEN @ - n ELSE @],
               [given EXCEPT !.body = @ + n])

AllGivenUnchecked(o) == TRUE        \* mutant
AllGiven(o) == o.lengths_set => o.ad_remaining = 0 /\ o.body_remaining = 0

psa_aead_final_checks(o) ==
    First(Check(Sized(o) /\ o.id /\ o.nonce_set, "BAD_STATE"),
          Check(AllGiven(o), "INVALID_ARGUMENT"))

Authentic(status, alg, data, c) ==
    out' = IF status = "OK"
           THEN [alg |-> alg, given |-> data, blocks |-> c.blocks, masks |-> c.masks]
           ELSE NoOutput

\* psa_wipe_tag_output_buffer() of a buffer of some size.
psa_wipe_tag_output_buffer(buffer, size) == IF size = 0 THEN "nothing" ELSE buffer

\* Without the copies of the buffers, tag is NULL.
psa_aead_finish(tag_size) ==
    \E copied \in LocalCopies :
      LET r == mbedtls_psa_aead_finish(op.alg, ctx, tag_size)
          checks == First(psa_aead_final_checks(op), Check(op.is_encrypt, "BAD_STATE"))
          status == First(copied, First(checks, r.status))
          tag == IF copied = "OK" THEN "tag" ELSE "NULL"
      IN  /\ ret' = [call |-> "finish", status |-> status,
                     wiped |-> psa_wipe_tag_output_buffer(tag, tag_size)]
          /\ Authentic(status, op.alg, given, r.ctx)
          /\ Ends

psa_aead_verify(genuine) ==
    \E copied \in LocalCopies :
      LET r == psa_driver_wrapper_aead_verify(op.alg, ctx, genuine)
          checks == First(psa_aead_final_checks(op), Check(~op.is_encrypt, "BAD_STATE"))
          status == First(copied, First(checks, r.status))
      IN  /\ Returns("verify", status)
          /\ Authentic(status, op.alg, given, r.ctx)
          /\ Ends

Abort ==
    /\ Returns("abort", "OK")
    /\ out' = NoOutput
    /\ Ends

\* psa_aead_encrypt() and psa_aead_decrypt() in one call, which do not use the
\* operation: they are made here while it is not in use.
OneShot(call, alg, nonce, hash, ad, body, verdict) ==
    \E copied \in LocalCopies, found \in {"OK"} \cup SetupErrors :
      LET nonce_ok == psa_aead_check_nonce_length(alg, nonce)
          r == mbedtls_psa_aead_crypt(alg, nonce, hash, ad, body)
          status == First(found, First(copied,
                      First(Check(nonce_ok, "INVALID_ARGUMENT"),
                            First(IF verdict = "BUFFER_TOO_SMALL" THEN verdict ELSE "OK",
                                  First(r.status, verdict)))))
      IN  /\ ~op.id
          /\ Returns(call, status)
          /\ Authentic(status, alg,
                       [ad |-> ad, body |-> body, declared |-> <<ad, body>>], r.ctx)
          /\ UNCHANGED <<op, ctx, given>>

psa_aead_encrypt(alg, nonce, hash, ad, body) ==
    \E verdict \in {"OK", "BUFFER_TOO_SMALL"} :
      OneShot("encrypt", alg, nonce, hash, ad, body, verdict)

psa_aead_decrypt(alg, nonce, hash, ad, body) ==
    \E verdict \in {"OK", "BUFFER_TOO_SMALL", "INVALID_SIGNATURE"} :
      OneShot("decrypt", alg, nonce, hash, ad, body, verdict)

-----------------------------------------------------------------------------

\* The counters that can come of a nonce: only GCM hashes it, unless it has 12
\* bytes.
Hashes(alg, nonce) ==
    IF alg = "GCM" /\ nonce # 12 THEN 0 .. CounterRange - 1 ELSE {1}

Next ==
    \/ \E alg \in Algs, is_encrypt \in BOOLEAN : psa_aead_setup(alg, is_encrypt)
    \/ \E nonce \in NonceLengths : \E hash \in Hashes(op.alg, nonce) :
            psa_aead_set_nonce(nonce, hash)
    \/ \E nonce_size \in NonceLengths : psa_aead_generate_nonce(nonce_size)
    \/ \E ad \in AdLengths, body \in BodyLengths : psa_aead_set_lengths(ad, body)
    \/ \E n \in 0 .. MaxAd - given.ad : psa_aead_update_ad(n)
    \/ \E n \in 0 .. MaxBody - given.body : \E size \in {0, n} : psa_aead_update(n, size)
    \/ \E tag_size \in {0, TagLength - 1, TagLength} : psa_aead_finish(tag_size)
    \/ \E genuine \in BOOLEAN : psa_aead_verify(genuine)
    \/ Abort
    \/ \E alg \in Algs, nonce \in NonceLengths, ad \in AdLengths, body \in BodyLengths :
          \E hash \in Hashes(alg, nonce) :
            \/ psa_aead_encrypt(alg, nonce, hash, ad, body)
            \/ psa_aead_decrypt(alg, nonce, hash, ad, body)

Spec == Init /\ [][Next]_vars

-----------------------------------------------------------------------------
(* Properties.                                                             *)

OpType ==
    [id : BOOLEAN, alg : Algs \cup {"NONE"}, is_encrypt : BOOLEAN,
     nonce_set : BOOLEAN, lengths_set : BOOLEAN, ad_started : BOOLEAN,
     body_started : BOOLEAN, ad_remaining : Nat, body_remaining : Nat]
GivenType == [ad : Nat, body : Nat, declared : {<<>>} \cup (Nat \X Nat)]

\* The fields of the operation keep their types, what is left of a declared
\* length never goes below zero (it is a size_t), and an operation object that
\* is not in use is all zero.
TypeOK ==
    /\ op \in OpType
    /\ given \in GivenType
    /\ ret \in [call : AeadCalls, status : Statuses, wiped : {"nothing", "tag", "NULL"}]
    /\ out.alg \in Algs \cup {"NONE"}
    /\ out.given \in GivenType
    /\ ~op.id => op = NoOp

\* No byte of the keystream is used twice in a message, nor the block that masks
\* the tag or makes the key of Poly1305.
UsedOnce(masks, reserved) ==
    /\ \A i, j \in DOMAIN masks : i # j => masks[i] # masks[j]
    /\ \A i \in DOMAIN masks : masks[i][1] # reserved

\* ccm.c and gcm.c refuse a body that their counter is too short for. chacha20.c
\* does not count, and psa_aead_set_lengths() sets no limit either.
KeystreamLasts(alg, body) ==
    alg = "CHACHA20_POLY1305" => body <= (CounterRange - 1) * KeystreamSize

\* However the body is cut into chunks, byte i of it is masked with byte i of
\* the keystream of the algorithm, also where the counter goes round; and it is
\* used once exactly as long as the keystream lasts: always for CCM and GCM, and
\* for ChaCha20 until the counter is back at the block of the key of Poly1305.
KeystreamInOrder ==
    op.nonce_set =>
        /\ ctx.masks = Masks(op.alg, ctx, given.body)
        /\ UsedOnce(ctx.masks, TagCounter(op.alg, ctx)) <=> KeystreamLasts(op.alg, given.body)

\* A call that reports success made or checked a tag over exactly the data
\* that was passed, padded and followed by the lengths as the algorithm says:
\* psa_aead_finish() and psa_aead_verify() agree with psa_aead_encrypt() and
\* psa_aead_decrypt() whatever the chunks were.
TagCoversMessage ==
    out.alg # "NONE" =>
        /\ out.blocks = Authenticated(out.alg, out.given.ad, out.given.body)
        /\ Len(out.masks) = out.given.body

\* A message is finished or verified only when it has the lengths that were
\* declared for it, and CCM only when they were declared.
LengthsHonoured ==
    out.alg # "NONE" =>
        /\ out.given.declared \in {<<>>, <<out.given.ad, out.given.body>>}
        /\ out.alg = "CCM" => out.given.declared # <<>>

\* Once the lengths are accepted the driver takes all the chunks the core lets
\* through and makes the tag: no check of ccm.c, gcm.c or chachapoly.c comes too
\* late, when part of the message was already processed.
LayersAgree ==
    /\ op.nonce_set /\ op.lengths_set =>
         /\ ~op.body_started =>
              \A n \in 1 .. op.ad_remaining :
                mbedtls_psa_aead_update_ad(op.alg, ctx, AdCells(given.ad, n)).status = "OK"
         /\ op.ad_remaining = 0 =>
              \A n \in 0 .. op.body_remaining :
                mbedtls_psa_aead_update(op.alg, ctx, BodyCells(given.body, n), n).status
                  = "OK"
    /\ psa_aead_final_checks(op) = "OK" =>
         mbedtls_psa_aead_finish(op.alg, ctx, TagLength).status = "OK"
=============================================================================

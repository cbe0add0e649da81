------------------------------ MODULE AeadProof ------------------------------
(***************************************************************************)
(* Authenticated encryption, for any bounds and sizes. First the           *)
(* bookkeeping of lengths of psa_aead_*(), where nothing is assumed of the *)
(* algorithms: their functions may return any context and any status. Then *)
(* the calls and the algorithms together: the context of an operation is   *)
(* at any time that of the data it was given, so the keystream is used in  *)
(* order, tags cover the message, and the driver takes what the core lets  *)
(* through.                                                                *)
(***************************************************************************)
EXTENDS Aead, AeadEnginesProof

Pledged(given_, op_) ==
    given_.declared =
        IF op_.lengths_set
        THEN <<given_.ad + op_.ad_remaining, given_.body + op_.body_remaining>>
        ELSE <<>>

Unstarted(given_, op_) ==
    /\ ~op_.ad_started => given_.ad = 0
    /\ ~op_.body_started => given_.body = 0

\* At any time what was passed and what remains add up to what was declared.
\* That nothing was passed before the flags say so makes it true when the
\* lengths are declared.
LengthsInv ==
    /\ op \in OpType
    /\ given \in GivenType
    /\ Pledged(given, op)
    /\ Unstarted(given, op)
    /\ ~op.id => op = NoOp
    /\ LengthsHonoured

\* First() is "OK" only if both checks are.
LEMMA FirstOK == \A a, b : First(a, b) = "OK" <=> a = "OK" /\ b = "OK"
BY DEF First

\* Check() is "OK" exactly when its condition holds.
LEMMA CheckOK ==
    ASSUME NEW ok \in BOOLEAN, NEW status, status # "OK"
    PROVE  Check(ok, status) = "OK" <=> ok
BY DEF Check

\* An aborted operation is one that was never set up.
LEMMA AbortClears == LengthsInv => psa_aead_abort(op) = NoOp
BY DEF LengthsInv, psa_aead_abort

\* Nothing is pledged by an operation that is not in use.
LEMMA NoOpGood == /\ NoOp \in OpType
                  /\ NothingGiven \in GivenType
                  /\ Pledged(NothingGiven, NoOp)
                  /\ Unstarted(NothingGiven, NoOp)
                  /\ ~NoOp.id
BY DEF NoOp, OpType, NothingGiven, GivenType, Pledged, Unstarted

\* When an operation ends, nothing is pledged any more.
LEMMA EndsGood ==
    LengthsInv /\ Ends => op' = NoOp /\ given' = NothingGiven
BY AbortClears DEF Ends

\* A call without a tag honours any lengths.
LEMMA NoOutputGood == out' = NoOutput => LengthsHonoured'
BY DEF NoOutput, LengthsHonoured

\* A call in the middle of an operation keeps the invariant if it keeps the
\* account when all its checks pass.
LEMMA CallGood ==
    ASSUME LengthsInv, NEW call, NEW checks, NEW r, NEW after, NEW data,
           Call(call, checks, r, after, data),
           checks = "OK" => /\ after \in OpType
                            /\ data \in GivenType
                            /\ Pledged(data, after)
                            /\ Unstarted(data, after)
                            /\ after.id
    PROVE  LengthsInv'
<1>1. LengthsHonoured' BY NoOutputGood DEF Call
<1>2. CASE First(checks, r.status) = "OK"
  <2>1. op' = after /\ given' = data /\ checks = "OK"
    BY <1>2, FirstOK DEF Call
  <2> QED BY <2>1, <1>1 DEF LengthsInv, Pledged, Unstarted
<1>3. CASE First(checks, r.status) # "OK"
  <2>1. op' = NoOp /\ given' = NothingGiven BY <1>3, EndsGood DEF Call
  <2> QED BY <2>1, <1>1, NoOpGood DEF LengthsInv, Pledged, Unstarted
<1> QED BY <1>2, <1>3

\* A step that leaves the operation alone keeps its account.
LEMMA UnchangedGood ==
    ASSUME LengthsInv, UNCHANGED <<op, given>>, LengthsHonoured'
    PROVE  LengthsInv'
BY DEF LengthsInv, Pledged, Unstarted

\* The account holds of an operation that was never set up.
LEMMA InitGood == Init => LengthsInv
<1> SUFFICES ASSUME Init PROVE LengthsInv OBVIOUS
<1>1. op = NoOp /\ given = NothingGiven BY DEF Init
<1>2. LengthsHonoured BY DEF Init, NoOutput, LengthsHonoured
<1> QED BY <1>1, <1>2, NoOpGood DEF LengthsInv, Pledged, Unstarted

\* psa_aead_encrypt_setup() and psa_aead_decrypt_setup() pledge nothing.
LEMMA SetupGood ==
    ASSUME LengthsInv, NEW alg \in Algs, NEW is_encrypt \in BOOLEAN,
           psa_aead_setup(alg, is_encrypt)
    PROVE  LengthsInv'
<1> DEFINE fresh == ~(op.id \/ op.nonce_set \/ op.lengths_set
                       \/ op.ad_started \/ op.body_started)
           after == [op EXCEPT !.id = TRUE, !.alg = alg, !.is_encrypt = is_encrypt]
<1>1. PICK found : Call("setup", First(Check(fresh, "BAD_STATE"), found), Proceed(Keyed),
                        after, NothingGiven)
  BY DEF psa_aead_setup
<1>2. ASSUME First(Check(fresh, "BAD_STATE"), found) = "OK"
      PROVE  /\ after \in OpType /\ after.id
             /\ Pledged(NothingGiven, after) /\ Unstarted(NothingGiven, after)
  <2>1. op \in OpType BY DEF LengthsInv
  <2>2. fresh BY <1>2, <2>1, FirstOK DEF Check
  <2>3. after \in OpType /\ after.id /\ ~after.lengths_set BY <2>1, <2>2 DEF OpType
  <2> QED BY <2>3 DEF Pledged, Unstarted, NothingGiven
<1> HIDE DEF fresh, after
<1> QED BY <1>1, <1>2, CallGood, NoOpGood

\* psa_aead_set_nonce_internal() leaves the account alone.
LEMMA NonceGood ==
    ASSUME LengthsInv, NEW call, NEW checks, NEW nonce, NEW hash,
           psa_aead_set_nonce_internal(call, checks, nonce, hash)
    PROVE  LengthsInv'
<1> DEFINE after == [op EXCEPT !.nonce_set = TRUE]
           all == First(checks, NonceChecks(nonce))
           r == mbedtls_psa_aead_set_nonce(op.alg, ctx, nonce, hash)
<1>1. Call(call, all, r, after, given) BY DEF psa_aead_set_nonce_internal
<1>2. ASSUME all = "OK"
      PROVE  /\ after \in OpType /\ after.id /\ given \in GivenType
             /\ Pledged(given, after) /\ Unstarted(given, after)
  <2>1. op \in OpType /\ given \in GivenType /\ Pledged(given, op) /\ Unstarted(given, op)
    BY DEF LengthsInv
  <2>2. op.id BY <1>2, <2>1, FirstOK DEF NonceChecks, Check
  <2> QED BY <2>1, <2>2 DEF Pledged, Unstarted, OpType
<1> HIDE DEF after, all, r
<1> QED BY <1>1, <1>2, CallGood

\* So does psa_aead_set_nonce(), with a copy of the nonce or without.
LEMMA SetNonceGood ==
    ASSUME LengthsInv, NEW nonce, NEW hash, psa_aead_set_nonce(nonce, hash)
    PROVE  LengthsInv'
<1>1. CASE psa_aead_set_nonce_internal("set_nonce", "OK", nonce, hash)
  BY <1>1, NonceGood
<1>2. CASE out' = NoOutput /\ UNCHANGED <<op, ctx, given>>
  BY <1>2, NoOutputGood, UnchangedGood
<1> QED BY <1>1, <1>2 DEF psa_aead_set_nonce

\* So does psa_aead_generate_nonce().
LEMMA GenerateNonceGood ==
    ASSUME LengthsInv, NEW nonce_size, psa_aead_generate_nonce(nonce_size)
    PROVE  LengthsInv'
<1>1. PICK checks :
        psa_aead_set_nonce_internal("generate_nonce", checks, RequiredNonce(op.alg), 1)
  BY DEF psa_aead_generate_nonce
<1> QED BY <1>1, NonceGood

\* psa_aead_set_lengths() pledges what is declared before any data.
LEMMA SetLengthsGood ==
    ASSUME LengthsInv, NEW ad \in AdLengths, NEW body \in BodyLengths,
           psa_aead_set_lengths(ad, body)
    PROVE  LengthsInv'
<1> DEFINE allowed == op.id /\ ~op.lengths_set /\ ~op.ad_started /\ ~op.body_started
           limits == Check(LengthsAllowed(op.alg, ad, body), "INVALID_ARGUMENT")
           after == [op EXCEPT !.lengths_set = TRUE, !.ad_remaining = ad,
                               !.body_remaining = body]
           data == [given EXCEPT !.declared = <<ad, body>>]
           r == mbedtls_psa_aead_set_lengths(op.alg, ctx, ad, body)
<1>1. Call("set_lengths", First(Check(allowed, "BAD_STATE"), limits), r, after, data)
  BY DEF psa_aead_set_lengths
<1>2. ASSUME First(Check(allowed, "BAD_STATE"), limits) = "OK"
      PROVE  /\ after \in OpType /\ after.id /\ data \in GivenType
             /\ Pledged(data, after) /\ Unstarted(data, after)
  <2>1. /\ op \in OpType /\ given \in GivenType
        /\ Pledged(given, op) /\ Unstarted(given, op)
    BY DEF LengthsInv
  <2>2. allowed BY <1>2, <2>1, FirstOK DEF Check
  <2>3. given.ad = 0 /\ given.body = 0 BY <2>1, <2>2 DEF Unstarted
  <2>4. ad \in Nat /\ body \in Nat BY AeadAssumption
  <2>5. after \in OpType /\ after.id /\ data \in GivenType
    BY <2>1, <2>2, <2>4 DEF OpType, GivenType
  <2>6. /\ data.ad = 0 /\ data.body = 0 /\ data.declared = <<ad, body>>
        /\ after.lengths_set /\ after.ad_remaining = ad /\ after.body_remaining = body
    BY <2>1, <2>3 DEF OpType, GivenType
  <2>7. data.ad + after.ad_remaining = ad /\ data.body + after.body_remaining = body
    BY <2>4, <2>6
  <2> HIDE DEF after, data
  <2> QED BY <2>5, <2>6, <2>7 DEF Pledged, Unstarted
<1> HIDE DEF allowed, limits, after, data, r
<1> QED BY <1>1, <1>2, CallGood

\* psa_aead_update_ad() takes off what remains what it adds to the data.
LEMMA UpdateAdGood ==
    ASSUME LengthsInv, NEW n \in Nat, psa_aead_update_ad(n)
    PROVE  LengthsInv'
<1> DEFINE allowed == op.id /\ op.nonce_set /\ ~op.body_started
           fits == First(Check(AdFits(op, n), "INVALID_ARGUMENT"),
                         Check(Sized(op), "BAD_STATE"))
           checks(copied) ==
             First(IF n = 0 THEN "OK" ELSE copied,
             First(Check(allowed, "BAD_STATE"), IF n = 0 THEN "OK" ELSE fits))
           after == [op EXCEPT !.ad_started = TRUE,
                               !.ad_remaining = IF op.lengths_set THEN @ - n ELSE @]
           data == [given EXCEPT !.ad = @ + n]
           r == IF n = 0 THEN Proceed(ctx)
                ELSE mbedtls_psa_aead_update_ad(op.alg, ctx, AdCells(given.ad, n))
<1>1. PICK copied : Call("update_ad", checks(copied), r, after, data)
  BY DEF psa_aead_update_ad
<1>2. ASSUME checks(copied) = "OK"
      PROVE  /\ after \in OpType /\ after.id /\ data \in GivenType
             /\ Pledged(data, after) /\ Unstarted(data, after)
  <2>1. /\ op \in OpType /\ given \in GivenType
        /\ Pledged(given, op) /\ Unstarted(given, op)
    BY DEF LengthsInv
  <2>2. allowed BY <1>2, <2>1, FirstOK DEF Check
  <2>3. op.lengths_set => n <= op.ad_remaining
    <3>1. CASE n = 0 BY <3>1, <2>1 DEF OpType
    <3>2. CASE n # 0
      <4>1. Check(AdFits(op, n), "INVALID_ARGUMENT") = "OK" BY <1>2, <3>2, FirstOK
      <4> QED BY <4>1 DEF Check, AdFits
    <3> QED BY <3>1, <3>2
  <2> DEFINE rest == IF op.lengths_set THEN op.ad_remaining - n ELSE op.ad_remaining
  <2>0. /\ rest \in Nat /\ given.ad + n \in Nat
        /\ op.lengths_set => (given.ad + n) + rest = given.ad + op.ad_remaining
    BY <2>1, <2>3 DEF OpType, GivenType
  <2>4. after \in OpType /\ after.id /\ after.ad_started
    <3> HIDE DEF rest
    <3>1. after = [op EXCEPT !.ad_started = TRUE, !.ad_remaining = rest] BY DEF rest
    <3> HIDE DEF after
    <3> QED BY <2>0, <2>1, <2>2, <3>1 DEF OpType
  <2>5. data \in GivenType BY <2>0, <2>1 DEF GivenType
  <2>6. Unstarted(data, after) BY <2>1, <2>4 DEF Unstarted, OpType, GivenType
  <2>7. Pledged(data, after) BY <2>1, <2>3 DEF Pledged, OpType, GivenType
  <2> QED BY <2>4, <2>5, <2>6, <2>7
<1> HIDE DEF checks, after, data, r
<1> QED BY <1>1, <1>2, CallGood

\* psa_aead_update() takes off what remains what it adds to the body.
LEMMA UpdateGood ==
    ASSUME LengthsInv, NEW n \in Nat, NEW output_size, psa_aead_update(n, output_size)
    PROVE  LengthsInv'
<1> DEFINE fits == Check(op.lengths_set => op.ad_remaining = 0 /\ n <= op.body_remaining,
                         "INVALID_ARGUMENT")
           checks(copied) ==
             First(IF n = 0 /\ output_size = 0 THEN "OK" ELSE copied,
             First(Check(op.id /\ op.nonce_set, "BAD_STATE"),
             First(fits, Check(Sized(op), "BAD_STATE"))))
           after == [op EXCEPT !.body_started = TRUE,
                               !.body_remaining = IF op.lengths_set THEN @ - n ELSE @]
           data == [given EXCEPT !.body = @ + n]
           r == mbedtls_psa_aead_update(op.alg, ctx, BodyCells(given.body, n), output_size)
<1>1. PICK copied : Call("update", checks(copied), r, after, data)
  BY DEF psa_aead_update
<1>2. ASSUME checks(copied) = "OK"
      PROVE  /\ after \in OpType /\ after.id /\ data \in GivenType
             /\ Pledged(data, after) /\ Unstarted(data, after)
  <2>1. /\ op \in OpType /\ given \in GivenType
        /\ Pledged(given, op) /\ Unstarted(given, op)
    BY DEF LengthsInv
  <2>2. /\ Check(op.id /\ op.nonce_set, "BAD_STATE") = "OK"
        /\ fits = "OK"
    BY <1>2, FirstOK
  <2>3. op.id /\ (op.lengths_set => n <= op.body_remaining) BY <2>2, <2>1 DEF Check
  <2> DEFINE rest == IF op.lengths_set THEN op.body_remaining - n ELSE op.body_remaining
  <2>0. /\ rest \in Nat /\ given.body + n \in Nat
        /\ op.lengths_set => (given.body + n) + rest = given.body + op.body_remaining
    BY <2>1, <2>3 DEF OpType, GivenType
  <2>4. after \in OpType /\ after.id /\ after.body_started
    <3> HIDE DEF rest
    <3>1. after = [op EXCEPT !.body_started = TRUE, !.body_remaining = rest] BY DEF rest
    <3> HIDE DEF after
    <3> QED BY <2>0, <2>1, <2>3, <3>1 DEF OpType
  <2>5. data \in GivenType BY <2>0, <2>1 DEF GivenType
  <2>6. Unstarted(data, after) BY <2>1, <2>4 DEF Unstarted, OpType, GivenType
  <2>7. Pledged(data, after) BY <2>1, <2>3 DEF Pledged, OpType, GivenType
  <2> QED BY <2>4, <2>5, <2>6, <2>7
<1> HIDE DEF checks, after, data, r
<1> QED BY <1>1, <1>2, CallGood

\* The final checks let a message through only with its declared lengths.
LEMMA FinalGood ==
    ASSUME LengthsInv, NEW status, NEW c,
           Authentic(status, op.alg, given, c), Ends,
           status = "OK" => psa_aead_final_checks(op) = "OK"
    PROVE  LengthsInv'
<1>1. op' = NoOp /\ given' = NothingGiven BY EndsGood
<1>2. CASE status = "OK"
  <2>1. /\ op \in OpType /\ given \in GivenType /\ Pledged(given, op)
    BY DEF LengthsInv
  <2>2. /\ Check(Sized(op) /\ op.id /\ op.nonce_set, "BAD_STATE") = "OK"
        /\ Check(AllGiven(op), "INVALID_ARGUMENT") = "OK"
    BY <1>2, FirstOK DEF psa_aead_final_checks
  <2>3. Sized(op) /\ AllGiven(op) BY <2>2 DEF Check
  <2>4. /\ given.declared \in {<<>>, <<given.ad, given.body>>}
        /\ op.alg = "CCM" => given.declared # <<>>
    BY <2>1, <2>3 DEF Pledged, OpType, GivenType, Sized, AllGiven
  <2>5. out'.alg = op.alg /\ out'.given = given BY <1>2 DEF Authentic
  <2>6. LengthsHonoured' BY <2>4, <2>5 DEF LengthsHonoured
  <2> QED BY <1>1, <2>6, NoOpGood DEF LengthsInv, Pledged, Unstarted
<1>3. CASE status # "OK"
  <2>1. LengthsHonoured' BY <1>3, NoOutputGood DEF Authentic
  <2> QED BY <1>1, <2>1, NoOpGood DEF LengthsInv, Pledged, Unstarted
<1> QED BY <1>2, <1>3

\* psa_aead_finish() honours the pledge.
LEMMA FinishGood ==
    ASSUME LengthsInv, NEW tag_size, psa_aead_finish(tag_size)
    PROVE  LengthsInv'
<1> DEFINE r == mbedtls_psa_aead_finish(op.alg, ctx, tag_size)
           status(copied) ==
             First(copied, First(First(psa_aead_final_checks(op),
                                       Check(op.is_encrypt, "BAD_STATE")), r.status))
<1>1. PICK copied : Authentic(status(copied), op.alg, given, r.ctx) /\ Ends
  BY DEF psa_aead_finish
<1>2. status(copied) = "OK" => psa_aead_final_checks(op) = "OK" BY FirstOK
<1> HIDE DEF status, r
<1> QED BY <1>1, <1>2, FinalGood

\* psa_aead_verify() honours the pledge.
LEMMA VerifyGood ==
    ASSUME LengthsInv, NEW genuine, psa_aead_verify(genuine)
    PROVE  LengthsInv'
<1> DEFINE r == psa_driver_wrapper_aead_verify(op.alg, ctx, genuine)
           status(copied) ==
             First(copied, First(First(psa_aead_final_checks(op),
                                       Check(~op.is_encrypt, "BAD_STATE")), r.status))
<1>1. PICK copied : Authentic(status(copied), op.alg, given, r.ctx) /\ Ends
  BY DEF psa_aead_verify
<1>2. status(copied) = "OK" => psa_aead_final_checks(op) = "OK" BY FirstOK
<1> HIDE DEF status, r
<1> QED BY <1>1, <1>2, FinalGood

\* psa_aead_abort() ends the pledge.
LEMMA AbortGood == LengthsInv /\ Abort => LengthsInv'
<1> SUFFICES ASSUME LengthsInv, Abort PROVE LengthsInv' OBVIOUS
<1>1. op' = NoOp /\ given' = NothingGiven /\ LengthsHonoured'
  BY EndsGood, NoOutputGood DEF Abort
<1> QED BY <1>1, NoOpGood DEF LengthsInv, Pledged, Unstarted

\* A call in one part declares what it is given.
LEMMA OneShotGood ==
    ASSUME LengthsInv, NEW call, NEW alg, NEW nonce, NEW hash, NEW ad, NEW body,
           NEW verdict, OneShot(call, alg, nonce, hash, ad, body, verdict)
    PROVE  LengthsInv'
<1> DEFINE data == [ad |-> ad, body |-> body, declared |-> <<ad, body>>]
<1>1. PICK status, c : Authentic(status, alg, data, c) /\ UNCHANGED <<op, ctx, given>>
  BY DEF OneShot
<1>2. LengthsHonoured' BY <1>1 DEF Authentic, LengthsHonoured, NoOutput
<1> QED BY <1>1, <1>2, UnchangedGood

\* Every call keeps the account.
LEMMA StepGood == LengthsInv /\ [Next]_vars => LengthsInv'
<1> SUFFICES ASSUME LengthsInv, [Next]_vars PROVE LengthsInv' OBVIOUS
<1>1. CASE UNCHANGED vars
  <2>1. LengthsHonoured' BY <1>1 DEF vars, LengthsInv, LengthsHonoured
  <2> QED BY <1>1, <2>1, UnchangedGood DEF vars
<1>2. ASSUME NEW alg \in Algs, NEW is_encrypt \in BOOLEAN, psa_aead_setup(alg, is_encrypt)
      PROVE  LengthsInv'
  BY <1>2, SetupGood
<1>3. ASSUME NEW nonce, NEW hash, psa_aead_set_nonce(nonce, hash) PROVE LengthsInv'
  BY <1>3, SetNonceGood
<1>4. ASSUME NEW size, psa_aead_generate_nonce(size) PROVE LengthsInv'
  BY <1>4, GenerateNonceGood
<1>5. ASSUME NEW ad \in AdLengths, NEW body \in BodyLengths, psa_aead_set_lengths(ad, body)
      PROVE  LengthsInv'
  BY <1>5, SetLengthsGood
<1>6. ASSUME NEW n \in 0 .. MaxAd - given.ad, psa_aead_update_ad(n) PROVE LengthsInv'
  <2>1. n \in Nat BY DEF LengthsInv, GivenType
  <2> QED BY <1>6, <2>1, UpdateAdGood
<1>7. ASSUME NEW n \in 0 .. MaxBody - given.body, NEW size, psa_aead_update(n, size)
      PROVE  LengthsInv'
  <2>1. n \in Nat BY DEF LengthsInv, GivenType
  <2> QED BY <1>7, <2>1, UpdateGood
<1>8. ASSUME NEW size, psa_aead_finish(size) PROVE LengthsInv' BY <1>8, FinishGood
<1>9. ASSUME NEW genuine, psa_aead_verify(genuine) PROVE LengthsInv' BY <1>9, VerifyGood
<1>10. CASE Abort BY <1>10, AbortGood
<1>11. ASSUME NEW alg, NEW nonce, NEW hash, NEW ad, NEW body,
              \/ psa_aead_encrypt(alg, nonce, hash, ad, body)
              \/ psa_aead_decrypt(alg, nonce, hash, ad, body)
       PROVE  LengthsInv'
  BY <1>11, OneShotGood DEF psa_aead_encrypt, psa_aead_decrypt
<1> QED
  BY <1>1, <1>2, <1>3, <1>4, <1>5, <1>6, <1>7, <1>8, <1>9, <1>10, <1>11 DEF Next

\* psa_aead_finish(), psa_aead_verify() and the calls in one part succeed only
\* for a message of the declared lengths, whatever the algorithm does.
THEOREM LengthsAreHonoured == Spec => []LengthsHonoured
<1>1. LengthsInv => LengthsHonoured BY DEF LengthsInv
<1> QED BY InitGood, StepGood, <1>1, PTL DEF Spec

-----------------------------------------------------------------------------
(* A message in one call.                                                  *)

\* What a function returns that succeeds.
LEMMA Proceeds == \A c : (Proceed(c)).status = "OK" /\ (Proceed(c)).ctx = c
BY DEF Proceed

\* What a function returns that fails.
LEMMA Stops == \A c, status : (Stop(c, status)).status = status /\ (Stop(c, status)).ctx = c
BY DEF Stop

\* A step that ends with the status OK began with it.
LEMMA GcmInOne == \A nonce, hash, ad, body :
  LET j0 == IF nonce = 12 THEN 1 ELSE hash
      r == mbedtls_gcm_crypt_and_tag(nonce, hash, ad, body)
  IN  IsJ0(j0) /\ ad \in Nat /\ body \in Nat /\ r.status = "OK" => Covers("GCM", r, ad, body)
<1> TAKE nonce, hash, ad, body
<1> DEFINE j0 == IF nonce = 12 THEN 1 ELSE hash
           r == mbedtls_gcm_crypt_and_tag(nonce, hash, ad, body)
           r1 == mbedtls_gcm_starts(Keyed, nonce, hash)
           r2 == IF r1.status = "OK" THEN mbedtls_gcm_update_ad(r1.ctx, AdCells(0, ad)) ELSE r1
           r3 == IF r2.status = "OK" THEN mbedtls_gcm_update(r2.ctx, BodyCells(0, body)) ELSE r2
           r4 == IF r3.status = "OK" THEN mbedtls_gcm_finish(r3.ctx) ELSE r3
<1> SUFFICES ASSUME IsJ0(j0), ad \in Nat, body \in Nat, r.status = "OK"
             PROVE  Covers("GCM", r, ad, body)
  OBVIOUS
<1>1. r = r4
  BY DEF mbedtls_gcm_crypt_and_tag, Then
<1> HIDE DEF r
<1>2. r3.status = "OK" /\ r = mbedtls_gcm_finish(r3.ctx)
  <2> HIDE DEF r3
  <2> QED
    BY <1>1
<1>3. r2.status = "OK" /\ r3 = mbedtls_gcm_update(r2.ctx, BodyCells(0, body))
  <2> HIDE DEF r2
  <2> QED
    BY <1>2
<1>4. r1.status = "OK" /\ r2 = mbedtls_gcm_update_ad(r1.ctx, AdCells(0, ad))
  <2> HIDE DEF r1
  <2> QED
    BY <1>3
<1> DEFINE zero == 0
           a == zero + ad
           b == zero + body
<1>5. zero \in Nat /\ a = ad /\ b = body
  OBVIOUS
<1>6. r1 = Proceed(GcmCtx(j0, 0, 0))
  <2>1. nonce # 0
    BY <1>4, Stops DEF mbedtls_gcm_starts
  <2> QED
    BY <2>1, GcmStartsAs
<1> HIDE DEF r1, j0
<1>7. r2 = Proceed(GcmCtx(j0, ad, 0))
  <2>1. r1.ctx = GcmCtx(j0, zero, 0)
    BY <1>6, Proceeds
  <2>2. r2 = mbedtls_gcm_update_ad(GcmCtx(j0, zero, 0), AdCells(zero, ad))
    BY <1>4, <2>1
  <2> HIDE DEF r2, zero
  <2>3. r2 = IF a >= GcmAdLimit THEN Stop(GcmCtx(j0, zero, 0), "INVALID_ARGUMENT")
             ELSE Proceed(GcmCtx(j0, a, 0))
    BY <1>5, <2>2, GcmAdAs
  <2> HIDE DEF a
  <2>4. r2 = Proceed(GcmCtx(j0, a, 0))
    BY <1>3, <2>3, Stops
  <2> QED
    BY <1>5, <2>4
<1> HIDE DEF r2
<1>8. r3 = Proceed(GcmCtx(j0, ad, body))
  <2>1. r2.ctx = GcmCtx(j0, ad, zero)
    BY <1>7, Proceeds
  <2>2. r3 = mbedtls_gcm_update(GcmCtx(j0, ad, zero), BodyCells(zero, body))
    BY <1>3, <2>1
  <2> HIDE DEF r3, zero
  <2>3. r3 = IF body = 0 THEN Proceed(GcmCtx(j0, ad, zero))
             ELSE IF b > GcmBodyLimit THEN Stop(GcmCtx(j0, ad, zero), "INVALID_ARGUMENT")
             ELSE Proceed(GcmCtx(j0, ad, b))
    BY <1>5, <2>2, GcmUpdateAs
  <2> HIDE DEF b
  <2>4. body # 0 => r3 = Proceed(GcmCtx(j0, ad, b))
    BY <1>2, <2>3, Stops
  <2>5. body = 0 => r3 = Proceed(GcmCtx(j0, ad, body))
    BY <2>3 DEF zero
  <2> QED
    BY <1>5, <2>4, <2>5
<1> HIDE DEF r3
<1>9. r = mbedtls_gcm_finish(GcmCtx(j0, ad, body))
  BY <1>2, <1>8, Proceeds
<1> QED
  BY <1>9, GcmFinishAs

\* chachapoly_crypt_and_tag() covers its message.
LEMMA ChaInOne == \A ad, body :
  LET r == chachapoly_crypt_and_tag(ad, body)
  IN  ad \in Nat /\ body \in Nat => Covers("CHACHA20_POLY1305", r, ad, body)
<1> TAKE ad, body
<1> DEFINE r == chachapoly_crypt_and_tag(ad, body)
           r1 == mbedtls_chachapoly_starts(Keyed)
           r2 == IF r1.status = "OK" THEN mbedtls_chachapoly_update_aad(r1.ctx, AdCells(0, ad)) ELSE r1
           r3 == IF r2.status = "OK" THEN mbedtls_chachapoly_update(r2.ctx, BodyCells(0, body)) ELSE r2
           r4 == IF r3.status = "OK" THEN mbedtls_chachapoly_finish(r3.ctx) ELSE r3
<1> SUFFICES ASSUME ad \in Nat, body \in Nat
             PROVE  Covers("CHACHA20_POLY1305", r, ad, body)
  OBVIOUS
<1>1. r = r4
  BY DEF chachapoly_crypt_and_tag, Then
<1> HIDE DEF r
<1> DEFINE zero == 0
           a == zero + ad
           b == zero + body
<1>2. zero \in Nat /\ a = ad /\ b = body
  OBVIOUS
<1>3. r1 = Proceed(ChaAdded(zero))
  BY ChaStartsAs
<1> HIDE DEF r1
<1>4. r2 = mbedtls_chachapoly_update_aad(ChaAdded(zero), AdCells(zero, ad))
  BY <1>3, Proceeds
<1> HIDE DEF r2
<1>5. r2 = Proceed(ChaAdded(ad))
  <2> HIDE DEF zero
  <2>1. r2 = Proceed(ChaAdded(a))
    BY <1>2, <1>4, ChaAdAs
  <2> QED
    BY <1>2, <2>1
<1>6. r3 = mbedtls_chachapoly_update(ChaCtx(ad, zero, FALSE), BodyCells(zero, body))
  BY <1>5, Proceeds DEF ChaCtx
<1> HIDE DEF r3
<1>7. r3 = Proceed(ChaCtx(ad, body, TRUE))
  <2>1. zero = 0
    OBVIOUS
  <2> HIDE DEF zero
  <2>2. mbedtls_chachapoly_update(ChaCtx(ad, zero, FALSE), BodyCells(zero, body)) = Proceed(ChaBodied(ad, b))
    BY <1>2, <2>1, ChaUpdateAs
  <2> QED
    BY <1>2, <1>6, <2>2 DEF ChaCtx
<1>8. r = mbedtls_chachapoly_finish(ChaCtx(ad, body, TRUE))
  BY <1>1, <1>7, Proceeds
<1> QED
  BY <1>8, ChaFinishAs

\* ccm_auth_crypt() covers its message if it succeeds.
LEMMA CcmInOne == \A nonce, ad, body :
  LET r == ccm_auth_crypt(nonce, ad, body)
  IN  ad \in Nat /\ body \in Nat /\ r.status = "OK" => Covers("CCM", r, ad, body)
<1> TAKE nonce, ad, body
<1> DEFINE r == ccm_auth_crypt(nonce, ad, body)
           r1 == mbedtls_ccm_starts(Keyed, nonce)
           r2 == IF r1.status = "OK" THEN mbedtls_ccm_set_lengths(r1.ctx, ad, body) ELSE r1
           r3 == IF r2.status = "OK" THEN mbedtls_ccm_update_ad(r2.ctx, AdCells(0, ad)) ELSE r2
           r4 == IF r3.status = "OK" THEN mbedtls_ccm_update(r3.ctx, BodyCells(0, body)) ELSE r3
           r5 == IF r4.status = "OK" THEN mbedtls_ccm_finish(r4.ctx) ELSE r4
           R == LengthRange[nonce]
<1> SUFFICES ASSUME ad \in Nat, body \in Nat, r.status = "OK"
             PROVE  Covers("CCM", r, ad, body)
  OBVIOUS
<1>1. r = r5
  BY DEF ccm_auth_crypt, Then
<1> HIDE DEF r
<1>2. r4.status = "OK" /\ r = mbedtls_ccm_finish(r4.ctx)
  <2> HIDE DEF r4
  <2> QED
    BY <1>1
<1>3. r3.status = "OK" /\ r4 = mbedtls_ccm_update(r3.ctx, BodyCells(0, body))
  <2> HIDE DEF r3
  <2> QED
    BY <1>2
<1>4. r2.status = "OK" /\ r3 = mbedtls_ccm_update_ad(r2.ctx, AdCells(0, ad))
  <2> HIDE DEF r2
  <2> QED
    BY <1>3
<1>5. r1.status = "OK" /\ r2 = mbedtls_ccm_set_lengths(r1.ctx, ad, body)
  <2> HIDE DEF r1
  <2> QED
    BY <1>4
<1> DEFINE zero == 0
<1>6. zero \in Nat /\ ad = zero + ad /\ body = zero + body
  OBVIOUS
<1>7. nonce \in CcmNonces /\ r1 = Proceed(CcmNonced(R))
  BY <1>5, CcmRefuses, CcmStartsAs
<1>8. CcmSizesAre(ad, body, R)
  BY <1>7, AeadEnginesAssumption DEF CcmSizesAre
<1> HIDE DEF r1, R
<1>9. r2 = mbedtls_ccm_set_lengths(CcmNonced(R), ad, body)
  BY <1>5, <1>7, Proceeds
<1> HIDE DEF r2
<1>10. body < R /\ r2 = Proceed(CcmReady(ad, body, R))
  <2>1. CcmStarts(r2, ad, body, R)
    BY <1>4, <1>9, CcmLengthsAs
  <2> QED
    BY <1>4, <1>8, <2>1 DEF CcmStarts, CcmSizesAre
<1>11. r3 = mbedtls_ccm_update_ad(CcmCtx(ad, body, R, zero, 0), AdCells(zero, ad))
  BY <1>4, <1>8, <1>10, CcmReadyIs, Proceeds
<1> HIDE DEF r3
<1>12. r3 = Proceed(CcmCtx(ad, body, R, ad, 0))
  <2>1. CcmAdGoesTo(ad, body, R, zero, ad, ad)
    BY <1>6, <1>8 DEF CcmAdGoesTo
  <2> HIDE DEF zero
  <2> QED
    BY <1>11, <2>1, CcmAdTo
<1>13. r4 = mbedtls_ccm_update(CcmCtx(ad, body, R, ad, zero), BodyCells(zero, body))
  BY <1>3, <1>12, Proceeds
<1> HIDE DEF r4
<1>14. r4 = Proceed(CcmCtx(ad, body, R, ad, body))
  <2>1. CcmGoesTo(ad, body, R, zero, body, body)
    BY <1>6, <1>8 DEF CcmGoesTo, CcmSizesAre
  <2> HIDE DEF zero
  <2> QED
    BY <1>13, <2>1, CcmBodyTo
<1>15. r = mbedtls_ccm_finish(CcmCtx(ad, body, R, ad, body))
  BY <1>2, <1>14, Proceeds
<1> QED
  BY <1>8, <1>15, CcmCovers

-----------------------------------------------------------------------------
(* The context of an operation at any time: begun tells whether the body   *)
(* has begun, d is what was declared, a and b what was passed.             *)

GcmStream(set, sized, d, a, b, c) ==
    /\ b <= GcmBodyLimit
    /\ sized => d[1] < GcmAdLimit /\ d[2] <= GcmBodyLimit
    /\ IF set THEN \E j0 : IsJ0(j0) /\ c = GcmCtx(j0, a, b) ELSE c = Keyed

ChaStream(set, begun, a, b, c) == c = IF set THEN ChaCtx(a, b, begun) ELSE Keyed

CcmStream(set, sized, d, a, b, c) ==
    IF sized
    THEN IF set THEN \E R : /\ CcmSizesAre(d[1], d[2], R) /\ d[2] < R
                            /\ c = CcmCtx(d[1], d[2], R, a, b)
         ELSE c = CcmSized(d[1], d[2])
    ELSE /\ a = 0 /\ b = 0
         /\ IF set THEN \E R : R \in Nat /\ R > 1 /\ c = CcmNonced(R) ELSE c = Keyed

AlgStream(alg, set, sized, begun, d, a, b, c) ==
    CASE alg = "GCM" -> GcmStream(set, sized, d, a, b, c)
      [] alg = "CCM" -> CcmStream(set, sized, d, a, b, c)
      [] alg = "CHACHA20_POLY1305" -> ChaStream(set, begun, a, b, c)
      [] OTHER -> c = Keyed /\ ~set

Streamed(o, g, c) ==
    /\ AlgStream(o.alg, o.nonce_set, o.lengths_set, o.body_started,
                 g.declared, g.ad, g.body, c)
    /\ o.id => o.alg \in Algs
    /\ o.body_started => o.nonce_set
    /\ o.lengths_set /\ o.body_started => o.ad_remaining = 0
    /\ ~o.nonce_set => g.ad = 0 /\ g.body = 0
    /\ g.body <= MaxBody

\* What it takes to be in the middle of a stream, field by field.
LEMMA StreamedIs == \A o, g, c, alg, set, sized, begun, d, a, b, x :
  /\ o.alg = alg /\ o.nonce_set = set /\ o.lengths_set = sized /\ o.body_started = begun
  /\ o.ad_remaining = x /\ g.declared = d /\ g.ad = a /\ g.body = b
  /\ AlgStream(alg, set, sized, begun, d, a, b, c)
  /\ alg \in Algs /\ (begun => set) /\ (sized /\ begun => x = 0)
  /\ (~set => a = 0 /\ b = 0) /\ b <= MaxBody
  => Streamed(o, g, c)
BY DEF Streamed

\* The algorithms.
LEMMA AlgsAre == \A alg \in Algs : alg \in {"GCM", "CCM", "CHACHA20_POLY1305"}
BY DEF Algs

\* Before the nonce the context only has the lengths, if CCM is told them.
LEMMA NotBegun == \A alg, sized, begun, d, a, b, c :
  AlgStream(alg, FALSE, sized, begun, d, a, b, c) /\ alg \in Algs =>
    c = IF alg = "CCM" /\ sized THEN CcmSized(d[1], d[2]) ELSE Keyed
BY DEF AlgStream, GcmStream, CcmStream, ChaStream, Algs

\* GCM starts from a counter that is in range.
LEMMA HashIsCounter == \A alg, nonce, hash : hash \in Hashes(alg, nonce) =>
  IsJ0(IF nonce = 12 THEN 1 ELSE hash)
BY RangeOfCounter DEF Hashes, IsJ0

\* The nonce is taken: the stream begins.
LEMMA GcmNonce == \A sized, begun, d, nonce, hash, c :
  LET r == mbedtls_psa_aead_set_nonce("GCM", c, nonce, hash)
  IN  /\ c = Keyed /\ nonce # 0 /\ IsJ0(IF nonce = 12 THEN 1 ELSE hash)
      /\ GcmStream(FALSE, sized, d, 0, 0, c)
      => GcmStream(TRUE, sized, d, 0, 0, r.ctx)
<1> TAKE sized, begun, d, nonce, hash, c
<1> DEFINE r == mbedtls_psa_aead_set_nonce("GCM", c, nonce, hash)
           j0 == IF nonce = 12 THEN 1 ELSE hash
<1> SUFFICES ASSUME c = Keyed, nonce # 0, IsJ0(j0), GcmStream(FALSE, sized, d, 0, 0, c)
             PROVE  GcmStream(TRUE, sized, d, 0, 0, r.ctx)
  OBVIOUS
<1>1. r = Proceed(GcmCtx(j0, 0, 0)) BY GcmStartsAs DEF mbedtls_psa_aead_set_nonce
<1>2. r.ctx = GcmCtx(j0, 0, 0) BY <1>1, Proceeds
<1> HIDE DEF r, j0
<1> QED BY <1>2 DEF GcmStream

\* ChaCha20-Poly1305 takes the nonce, if it has 12 bytes.
LEMMA ChaNonce == \A nonce, hash, c :
  LET r == mbedtls_psa_aead_set_nonce("CHACHA20_POLY1305", c, nonce, hash)
  IN  c = Keyed /\ r.status = "OK" => ChaStream(TRUE, FALSE, 0, 0, r.ctx)
<1> TAKE nonce, hash, c
<1> DEFINE r == mbedtls_psa_aead_set_nonce("CHACHA20_POLY1305", c, nonce, hash)
<1> SUFFICES ASSUME c = Keyed, r.status = "OK" PROVE ChaStream(TRUE, FALSE, 0, 0, r.ctx)
  OBVIOUS
<1>1. nonce = 12 BY Stops DEF mbedtls_psa_aead_set_nonce
<1>2. r = Proceed(ChaAdded(0)) BY <1>1, ChaStartsAs DEF mbedtls_psa_aead_set_nonce
<1>3. r.ctx = ChaAdded(0) BY <1>2, Proceeds
<1> HIDE DEF r
<1> QED BY <1>3 DEF ChaStream, ChaCtx

\* CCM takes the nonce, with the lengths known or not.
LEMMA CcmNonce == \A sized, d, nonce, hash, c :
  LET r == mbedtls_psa_aead_set_nonce("CCM", c, nonce, hash)
  IN  /\ CcmStream(FALSE, sized, d, 0, 0, c) /\ r.status = "OK"
      /\ (sized => d[1] \in Nat /\ d[2] \in Nat)
      => CcmStream(TRUE, sized, d, 0, 0, r.ctx)
<1> TAKE sized, d, nonce, hash, c
<1> DEFINE r == mbedtls_psa_aead_set_nonce("CCM", c, nonce, hash)
           A == d[1]
           T == d[2]
           R == LengthRange[nonce]
<1> SUFFICES ASSUME CcmStream(FALSE, sized, d, 0, 0, c), r.status = "OK",
                    sized => A \in Nat /\ T \in Nat
             PROVE  CcmStream(TRUE, sized, d, 0, 0, r.ctx)
  OBVIOUS
<1>1. r = mbedtls_ccm_starts(c, nonce) BY DEF mbedtls_psa_aead_set_nonce
<1>2. nonce \in CcmNonces BY <1>1, CcmRefuses
<1>3. R \in Nat /\ R > 1 BY <1>2, AeadEnginesAssumption
<1> HIDE DEF r, R, A, T
<1>4. CASE sized
  <2>1. c = CcmSized(A, T) BY <1>4 DEF CcmStream, A, T
  <2>2. CcmStarts(r, A, T, R) BY <1>1, <1>2, <2>1, CcmStartsSized DEF R
  <2>3. ~(T >= R) /\ r = Proceed(CcmReady(A, T, R)) BY <2>2 DEF CcmStarts
  <2>4. CcmSizesAre(A, T, R) BY <1>3, <1>4 DEF CcmSizesAre
  <2>5. r.ctx = CcmCtx(A, T, R, 0, 0) BY <2>3, <2>4, CcmReadyIs, Proceeds
  <2>6. T < R BY <2>3, <1>3, <1>4
  <2> QED BY <1>4, <2>4, <2>5, <2>6 DEF CcmStream, A, T
<1>5. CASE ~sized
  <2>1. c = Keyed BY <1>5 DEF CcmStream
  <2>2. r = Proceed(CcmNonced(R)) BY <1>1, <1>2, <2>1, CcmStartsAs DEF R
  <2>3. r.ctx = CcmNonced(R) BY <2>2, Proceeds
  <2> QED BY <1>3, <1>5, <2>3 DEF CcmStream
<1> QED BY <1>4, <1>5

-----------------------------------------------------------------------------
(* The calls, each of which keeps this.                                    *)

StreamInv == Streamed(op, given, ctx)

\* A set-up operation that is aborted has no stream.
LEMMA NothingStreamed == Streamed(NoOp, NothingGiven, Keyed)
BY AeadAssumption DEF Streamed, AlgStream, NoOp, NothingGiven

\* A call without a tag covers nothing.
LEMMA NothingCovered == out' = NoOutput => TagCoversMessage'
BY DEF NoOutput, TagCoversMessage

\* An operation that ends has no stream.
LEMMA EndsStreamed == LengthsInv /\ Ends => StreamInv'
<1> SUFFICES ASSUME LengthsInv, Ends PROVE StreamInv' OBVIOUS
<1>1. op' = NoOp /\ given' = NothingGiven BY EndsGood
<1>2. ctx' = Keyed BY DEF Ends
<1> QED BY <1>1, <1>2, NothingStreamed DEF StreamInv

\* A call keeps the stream if the context the driver leaves is that of the
\* operation and the data after it, when both are good.
LEMMA CallStreamed ==
    ASSUME LengthsInv, NEW call, NEW checks, NEW r, NEW after, NEW data,
           Call(call, checks, r, after, data),
           checks = "OK" /\ r.status = "OK" => Streamed(after, data, r.ctx)
    PROVE  StreamInv' /\ TagCoversMessage'
<1>1. TagCoversMessage' BY NothingCovered DEF Call
<1>2. CASE First(checks, r.status) = "OK"
  <2>1. checks = "OK" /\ r.status = "OK" BY <1>2, FirstOK
  <2>2. op' = after /\ given' = data /\ ctx' = r.ctx BY <1>2 DEF Call
  <2> QED BY <1>1, <2>1, <2>2 DEF StreamInv
<1>3. CASE First(checks, r.status) # "OK"
  <2>1. Ends BY <1>3 DEF Call
  <2> QED BY <1>1, <2>1, EndsStreamed
<1> QED BY <1>2, <1>3

\* The lengths that were declared, in terms of what remains.
LEMMA Declared == LengthsInv /\ op.lengths_set =>
  /\ given.declared[1] = given.ad + op.ad_remaining
  /\ given.declared[2] = given.body + op.body_remaining
  /\ given.declared[1] \in Nat /\ given.declared[2] \in Nat
<1> SUFFICES ASSUME LengthsInv, op.lengths_set
             PROVE  /\ given.declared[1] = given.ad + op.ad_remaining
                    /\ given.declared[2] = given.body + op.body_remaining
                    /\ given.declared[1] \in Nat /\ given.declared[2] \in Nat
  OBVIOUS
<1>1. op \in OpType /\ given \in GivenType /\ Pledged(given, op) BY DEF LengthsInv
<1> DEFINE A == given.ad + op.ad_remaining
           T == given.body + op.body_remaining
<1>2. A \in Nat /\ T \in Nat BY <1>1 DEF OpType, GivenType
<1>3. given.declared = <<A, T>> BY <1>1 DEF Pledged
<1> HIDE DEF A, T
<1>4. given.declared[1] = A /\ given.declared[2] = T BY <1>3
<1> QED BY <1>2, <1>4 DEF A, T

\* The fields, typed, of an operation that is set up.
LEMMA OpFields == LengthsInv =>
  /\ op.id \in BOOLEAN /\ op.nonce_set \in BOOLEAN /\ op.lengths_set \in BOOLEAN
  /\ op.ad_started \in BOOLEAN /\ op.body_started \in BOOLEAN
  /\ op.ad_remaining \in Nat /\ op.body_remaining \in Nat
  /\ given.ad \in Nat /\ given.body \in Nat
BY DEF LengthsInv, OpType, GivenType

\* The limit of the body of GCM.
LEMMA BodyLimitOfGcm == GcmBodyLimit \in Nat
<1> DEFINE k == CounterRange - 2
<1>1. k \in Nat BY RangeOfCounter
<1>2. GcmBodyLimit = k * BlockSize BY AeadEnginesAssumption
<1> HIDE DEF k
<1> QED BY <1>1, <1>2, SizeOfBlock

\* psa_aead_encrypt_setup() and psa_aead_decrypt_setup().
LEMMA SetupStreamed ==
    ASSUME LengthsInv, NEW alg \in Algs, NEW is_encrypt, psa_aead_setup(alg, is_encrypt)
    PROVE  StreamInv' /\ TagCoversMessage'
<1> DEFINE fresh == ~(op.id \/ op.nonce_set \/ op.lengths_set
                       \/ op.ad_started \/ op.body_started)
           after == [op EXCEPT !.id = TRUE, !.alg = alg, !.is_encrypt = is_encrypt]
           r == Proceed(Keyed)
<1>1. PICK found : Call("setup", First(Check(fresh, "BAD_STATE"), found), r,
                        after, NothingGiven)
  BY DEF psa_aead_setup
<1>2. ASSUME First(Check(fresh, "BAD_STATE"), found) = "OK"
      PROVE  Streamed(after, NothingGiven, r.ctx)
  <2>1. op \in OpType BY DEF LengthsInv
  <2>2. fresh BY <1>2, <2>1, FirstOK DEF Check
  <2>3. /\ after.id /\ after.alg = alg /\ after.nonce_set = FALSE
        /\ after.lengths_set = FALSE /\ after.body_started = FALSE
        /\ after.ad_remaining = op.ad_remaining
    BY <2>1, <2>2 DEF OpType
  <2>4. r.ctx = Keyed BY Proceeds
  <2>5. /\ NothingGiven.ad = 0 /\ NothingGiven.body = 0 /\ NothingGiven.declared = <<>>
    BY DEF NothingGiven
  <2>6. 0 <= GcmBodyLimit
    BY BodyLimitOfGcm
  <2>7. AlgStream(alg, FALSE, FALSE, FALSE, <<>>, 0, 0, Keyed)
    BY <2>6, AlgsAre DEF AlgStream, GcmStream, CcmStream, ChaStream
  <2> HIDE DEF after, r
  <2>8. 0 <= MaxBody BY AeadAssumption
  <2> QED BY <2>3, <2>4, <2>5, <2>7, <2>8 DEF Streamed
<1> HIDE DEF fresh, after, r
<1> QED BY <1>1, <1>2, CallStreamed

\* The nonce is taken at the start of the stream.
LEMMA AlgNonce == \A alg, sized, d, nonce, hash, c :
  LET r == mbedtls_psa_aead_set_nonce(alg, c, nonce, hash)
  IN  /\ alg \in Algs /\ AlgStream(alg, FALSE, sized, FALSE, d, 0, 0, c) /\ r.status = "OK"
      /\ (alg = "GCM" => nonce # 0) /\ IsJ0(IF nonce = 12 THEN 1 ELSE hash)
      /\ (sized => d[1] \in Nat /\ d[2] \in Nat)
      => AlgStream(alg, TRUE, sized, FALSE, d, 0, 0, r.ctx)
<1> TAKE alg, sized, d, nonce, hash, c
<1> DEFINE r == mbedtls_psa_aead_set_nonce(alg, c, nonce, hash)
           j0 == IF nonce = 12 THEN 1 ELSE hash
<1> SUFFICES ASSUME alg \in Algs, AlgStream(alg, FALSE, sized, FALSE, d, 0, 0, c),
                    r.status = "OK", alg = "GCM" => nonce # 0, IsJ0(j0),
                    sized => d[1] \in Nat /\ d[2] \in Nat
             PROVE  AlgStream(alg, TRUE, sized, FALSE, d, 0, 0, r.ctx)
  OBVIOUS
<1>1. CASE alg = "GCM"
  <2>1. GcmStream(FALSE, sized, d, 0, 0, c) BY <1>1 DEF AlgStream
  <2>2. c = Keyed BY <2>1 DEF GcmStream
  <2>3. GcmStream(TRUE, sized, d, 0, 0, r.ctx) BY <1>1, <2>1, <2>2, GcmNonce
  <2> HIDE DEF r
  <2> QED BY <1>1, <2>3 DEF AlgStream
<1>2. CASE alg = "CCM"
  <2>1. CcmStream(FALSE, sized, d, 0, 0, c) BY <1>2 DEF AlgStream
  <2>2. CcmStream(TRUE, sized, d, 0, 0, r.ctx) BY <1>2, <2>1, CcmNonce
  <2> HIDE DEF r
  <2> QED BY <1>2, <2>2 DEF AlgStream
<1>3. CASE alg = "CHACHA20_POLY1305"
  <2>1. c = Keyed BY <1>3 DEF AlgStream, ChaStream
  <2>2. ChaStream(TRUE, FALSE, 0, 0, r.ctx) BY <1>3, <2>1, ChaNonce
  <2> HIDE DEF r
  <2> QED BY <1>3, <2>2 DEF AlgStream
<1> QED BY <1>1, <1>2, <1>3, AlgsAre

\* psa_aead_set_nonce_internal().
LEMMA NonceStreamed ==
    ASSUME LengthsInv, StreamInv, NEW call, NEW checks, NEW nonce, NEW hash,
           IsJ0(IF nonce = 12 THEN 1 ELSE hash),
           psa_aead_set_nonce_internal(call, checks, nonce, hash)
    PROVE  StreamInv' /\ TagCoversMessage'
<1> DEFINE after == [op EXCEPT !.nonce_set = TRUE]
           all == First(checks, NonceChecks(nonce))
           r == mbedtls_psa_aead_set_nonce(op.alg, ctx, nonce, hash)
<1>1. Call(call, all, r, after, given) BY DEF psa_aead_set_nonce_internal
<1>2. ASSUME all = "OK", r.status = "OK" PROVE Streamed(after, given, r.ctx)
  <2>1. op \in OpType BY DEF LengthsInv
  <2>2. /\ Check(op.id /\ ~op.nonce_set, "BAD_STATE") = "OK"
        /\ Check(psa_aead_check_nonce_length(op.alg, nonce), "INVALID_ARGUMENT") = "OK"
    BY <1>2, FirstOK DEF NonceChecks
  <2>3. op.id /\ op.nonce_set = FALSE BY <2>2, OpFields DEF Check
  <2>4. op.alg = "GCM" => nonce # 0
    BY <2>2 DEF Check, psa_aead_check_nonce_length
  <2>5. /\ op.alg \in Algs /\ op.body_started = FALSE /\ given.ad = 0 /\ given.body = 0
        /\ given.body <= MaxBody
        /\ AlgStream(op.alg, FALSE, op.lengths_set, FALSE, given.declared, 0, 0, ctx)
    BY <2>3, OpFields DEF StreamInv, Streamed
  <2>6. AlgStream(op.alg, TRUE, op.lengths_set, FALSE, given.declared, 0, 0, r.ctx)
    BY <2>4, <2>5, <1>2, AlgNonce, Declared
  <2>7. /\ after.alg = op.alg /\ after.nonce_set = TRUE /\ after.lengths_set = op.lengths_set
        /\ after.body_started = FALSE /\ after.ad_remaining = op.ad_remaining
    BY <2>1, <2>5 DEF OpType
  <2> HIDE DEF after, r
  <2> QED BY <2>5, <2>6, <2>7, StreamedIs
<1> HIDE DEF after, all, r
<1> QED BY <1>1, <1>2, CallStreamed

\* The lengths are declared before any data.
LEMMA AlgLengths == \A alg, set, d, ad, body, c :
  LET r == mbedtls_psa_aead_set_lengths(alg, c, ad, body)
  IN  /\ alg \in Algs /\ AlgStream(alg, set, FALSE, FALSE, d, 0, 0, c) /\ r.status = "OK"
      /\ LengthsAllowed(alg, ad, body) /\ ad \in Nat /\ body \in Nat
      => AlgStream(alg, set, TRUE, FALSE, <<ad, body>>, 0, 0, r.ctx)
<1> TAKE alg, set, d, ad, body, c
<1> DEFINE r == mbedtls_psa_aead_set_lengths(alg, c, ad, body)
           new == <<ad, body>>
<1> SUFFICES ASSUME alg \in Algs, AlgStream(alg, set, FALSE, FALSE, d, 0, 0, c),
                    r.status = "OK", LengthsAllowed(alg, ad, body), ad \in Nat, body \in Nat
             PROVE  AlgStream(alg, set, TRUE, FALSE, new, 0, 0, r.ctx)
  OBVIOUS
<1>0. new[1] = ad /\ new[2] = body OBVIOUS
<1> HIDE DEF new
<1>1. CASE alg = "GCM"
  <2>1. ad < GcmAdLimit /\ body <= GcmBodyLimit BY <1>1 DEF LengthsAllowed
  <2>2. r.ctx = c BY <1>1, Proceeds DEF mbedtls_psa_aead_set_lengths
  <2>3. GcmStream(set, FALSE, d, 0, 0, c) BY <1>1 DEF AlgStream
  <2> HIDE DEF r
  <2>4. GcmStream(set, TRUE, new, 0, 0, r.ctx) BY <1>0, <2>1, <2>2, <2>3 DEF GcmStream
  <2> QED BY <1>1, <2>4 DEF AlgStream
<1>2. CASE alg = "CHACHA20_POLY1305"
  <2>1. r.ctx = c BY <1>2, Proceeds DEF mbedtls_psa_aead_set_lengths
  <2> HIDE DEF r
  <2> QED BY <1>2, <2>1 DEF AlgStream
<1>3. CASE alg = "CCM"
  <2>1. r = mbedtls_ccm_set_lengths(c, ad, body) BY <1>3 DEF mbedtls_psa_aead_set_lengths
  <2> HIDE DEF r
  <2>2. CcmStream(set, FALSE, d, 0, 0, c) BY <1>3 DEF AlgStream
  <2>3. CASE set
    <3>1. PICK R : R \in Nat /\ R > 1 /\ c = CcmNonced(R) BY <2>2, <2>3 DEF CcmStream
    <3>2. CcmStarts(r, ad, body, R) BY <2>1, <3>1, CcmLengthsAs
    <3>3. ~(body >= R) /\ r = Proceed(CcmReady(ad, body, R)) BY <3>2 DEF CcmStarts
    <3>4. CcmSizesAre(ad, body, R) BY <3>1 DEF CcmSizesAre
    <3>5. r.ctx = CcmCtx(ad, body, R, 0, 0) BY <3>3, <3>4, CcmReadyIs, Proceeds
    <3>6. body < R BY <3>1, <3>3
    <3>7. CcmStream(set, TRUE, new, 0, 0, r.ctx)
      BY <1>0, <2>3, <3>4, <3>5, <3>6 DEF CcmStream
    <3> QED BY <1>3, <3>7 DEF AlgStream
  <2>4. CASE ~set
    <3>1. c = Keyed BY <2>2, <2>4 DEF CcmStream
    <3>2. r = Proceed(CcmSized(ad, body)) BY <2>1, <3>1, CcmSizedAs
    <3>3. r.ctx = CcmSized(ad, body) BY <3>2, Proceeds
    <3>4. CcmStream(set, TRUE, new, 0, 0, r.ctx) BY <1>0, <2>4, <3>3 DEF CcmStream
    <3> QED BY <1>3, <3>4 DEF AlgStream
  <2> QED BY <2>3, <2>4
<1> QED BY <1>1, <1>2, <1>3, AlgsAre

\* What the core lets through to the driver: n more bytes of a part of which a
\* were passed, y in all and no more than was declared.
Admitted(alg, sized, declared, a, n, y) ==
    /\ alg \in Algs /\ a \in Nat /\ n \in Nat /\ y \in Nat /\ y = a + n
    /\ alg = "CCM" => sized
    /\ sized => declared \in Nat /\ y <= declared

\* The driver goes on with the additional data, always if the lengths are known.
LEMMA AlgAd == \A alg, sized, d, a, n, y, c :
  LET r == mbedtls_psa_aead_update_ad(alg, c, AdCells(a, n))
  IN  AlgStream(alg, TRUE, sized, FALSE, d, a, 0, c) /\ Admitted(alg, sized, d[1], a, n, y) =>
      /\ sized => r.status = "OK"
      /\ r.status = "OK" => AlgStream(alg, TRUE, sized, FALSE, d, y, 0, r.ctx)
<1> TAKE alg, sized, d, a, n, y, c
<1> DEFINE r == mbedtls_psa_aead_update_ad(alg, c, AdCells(a, n))
           goes == /\ sized => r.status = "OK"
                   /\ r.status = "OK" => AlgStream(alg, TRUE, sized, FALSE, d, y, 0, r.ctx)
<1> SUFFICES ASSUME AlgStream(alg, TRUE, sized, FALSE, d, a, 0, c),
                    Admitted(alg, sized, d[1], a, n, y)
             PROVE  goes
  OBVIOUS
<1>0. /\ alg \in Algs /\ a \in Nat /\ n \in Nat /\ y \in Nat /\ y = a + n
      /\ alg = "CCM" => sized
      /\ sized => d[1] \in Nat /\ y <= d[1]
  BY DEF Admitted
<1>1. CASE alg = "GCM"
  <2>1. GcmStream(TRUE, sized, d, a, 0, c) BY <1>1 DEF AlgStream
  <2>2. PICK j0 : IsJ0(j0) /\ c = GcmCtx(j0, a, 0) BY <2>1 DEF GcmStream
  <2>3. r = mbedtls_gcm_update_ad(GcmCtx(j0, a, 0), AdCells(a, n))
    BY <1>1, <2>2 DEF mbedtls_psa_aead_update_ad
  <2> HIDE DEF r
  <2>4. r = IF a + n >= GcmAdLimit THEN Stop(GcmCtx(j0, a, 0), "INVALID_ARGUMENT")
            ELSE Proceed(GcmCtx(j0, a + n, 0))
    BY <1>0, <2>2, <2>3, GcmAdAs
  <2>5. r = IF y >= GcmAdLimit THEN Stop(GcmCtx(j0, a, 0), "INVALID_ARGUMENT")
            ELSE Proceed(GcmCtx(j0, y, 0))
    BY <1>0, <2>4
  <2>6. sized => ~(y >= GcmAdLimit)
    <3>1. sized => d[1] < GcmAdLimit BY <2>1 DEF GcmStream
    <3>2. GcmAdLimit \in Nat BY AeadEnginesAssumption
    <3> QED BY <1>0, <3>1, <3>2
  <2>7. CASE y >= GcmAdLimit
    <3>1. ~sized /\ r.status = "INVALID_ARGUMENT" BY <2>5, <2>6, <2>7, Stops
    <3> QED BY <3>1
  <2>8. CASE ~(y >= GcmAdLimit)
    <3>1. r.status = "OK" /\ r.ctx = GcmCtx(j0, y, 0) BY <2>5, <2>8, Proceeds
    <3>2. GcmStream(TRUE, sized, d, y, 0, r.ctx) BY <2>1, <2>2, <3>1 DEF GcmStream
    <3> QED BY <1>1, <3>1, <3>2 DEF AlgStream
  <2> QED BY <2>7, <2>8
<1>2. CASE alg = "CHACHA20_POLY1305"
  <2>1. c = ChaCtx(a, 0, FALSE) BY <1>2 DEF AlgStream, ChaStream
  <2>2. r = mbedtls_chachapoly_update_aad(ChaAdded(a), AdCells(a, n))
    BY <1>2, <2>1 DEF mbedtls_psa_aead_update_ad, ChaCtx
  <2> HIDE DEF r
  <2>3. r = Proceed(ChaAdded(y)) BY <1>0, <2>2, ChaAdAs
  <2>4. r.status = "OK" /\ r.ctx = ChaAdded(y) BY <2>3, Proceeds
  <2> QED BY <1>2, <2>4 DEF AlgStream, ChaStream, ChaCtx
<1>3. CASE alg = "CCM"
  <2>1. sized BY <1>0, <1>3
  <2>2. CcmStream(TRUE, sized, d, a, 0, c) BY <1>3 DEF AlgStream
  <2>3. PICK R : CcmSizesAre(d[1], d[2], R) /\ d[2] < R /\ c = CcmCtx(d[1], d[2], R, a, 0)
    BY <2>1, <2>2 DEF CcmStream
  <2>4. r = mbedtls_ccm_update_ad(CcmCtx(d[1], d[2], R, a, 0), AdCells(a, n))
    BY <1>3, <2>3 DEF mbedtls_psa_aead_update_ad
  <2> HIDE DEF r
  <2>5. CcmAdGoesTo(d[1], d[2], R, a, n, y) BY <1>0, <2>1, <2>3 DEF CcmAdGoesTo
  <2>6. r = Proceed(CcmCtx(d[1], d[2], R, y, 0)) BY <2>4, <2>5, CcmAdTo
  <2>7. r.status = "OK" /\ r.ctx = CcmCtx(d[1], d[2], R, y, 0) BY <2>6, Proceeds
  <2>8. CcmStream(TRUE, sized, d, y, 0, r.ctx) BY <2>1, <2>3, <2>7 DEF CcmStream
  <2> QED BY <1>3, <2>7, <2>8 DEF AlgStream
<1> QED BY <1>0, <1>1, <1>2, <1>3, AlgsAre

\* The body may go on: all of the additional data was passed, if its length is
\* known, and a message that has not begun has no body.
BodyFits(alg, sized, begun, d, a, b, n, y) ==
    /\ Admitted(alg, sized, d[2], b, n, y)
    /\ a \in Nat /\ begun \in BOOLEAN
    /\ begun \/ b = 0
    /\ sized => d[1] = a

\* With room for the output the driver leaves the body to the algorithm.
LEMMA DriverUpdateIs == \A alg, c, b, n, size : b \in Nat /\ n \in Nat =>
  LET r == mbedtls_psa_aead_update(alg, c, BodyCells(b, n), size)
  IN  IF size < n THEN r.status # "OK"
      ELSE r = CASE alg = "GCM" -> mbedtls_gcm_update(c, BodyCells(b, n))
                 [] alg = "CCM" -> mbedtls_ccm_update(c, BodyCells(b, n))
                 [] OTHER -> mbedtls_chachapoly_update(c, BodyCells(b, n))
<1> TAKE alg, c, b, n, size
<1> SUFFICES ASSUME b \in Nat, n \in Nat
             PROVE  LET r == mbedtls_psa_aead_update(alg, c, BodyCells(b, n), size)
                    IN  IF size < n THEN r.status # "OK"
                        ELSE r = CASE alg = "GCM" -> mbedtls_gcm_update(c, BodyCells(b, n))
                                   [] alg = "CCM" -> mbedtls_ccm_update(c, BodyCells(b, n))
                                   [] OTHER -> mbedtls_chachapoly_update(c, BodyCells(b, n))
  OBVIOUS
<1> DEFINE cells == BodyCells(b, n)
           r == mbedtls_psa_aead_update(alg, c, cells, size)
<1>1. Len(cells) = n BY BodyTakes
<1> HIDE DEF cells
<1>2. CASE size < n
  <2>1. r = Stop(c, "BUFFER_TOO_SMALL") BY <1>1, <1>2 DEF mbedtls_psa_aead_update
  <2> HIDE DEF r
  <2>2. r.status # "OK" BY <2>1, Stops
  <2> QED BY <1>2, <2>2 DEF r, cells
<1>3. CASE ~(size < n)
  BY <1>1, <1>3 DEF mbedtls_psa_aead_update, cells
<1> QED BY <1>2, <1>3

\* The driver goes on with the body, always if the lengths are known.
LEMMA AlgBody == \A alg, sized, begun, d, a, b, n, y, c, size :
  LET r == mbedtls_psa_aead_update(alg, c, BodyCells(b, n), size)
  IN  /\ AlgStream(alg, TRUE, sized, begun, d, a, b, c)
      /\ BodyFits(alg, sized, begun, d, a, b, n, y)
      => /\ sized /\ ~(size < n) => r.status = "OK"
         /\ r.status = "OK" => AlgStream(alg, TRUE, sized, TRUE, d, a, y, r.ctx)
<1> TAKE alg, sized, begun, d, a, b, n, y, c, size
<1> DEFINE r == mbedtls_psa_aead_update(alg, c, BodyCells(b, n), size)
           goes == /\ sized /\ ~(size < n) => r.status = "OK"
                   /\ r.status = "OK" => AlgStream(alg, TRUE, sized, TRUE, d, a, y, r.ctx)
<1> SUFFICES ASSUME AlgStream(alg, TRUE, sized, begun, d, a, b, c),
                    BodyFits(alg, sized, begun, d, a, b, n, y)
             PROVE  goes
  OBVIOUS
<1>0. /\ alg \in Algs /\ b \in Nat /\ n \in Nat /\ y \in Nat /\ y = b + n
      /\ alg = "CCM" => sized
      /\ sized => d[2] \in Nat /\ y <= d[2]
      /\ a \in Nat /\ begun \in BOOLEAN /\ (begun \/ b = 0) /\ (sized => d[1] = a)
  BY DEF Admitted, BodyFits
<1>1. IF size < n THEN r.status # "OK"
      ELSE r = CASE alg = "GCM" -> mbedtls_gcm_update(c, BodyCells(b, n))
                 [] alg = "CCM" -> mbedtls_ccm_update(c, BodyCells(b, n))
                 [] OTHER -> mbedtls_chachapoly_update(c, BodyCells(b, n))
  BY <1>0, DriverUpdateIs
<1> HIDE DEF r
<1>2. CASE size < n
  BY <1>1, <1>2
<1>3. CASE ~(size < n) /\ alg = "GCM"
  <2>1. GcmStream(TRUE, sized, d, a, b, c) BY <1>3 DEF AlgStream
  <2>2. PICK j0 : IsJ0(j0) /\ c = GcmCtx(j0, a, b) BY <2>1 DEF GcmStream
  <2>3. r = mbedtls_gcm_update(GcmCtx(j0, a, b), BodyCells(b, n)) BY <1>1, <1>3, <2>2
  <2>4. r = IF n = 0 THEN Proceed(GcmCtx(j0, a, b))
            ELSE IF b + n > GcmBodyLimit THEN Stop(GcmCtx(j0, a, b), "INVALID_ARGUMENT")
            ELSE Proceed(GcmCtx(j0, a, b + n))
    BY <1>0, <2>2, <2>3, GcmUpdateAs
  <2>5. b <= GcmBodyLimit /\ GcmBodyLimit \in Nat BY <2>1, BodyLimitOfGcm DEF GcmStream
  <2>6. r = IF y > GcmBodyLimit THEN Stop(GcmCtx(j0, a, b), "INVALID_ARGUMENT")
            ELSE Proceed(GcmCtx(j0, a, y))
    <3>1. CASE n = 0
      <4>1. y = b /\ ~(y > GcmBodyLimit) BY <1>0, <2>5, <3>1
      <4> QED BY <2>4, <3>1, <4>1
    <3>2. CASE n # 0
      BY <1>0, <2>4, <3>2
    <3> QED BY <3>1, <3>2
  <2>7. sized => ~(y > GcmBodyLimit)
    <3>1. sized => d[2] <= GcmBodyLimit BY <2>1 DEF GcmStream
    <3> QED BY <1>0, <2>5, <3>1
  <2>8. CASE y > GcmBodyLimit
    <3>1. ~sized /\ r.status = "INVALID_ARGUMENT" BY <2>6, <2>7, <2>8, Stops
    <3> QED BY <3>1
  <2>9. CASE ~(y > GcmBodyLimit)
    <3>1. r.status = "OK" /\ r.ctx = GcmCtx(j0, a, y) BY <2>6, <2>9, Proceeds
    <3>2. y <= GcmBodyLimit BY <1>0, <2>5, <2>9
    <3>3. GcmStream(TRUE, sized, d, a, y, r.ctx) BY <2>1, <2>2, <3>1, <3>2 DEF GcmStream
    <3> QED BY <1>3, <3>1, <3>3 DEF AlgStream
  <2> QED BY <2>8, <2>9
<1>4. CASE ~(size < n) /\ alg = "CHACHA20_POLY1305"
  <2>1. c = ChaCtx(a, b, begun) BY <1>4 DEF AlgStream, ChaStream
  <2>2. r = mbedtls_chachapoly_update(ChaCtx(a, b, begun), BodyCells(b, n))
    BY <1>1, <1>4, <2>1
  <2>3. r = Proceed(ChaBodied(a, y)) BY <1>0, <2>2, ChaUpdateAs
  <2>4. r.status = "OK" /\ r.ctx = ChaBodied(a, y) BY <2>3, Proceeds
  <2> QED BY <1>4, <2>4 DEF AlgStream, ChaStream, ChaCtx
<1>5. CASE ~(size < n) /\ alg = "CCM"
  <2>1. sized BY <1>0, <1>5
  <2>2. CcmStream(TRUE, sized, d, a, b, c) BY <1>5 DEF AlgStream
  <2>3. PICK R : CcmSizesAre(a, d[2], R) /\ d[2] < R /\ c = CcmCtx(a, d[2], R, a, b)
    BY <1>0, <2>1, <2>2 DEF CcmStream
  <2>4. r = mbedtls_ccm_update(CcmCtx(a, d[2], R, a, b), BodyCells(b, n))
    BY <1>1, <1>5, <2>3
  <2>5. R > 0 BY <2>3 DEF CcmSizesAre
  <2>6. CcmGoesTo(a, d[2], R, b, n, y) BY <1>0, <2>1, <2>3, <2>5 DEF CcmGoesTo, CcmSizesAre
  <2>7. r = Proceed(CcmCtx(a, d[2], R, a, y)) BY <2>4, <2>6, CcmBodyTo
  <2>8. r.status = "OK" /\ r.ctx = CcmCtx(a, d[2], R, a, y) BY <2>7, Proceeds
  <2>9. CcmStream(TRUE, sized, d, a, y, r.ctx) BY <1>0, <2>1, <2>3, <2>8 DEF CcmStream
  <2> QED BY <1>5, <2>8, <2>9 DEF AlgStream
<1> QED BY <1>0, <1>2, <1>3, <1>4, <1>5, AlgsAre

\* psa_aead_set_lengths().
LEMMA SetLengthsStreamed ==
    ASSUME LengthsInv, StreamInv, NEW ad \in Nat, NEW body \in Nat,
           psa_aead_set_lengths(ad, body)
    PROVE  StreamInv' /\ TagCoversMessage'
<1> DEFINE allowed == op.id /\ ~op.lengths_set /\ ~op.ad_started /\ ~op.body_started
           limits == Check(LengthsAllowed(op.alg, ad, body), "INVALID_ARGUMENT")
           after == [op EXCEPT !.lengths_set = TRUE, !.ad_remaining = ad,
                               !.body_remaining = body]
           data == [given EXCEPT !.declared = <<ad, body>>]
           r == mbedtls_psa_aead_set_lengths(op.alg, ctx, ad, body)
<1>1. Call("set_lengths", First(Check(allowed, "BAD_STATE"), limits), r, after, data)
  BY DEF psa_aead_set_lengths
<1>2. ASSUME First(Check(allowed, "BAD_STATE"), limits) = "OK", r.status = "OK"
      PROVE  Streamed(after, data, r.ctx)
  <2>1. op \in OpType /\ given \in GivenType /\ Unstarted(given, op) BY DEF LengthsInv
  <2>2. Check(allowed, "BAD_STATE") = "OK" /\ limits = "OK" BY <1>2, FirstOK
  <2>3. allowed BY <2>2, OpFields DEF Check
  <2>4. LengthsAllowed(op.alg, ad, body) BY <2>2 DEF Check
  <2>5. given.ad = 0 /\ given.body = 0 BY <2>1, <2>3 DEF Unstarted
  <2>6. /\ op.alg \in Algs /\ op.body_started = FALSE /\ op.lengths_set = FALSE
        /\ given.body <= MaxBody
        /\ AlgStream(op.alg, op.nonce_set, FALSE, FALSE, given.declared, 0, 0, ctx)
    BY <2>3, <2>5, OpFields DEF StreamInv, Streamed
  <2>7. AlgStream(op.alg, op.nonce_set, TRUE, FALSE, <<ad, body>>, 0, 0, r.ctx)
    BY <2>4, <2>6, <1>2, AlgLengths
  <2>8. /\ after.alg = op.alg /\ after.nonce_set = op.nonce_set /\ after.lengths_set = TRUE
        /\ after.body_started = FALSE
        /\ data.ad = 0 /\ data.body = 0 /\ data.declared = <<ad, body>>
    BY <2>1, <2>5, <2>6 DEF OpType, GivenType
  <2>9. 0 <= MaxBody BY AeadAssumption
  <2> HIDE DEF after, data, r, allowed, limits
  <2> QED BY <2>6, <2>7, <2>8, <2>9 DEF Streamed
<1> HIDE DEF allowed, limits, after, data, r
<1> QED BY <1>1, <1>2, CallStreamed

\* psa_aead_update_ad().
LEMMA UpdateAdStreamed ==
    ASSUME LengthsInv, StreamInv, NEW n \in Nat, psa_aead_update_ad(n)
    PROVE  StreamInv' /\ TagCoversMessage'
<1> DEFINE allowed == op.id /\ op.nonce_set /\ ~op.body_started
           fits == First(Check(AdFits(op, n), "INVALID_ARGUMENT"),
                         Check(Sized(op), "BAD_STATE"))
           checks(copied) ==
             First(IF n = 0 THEN "OK" ELSE copied,
             First(Check(allowed, "BAD_STATE"), IF n = 0 THEN "OK" ELSE fits))
           after == [op EXCEPT !.ad_started = TRUE,
                               !.ad_remaining = IF op.lengths_set THEN @ - n ELSE @]
           data == [given EXCEPT !.ad = @ + n]
           r == IF n = 0 THEN Proceed(ctx)
                ELSE mbedtls_psa_aead_update_ad(op.alg, ctx, AdCells(given.ad, n))
           a == given.ad
           y == given.ad + n
           d == given.declared
<1>1. PICK copied : Call("update_ad", checks(copied), r, after, data)
  BY DEF psa_aead_update_ad
<1>2. ASSUME checks(copied) = "OK", r.status = "OK" PROVE Streamed(after, data, r.ctx)
  <2>1. op \in OpType /\ given \in GivenType /\ Unstarted(given, op) BY DEF LengthsInv
  <2>2. Check(allowed, "BAD_STATE") = "OK" /\ (n # 0 => fits = "OK") BY <1>2, FirstOK
  <2>3. op.id /\ op.nonce_set = TRUE /\ op.body_started = FALSE BY <2>2, OpFields DEF Check
  <2>4. n # 0 => AdFits(op, n) /\ Sized(op)
    <3>1. n # 0 => /\ Check(AdFits(op, n), "INVALID_ARGUMENT") = "OK"
                   /\ Check(Sized(op), "BAD_STATE") = "OK"
      BY <2>2, FirstOK
    <3> QED BY <3>1 DEF Check
  <2>5. given.body = 0 BY <2>1, <2>3 DEF Unstarted
  <2>6. /\ op.alg \in Algs /\ given.body <= MaxBody
        /\ AlgStream(op.alg, TRUE, op.lengths_set, FALSE, d, a, 0, ctx)
    BY <2>3, <2>5, OpFields DEF StreamInv, Streamed
  <2>7. AlgStream(op.alg, TRUE, op.lengths_set, FALSE, d, y, 0, r.ctx)
    <3>1. CASE n = 0
      <4>1. r.ctx = ctx BY <3>1, Proceeds
      <4>2. y = a BY <3>1, OpFields
      <4> HIDE DEF r, y, a, d
      <4> QED BY <2>6, <4>1, <4>2
    <3>2. CASE n # 0
      <4>1. Admitted(op.alg, op.lengths_set, d[1], a, n, y)
        BY <2>4, <2>6, <3>2, OpFields, Declared DEF Admitted, Sized, AdFits
      <4>2. r = mbedtls_psa_aead_update_ad(op.alg, ctx, AdCells(a, n)) BY <3>2
      <4> HIDE DEF r, y, a, d
      <4> QED BY <1>2, <2>6, <4>1, <4>2, AlgAd
    <3> QED BY <3>1, <3>2
  <2>8. /\ after.alg = op.alg /\ after.nonce_set = TRUE /\ after.lengths_set = op.lengths_set
        /\ after.body_started = FALSE
        /\ data.ad = y /\ data.body = 0 /\ data.declared = d
    BY <2>1, <2>3, <2>5 DEF OpType, GivenType
  <2>9. 0 <= MaxBody BY AeadAssumption
  <2> HIDE DEF after, data, r, y, a, d, allowed, fits, checks
  <2> QED BY <2>6, <2>7, <2>8, <2>9 DEF Streamed
<1> HIDE DEF allowed, fits, checks, after, data, r, y, a, d
<1> QED BY <1>1, <1>2, CallStreamed

\* psa_aead_update().
LEMMA UpdateStreamed ==
    ASSUME LengthsInv, StreamInv, NEW n \in Nat, n <= MaxBody - given.body,
           NEW output_size, psa_aead_update(n, output_size)
    PROVE  StreamInv' /\ TagCoversMessage'
<1> DEFINE fits == Check(op.lengths_set => op.ad_remaining = 0 /\ n <= op.body_remaining,
                         "INVALID_ARGUMENT")
           checks(copied) ==
             First(IF n = 0 /\ output_size = 0 THEN "OK" ELSE copied,
             First(Check(op.id /\ op.nonce_set, "BAD_STATE"),
             First(fits, Check(Sized(op), "BAD_STATE"))))
           after == [op EXCEPT !.body_started = TRUE,
                               !.body_remaining = IF op.lengths_set THEN @ - n ELSE @]
           data == [given EXCEPT !.body = @ + n]
           r == mbedtls_psa_aead_update(op.alg, ctx, BodyCells(given.body, n), output_size)
           a == given.ad
           b == given.body
           y == given.body + n
           d == given.declared
           begun == op.body_started
<1>1. PICK copied : Call("update", checks(copied), r, after, data)
  BY DEF psa_aead_update
<1>2. ASSUME checks(copied) = "OK", r.status = "OK" PROVE Streamed(after, data, r.ctx)
  <2>1. op \in OpType /\ given \in GivenType /\ Unstarted(given, op) BY DEF LengthsInv
  <2>2. /\ Check(op.id /\ op.nonce_set, "BAD_STATE") = "OK"
        /\ fits = "OK" /\ Check(Sized(op), "BAD_STATE") = "OK"
    BY <1>2, FirstOK
  <2>3. /\ op.id /\ op.nonce_set = TRUE /\ Sized(op)
        /\ op.lengths_set => op.ad_remaining = 0 /\ n <= op.body_remaining
    BY <2>2, OpFields DEF Check
  <2>4. begun \/ b = 0 BY <2>1 DEF Unstarted
  <2>5. /\ op.alg \in Algs
        /\ AlgStream(op.alg, TRUE, op.lengths_set, begun, d, a, b, ctx)
    BY <2>3, OpFields DEF StreamInv, Streamed
  <2>6. Admitted(op.alg, op.lengths_set, d[2], b, n, y)
    BY <2>3, <2>5, OpFields, Declared DEF Admitted, Sized
  <2>7. BodyFits(op.alg, op.lengths_set, begun, d, a, b, n, y)
    BY <2>3, <2>4, <2>6, OpFields, Declared DEF BodyFits
  <2>8. y <= MaxBody BY OpFields, AeadAssumption
  <2>9. /\ after.alg = op.alg /\ after.nonce_set = TRUE /\ after.lengths_set = op.lengths_set
        /\ after.body_started = TRUE /\ after.ad_remaining = op.ad_remaining
        /\ data.ad = a /\ data.body = y /\ data.declared = d
    BY <2>1, <2>3 DEF OpType, GivenType
  <2> HIDE DEF after, data, r, y, a, b, d, begun, fits, checks
  <2>10. AlgStream(op.alg, TRUE, op.lengths_set, TRUE, d, a, y, r.ctx)
    BY <1>2, <2>5, <2>7, AlgBody DEF r, b
  <2> QED BY <2>3, <2>5, <2>8, <2>9, <2>10 DEF Streamed
<1> HIDE DEF fits, checks, after, data, r, y, a, b, d, begun
<1> QED BY <1>1, <1>2, CallStreamed

\* psa_aead_set_nonce().
LEMMA SetNonceStreamed ==
    ASSUME LengthsInv, StreamInv, NEW nonce, NEW hash \in Hashes(op.alg, nonce),
           psa_aead_set_nonce(nonce, hash)
    PROVE  StreamInv' /\ TagCoversMessage'
<1>1. CASE psa_aead_set_nonce_internal("set_nonce", "OK", nonce, hash)
  BY <1>1, NonceStreamed, HashIsCounter
<1>2. CASE out' = NoOutput /\ UNCHANGED <<op, ctx, given>>
  BY <1>2, NothingCovered DEF StreamInv
<1> QED BY <1>1, <1>2 DEF psa_aead_set_nonce

\* psa_aead_generate_nonce().
LEMMA GenerateNonceStreamed ==
    ASSUME LengthsInv, StreamInv, NEW nonce_size, psa_aead_generate_nonce(nonce_size)
    PROVE  StreamInv' /\ TagCoversMessage'
<1>1. PICK checks :
        psa_aead_set_nonce_internal("generate_nonce", checks, RequiredNonce(op.alg), 1)
  BY DEF psa_aead_generate_nonce
<1>2. IsJ0(IF RequiredNonce(op.alg) = 12 THEN 1 ELSE 1) BY RangeOfCounter DEF IsJ0
<1> QED BY <1>1, <1>2, NonceStreamed

IsWhole(alg, sized, begun, d, a, b) ==
    /\ alg \in Algs /\ a \in Nat /\ b \in Nat /\ begun \in BOOLEAN
    /\ begun \/ b = 0
    /\ alg = "CCM" => sized
    /\ sized => d[1] = a /\ d[2] = b

\* The driver makes a tag over all that was passed once that is the whole
\* message, if there is room for the tag.
LEMMA AlgFinish == \A alg, sized, begun, d, a, b, c, size :
  LET r == mbedtls_psa_aead_finish(alg, c, size)
  IN  AlgStream(alg, TRUE, sized, begun, d, a, b, c) /\ IsWhole(alg, sized, begun, d, a, b) =>
      IF size < TagLength THEN r.status # "OK" ELSE Covers(alg, r, a, b)
<1> TAKE alg, sized, begun, d, a, b, c, size
<1> DEFINE r == mbedtls_psa_aead_finish(alg, c, size)
           ends == IF size < TagLength THEN r.status # "OK" ELSE Covers(alg, r, a, b)
<1> SUFFICES ASSUME AlgStream(alg, TRUE, sized, begun, d, a, b, c),
                    IsWhole(alg, sized, begun, d, a, b)
             PROVE  ends
  OBVIOUS
<1>0. /\ alg \in Algs /\ a \in Nat /\ b \in Nat /\ begun \in BOOLEAN
      /\ begun \/ b = 0
      /\ alg = "CCM" => sized
      /\ sized => d[1] = a /\ d[2] = b
  BY DEF IsWhole
<1>1. CASE size < TagLength
  <2>1. r = Stop(c, "BUFFER_TOO_SMALL") BY <1>1 DEF mbedtls_psa_aead_finish
  <2> HIDE DEF r
  <2>2. r.status # "OK" BY <2>1, Stops
  <2> QED BY <1>1, <2>2
<1>2. CASE ~(size < TagLength) /\ alg = "GCM"
  <2>1. GcmStream(TRUE, sized, d, a, b, c) BY <1>2 DEF AlgStream
  <2>2. PICK j0 : IsJ0(j0) /\ c = GcmCtx(j0, a, b) BY <2>1 DEF GcmStream
  <2>3. r = mbedtls_gcm_finish(GcmCtx(j0, a, b))
    BY <1>2, <2>2 DEF mbedtls_psa_aead_finish
  <2> HIDE DEF r
  <2> QED BY <1>0, <1>2, <2>2, <2>3, GcmFinishAs
<1>3. CASE ~(size < TagLength) /\ alg = "CHACHA20_POLY1305"
  <2>1. c = ChaCtx(a, b, begun) BY <1>3 DEF AlgStream, ChaStream
  <2>2. r = mbedtls_chachapoly_finish(ChaCtx(a, b, begun))
    BY <1>3, <2>1 DEF mbedtls_psa_aead_finish
  <2> HIDE DEF r
  <2> QED BY <1>0, <1>3, <2>2, ChaFinishAs
<1>4. CASE ~(size < TagLength) /\ alg = "CCM"
  <2>1. sized BY <1>0, <1>4
  <2>2. CcmStream(TRUE, sized, d, a, b, c) BY <1>4 DEF AlgStream
  <2>3. PICK R : CcmSizesAre(a, b, R) /\ c = CcmCtx(a, b, R, a, b)
    BY <1>0, <2>1, <2>2 DEF CcmStream
  <2>4. r = mbedtls_ccm_finish(CcmCtx(a, b, R, a, b))
    BY <1>4, <2>3 DEF mbedtls_psa_aead_finish
  <2> HIDE DEF r
  <2> QED BY <1>4, <2>3, <2>4, CcmCovers
<1> QED BY <1>0, <1>1, <1>2, <1>3, <1>4, AlgsAre

\* The final checks of the core let an operation through that has its message.
LEMMA FinalWhole ==
    ASSUME LengthsInv, StreamInv, psa_aead_final_checks(op) = "OK"
    PROVE  /\ AlgStream(op.alg, TRUE, op.lengths_set, op.body_started, given.declared,
                        given.ad, given.body, ctx)
           /\ IsWhole(op.alg, op.lengths_set, op.body_started, given.declared,
                     given.ad, given.body)
<1>1. op \in OpType /\ given \in GivenType /\ Unstarted(given, op) BY DEF LengthsInv
<1>2. /\ Check(Sized(op) /\ op.id /\ op.nonce_set, "BAD_STATE") = "OK"
      /\ Check(AllGiven(op), "INVALID_ARGUMENT") = "OK"
  BY FirstOK DEF psa_aead_final_checks
<1>3. Sized(op) /\ op.id /\ op.nonce_set = TRUE /\ AllGiven(op)
  BY <1>2, OpFields DEF Check
<1>4. /\ op.alg \in Algs
      /\ AlgStream(op.alg, TRUE, op.lengths_set, op.body_started, given.declared,
                   given.ad, given.body, ctx)
  BY <1>3 DEF StreamInv, Streamed
<1>5. op.lengths_set => given.declared[1] = given.ad /\ given.declared[2] = given.body
  BY <1>3, OpFields, Declared DEF AllGiven
<1>6. op.body_started \/ given.body = 0 BY <1>1 DEF Unstarted
<1> QED BY <1>3, <1>4, <1>5, <1>6, OpFields DEF IsWhole, Sized

\* A call that makes or checks a tag, with success only after the final checks
\* and for a result that covers the message.
LEMMA FinalStreamed ==
    ASSUME LengthsInv, NEW status, NEW r,
           Authentic(status, op.alg, given, r.ctx), Ends,
           status = "OK" => Covers(op.alg, r, given.ad, given.body)
    PROVE  StreamInv' /\ TagCoversMessage'
<1>1. StreamInv' BY EndsStreamed
<1>2. CASE status = "OK"
  <2>1. Covers(op.alg, r, given.ad, given.body) BY <1>2
  <2>2. /\ out'.alg = op.alg /\ out'.given = given
        /\ out'.blocks = r.ctx.blocks /\ out'.masks = r.ctx.masks
    BY <1>2 DEF Authentic
  <2> QED BY <1>1, <2>1, <2>2 DEF TagCoversMessage, Covers
<1>3. CASE status # "OK"
  <2>1. out' = NoOutput BY <1>3 DEF Authentic
  <2> QED BY <1>1, <2>1, NothingCovered
<1> QED BY <1>2, <1>3

\* psa_aead_finish() makes a tag that covers what was given.
LEMMA FinishStreamed ==
    ASSUME LengthsInv, StreamInv, NEW tag_size, psa_aead_finish(tag_size)
    PROVE  StreamInv' /\ TagCoversMessage'
<1> DEFINE r == mbedtls_psa_aead_finish(op.alg, ctx, tag_size)
           status(copied) ==
             First(copied, First(First(psa_aead_final_checks(op),
                                       Check(op.is_encrypt, "BAD_STATE")), r.status))
<1>1. PICK copied : Authentic(status(copied), op.alg, given, r.ctx) /\ Ends
  BY DEF psa_aead_finish
<1>2. status(copied) = "OK" => psa_aead_final_checks(op) = "OK" /\ r.status = "OK"
  BY FirstOK
<1>3. ASSUME status(copied) = "OK" PROVE Covers(op.alg, r, given.ad, given.body)
  <2>1. psa_aead_final_checks(op) = "OK" /\ r.status = "OK" BY <1>2, <1>3
  <2> QED BY <2>1, FinalWhole, AlgFinish
<1> HIDE DEF status, r
<1> QED BY <1>1, <1>3, FinalStreamed

\* psa_aead_verify() checks a tag that covers what was given.
LEMMA VerifyStreamed ==
    ASSUME LengthsInv, StreamInv, NEW genuine, psa_aead_verify(genuine)
    PROVE  StreamInv' /\ TagCoversMessage'
<1> DEFINE r == psa_driver_wrapper_aead_verify(op.alg, ctx, genuine)
           made == mbedtls_psa_aead_finish(op.alg, ctx, TagLength)
           status(copied) ==
             First(copied, First(First(psa_aead_final_checks(op),
                                       Check(~op.is_encrypt, "BAD_STATE")), r.status))
<1>1. PICK copied : Authentic(status(copied), op.alg, given, r.ctx) /\ Ends
  BY DEF psa_aead_verify
<1>2. status(copied) = "OK" => psa_aead_final_checks(op) = "OK" /\ r.status = "OK"
  BY FirstOK
<1>3. r = IF made.status = "OK" /\ ~genuine THEN Stop(made.ctx, "INVALID_SIGNATURE") ELSE made
  BY DEF psa_driver_wrapper_aead_verify
<1> HIDE DEF r
<1>4. ASSUME status(copied) = "OK" PROVE Covers(op.alg, r, given.ad, given.body)
  <2>1. psa_aead_final_checks(op) = "OK" /\ r.status = "OK" BY <1>2, <1>4
  <2>2. r = made
    <3> HIDE DEF made
    <3>1. (Stop(made.ctx, "INVALID_SIGNATURE")).status # "OK" BY Stops
    <3> QED BY <1>3, <2>1, <3>1
  <2>3. made.status = "OK" BY <2>1, <2>2
  <2>4. Covers(op.alg, made, given.ad, given.body) BY <2>1, <2>3, FinalWhole, AlgFinish
  <2> QED BY <2>2, <2>4
<1> HIDE DEF status, made
<1> QED BY <1>1, <1>4, FinalStreamed

\* psa_aead_abort().
LEMMA AbortStreamed == LengthsInv /\ Abort => StreamInv' /\ TagCoversMessage'
BY EndsStreamed, NothingCovered DEF Abort

\* psa_aead_encrypt() and psa_aead_decrypt() leave the operation alone.
LEMMA OneShotStreamed ==
    ASSUME LengthsInv, StreamInv, NEW call, NEW alg \in Algs, NEW nonce,
           NEW hash \in Hashes(alg, nonce), NEW ad \in Nat, NEW body \in Nat,
           NEW verdict, OneShot(call, alg, nonce, hash, ad, body, verdict)
    PROVE  StreamInv' /\ TagCoversMessage'
<1> DEFINE data == [ad |-> ad, body |-> body, declared |-> <<ad, body>>]
           r == mbedtls_psa_aead_crypt(alg, nonce, hash, ad, body)
           j0 == IF nonce = 12 THEN 1 ELSE hash
<1>0. IsJ0(j0) BY HashIsCounter
<1> HIDE DEF j0
<1>1. PICK status : /\ Authentic(status, alg, data, r.ctx) /\ UNCHANGED <<op, ctx, given>>
                    /\ status = "OK" => r.status = "OK"
  <2> DEFINE state(found, copied) ==
               First(found, First(copied,
                 First(Check(psa_aead_check_nonce_length(alg, nonce), "INVALID_ARGUMENT"),
                       First(IF verdict = "BUFFER_TOO_SMALL" THEN verdict ELSE "OK",
                             First(r.status, verdict)))))
  <2>1. PICK copied, found : /\ Authentic(state(found, copied), alg, data, r.ctx)
                             /\ UNCHANGED <<op, ctx, given>>
    BY DEF OneShot
  <2>2. state(found, copied) = "OK" => r.status = "OK" BY FirstOK
  <2> HIDE DEF state, data, r
  <2> QED BY <2>1, <2>2
<1>2. StreamInv' BY <1>1 DEF StreamInv
<1>3. r.status = "OK" => Covers(alg, r, ad, body)
  <2>1. CASE alg = "GCM"
    <3>1. r = mbedtls_gcm_crypt_and_tag(nonce, hash, ad, body)
      BY <2>1 DEF mbedtls_psa_aead_crypt
    <3> HIDE DEF r
    <3> QED BY <1>0, <2>1, <3>1, GcmInOne DEF j0
  <2>2. CASE alg = "CHACHA20_POLY1305"
    <3>1. r = chachapoly_crypt_and_tag(ad, body)
      BY <2>2 DEF mbedtls_psa_aead_crypt
    <3> HIDE DEF r
    <3> QED BY <2>2, <3>1, ChaInOne
  <2>3. CASE alg = "CCM"
    <3>1. r = ccm_auth_crypt(nonce, ad, body)
      BY <2>3 DEF mbedtls_psa_aead_crypt
    <3> HIDE DEF r
    <3> QED BY <2>3, <3>1, CcmInOne
  <2> QED BY <2>1, <2>2, <2>3, AlgsAre
<1>4. data.ad = ad /\ data.body = body OBVIOUS
<1> HIDE DEF r, data
<1>5. CASE status = "OK"
  <2>1. Covers(alg, r, ad, body) BY <1>1, <1>3, <1>5
  <2>2. /\ out'.alg = alg /\ out'.given = data
        /\ out'.blocks = r.ctx.blocks /\ out'.masks = r.ctx.masks
    BY <1>1, <1>5 DEF Authentic
  <2> QED BY <1>2, <1>4, <2>1, <2>2 DEF TagCoversMessage, Covers
<1>6. CASE status # "OK"
  <2>1. out' = NoOutput BY <1>1, <1>6 DEF Authentic
  <2> QED BY <1>2, <2>1, NothingCovered
<1> QED BY <1>5, <1>6

-----------------------------------------------------------------------------
(* The keystream of a message that does not go round the counters.         *)

\* Multiplication is monotonic.
LEMMA NoMore ==
    ASSUME NEW K \in Nat, NEW q \in Nat, NEW size \in Nat, K <= q
    PROVE  K * size <= q * size
<1> DEFINE e == q - K
<1>1. e \in Nat /\ q = K + e OBVIOUS
<1> HIDE DEF e
<1>2. (K + e) * size = K * size + e * size BY <1>1
<1>3. e * size \in Nat /\ K * size \in Nat BY <1>1
<1> DEFINE x == K * size
           y == e * size
           z == (K + e) * size
<1>4. z = x + y /\ x \in Nat /\ y \in Nat BY <1>2, <1>3
<1>5. q * size = z BY <1>1
<1> HIDE DEF x, y, z
<1>6. x <= z BY <1>4
<1> QED BY <1>5, <1>6 DEF x

\* A counter that is advanced by less than its range does not come back to
\* where it was.
LEMMA CounterWraps == \A t, range, k : range \in Nat /\ t \in 0 .. range - 1 /\ k \in 1 .. range - 1 =>
  (t + k) % range = IF t + k < range THEN t + k ELSE t + k - range
<1> TAKE t, range, k
<1> SUFFICES ASSUME range \in Nat, t \in 0 .. range - 1, k \in 1 .. range - 1
             PROVE  (t + k) % range = IF t + k < range THEN t + k ELSE t + k - range
  OBVIOUS
<1> DEFINE s == t + k
           r == s - range
<1>1. s \in Nat /\ range > 0 OBVIOUS
<1>2. CASE s < range
  <2>1. s = 0 * range + s BY <1>1
  <2> HIDE DEF s
  <2>2. s % range = s BY <1>1, <1>2, <2>1, Divided
  <2> QED BY <1>2, <2>2 DEF s
<1>3. CASE ~(s < range)
  <2>1. r \in Nat /\ r < range /\ s = 1 * range + r BY <1>1, <1>3
  <2> HIDE DEF s, r
  <2>2. s % range = r BY <1>1, <2>1, Divided
  <2> QED BY <1>3, <2>2 DEF s, r
<1> QED BY <1>2, <1>3

\* Counters at different distances from the first one differ.
LEMMA CountersApart == \A t, range, k, l :
  /\ range \in Nat /\ t \in 0 .. range - 1 /\ k \in 1 .. range - 1 /\ l \in 1 .. range - 1
  => /\ (t + k) % range # t
     /\ (t + k) % range = (t + l) % range => k = l
<1> TAKE t, range, k, l
<1> SUFFICES ASSUME range \in Nat, t \in 0 .. range - 1, k \in 1 .. range - 1, l \in 1 .. range - 1
             PROVE  /\ (t + k) % range # t
                    /\ (t + k) % range = (t + l) % range => k = l
  OBVIOUS
<1> DEFINE x == (t + k) % range
           y == (t + l) % range
<1>1. x = IF t + k < range THEN t + k ELSE t + k - range BY CounterWraps
<1>2. y = IF t + l < range THEN t + l ELSE t + l - range BY CounterWraps
<1> HIDE DEF x, y
<1>3. x # t /\ (x = y => k = l) BY <1>1, <1>2
<1> QED BY <1>3 DEF x, y

\* n bytes that need fewer blocks than there are counters.
FewMasks(t, range, size, n) ==
    /\ range \in Nat /\ range > 1 /\ t \in 0 .. range - 1 /\ size \in Nat /\ size > 0
    /\ n \in Nat /\ n <= (range - 1) * size
Apart(m, n, t) ==
    /\ \A i, j \in 1 .. n : i # j => m[i] # m[j]
    /\ \A i \in 1 .. n : m[i][1] # t

\* The masks of a body that does not go round all the counters differ from one
\* another and from the block before them.
LEMMA MasksApart == \A t, range, size, n, u : FewMasks(t, range, size, n) /\ u = t + 1 =>
  Apart(MaskedAs(u, range, size, n), n, t)
<1> TAKE t, range, size, n, u
<1> DEFINE m == MaskedAs(t + 1, range, size, n)
<1> SUFFICES ASSUME FewMasks(t, range, size, n) PROVE Apart(m, n, t)
  OBVIOUS
<1>0. /\ range \in Nat /\ range > 1 /\ t \in 0 .. range - 1 /\ size \in Nat /\ size > 0
      /\ n \in Nat /\ n <= (range - 1) * size
  BY DEF FewMasks
<1> DEFINE q(i) == (i - 1) \div size
           p(i) == (i - 1) % size
           k(i) == q(i) + 1
           at(i) == (t + k(i)) % range
<1>1. ASSUME NEW i \in 1 .. n
      PROVE  /\ q(i) \in Nat /\ p(i) \in Nat /\ i - 1 = q(i) * size + p(i)
             /\ k(i) \in 1 .. range - 1
             /\ m[i] = <<at(i), p(i)>>
  <2> DEFINE h == i - 1
             a == h \div size
             b == h % size
             K == range - 1
  <2>1. h \in Nat /\ h < n /\ K \in Nat BY <1>0
  <2>2. a \in Nat /\ b \in Nat /\ h = a * size + b /\ a * size \in Nat
    <3> HIDE DEF h
    <3> QED BY <1>0, <2>1, Divides
  <2>3. m[i] = <<((t + 1) + a) % range, b>> BY DEF MaskedAs
  <2>4. n <= K * size BY <1>0
  <2> HIDE DEF h, a, b, K, m
  <2>5. (t + 1) + a = t + (a + 1) BY <1>0, <2>2
  <2>6. ~(K <= a)
    <3>1. SUFFICES ASSUME K <= a PROVE FALSE OBVIOUS
    <3>2. K * size <= a * size BY <1>0, <2>1, <2>2, <3>1, NoMore
    <3> DEFINE x == K * size
               y == a * size
    <3>3. x \in Nat /\ y \in Nat BY <1>0, <2>1, <2>2
    <3>4. x <= y /\ h = y + b /\ n <= x BY <2>2, <2>4, <3>2
    <3> HIDE DEF x, y
    <3> QED BY <1>0, <2>1, <2>2, <3>3, <3>4
  <2>7. a + 1 \in 1 .. range - 1 BY <1>0, <2>2, <2>6 DEF K
  <2>8. m[i] = <<(t + (a + 1)) % range, b>> BY <2>3, <2>5
  <2> QED BY <2>2, <2>7, <2>8 DEF a, b, h
<1>2. ASSUME NEW i \in 1 .. n, NEW j \in 1 .. n, m[i] = m[j] PROVE i = j
  <2>1. at(i) = at(j) /\ p(i) = p(j)
    <3> HIDE DEF at, p, m
    <3> QED BY <1>1, <1>2
  <2>2. k(i) \in 1 .. range - 1 /\ k(j) \in 1 .. range - 1 BY <1>1
  <2>3. k(i) = k(j)
    <3> HIDE DEF k
    <3> QED BY <1>0, <2>1, <2>2, CountersApart
  <2>4. q(i) \in Nat /\ q(j) \in Nat BY <1>1
  <2>5. q(i) = q(j)
    <3> HIDE DEF q
    <3> QED BY <2>3, <2>4
  <2>6. i - 1 = q(i) * size + p(i) /\ j - 1 = q(j) * size + p(j) BY <1>1
  <2>7. i - 1 = j - 1
    <3> HIDE DEF q, p
    <3> QED BY <2>1, <2>5, <2>6
  <2> QED BY <2>7
<1>3. ASSUME NEW i \in 1 .. n PROVE m[i][1] # t
  <2>1. m[i] = <<at(i), p(i)>> /\ k(i) \in 1 .. range - 1 BY <1>1
  <2>2. at(i) # t
    <3> HIDE DEF k, m
    <3> QED BY <1>0, <2>1, CountersApart
  <2>3. m[i][1] = at(i)
    <3> HIDE DEF m, at, p
    <3> QED BY <2>1
  <2> QED BY <2>2, <2>3
<1> HIDE DEF m
<1> QED BY <1>2, <1>3 DEF Apart

InOrder(alg, c, b) ==
    /\ c.masks = Masks(alg, c, b)
    /\ UsedOnce(c.masks, TagCounter(alg, c)) <=> KeystreamLasts(alg, b)

\* b bytes masked from the counter after t, with blocks of some size.
MaskedFrom(alg, c, b, t, range, size) ==
    /\ c.masks = MaskedAs(t + 1, range, size, b)
    /\ c.range = range /\ FirstCounter(alg, c) = t + 1 /\ MaskSize(alg) = size
    /\ TagCounter(alg, c) = t
MaskedAfter(alg, c, b, t, range, size) ==
    MaskedFrom(alg, c, b, t, range, size) /\ FewMasks(t, range, size, b)

\* They are the masks of the algorithm.
LEMMA MaskedRight == \A alg, c, b, t, range, size :
  MaskedFrom(alg, c, b, t, range, size) => c.masks = Masks(alg, c, b)
BY DEF MaskedFrom, Masks, MaskedAs

\* Masks of a body that does not go round the counters are in order.
LEMMA MaskedInOrder == \A alg, c, b, t, range, size :
  MaskedAfter(alg, c, b, t, range, size) /\ KeystreamLasts(alg, b) => InOrder(alg, c, b)
<1> TAKE alg, c, b, t, range, size
<1> SUFFICES ASSUME MaskedAfter(alg, c, b, t, range, size), KeystreamLasts(alg, b)
             PROVE  InOrder(alg, c, b)
  OBVIOUS
<1> DEFINE m == MaskedAs(t + 1, range, size, b)
<1>1. MaskedFrom(alg, c, b, t, range, size) BY DEF MaskedAfter
<1>2. c.masks = m /\ TagCounter(alg, c) = t BY <1>1 DEF MaskedFrom
<1>3. DOMAIN m = 1 .. b BY DEF MaskedAs
<1>4. Apart(m, b, t)
  <2> DEFINE u == t + 1
  <2>1. FewMasks(t, range, size, b) BY DEF MaskedAfter
  <2>2. m = MaskedAs(u, range, size, b) /\ u = t + 1 OBVIOUS
  <2> HIDE DEF u, m
  <2> QED BY <2>1, <2>2, MasksApart
<1>5. c.masks = Masks(alg, c, b) BY <1>1, MaskedRight
<1> HIDE DEF m
<1>6. UsedOnce(c.masks, TagCounter(alg, c)) BY <1>2, <1>3, <1>4 DEF UsedOnce, Apart
<1> QED BY <1>5, <1>6 DEF InOrder

\* After a whole round of the counters comes the block before the first one.
LEMMA CounterComesBack == \A range, size, b : \A z :
  range \in Nat /\ range > 1 /\ size \in Nat /\ size > 0 /\ b \in Nat
  /\ z = (range - 1) * size /\ z < b
  => z + 1 \in 1 .. b /\ MaskedAs(0 + 1, range, size, b)[z + 1] = <<0, 0>>
<1> TAKE range, size, b, z
<1> SUFFICES ASSUME range \in Nat, range > 1, size \in Nat, size > 0, b \in Nat,
                    z = (range - 1) * size, z < b
             PROVE  z + 1 \in 1 .. b /\ MaskedAs(0 + 1, range, size, b)[z + 1] = <<0, 0>>
  OBVIOUS
<1> DEFINE K == range - 1
<1>1. K \in Nat /\ z = K * size + 0 OBVIOUS
<1>2. z \in Nat BY <1>1
<1> HIDE DEF K
<1>3. z \div size = K /\ z % size = 0 BY <1>1, <1>2, Divided
<1>4. z + 1 \in 1 .. b /\ (z + 1) - 1 = z BY <1>2
<1>5. MaskedAs(0 + 1, range, size, b)[z + 1] = <<(0 + 1 + K) % range, 0>>
  BY <1>3, <1>4 DEF MaskedAs
<1>6. 0 + 1 + K = range BY DEF K
<1>7. range % range = 0
  <2>1. range = 1 * range + 0 OBVIOUS
  <2> QED BY <2>1, Divided
<1> QED BY <1>4, <1>5, <1>6, <1>7

\* Without masks the keystream is in order.
LEMMA NoneInOrder == \A alg, c : c.masks = <<>> => InOrder(alg, c, 0)
<1> TAKE alg, c
<1> SUFFICES ASSUME c.masks = <<>> PROVE InOrder(alg, c, 0)
  OBVIOUS
<1> DEFINE none == <<>>
<1>1. DOMAIN none = {} OBVIOUS
<1>2. Masks(alg, c, 0) = none
  <2>1. MaskedAs(FirstCounter(alg, c), c.range, MaskSize(alg), 0) = none BY NoMasks
  <2> QED BY <2>1 DEF Masks, MaskedAs
<1>3. c.masks = none OBVIOUS
<1> HIDE DEF none
<1>4. UsedOnce(c.masks, TagCounter(alg, c)) BY <1>1, <1>3 DEF UsedOnce
<1>5. KeystreamLasts(alg, 0)
  <2> DEFINE z == (CounterRange - 1) * KeystreamSize
  <2>1. z \in Nat BY RangeOfCounter, SizeOfKeystream
  <2> HIDE DEF z
  <2>2. 0 <= z BY <2>1
  <2> QED BY <2>2 DEF KeystreamLasts, z
<1> QED BY <1>2, <1>3, <1>4, <1>5 DEF InOrder

\* A body shorter than the range of the counter does not go round it.
LEMMA BodyInRange == \A x, m : m \in Nat /\ x \in Nat /\ m > 1 /\ BlockSize > 0
    /\ x < m => x <= (m - 1) * BlockSize
<1> TAKE x, m
<1> SUFFICES ASSUME m \in Nat, x \in Nat, m > 1, x < m PROVE x <= (m - 1) * BlockSize
  OBVIOUS
<1> DEFINE K == m - 1
<1>1. K \in Nat /\ x <= K OBVIOUS
<1> HIDE DEF K
<1>2. 1 * K <= BlockSize * K BY <1>1, SizeOfBlock, NoMore
<1>3. BlockSize * K = K * BlockSize /\ 1 * K = K BY <1>1, SizeOfBlock
<1> DEFINE y == K * BlockSize
<1>4. K <= y BY <1>2, <1>3
<1>5. y \in Nat BY <1>1, SizeOfBlock
<1> HIDE DEF y
<1>6. x <= y BY <1>1, <1>4, <1>5
<1> QED BY <1>6 DEF y, K

\* The limit of the body keeps the counter of GCM from going round.
LEMMA GcmInRange == \A b : b \in Nat /\ b <= GcmBodyLimit => b <= (CounterRange - 1) * BlockSize
<1> TAKE b
<1> SUFFICES ASSUME b \in Nat, b <= GcmBodyLimit PROVE b <= (CounterRange - 1) * BlockSize
  OBVIOUS
<1> DEFINE K == CounterRange - 2
           L == CounterRange - 1
           x == K * BlockSize
           y == L * BlockSize
<1>1. K \in Nat /\ L \in Nat /\ K <= L BY RangeOfCounter
<1>2. GcmBodyLimit = x BY AeadEnginesAssumption
<1> HIDE DEF K, L
<1>3. x <= y BY <1>1, SizeOfBlock, NoMore
<1>4. x \in Nat /\ y \in Nat BY <1>1, SizeOfBlock
<1> HIDE DEF x, y
<1>5. b <= y BY <1>2, <1>3, <1>4
<1> QED BY <1>5 DEF y, L

\* The keystream of GCM, at any time.
LEMMA GcmInOrder == \A sized, d, a, b, c :
  GcmStream(TRUE, sized, d, a, b, c) /\ a \in Nat /\ b \in Nat => InOrder("GCM", c, b)
<1> TAKE sized, d, a, b, c
<1> SUFFICES ASSUME GcmStream(TRUE, sized, d, a, b, c), a \in Nat, b \in Nat
             PROVE  InOrder("GCM", c, b)
  OBVIOUS
<1>1. PICK j0 : IsJ0(j0) /\ c = GcmCtx(j0, a, b) BY DEF GcmStream
<1>2. /\ c.range = CounterRange /\ c.first = j0
      /\ c.masks = MaskedAs(j0 + 1, CounterRange, BlockSize, b)
  BY <1>1, GcmHas
<1>3. b <= (CounterRange - 1) * BlockSize BY GcmInRange DEF GcmStream
<1>4. /\ FirstCounter("GCM", c) = j0 + 1 /\ TagCounter("GCM", c) = j0
      /\ MaskSize("GCM") = BlockSize
  BY <1>2 DEF FirstCounter, TagCounter, MaskSize
<1>5. j0 \in 0 .. CounterRange - 1 BY <1>1 DEF IsJ0
<1>6. BlockSize > 0 BY SizeOfBlock
<1>7. MaskedAfter("GCM", c, b, j0, CounterRange, BlockSize)
  BY <1>2, <1>3, <1>4, <1>5, <1>6, SizeOfBlock, RangeOfCounter
     DEF MaskedAfter, MaskedFrom, FewMasks
<1>8. KeystreamLasts("GCM", b) BY DEF KeystreamLasts
<1> QED BY <1>7, <1>8, MaskedInOrder

\* The keystream of ChaCha20, at any time.
LEMMA ChaInOrder == \A begun, a, b, c :
  /\ ChaStream(TRUE, begun, a, b, c) /\ a \in Nat /\ b \in Nat /\ begun \in BOOLEAN
  /\ (begun \/ b = 0)
  => InOrder("CHACHA20_POLY1305", c, b)
<1> TAKE begun, a, b, c
<1> SUFFICES ASSUME ChaStream(TRUE, begun, a, b, c), a \in Nat, b \in Nat,
                    begun \in BOOLEAN, begun \/ b = 0
             PROVE  InOrder("CHACHA20_POLY1305", c, b)
  OBVIOUS
<1>1. c = ChaCtx(a, b, begun) BY DEF ChaStream
<1>2. c.range = CounterRange /\ c.first = 1 /\ c.masks = ChaMasks(b)
  <2>1. CASE begun
    BY <1>1, <2>1, ChaBodyHas DEF ChaCtx
  <2>2. CASE ~begun
    <3>1. c = ChaAdded(a) /\ b = 0 BY <1>1, <2>2 DEF ChaCtx
    <3> QED BY <3>1, ChaAddedHas
  <2> QED BY <2>1, <2>2
<1>3. c.masks = MaskedAs(0 + 1, CounterRange, KeystreamSize, b) BY <1>2 DEF ChaMasks
<1>4. /\ FirstCounter("CHACHA20_POLY1305", c) = 0 + 1 /\ TagCounter("CHACHA20_POLY1305", c) = 0
      /\ MaskSize("CHACHA20_POLY1305") = KeystreamSize
  BY <1>2 DEF FirstCounter, TagCounter, MaskSize
<1>5. 0 \in 0 .. CounterRange - 1 BY RangeOfCounter
<1>6. MaskedFrom("CHACHA20_POLY1305", c, b, 0, CounterRange, KeystreamSize)
  BY <1>2, <1>3, <1>4 DEF MaskedFrom
<1> DEFINE z == (CounterRange - 1) * KeystreamSize
<1>7. z \in Nat BY RangeOfCounter, SizeOfKeystream
<1>8. CASE b <= z
  <2>1. FewMasks(0, CounterRange, KeystreamSize, b)
    BY <1>5, <1>8, SizeOfKeystream, RangeOfCounter DEF FewMasks
  <2>2. KeystreamLasts("CHACHA20_POLY1305", b) BY <1>8 DEF KeystreamLasts
  <2> QED BY <1>6, <2>1, <2>2, MaskedInOrder DEF MaskedAfter
<1>9. CASE ~(b <= z)
  <2>1. z < b
    <3> HIDE DEF z
    <3> QED BY <1>7, <1>9
  <2>2. z + 1 \in 1 .. b /\ MaskedAs(0 + 1, CounterRange, KeystreamSize, b)[z + 1] = <<0, 0>>
    BY <2>1, CounterComesBack, SizeOfKeystream, RangeOfCounter
  <2>3. z + 1 \in DOMAIN c.masks /\ c.masks[z + 1] = <<0, 0>>
    <3>1. DOMAIN c.masks = 1 .. b BY <1>3 DEF MaskedAs
    <3> QED BY <1>3, <2>2, <3>1
  <2>4. ~KeystreamLasts("CHACHA20_POLY1305", b) BY <1>9 DEF KeystreamLasts
  <2> HIDE DEF z
  <2>5. ~UsedOnce(c.masks, 0) BY <2>3 DEF UsedOnce
  <2>6. c.masks = Masks("CHACHA20_POLY1305", c, b) BY <1>6, MaskedRight
  <2> QED BY <1>4, <2>4, <2>5, <2>6 DEF InOrder
<1> QED BY <1>8, <1>9

\* The keystream of CCM, at any time.
LEMMA CcmInOrder == \A sized, d, a, b, c :
  /\ CcmStream(TRUE, sized, d, a, b, c) /\ a \in Nat /\ b \in Nat
  /\ (sized => d[1] \in Nat /\ d[2] \in Nat /\ a <= d[1] /\ b <= d[2] /\ (a < d[1] => b = 0))
  => InOrder("CCM", c, b)
<1> TAKE sized, d, a, b, c
<1> DEFINE A == d[1]
           T == d[2]
<1> SUFFICES ASSUME CcmStream(TRUE, sized, d, a, b, c), a \in Nat, b \in Nat,
                    sized => A \in Nat /\ T \in Nat /\ a <= A /\ b <= T /\ (a < A => b = 0)
             PROVE  InOrder("CCM", c, b)
  OBVIOUS
<1>1. CASE sized
  <2>1. PICK R : CcmSizesAre(A, T, R) /\ T < R /\ c = CcmCtx(A, T, R, a, b)
    BY <1>1 DEF CcmStream
  <2> HIDE DEF A, T
  <2>2. c.range = R /\ c.first = 1 /\ c.masks = MaskedAs(1, R, BlockSize, b)
    BY <1>1, <2>1, CcmHas
  <2>3. c.masks = MaskedAs(0 + 1, R, BlockSize, b) BY <2>2
  <2>4. R \in Nat /\ R > 1 /\ b < R BY <1>1, <2>1 DEF CcmSizesAre
  <2>5. BlockSize > 0 BY SizeOfBlock
  <2>6. b <= (R - 1) * BlockSize BY <2>4, <2>5, BodyInRange
  <2>7. /\ FirstCounter("CCM", c) = 0 + 1 /\ TagCounter("CCM", c) = 0
        /\ MaskSize("CCM") = BlockSize
    BY <2>2 DEF FirstCounter, TagCounter, MaskSize
  <2>8. 0 \in 0 .. R - 1 BY <2>4
  <2>9. MaskedAfter("CCM", c, b, 0, R, BlockSize)
    BY <2>2, <2>3, <2>4, <2>5, <2>6, <2>7, <2>8, SizeOfBlock DEF MaskedAfter, MaskedFrom, FewMasks
  <2>10. KeystreamLasts("CCM", b) BY DEF KeystreamLasts
  <2> QED BY <2>9, <2>10, MaskedInOrder
<1>2. CASE ~sized
  <2>1. PICK R : R \in Nat /\ R > 1 /\ c = CcmNonced(R) BY <1>2 DEF CcmStream
  <2>2. b = 0 BY <1>2 DEF CcmStream
  <2>3. c.masks = <<>> BY <2>1, ContextHas DEF CcmNonced
  <2> QED BY <2>2, <2>3, NoneInOrder
<1> QED BY <1>1, <1>2

-----------------------------------------------------------------------------
(* The inductive invariant.                                                *)

\* What the lengths and the context say of an operation at any time.
AeadInv == LengthsInv /\ StreamInv /\ TagCoversMessage

\* It holds of an operation that was never set up.
LEMMA AeadInit == Init => AeadInv
<1> SUFFICES ASSUME Init PROVE AeadInv OBVIOUS
<1>1. StreamInv BY NothingStreamed DEF Init, StreamInv
<1>2. TagCoversMessage BY DEF Init, NoOutput, TagCoversMessage
<1> QED BY <1>1, <1>2, InitGood DEF AeadInv

\* Every call keeps it.
LEMMA AeadStep == AeadInv /\ [Next]_vars => AeadInv'
<1> SUFFICES ASSUME AeadInv, [Next]_vars PROVE AeadInv' OBVIOUS
<1> DEFINE kept == StreamInv' /\ TagCoversMessage'
<1>0. LengthsInv /\ StreamInv /\ TagCoversMessage BY DEF AeadInv
<1>1. LengthsInv' BY <1>0, StepGood
<1>2. CASE UNCHANGED vars
  <2>1. kept BY <1>0, <1>2 DEF vars, StreamInv, TagCoversMessage
  <2> QED BY <1>1, <2>1 DEF AeadInv
<1>3. ASSUME NEW alg \in Algs, NEW is_encrypt \in BOOLEAN, psa_aead_setup(alg, is_encrypt)
      PROVE  kept
  BY <1>0, <1>3, SetupStreamed
<1>4. ASSUME NEW nonce, NEW hash \in Hashes(op.alg, nonce), psa_aead_set_nonce(nonce, hash)
      PROVE  kept
  BY <1>0, <1>4, SetNonceStreamed
<1>5. ASSUME NEW size, psa_aead_generate_nonce(size) PROVE kept
  BY <1>0, <1>5, GenerateNonceStreamed
<1>6. ASSUME NEW ad \in AdLengths, NEW body \in BodyLengths, psa_aead_set_lengths(ad, body)
      PROVE  kept
  <2>1. ad \in Nat /\ body \in Nat BY AeadAssumption
  <2> QED BY <1>0, <1>6, <2>1, SetLengthsStreamed
<1>7. ASSUME NEW n \in 0 .. MaxAd - given.ad, psa_aead_update_ad(n) PROVE kept
  <2>1. n \in Nat BY <1>0, OpFields
  <2> QED BY <1>0, <1>7, <2>1, UpdateAdStreamed
<1>8. ASSUME NEW n \in 0 .. MaxBody - given.body, NEW size, psa_aead_update(n, size)
      PROVE  kept
  <2>1. n \in Nat /\ n <= MaxBody - given.body BY <1>0, OpFields, AeadAssumption
  <2> QED BY <1>0, <1>8, <2>1, UpdateStreamed
<1>9. ASSUME NEW size, psa_aead_finish(size) PROVE kept BY <1>0, <1>9, FinishStreamed
<1>10. ASSUME NEW genuine, psa_aead_verify(genuine) PROVE kept
  BY <1>0, <1>10, VerifyStreamed
<1>11. CASE Abort
  <2>1. kept BY <1>0, <1>11, AbortStreamed
  <2> QED BY <1>1, <2>1 DEF AeadInv
<1>12. ASSUME NEW alg \in Algs, NEW nonce, NEW ad \in AdLengths, NEW body \in BodyLengths,
              NEW hash \in Hashes(alg, nonce),
              \/ psa_aead_encrypt(alg, nonce, hash, ad, body)
              \/ psa_aead_decrypt(alg, nonce, hash, ad, body)
       PROVE  kept
  <2>1. ad \in Nat /\ body \in Nat BY AeadAssumption
  <2>2. \E call, verdict : OneShot(call, alg, nonce, hash, ad, body, verdict)
    BY <1>12 DEF psa_aead_encrypt, psa_aead_decrypt
  <2> QED BY <1>0, <2>1, <2>2, OneShotStreamed
<1>13. kept => AeadInv' BY <1>1 DEF AeadInv
<1> HIDE DEF kept
<1> QED
  BY <1>2, <1>3, <1>4, <1>5, <1>6, <1>7, <1>8, <1>9, <1>10, <1>11, <1>12, <1>13 DEF Next

\* It puts the keystream in order.
LEMMA StreamInOrder == AeadInv => KeystreamInOrder
<1> SUFFICES ASSUME AeadInv PROVE KeystreamInOrder OBVIOUS
<1>1. LengthsInv /\ StreamInv BY DEF AeadInv
<1>2. op \in OpType /\ given \in GivenType /\ Unstarted(given, op) /\ (~op.id => op = NoOp)
  BY <1>1 DEF LengthsInv
<1>3. AlgStream(op.alg, op.nonce_set, op.lengths_set, op.body_started,
                given.declared, given.ad, given.body, ctx)
  BY <1>1 DEF StreamInv, Streamed
<1>4. CASE op.nonce_set
  <2>1. op.id BY <1>2, <1>4 DEF NoOp
  <2>2. op.alg \in Algs /\ given.body <= MaxBody /\ op.nonce_set = TRUE
    BY <1>1, <1>4, <2>1, OpFields DEF StreamInv, Streamed
  <2>3. AlgStream(op.alg, TRUE, op.lengths_set, op.body_started,
                  given.declared, given.ad, given.body, ctx)
    BY <1>3, <2>2
  <2>4. op.body_started \/ given.body = 0 BY <1>2 DEF Unstarted
  <2>5. op.lengths_set =>
          /\ given.declared[1] \in Nat /\ given.declared[2] \in Nat
          /\ given.ad <= given.declared[1] /\ given.body <= given.declared[2]
          /\ given.ad < given.declared[1] => given.body = 0
    <3>1. op.lengths_set /\ op.body_started => op.ad_remaining = 0
      BY <1>1 DEF StreamInv, Streamed
    <3> QED BY <1>1, <2>4, <3>1, OpFields, Declared
  <2>6. InOrder(op.alg, ctx, given.body)
    <3>1. CASE op.alg = "GCM"
      BY <1>1, <2>3, <3>1, OpFields, GcmInOrder DEF AlgStream
    <3>2. CASE op.alg = "CHACHA20_POLY1305"
      <4>1. ChaStream(TRUE, op.body_started, given.ad, given.body, ctx)
        BY <2>3, <3>2 DEF AlgStream
      <4> QED BY <1>1, <2>2, <2>4, <3>2, <4>1, OpFields, ChaInOrder
    <3>3. CASE op.alg = "CCM"
      <4>1. CcmStream(TRUE, op.lengths_set, given.declared, given.ad, given.body, ctx)
        BY <2>3, <3>3 DEF AlgStream
      <4> QED BY <1>1, <2>5, <3>3, <4>1, OpFields, CcmInOrder
    <3> QED BY <2>2, <3>1, <3>2, <3>3, AlgsAre
  <2> QED BY <2>6 DEF InOrder, KeystreamInOrder
<1> QED BY <1>4 DEF KeystreamInOrder

\* With it the driver refuses nothing of what the core lets through.
LEMMA StreamAgrees == AeadInv => LayersAgree
<1> SUFFICES ASSUME AeadInv PROVE LayersAgree OBVIOUS
<1>1. LengthsInv /\ StreamInv BY DEF AeadInv
<1>2. op \in OpType /\ given \in GivenType /\ Unstarted(given, op) /\ (~op.id => op = NoOp)
  BY <1>1 DEF LengthsInv
<1> DEFINE a == given.ad
           b == given.body
           d == given.declared
           begun == op.body_started
<1>3. ASSUME op.nonce_set, op.lengths_set
      PROVE  /\ op.alg \in Algs
             /\ AlgStream(op.alg, TRUE, TRUE, begun, d, a, b, ctx)
             /\ begun \/ b = 0
             /\ d[1] = a + op.ad_remaining /\ d[2] = b + op.body_remaining
             /\ d[1] \in Nat /\ d[2] \in Nat
  <2>1. op.id BY <1>2, <1>3 DEF NoOp
  <2>2. op.nonce_set = TRUE /\ op.lengths_set = TRUE BY <1>1, <1>3, OpFields
  <2>3. op.alg \in Algs /\ AlgStream(op.alg, TRUE, TRUE, begun, d, a, b, ctx)
    BY <1>1, <2>1, <2>2 DEF StreamInv, Streamed
  <2>4. begun \/ b = 0 BY <1>2 DEF Unstarted
  <2> QED BY <1>1, <1>3, <2>3, <2>4, Declared
<1>4. ASSUME op.nonce_set, op.lengths_set, ~begun, NEW n \in 1 .. op.ad_remaining
      PROVE  mbedtls_psa_aead_update_ad(op.alg, ctx, AdCells(a, n)).status = "OK"
  <2> DEFINE y == a + n
  <2>1. b = 0 /\ begun = FALSE BY <1>1, <1>3, <1>4, OpFields
  <2>2. AlgStream(op.alg, TRUE, TRUE, FALSE, d, a, 0, ctx) BY <1>3, <1>4, <2>1
  <2>3. Admitted(op.alg, TRUE, d[1], a, n, y) BY <1>1, <1>3, <1>4, OpFields DEF Admitted
  <2> HIDE DEF y, a, b, d, begun
  <2> QED BY <2>2, <2>3, AlgAd
<1>5. ASSUME op.nonce_set, op.lengths_set, op.ad_remaining = 0, NEW n \in 0 .. op.body_remaining
      PROVE  mbedtls_psa_aead_update(op.alg, ctx, BodyCells(b, n), n).status = "OK"
  <2> DEFINE y == b + n
  <2>1. Admitted(op.alg, TRUE, d[2], b, n, y) BY <1>1, <1>3, <1>5, OpFields DEF Admitted
  <2>2. BodyFits(op.alg, TRUE, begun, d, a, b, n, y)
    <3>1. d[1] = a /\ a \in Nat /\ begun \in BOOLEAN /\ (begun \/ b = 0)
      BY <1>1, <1>3, <1>5, OpFields
    <3> HIDE DEF y, a, b, d, begun
    <3> QED BY <2>1, <3>1 DEF BodyFits
  <2>3. AlgStream(op.alg, TRUE, TRUE, begun, d, a, b, ctx) BY <1>3, <1>5
  <2>4. ~(n < n) BY <1>1, OpFields
  <2> HIDE DEF y, a, b, d, begun
  <2> QED BY <2>2, <2>3, <2>4, AlgBody
<1>6. ASSUME psa_aead_final_checks(op) = "OK"
      PROVE  mbedtls_psa_aead_finish(op.alg, ctx, TagLength).status = "OK"
  <2>1. ~(TagLength < TagLength) BY AeadAssumption
  <2> DEFINE r == mbedtls_psa_aead_finish(op.alg, ctx, TagLength)
  <2>2. Covers(op.alg, r, given.ad, given.body)
    BY <1>1, <1>6, <2>1, FinalWhole, AlgFinish
  <2> HIDE DEF r
  <2>3. r.status = "OK" BY <2>2 DEF Covers
  <2> QED BY <2>3 DEF r
<1> QED BY <1>4, <1>5, <1>6 DEF LayersAgree

\* The context of an operation, in order of the calls of its life: whatever
\* the chunks were, byte i of the body was masked with byte i of the keystream
\* (ccm.c, gcm.c, chacha20.c). For CCM and GCM no block of the keystream served
\* twice; for ChaCha20, whose length nothing limits, none did exactly when the body
\* is not longer than the blocks that its counter can number.
THEOREM KeystreamIsInOrder == Spec => []KeystreamInOrder
BY AeadInit, AeadStep, StreamInOrder, PTL DEF Spec

\* psa_aead_finish(), psa_aead_verify() and the calls in one part make or check
\* their tag over the whole message and its lengths, however it was cut.
THEOREM TagsCoverMessages == Spec => []TagCoversMessage
<1>1. AeadInv => TagCoversMessage BY DEF AeadInv
<1> QED BY AeadInit, AeadStep, <1>1, PTL DEF Spec

\* Once lengths are accepted, what psa_crypto.c lets through the driver takes: no
\* check of ccm.c, gcm.c or chachapoly.c refuses a message it has begun.
THEOREM LayersDoAgree == Spec => []LayersAgree
BY AeadInit, AeadStep, StreamAgrees, PTL DEF Spec
=============================================================================

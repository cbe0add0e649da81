--------------------------------- MODULE Lms ---------------------------------
(***************************************************************************)
(* LMS signatures: extras/lms.c and the one-time signatures of             *)
(* extras/lmots.c. A hash value is the term that was hashed. The digest of *)
(* a message is a string of digits that the random number of the signature *)
(* decides; any call that hashes, allocates or draws may fail.             *)
(***************************************************************************)
EXTENDS Status

CONSTANTS
    TreeHeight,     \* MBEDTLS_LMS_H_TREE_HEIGHT()
    DigitMax,       \* DIGIT_MAX_VALUE
    HashDigits,     \* digits of a digest
    MaxKeys         \* bound: private keys generated

ASSUME LmsAssumption ==
    /\ {TreeHeight, DigitMax, HashDigits, MaxKeys} \subseteq Nat \ {0}
    /\ HashDigits * DigitMax < (DigitMax + 1) * (DigitMax + 1)     \* fits two digits

Leaves == 0 .. 2 ^ TreeHeight - 1
LmsMessages == 0 .. 1
Digests == [1 .. HashDigits -> 0 .. DigitMax]

VARIABLES
    lpriv,      \* the private context; the one-time keys that are left
    lpub,       \* a public context: the key identifier and T_1_pub_key
    lsig,       \* what the last call of mbedtls_lms_sign() left in its buffer
    lused       \* of the last key: leaf -> how often a signature was written
lmsVars == <<lpriv, lpub, lsig, lused>>

NoPrivate == [have_private_key |-> FALSE, I |-> 0, q_next_usable_key |-> 0, ots |-> {}]
NoPublic == [have_public_key |-> FALSE, I |-> 0, T_1 |-> <<>>]
NoSignature == [complete |-> FALSE, I |-> 0, q |-> 0, c |-> <<>>, y |-> <<>>, path |-> <<>>,
                msg |-> 0]

LmsInit ==
    /\ lpriv = NoPrivate /\ lpub = NoPublic /\ lsig = NoSignature
    /\ lused = [I |-> 0, times |-> [q \in Leaves |-> 0]]

-----------------------------------------------------------------------------
(* lmots.c                                                                 *)

\* mutant: the sum is taken of the digits themselves
SumOfDigits(digest) == FoldLeft(LAMBDA sum, d : sum + d, 0, digest)
lmots_checksum_calculate(digest) == FoldLeft(LAMBDA sum, d : sum + (DigitMax - d), 0, digest)

\* The hash of the random number and the message: any function that tells two
\* messages apart.
MessageHash(c, msg) == [i \in 1 .. HashDigits |-> (c[i] + msg) % (DigitMax + 1)]

create_digit_array_with_checksum(digest) ==
    LET sum == lmots_checksum_calculate(digest)
    IN  digest \o <<sum \div (DigitMax + 1), sum % (DigitMax + 1)>>

\* A chain value: the numbers that were hashed into the secret of a digit.
SecretDigits == [i \in 1 .. HashDigits + 2 |-> <<>>]
hash_digit_array(x, min, max) ==
    [i \in 1 .. HashDigits + 2 |-> x[i] \o [k \in 1 .. max[i] - min[i] |-> min[i] + k - 1]]

\* status is not set when there is nothing to hash.
Hashes(min, max) == \E i \in 1 .. HashDigits + 2 : min[i] < max[i]
Low == [i \in 1 .. HashDigits + 2 |-> 0]
High == [i \in 1 .. HashDigits + 2 |-> DigitMax]

public_key_from_hashed_digit_array(I, q, y) == <<"key", I, q, y>>
mbedtls_lmots_calculate_public_key(I, q) ==
    public_key_from_hashed_digit_array(I, q, hash_digit_array(SecretDigits, Low, High))
mbedtls_lmots_calculate_public_key_candidate(I, q, msg, c, y) ==
    LET digits == create_digit_array_with_checksum(MessageHash(c, msg))
    IN  IF Hashes(digits, High)
        THEN public_key_from_hashed_digit_array(I, q, hash_digit_array(y, digits, High))
        ELSE <<"corruption">>

-----------------------------------------------------------------------------
(* lms.c: the tree. Node 1 is the root.                                    *)

InternalNodes == 2 ^ TreeHeight
create_merkle_leaf_value(I, K, r) == <<"leaf", I, r, K>>
create_merkle_internal_value(I, left, right, r) == <<"internal", I, r, left, right>>

calculate_merkle_tree(I) ==
    LET tree[r \in 1 .. 2 * InternalNodes - 1] ==
          IF r >= InternalNodes
          THEN create_merkle_leaf_value(
                 I, mbedtls_lmots_calculate_public_key(I, r - InternalNodes), r)
          ELSE create_merkle_internal_value(I, tree[2 * r], tree[2 * r + 1], r)
    IN  tree

Ancestor(r, height) == r \div 2 ^ height
Sibling(r) == IF r % 2 = 0 THEN r + 1 ELSE r - 1
get_merkle_path(I, leaf) ==
    LET tree == calculate_merkle_tree(I)
    IN  [h \in 1 .. TreeHeight |-> tree[Sibling(Ancestor(leaf, h - 1))]]

Combine(I, node, sibling, r) ==
    IF r % 2 = 1 THEN create_merkle_internal_value(I, sibling, node, r \div 2)
    ELSE create_merkle_internal_value(I, node, sibling, r \div 2)

\* The candidate for the root, from the leaf up.
mbedtls_lms_verify(pub, msg, sig) ==
    LET leaf == InternalNodes + sig.q
        Kc == mbedtls_lmots_calculate_public_key_candidate(pub.I, sig.q, msg, sig.c, sig.y)
        Tc[h \in 0 .. TreeHeight] ==
          IF h = 0 THEN create_merkle_leaf_value(pub.I, Kc, leaf)
          ELSE Combine(pub.I, Tc[h - 1], sig.path[h], Ancestor(leaf, h - 1))
    IN  pub.have_public_key /\ sig.q \in Leaves /\ Tc[TreeHeight] = pub.T_1

-----------------------------------------------------------------------------
(* The operations on the contexts.                                         *)

\* A new identifier is drawn. A failure frees what there is.
mbedtls_lms_generate_private_key ==
    LET I == lused.I + 1 IN
    /\ ~lpriv.have_private_key /\ I <= MaxKeys
    /\ \/ lpriv' = [have_private_key |-> TRUE, I |-> I, q_next_usable_key |-> 0,
                    ots |-> Leaves]
       \/ lpriv' = NoPrivate
    /\ lused' = [I |-> I, times |-> [q \in Leaves |-> 0]]
    /\ UNCHANGED <<lpub, lsig>>

mbedtls_lms_private_free == lpriv' = NoPrivate /\ UNCHANGED <<lpub, lsig, lused>>

\* Also of a key that has signed: the public one-time keys are kept. The key is
\* exported and imported on the way to the context of the verifier. When there is no
\* memory for the tree nothing has changed; when the tree fails, the parameters are
\* already the new ones, beside the root of an earlier key if there was one.
mbedtls_lms_calculate_public_key ==
    /\ lpriv.have_private_key
    /\ \/ lpub' = [have_public_key |-> TRUE, I |-> lpriv.I,
                   T_1 |-> calculate_merkle_tree(lpriv.I)[1]]
       \/ lpub' = lpub
       \/ lpub' = [lpub EXCEPT !.I = lpriv.I]
    /\ UNCHANGED <<lpriv, lsig, lused>>

mbedtls_lms_public_free == lpub' = NoPublic /\ UNCHANGED <<lpriv, lsig, lused>>

\* The number of the next key grows before anything else is done.
MarkedUsed(q, failure) == q + 1

KeepKey(ots, q) == ots              \* mutant: the one-time key stays
\* The one-time key is erased when nothing can fail any more, and before the
\* signature is written.
Erased(ots, q) == ots \ {q}

\* Whether it signs, the chain values, and the one-time keys that are left.
mbedtls_lmots_sign(ots, q, msg, c, failure) ==
    LET digits == create_digit_array_with_checksum(MessageHash(c, msg))
        ok == q \in ots /\ Hashes(Low, digits) /\ failure # "ots"
    IN  [ok |-> ok, y |-> hash_digit_array(SecretDigits, Low, digits),
         ots |-> IF ok THEN Erased(ots, q) ELSE ots]

\* failure: in the one-time signature, in the path, or nowhere.
mbedtls_lms_sign(msg, c, failure) ==
    LET q == lpriv.q_next_usable_key
        r == mbedtls_lmots_sign(lpriv.ots, q, msg, c, failure)
    IN  /\ lpriv.have_private_key /\ q \in Leaves
        /\ lpriv' = [lpriv EXCEPT !.q_next_usable_key = MarkedUsed(q, failure), !.ots = r.ots]
        /\ lused' = IF r.ok THEN [lused EXCEPT !.times[q] = @ + 1] ELSE lused
        /\ lsig' = IF ~r.ok THEN NoSignature
                   ELSE [complete |-> failure = "none", I |-> lpriv.I, q |-> q, c |-> c,
                         y |-> r.y, msg |-> msg,
                         path |-> IF failure = "none"
                                  THEN get_merkle_path(lpriv.I, InternalNodes + q) ELSE <<>>]
        /\ UNCHANGED lpub

LmsNext ==
    \/ mbedtls_lms_generate_private_key
    \/ mbedtls_lms_private_free
    \/ mbedtls_lms_calculate_public_key
    \/ mbedtls_lms_public_free
    \/ \E msg \in LmsMessages, c \in Digests, failure \in {"none", "ots", "path"} :
         mbedtls_lms_sign(msg, c, failure)

LmsSpec == LmsInit /\ [][LmsNext]_lmsVars

-----------------------------------------------------------------------------
(* Properties.                                                             *)

\* A leaf of which any part of a signature has been in the buffer of the caller,
\* after a success or a failure, is behind the next usable one and its private
\* key is gone: two independent reasons why it signs once.
LmsOneTime ==
    \A q \in Leaves :
      /\ lused.times[q] <= 1
      /\ lpriv.have_private_key /\ lused.times[q] > 0 =>
           q < lpriv.q_next_usable_key /\ q \notin lpriv.ots

\* The leaves that are left can sign: a call that fails spends one leaf, and
\* does not stop the calls that come after it.
LmsNeverStuck ==
    lpriv.have_private_key => {q \in Leaves : q >= lpriv.q_next_usable_key} \subseteq lpriv.ots

\* The identifier and the root are of one private key.
Whole(pub) == pub.T_1 = calculate_merkle_tree(pub.I)[1]

\* A signature that was returned verifies under the public key of its private
\* key, for its message and no other, and under no other public key. What a failed
\* recalculation leaves of two keys passes for a public key, and verifies nothing:
\* neither what the old key signed nor what the new one signs.
LmsVerifies ==
    lsig.complete /\ lpub.have_public_key =>
      \A msg \in LmsMessages :
        mbedtls_lms_verify(lpub, msg, lsig)
          <=> msg = lsig.msg /\ lpub.I = lsig.I /\ Whole(lpub)

\* What is visible of a signature, or of one whose path failed, does not extend
\* to another digest: going on with the hash chains of the digits lowers a digit
\* of the checksum, which nobody can do (lmots_checksum_calculate()).
LmsOnlyThisDigest ==
    lsig # NoSignature =>
      LET signed == MessageHash(lsig.c, lsig.msg)
          digits == create_digit_array_with_checksum(signed)
      IN  \A other \in Digests \ {signed} :
            \E i \in DOMAIN digits : create_digit_array_with_checksum(other)[i] < digits[i]
\* Every signature that mbedtls_lms_sign() returns is accepted by
\* mbedtls_lms_verify() under the whole public key of its private key and under
\* nothing else, its hash chains cannot be continued to another digest,
\* and a failed call does not block the keys that are left.
LmsCorrect ==
    /\ LmsNeverStuck
    /\ LmsVerifies
    /\ LmsOnlyThisDigest
=============================================================================

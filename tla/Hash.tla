-------------------------------- MODULE Hash --------------------------------
(***************************************************************************)
(* Hash operations: the calls psa_hash_*() of core/psa_crypto.c on an      *)
(* operation and on a clone of it, with the built-in driver.               *)
(***************************************************************************)
EXTENDS HashEngines

CONSTANT MaxHashed      \* bound: bytes of a message
ASSUME MaxHashedAssumption ==
    /\ MaxHashed \in Nat
    /\ (MaxHashed + HashWord) * ByteBits < HashWord * HashWord

VARIABLES
    hop,    \* the two psa_hash_operation_t with their contexts
    hgiven, \* the bytes given to each since it was set up
    hdone   \* the digest that the last call gave or verified, and of what
hashVars == <<hop, hgiven, hdone>>

Objects == {"source", "target"}
NoHash == [id |-> FALSE, alg |-> "NONE", ctx |-> <<>>]
NoDigest == [alg |-> "NONE"]
Active(alg, ctx) == [id |-> TRUE, alg |-> alg, ctx |-> ctx]

HashInit ==
    /\ hop = [o \in Objects |-> NoHash]
    /\ hgiven = [o \in Objects |-> <<>>]
    /\ hdone = NoDigest

\* n more bytes for an operation.
Bytes(o, n) == [i \in 1 .. n |-> <<o, Len(hgiven[o]) + i>>]

Becomes(o, op, given) ==
    /\ hop' = [hop EXCEPT ![o] = op]
    /\ hgiven' = [hgiven EXCEPT ![o] = given]
psa_hash_abort(o) == Becomes(o, NoHash, <<>>)

\* A call that aborts the operation when it fails.
HashCall(o, status, op, given) ==
    /\ IF status = "OK" THEN Becomes(o, op, given) ELSE psa_hash_abort(o)
    /\ hdone' = NoDigest

psa_hash_setup(o, alg) ==
    \E valid \in {"OK", "INVALID_ARGUMENT", "NOT_SUPPORTED"} :
      HashCall(o, First(Check(~hop[o].id, "BAD_STATE"), valid),
               Active(alg, mbedtls_psa_hash_setup(alg)), <<>>)

psa_hash_update(o, n) ==
    \E memory \in Memory :
      HashCall(o, First(Check(hop[o].id, "BAD_STATE"), IF n = 0 THEN "OK" ELSE memory),
               [hop[o] EXCEPT !.ctx = mbedtls_psa_hash_update(hop[o].alg, @, Bytes(o, n))],
               hgiven[o] \o Bytes(o, n))

Done(status, alg, given, hash) ==
    hdone' = IF status = "OK" THEN [alg |-> alg, given |-> given, hash |-> hash] ELSE NoDigest

\* The local copy of the output comes first: without memory for it nothing
\* happens, not even to the operation.
psa_hash_finish(o, hash_size) ==
    \E memory \in Memory :
      LET status == First3(memory, Check(hop[o].id, "BAD_STATE"),
                           Check(hash_size >= HashSize, "BUFFER_TOO_SMALL"))
      IN  /\ IF memory = "OK" THEN psa_hash_abort(o) ELSE UNCHANGED <<hop, hgiven>>
          /\ Done(status, hop[o].alg, hgiven[o],
                  mbedtls_psa_hash_finish(hop[o].alg, hop[o].ctx))

\* The digest is compared after the operation has ended.
Compare(actual, hash, memory) ==
    First3(Check(Len(hash) = Len(actual), "INVALID_SIGNATURE"), memory,
           Check(hash = actual, "INVALID_SIGNATURE"))

psa_hash_verify(o, hash) ==
    \E memory \in Memory :
      /\ psa_hash_abort(o)
      /\ Done(First(Check(hop[o].id, "BAD_STATE"),
                    Compare(mbedtls_psa_hash_finish(hop[o].alg, hop[o].ctx), hash, memory)),
              hop[o].alg, hgiven[o], hash)

HashAbort(o) == psa_hash_abort(o) /\ hdone' = NoDigest

\* mutant: the clone starts afresh
CloneAfresh(op) == Active(op.alg, mbedtls_psa_hash_setup(op.alg))
mbedtls_psa_hash_clone(op) == Active(op.alg, op.ctx)

psa_hash_clone ==
    \E driver \in {"OK", "NOT_SUPPORTED"} :
      LET status == First(Check(hop["source"].id /\ ~hop["target"].id, "BAD_STATE"), driver)
      IN  /\ IF status = "OK"
             THEN Becomes("target", mbedtls_psa_hash_clone(hop["source"]), hgiven["source"])
             ELSE UNCHANGED <<hop, hgiven>>
          /\ hdone' = NoDigest

\* psa_hash_compute() and psa_hash_compare(), made while no operation is in use.
psa_hash_compute(alg, n, hash_size) ==
    \E memory \in Memory :
      LET input == Bytes("source", n) IN
      /\ Done(First(memory, Check(hash_size >= HashSize, "BUFFER_TOO_SMALL")),
              alg, input, mbedtls_psa_hash_compute(alg, input))
      /\ UNCHANGED <<hop, hgiven>>

psa_hash_compare(alg, n, hash) ==
    \E memory \in Memory :
      LET input == Bytes("source", n) IN
      /\ Done(Compare(mbedtls_psa_hash_compute(alg, input), hash, memory), alg, input, hash)
      /\ UNCHANGED <<hop, hgiven>>

\* What a caller may present: the digest, another one, a shorter one.
Presented(hash) == {hash, [i \in 1 .. HashSize |-> Zero], SubSeq(hash, 1, HashSize - 1)}
Unused == \A o \in Objects : hop[o] = NoHash

HashNext ==
    \/ \E o \in Objects, alg \in HashAlgs : psa_hash_setup(o, alg)
    \/ \E o \in Objects : \E n \in 0 .. MaxHashed - Len(hgiven[o]) :
         n < HashWord /\ psa_hash_update(o, n)
    \/ \E o \in Objects, hash_size \in {HashSize - 1, HashSize} : psa_hash_finish(o, hash_size)
    \/ \E o \in Objects : \E hash \in Presented(HashReference(hop[o].alg, hgiven[o])) :
         psa_hash_verify(o, hash)
    \/ \E o \in Objects : HashAbort(o)
    \/ psa_hash_clone
    \/ \E alg \in HashAlgs, n \in 0 .. HashWord - 1, hash_size \in {HashSize - 1, HashSize} :
         Unused /\ psa_hash_compute(alg, n, hash_size)
    \/ \E alg \in HashAlgs, n \in 0 .. HashWord - 1 :
         \E hash \in Presented(HashReference(alg, Bytes("source", n))) :
           Unused /\ psa_hash_compare(alg, n, hash)

HashSpec == HashInit /\ [][HashNext]_hashVars

-----------------------------------------------------------------------------
(* Properties.                                                             *)

\* An operation is in use exactly when it has an algorithm, and one that is not
\* in use has no context.
HashTypeOK ==
    \A o \in Objects : /\ hop[o].id <=> hop[o].alg \in HashAlgs
                       /\ ~hop[o].id => hop[o] = NoHash /\ hgiven[o] = <<>>

\* However a message is cut into chunks, and whatever happens to the clone, the
\* digest an operation would give is that of the bytes it accepted: no stale byte
\* of the buffer, no lost carry of the length and no byte of a call that failed
\* is in it (sha256.c, sha3.c, psa_hash_update(), psa_hash_clone()).
HashExact ==
    \A o \in Objects : hop[o].id =>
      mbedtls_psa_hash_finish(hop[o].alg, hop[o].ctx) = HashReference(hop[o].alg, hgiven[o])

\* A digest that a call gives or accepts is the digest of the message.
HashDoneExact ==
    hdone # NoDigest => hdone.hash = HashReference(hdone.alg, hdone.given)
\* However a message is cut, cloned and aborted, psa_hash_finish(),
\* psa_hash_verify() and psa_hash_compute() speak of the hash of what was given
\* to that operation, padded and counted as the algorithm says.
HashCorrect ==
    /\ HashTypeOK
    /\ HashExact
    /\ HashDoneExact
=============================================================================

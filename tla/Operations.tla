----------------------------- MODULE Operations -----------------------------
(***************************************************************************)
(* The operation objects, the random generator, LMS keys, the buffer       *)
(* allocator, and the functions that keep nothing between two calls, side  *)
(* by side.  They share no state: a behaviour is about one of them, chosen *)
(* at the beginning, and leaves the others as they are.                    *)
(***************************************************************************)
EXTENDS KeyDerivation, Cipher, Hash, Xof, Mac, Interruptible, Pake, Lms, BufferAlloc, Random,
        BignumCalls, KeyCalls

CONSTANT Kinds      \* the objects that behaviours are about
VARIABLE okind      \* the one this behaviour is about

operationVars ==
    <<kdfVars, cipherVars, hashVars, xofVars, macVars, iopVars, pakeVars, lmsVars,
      bufferVars, randomVars, okind, call>>

\* Where a component has several initial states, the others see only one of them.
OperationsInit ==
    /\ okind \in Kinds
    /\ KdfInit /\ CipherInit /\ HashInit /\ XofInit /\ MacInit /\ LmsInit
    /\ IopInit
    /\ okind # "iop" => /\ iop.kind = CHOOSE kind \in IopKinds : TRUE
                        /\ imax = CHOOSE max \in MaxOps : TRUE
    /\ PakeInit
    /\ okind # "pake" => /\ papp.secret = CHOOSE secret \in Passwords : TRUE
                         /\ \A role \in PakeRoles : papp.route[role] = <<1, 2, 3>>
    /\ BufferInit
    /\ okind # "buffer" => bheap.len = CHOOSE len \in BufferLengths : TRUE
    /\ CallsInit
    /\ RandomInit /\ rtrue \in IF okind = "random" THEN BOOLEAN ELSE {TRUE}

Kdf == okind = "kdf" /\ KdfNext
         /\ UNCHANGED <<cipherVars, hashVars, xofVars, macVars, iopVars, pakeVars, lmsVars,
                        bufferVars, randomVars, okind, call>>
UnauthenticatedCipher == okind = "cipher" /\ CipherNext
         /\ UNCHANGED <<kdfVars, hashVars, xofVars, macVars, iopVars, pakeVars, lmsVars,
                        bufferVars, randomVars, okind, call>>
Hashing == okind = "hash" /\ HashNext
         /\ UNCHANGED <<kdfVars, cipherVars, xofVars, macVars, iopVars, pakeVars, lmsVars,
                        bufferVars, randomVars, okind, call>>
ExtendableOutput == okind = "xof" /\ XofNext
         /\ UNCHANGED <<kdfVars, cipherVars, hashVars, macVars, iopVars, pakeVars, lmsVars,
                        bufferVars, randomVars, okind, call>>
Macing == okind = "mac" /\ MacNext
         /\ UNCHANGED <<kdfVars, cipherVars, hashVars, xofVars, iopVars, pakeVars, lmsVars,
                        bufferVars, randomVars, okind, call>>
Interrupting == okind = "iop" /\ IopNext
         /\ UNCHANGED <<kdfVars, cipherVars, hashVars, xofVars, macVars, pakeVars, lmsVars,
                        bufferVars, randomVars, okind, call>>
PasswordExchange == okind = "pake" /\ PakeNext
         /\ UNCHANGED <<kdfVars, cipherVars, hashVars, xofVars, macVars, iopVars, lmsVars,
                        bufferVars, randomVars, okind, call>>
LmsKeys == okind = "lms" /\ LmsNext
         /\ UNCHANGED <<kdfVars, cipherVars, hashVars, xofVars, macVars, iopVars, pakeVars,
                        bufferVars, randomVars, okind, call>>
Allocator == okind = "buffer" /\ BufferNext
         /\ UNCHANGED <<kdfVars, cipherVars, hashVars, xofVars, macVars, iopVars, pakeVars,
                        lmsVars, randomVars, okind, call>>
Generator == okind = "random" /\ RandomNext
         /\ UNCHANGED <<kdfVars, cipherVars, hashVars, xofVars, macVars, iopVars, pakeVars,
                        lmsVars, bufferVars, okind, call>>

Bignums == okind = "bignum" /\ (BignumNext \/ Return)
         /\ UNCHANGED <<kdfVars, cipherVars, hashVars, xofVars, macVars, iopVars, pakeVars,
                        lmsVars, bufferVars, randomVars, okind>>
KeyRules == okind = "keys" /\ (KeyCallsNext \/ Return)
         /\ UNCHANGED <<kdfVars, cipherVars, hashVars, xofVars, macVars, iopVars, pakeVars,
                        lmsVars, bufferVars, randomVars, okind>>

OperationsNext ==
    \/ Kdf \/ UnauthenticatedCipher \/ Hashing \/ ExtendableOutput \/ Macing
    \/ Interrupting \/ PasswordExchange \/ LmsKeys \/ Allocator \/ Generator
    \/ Bignums \/ KeyRules

OperationsSpec == OperationsInit /\ [][OperationsNext]_operationVars
=============================================================================

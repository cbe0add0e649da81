# TLA+ models of TF-PSA-Crypto

TF-PSA-Crypto is the reference implementation of the PSA Cryptography API. This
directory holds TLA+ specifications of the parts of it that keep state: the key
store, its files, the initialisation of the library, the operation objects for
ciphers, hashes, MACs, key derivation, key exchange and interruptible computations,
the random generator, LMS keys and the buffer allocator, of its large numbers, and of
RSA.
They are translated from the source, checked by TLC on small instances, and the
central invariants are proved by TLAPS for every size. `PROJECT.json` gives, for
every definition that models code, the lines it stands for.

Contents: [the system](#the-system), [modules](#modules), [runs](#runs),
[bounds](#bounds-and-symmetry), [fairness](#fairness), [proofs](#proofs),
[disagreements](#disagreements-with-the-documentation),
[limits](#what-is-not-modelled), [plan](#plan).

## The system

| component | source | state | operations |
|---|---|---|---|
| key slot manager | `core/psa_crypto_slot_management.c` | key slots: state, registered readers, attributes, material | find, register, reserve, evict, load, unregister, purge, wipe all |
| volatile slot slices | same | slices allocated on demand, one free list in each | allocate, free |
| key management calls | `core/psa_crypto.c` | the slot a call is filling or reading | import, generate, copy, destroy, export, attributes |
| persistent keys | `core/psa_crypto_storage.c` | one file per persistent key | save, load, destroy |
| ITS on files | `core/psa_its_file.c` | one file per UID and one temporary file | set, get, get_info, remove |
| library initialisation | `core/psa_crypto.c` | subsystem flags, state of the generator | `psa_crypto_init`, `mbedtls_psa_crypto_free`, entropy configuration |
| authenticated encryption | `core/psa_crypto.c`, `drivers/builtin/src/psa_crypto_aead.c` | `psa_aead_operation_t`: what was set, started and remains | setup, nonce, lengths, update_ad, update, finish, verify, abort, and one-part calls |
| AEAD algorithms | `ccm.c`, `gcm.c`, `chachapoly.c`, `chacha20.c`, `poly1305.c` | partial block, counter, lengths so far | starts, set_lengths, update_ad, update, finish |
| cipher operations | `core/psa_crypto.c`, `psa_crypto_cipher.c`, `cipher.c`, `aes.c` | operation, unprocessed bytes, IV | setup, iv, update, finish, abort, one-part calls |
| hash and XOF operations | `core/psa_crypto.c`, `psa_crypto_hash.c`, `psa_crypto_xof.c`, `sha256.c`, `sha3.c` | operation, partial block, length | setup, update, finish, verify, clone, output, abort |
| MAC operations | `core/psa_crypto.c`, `psa_crypto_mac.c`, `cmac.c` | operation, inner hash or last block | setup, update, finish, verify, abort |
| key derivation | `core/psa_crypto.c` | inputs so far, capacity, block in hand | setup, input, output, abort |
| PAKE | `core/psa_crypto.c`, `psa_crypto_pake.c`, `ecjpake.c` | inputs, stage of the protocol, one element in a buffer | setup, set, input, output, get shared key, abort |
| interruptible operations | `core/psa_crypto.c`, `psa_crypto_ecp.c`, `ecp.c`, `ecdsa.c` | stage of the computation, operations spent | start, complete, abort |
| random generator | `core/psa_crypto_random.c`, `ctr_drbg.c`, `hmac_drbg.c`, `entropy.c` | state, reseed counter, process identifier | generate, reseed, deplete |
| buffer allocator | `platform/memory_buffer_alloc.c` | two linked lists of blocks | allocate, free |
| LMS | `extras/lms.c`, `lmots.c` | next unused one-time key | generate, sign, verify |
| large numbers | `bignum.c`, `bignum_core.c` | none: sign and limbs of the arguments | arithmetic, text and bytes, powers, inverses, random numbers, primes |
| key policies and attributes | `core/psa_crypto.c`, `psa_crypto_ecp.c`, `psa_crypto_rsa.c`, `include/psa/crypto_values.h` | none: attributes of the key | permits, intersection, validation, the checks of import, generate, copy, export and use |
| RSA | `rsa.c`, `rsa_alt_helpers.c`, `psa_crypto_rsa.c` | the key, with a pair of blinding values that is used again | generate, complete, check, public and private operation, encrypt, decrypt, sign, verify |
| PK, MD, key wrap; ASN.1, PEM; ECC, block ciphers | `extras`, `utilities`, `drivers` | none, or arithmetic | |

**How they interact.** Threads share the key slots under one mutex
(`mbedtls_threading_key_slot_mutex`), the initialisation flags under a second and
the random generator under a third. A call on a key takes the first one several
times: it finds the key (loading it from its file when no slot holds it),
registers as a reader, releases the mutex, computes, and takes the mutex again
to unregister. A creation reserves a slot in state FILLING, writes it without the
mutex, and takes the mutex to save the file and make the slot FULL. A
destruction marks the slot PENDING_DELETION and removes the file; the last reader
wipes the slot. All access to files happens under this mutex. An operation object
belongs to its caller and passes through three layers: the checks of the core, the
dispatch on the algorithm, and the streaming code. Key derivation and HMAC run
over the hash functions, CMAC over a block cipher, PAKE and the interruptible
calls over elliptic curves, and everything that needs random numbers over the
generator, which reseeds itself from the entropy sources.

**What is hard.** Orders of sections of several threads that destroy, create, load
and evict the same key; a key that is in use when it is destroyed; a union that is
a link or a count of readers; a process that dies between two calls to the C
library; a step that fails after others were done; initialisation in several
threads at once; a message that is cut at any place, with counters and lengths at
their limits. `PROJECT.json` lists each hazard at its line, with the properties
that would show it going wrong.

**What makes each component correct.**

* Key store: it looks like a map from identifiers to keys in which each call takes
  effect at one instant. What a thread reads does not change under it. A key that
  was destroyed is not offered again and is wiped; a volatile key is not evicted.
* Free lists: they hold the empty slots, each once, after any sequence of calls.
* Storage: a file is whole or absent at any time, success means that the change
  is on disk, and nothing but a saved key is ever loaded.
* Initialisation: whoever is told that the library is ready finds it ready.
* Operations: whatever the order of the calls, however the message is cut and
  whatever fails, what comes out is what the definition of the algorithm says of
  what went in; a failed operation is ended and leaves nothing behind.
* Random generator: no two outputs come from one state, not even after a fork.
* LMS: no one-time key signs twice. Buffer allocator: blocks tile the buffer.
* Large numbers: carries, borrows, estimates and rare corrections give the integer
  that the name of the function promises, whatever limbs the arguments have and
  whichever argument is also the result.
* RSA: the private operation undoes the public one or fails; what is encrypted is
  decrypted, what is signed verifies, and no other block is taken for either.
* Key policies: a policy permits what it means and no more; a copy of a copy may do
  nothing that its origin may not; the size of a key is the size of its material.
* AEAD: any cutting of the message gives the keystream and the tag of the whole
  message, no byte of the keystream is used twice as far as its counter reaches, and
  the declared lengths are the lengths.

## Modules

| module | models | extends |
|---|---|---|
| `KeyStore` | slot manager and key management calls | |
| `KeyStoreAbs` | the promise of the key store: a map of keys | |
| `KeyStoreFaults` | `KeyStore` with a mutex that can fail in `psa_destroy_key()` | `KeyStore` |
| `FreeList` | volatile slices and their free lists | |
| `PsaInit` | initialisation and release of the library | |
| `ItsFile` | internal trusted storage on files | |
| `KeyStorage` | persistent keys on `ItsFile` | `ItsFile` |
| `Status` | the first of several checks that fails gives the status | |
| `AeadEngines` | the streaming code of CCM, GCM, ChaCha20-Poly1305 | |
| `Aead` | the `psa_aead_*()` calls over `AeadEngines` | `AeadEngines`, `Status` |
| `HashEngines` | SHA-256 and SHA-3: buffering, counting, padding, absorbing, squeezing | `Status` |
| `Hash`, `Xof`, `Mac` | the operation objects of these names | `HashEngines` |
| `KeyDerivation`, `Cipher` | the operation objects of these names | `Status` |
| `Interruptible` | signatures, key agreement, generation and export under a budget | `Status` |
| `Pake` | two parties running J-PAKE | `Status` |
| `Lms`, `BufferAlloc`, `Random` | as named | `Status` |
| `Calls` | calls of functions that keep nothing between them | |
| `BignumCore` | `bignum_core.c`: limbs | `Status` |
| `Bignum` | `bignum.c`: signed numbers, divisors, inverses, primes | `BignumCore`, `Calls` |
| `BignumCalls` | the inputs of these functions, and what the results must be | `Bignum` |
| `Algorithms` | identifiers of algorithms and key types, bit field by bit field | |
| `KeyPolicy` | policies, attributes, sizes, and the checks before a key is used | `Algorithms`, `Status` |
| `KeyCalls` | the inputs of these functions, and what the results must be | `KeyPolicy`, `Calls` |
| `RsaNumbers` | RSA on numbers: generation, completion, checks, CRT, blinding | `Status` |
| `Rsa` | RSA on blocks: the paddings and the calls of the PSA driver | `Status` |
| `RsaCalls` | the inputs of both, and what the results must be | `Rsa`, `RsaNumbers`, `Calls` |
| `Operations` | operation objects, large numbers and key rules side by side: a behaviour is about one of them | the modules of the objects, `BignumCalls`, `KeyCalls` |
| `Drivers` | authenticated encryption, RSA and volatile slots side by side | `Aead`, `FreeList`, `RsaCalls` |
| `*MC` | constants and symmetry of the runs | |
| `KeyStoreProof` | theorems about the states and about the steps of `KeyStore` | `KeyStore` |
| `LibraryProof` | theorems about `FreeList` and `PsaInit` | both |
| `AeadEnginesProof` | lemmas about the streaming code of CCM, GCM and ChaCha20-Poly1305 | `AeadEngines`, `HashProof` |
| `AeadProof` | theorems about `Aead` | `Aead`, `AeadEnginesProof` |
| `KeyStorageProof` | theorems about `ItsFile` and `KeyStorage` | `KeyStorage` |
| `HashProof` | theorems about SHA-256, SHA-3, hashes, extendable output and MAC | `Hash`, `Xof`, `Mac` |
| `OperationsProof` | theorems about LMS, PAKE, the random generator and key derivation | `Lms`, `Pake`, `Random`, `KeyDerivation`, `HashProof` |
| `LoopsProof` | theorems about interruptible operations, the buffer allocator, and functions defined by recursion | `Interruptible`, `BufferAlloc` |

Some definitions carry the comment *mutant*: they are altered forms of the
definition after them, unused by the specifications. Putting one in the place of
its original must make TLC report the property named in `PROJECT.json`, which
shows that the property does depend on that code.

### KeyStore

Every section of code under the key slot mutex is one action, and what a call
does between two sections is one action too; those of different threads
interleave.

| in the model | in the code |
|---|---|
| `slots[s]` | `psa_key_slot_t`: `state`, `var.occupied.registered_readers`, `attr.id`, `attr.lifetime`, `key.data` |
| `storage[k]` | the file of a persistent key |
| `pc[t]`, `src[t]`, `dst[t]`, `want[t]`, `ret[t]` | where a call of thread `t` is, its source slot, the slot it fills, the identifier it asked for, its status |
| `Cache`, `VolatileSlots` | the slots of persistent keys, and the volatile slices; with `VolatileCount = 0`, the static key store with one array |

A creation is `StartCreation` (or `StartCreationFails`), `SetAttributes`,
`FillSlot`, `FinishCreation`; `FillFails` and a failed `FinishCreation` lead to
`FailCreation`. A use is `LockInMemory` or `LoadAndLock` (or `LoadFails`,
`LoadHasNoSlot`), `ReadKey`, `Release`. `psa_copy_key()` is both: it registers on
its source, creates its target, and releases. `psa_destroy_key()` registers and
then takes `DestroyKey` or, when another thread was first, `DestroyLost`.
`PurgeKey` is `psa_purge_key()`. `psa_wipe_all_key_slots` (with all calls
finished) and `Crash` (at any time) forget the memory and keep the files.

`psa_save_persistent_key()` and `psa_destroy_persistent_key()` are sets of
outcomes here: a file that is there is never overwritten, and success means that
the change is made. These are what `KeyStorage` establishes (`SaveCommits`,
`DestroyErases`, `KeysCommitted`), with the assumption stated there that an
existing file can be opened. `DATA_INVALID` stands there for every status of a save
that failed after the file was written.

`KeyStoreAbs` has a map `keys` and the material `handle` that each thread works
with. A persistent identifier is mapped to its file, a volatile one to its slot,
and a handle to what the slot of the thread holds now. `Linearizable` says that
every step of `KeyStore` is a creation, opening, closing, destruction or restart
of the map, or is invisible; so loading, eviction and purging cannot be seen by a
caller, and a destruction does not disturb those who are using the key.

### FreeList

`psa_key_slot_t.var` is a union: the offset of the next free slot, relative to
the next one of the array, or a count of readers. `var[i][j]` is the same number
whichever of the two was meant. A new slice is all zero, which by this encoding is
a full list. The actions are allocation (in a slice that is there, or a new one),
the end or failure of a creation, registering and unregistering, marking for
deletion, and wiping all slots. Identifiers are computed with the real widths,
2^25 slots in 32 slices.

### PsaInit

`psa_crypto_init()` reads the state of the generator under one mutex and the flags
under another, then initialises each subsystem in a section of its own; each
section is an action of a thread. A subsystem in `CanFail` can fail, and the
thread then runs `mbedtls_psa_crypto_free()`, section by section, whatever other
threads are doing, as in the code. A call to `mbedtls_psa_crypto_free()` by the
application is made only when no other call is in progress and none starts before
it returns (its documentation requires that). The guard
`GUARD_MODULE_INITIALIZED` reads its two halves in two sections before a call uses
the generator. `GuardHolds` is about these two sections, as long as no subsystem has
failed. After a failure it is false: the thread that cleans up takes the generator from
another one that has passed the guard and not used it yet. `init_race` shows what the
same cleanup does to a thread that was told the library is ready.

### ItsFile and KeyStorage

A file is a sequence of cells (magic, size, flags, then the data). `psa_its_set()`
is one action for each call to the C library that changes a file: opening the
temporary file, writing the header, writing the data, closing, renaming, and
unlinking what is left. A call in `CanFail` can fail, a failed write can leave any
part of its data, and `Restart` can come before any step. `psa_its_get()` and
`psa_its_get_info()` only read and are operators with sets of outcomes: opening the
file, reading its header and reading its data can each fail.

`KeyStorage` puts the key format and its checks on top: `SaveRefused`,
`SaveStart`, `SaveStep`, `SaveReturn` (with the removal of a file that cannot be
verified, which can fail too: a creation that is reported as failed can leave its file), `psa_load_persistent_key`, `psa_destroy_persistent_key`, `Crash`. The
directory may hold files from elsewhere (`Foreign`).

### AeadEngines and Aead

Bytes are symbols: a byte of the message is its position, a byte of keystream its
counter block and offset. A context records what was mixed into the block in hand
and where, the blocks given to the authentication function, and the mask of each
byte of the body. Each function is the streaming code of the C function of the
same name: how data is cut along partial blocks, when a block is finished, how
counters step and come round, and what is refused.

`Aead` has one action for each `psa_aead_*()` call, with the checks of the core in
their order, the allocation of local copies, the dispatch, and the abort after a
failure. The caller makes any calls in any order. `given` is what the caller has
passed and is not part of the program; it is what the results are compared with.
A one-part call does not touch the operation and is made while it is not in use.

### The operation objects

`KeyDerivation`, `Cipher`, `Hash`, `Xof`, `Mac`, `Interruptible` and `Pake` have
the shape of `Aead`: one action for each call, with the checks in the order of the
code; the operation and the context of the driver as variables; what the caller has
given as a further variable that the program does not read; and for one-part calls
the result of the last one. Each property compares with a definition that knows
nothing of buffers and chunks.

* `KeyDerivation`: a byte of output is a term over the inputs (block number, chain,
  position). `kop` is the operation, `kctx` the context of the algorithm, `kin` what
  was given, `kout` what was read. `Reference` writes the output down
  from the definition of HKDF, the PRF of TLS 1.2 and PBKDF2; a block of PBKDF2 is the
  XOR of the terms of its `InputCost` rounds. `KdfCorrect`: the
  stream is exact in pieces of any size, nothing is read before the inputs are
  complete, never more than the capacity, all of the capacity can be read, and a
  key is output only when the secret was a key.
* `Cipher`: `mbedtls_cipher_update()` keeps incomplete blocks and, in CBC decryption
  with padding, the last whole one. `CipherCorrect`: what was written is the
  beginning of the message in its mode; when it finishes it is all of it; a valid
  padded message is never refused; and no more is written than the buffer holds.
* `Hash`, `HashEngines`: two operations, so that one can be cloned into the other.
  The number of bytes is kept in two words as in the code. `HashCorrect` compares
  with the padded message cut into blocks.
* `Xof`: `XofCorrect` compares all the pieces that were output with the stream of
  everything absorbed, and asks for the context before anything else.
* `Mac`: HMAC over the same hash function with keys shorter than, as long as and
  longer than a block, and CMAC with its two subkeys.
* `Interruptible`: the computation is a list of steps with a price each; a call
  performs steps while the budget allows. `IopCorrect`: the steps done are those of
  the uninterrupted computation, each once, and their number is the one reported.
  `IopProgress`: a call always makes progress, however small the budget, so that a
  caller who goes on gets an answer.
  When the mutex fails as a set-up that succeeded unlocks the key slot, the operations
  that sign, verify and agree are in error with their context still loaded
  (`IopStartsInError`): only there does an error leave a key in memory, until abort,
  and `IopTypeOK` says so. The set-up of an export reports that failure and remembers
  nothing (psa_crypto.c:1614-1620): the operation can go on as after success, although
  crypto.h:5923-5926 says that a set-up that returns an error puts the operation in an
  error state. In the model that is the outcome of a success. The set-ups of ciphers, MACs
  and AEAD (psa_crypto.c:4523, 5197) are the same: only the status says that the slot was not given back.
* `Pake`: points are multiples of the generator in a group of prime order 101, so
  that agreement is an equation on numbers. Elements can be delivered swapped,
  twice, or from an earlier session. `PakeMemory` accounts for what is allocated in
  the union that holds the inputs first and the context of the driver later.
* `Lms`: `LmsOneTime` says that no key signs two messages even when the entropy, the
  allocation, the hash or the output fails; `LmsCorrect` that signatures verify under a
  whole public key, that the digits of no other digest dominate those signed, and that
  a failed call leaves the other keys usable. A public key is not whole after its recalculation
  failed in the tree: `mbedtls_lms_calculate_public_key()` has then copied the new
  identifier (lms.c:678) beside the root of the key before, and `have_public_key` is
  still set.
* `BufferAlloc`: headers are records at addresses of the buffer with the six fields
  of the code; `BufferCorrect` relates the two lists to each other and to the
  memory in use.
* `Random`: processes that fork, each with a copy of the state. Outputs are terms
  over the seeds. A call starts with the test for a fork and then makes one request
  after the other, each in a step of its own, while other processes run. `RandomNeverRepeats` compares the outputs of all processes;
  `RandomCorrect` asks that a generator that is due to be reseeded is, and that
  requests are served in full or refused for a reason.

### Large numbers

A number is `[s, p]`: a sign and a sequence of limbs, the least significant first,
with leading zero limbs where the code leaves them. A function that writes into
`X` takes what `X` holds, so that aliasing and stale limbs are part of the input.
Limbs wrap at `2^LimbBits`, and each loop over limbs is the loop of the code:
carries and borrows, Montgomery multiplication with its conditional last
subtraction, exponentiation with a window, the long division with its estimate
from two limbs and its two corrections, the greatest common divisor in constant
time with a fixed number of rounds, digits by repeated division, rejection
sampling with its limit of tries, trial division and Miller-Rabin. What the generator
draws is an input, and it fails when there is no more of it.
`BignumCorrect` evaluates each result with the integers of TLA+: the value, the
absence of a negative zero, the error for each refused argument, that what is
written is read back, and that a number called prime is one for the bases drawn.

### Key policies

`Algorithms` has the macros of `crypto_values.h` on the numbers of the header, so
that wildcards, lengths and hashes overlap in the bits as they do in the code. A
key is its attributes; its material is a length, whether the driver can read it,
and the size of an RSA modulus. `KeyPolicy` has the checks in the order of the
code, each with its status, up to the driver. A slot, a lock or memory that is
missing belongs to `KeyStore`.

`KeyCalls` says what is right without bit fields: an algorithm is there a record
(a base, a length that is exact or a minimum, a hash or any hash), and
`KeyRulesCorrect` compares the two. A policy permits the algorithms its record
allows and no wildcard; the intersection of two, in both orders, permits what both
do (for key agreements and J-PAKE, whose general policies are not wildcards, it may
permit less). A key is imported, copied, and the copy is copied: every use that a
copy passes, its origin passes, and so does the policy asked for the copy; a key
that signs hashes signs messages; a public key is only good for public uses. A key
that was imported has the size of its material, one that was generated can be
imported again without its size and is the same, and one that was agreed needs the
right to derive.

### RSA

The permutation has two models. In `RsaNumbers` it is modular exponentiation of
small numbers, with keys of a few bits: the private operation with the Chinese
remainder theorem, the blinding pair that is squared or drawn anew, a fault in one
of the halves, the deduction of the private exponent and the CRT parts, the checks of
keys that were changed in one part, and the generation from given pairs of primes. In
`Rsa` it is a symbol around a block of bytes, and the blocks are real: PKCS#1 v1.5
with the constant-time removal of the padding, OAEP and PSS with their masks and
salts, each with the calls of `psa_crypto_rsa.c` above them. A digest is any function
that spreads its input. `RsaCorrect` has a part for each function, evaluated on what
it returned.

## Runs

Twelve runs; `operations` takes between two and three minutes on two cores, the
others less than two.

| run | instance | shows |
|---|---|---|
| `keystore_static` | 3 threads, 2 slots, 1 persistent identifier, 2 materials | the inductive invariant `KeyStoreInv` (readers are counted and hold a key, a slot being filled has one owner, a deleted key has a reader who will wipe it, one slot per identifier, a cached key is the one in the file, no internal check of registering, unregistering, wiping, evicting or changing a state fails, those included whose status the code ignores), reads do not change (`ReadsAreStable`), destruction is final (`DestroyIsFinal`), volatile keys stay (`VolatileKeysStay`) |
| `keystore_dynamic` | 2 threads, 1 cache slot, 1 volatile slot, a persistent and a platform key | the refinement of the map of keys (`Linearizable`); a deleted key is wiped (`DeletionCompletes`) and calls return (`CallsReturn`) |
| `keystore_lock_failure` | 1 thread | a disagreement, below |
| `init` | 3 threads, everything may fail | until a subsystem fails, the library is ready for whoever got success (`ReadyIfNoneFailed`) and the guard is sound (`GuardHolds`); whatever fails, nothing is left marked and not initialised once all calls have returned (`NoHalfInitAtRest`), and the sources of a generator in use are fixed (`SourcesFixed`) |
| `init_race` | 2 threads, seeding may fail | a disagreement, below |
| `storage` | 2 identifiers, 2 sets of attributes, material of 0 to 3 cells with a limit of 2, 8 foreign files | files are whole (`FilesWhole`), success commits (`SaveCommits`), destruction erases (`DestroyErases`), loads are exact (`LoadExact`), keys are not replaced or lost (`KeysCommitted`) |
| `storage_open` | 1 identifier, opening may fail | a disagreement, below |
| `drivers` | AEAD with blocks of 3 bytes, keystream blocks of 6, counters of 4, up to 7 bytes of additional data and 26 of body in any chunks; slices of 2 and 3 volatile slots with up to 2 readers; RSA keys of 5 bits and blocks of 121 to 272 bits | the keystream is used in order, and once until the counter of ChaCha20 goes round (`KeystreamInOrder`), the tag covers the message (`TagCoversMessage`), lengths are honoured (`LengthsHonoured`), and the drivers refuse nothing that the core let through once lengths were accepted (`LayersAgree`); the free lists hold exactly the empty slots, the union is never misread, identifiers lead to their slots, no internal check fails (`FreeListInv`); `RsaCorrect` |
| `pss_marker` | the same | a disagreement, below |
| `operations` | one operation object of each kind, or a call of a function on large numbers or of a rule about keys | the properties of the modules above: one named `...Correct` for each, with `IopProgress`, `PakeMemory`, `LmsOneTime` and `RandomNeverRepeats` |
| `cipher_buffer` | a cipher operation | a disagreement, below |
| `iop_reuse` | an interruptible operation | a disagreement, below |

## Bounds and symmetry

* *Threads.* Three threads are needed for a destruction, a reader and a creation
  of the same key at once. The proof covers any number.
* *Slots.* Two slots and three threads make the store full, so that eviction and
  its failure happen; with one cache slot in the dynamic store the two keys that
  can be loaded contend for it.
* *Materials.* Two, so that a key that was created again differs from the old one;
  one in the dynamic store, to keep the liveness check small.
* *Free lists.* With slices of two and three slots a list has an inner link, a
  last link, and links both forwards and backwards, and slices differ in length.
* *Readers.* `MaxReaders = 2` separates the last reader from another.
* *Storage.* A limit of two cells of material with material of up to three puts
  every length on each side of each check. The foreign files are one for each
  check of the format, one that was cut short and one that has grown.
* *AEAD.* A block of 3 bytes has a first, a middle and a last byte, and room for
  the two bytes of the encoded length of additional data in CCM. The body is long
  enough to go through three blocks, start within one, and pass each limit, which
  is scaled: GCM's is (`CounterRange` - 2) blocks as 0xFFFFFFFE0 is (2^32 - 2)
  blocks of 16 bytes. Nonces of 7, 12 and 13 bytes are the two ends of CCM's range
  and the length of the others; 0 is refused. ChaCha20 has no limit in the code: its
  counter numbers 18 bytes of these bodies, and those of 19 to 26 bytes use the block of
  the Poly1305 key and then the first block again.
* *Operations.* Sizes are scaled so that each limit lies inside the explored range:
  the last HKDF block is number 3 of 2 bytes and the first count that comes round is
  4, and a block of PBKDF2 has 3 rounds; cipher blocks have 3 bytes and messages up to 10; hash blocks have 4 bytes with
  a length field that may or may not fit, and a byte count that overflows its low
  word; sponges have a rate of 4 in lanes of 2. MAC keys have 0, 4 and 5 bytes for
  blocks of 4. The computation under a budget has windows of 2 digits and budgets
  that are nothing, smaller than the dearest step, larger, and unlimited. LMS trees
  have 4 leaves and hashes of 2 digits in base 3. The buffer has room for no, two
  and three blocks. The generator is reseeded after every request of at most 2 bytes,
  and a call for 3 bytes makes two; up to two processes fork.
* *Large numbers.* Limbs have 8 bits and are two bytes of 4, so that TLC's integers
  hold products of three limbs. Values are on both sides of a limb, a half limb and
  a byte; 262147 divided by 65537 and their neighbours make the estimate of the long
  division too large by two and reach the second correction. Exponents of more than
  8 bits use a window of 3 bits, others of 1. Three small primes leave composites
  for Miller-Rabin, where a base is drawn up to `MillerRabinTries` times; the search
  for a safe prime is cut after `SearchSteps` candidates. A random number is looked for
  with 4 draws, or 3 if it has more than 2 bytes (250, 30 and 4 in the code), of which
  the last one does not count.
* *Key policies.* Lengths of tags are 4 to 32 and the full length, each exact or a
  minimum; every pair within a kind of algorithm is met, and one algorithm of each
  other kind. Three types of keys fit the algorithm of a MAC or do not. Chains of
  copies start from symmetric, RSA and elliptic curve keys, with both algorithms of
  the policy. Sizes and lengths are those of the curves and ciphers, their
  neighbours, the ones that are rounded (521 to 528, 255 to 256, 1027), and the
  largest (8191 and 8192 bytes on both sides of `PSA_MAX_KEY_BITS`, where the type of
  the size overflows).
* *RSA.* Keys are products of the primes 3 to 11 with exponents 3, 5 and 7, so that
  every base of every power is tried; a changed key differs in one part. Blocks have
  128, 132 and 136 bits, and 200 to 272 where a signature needs room for its digest
  information: with digests of 4 and 8 bytes each length is met that just fits and that
  just does not. PSS is tried with all moduli of 121 to 137 bits, so that all seven
  positions of the top bit and the one where the block has a byte less occur, and every
  salt length.
* *Symmetry.* Threads, persistent identifiers and materials of the key store, and
  identifiers of files, are interchangeable in the safety runs. Slots are not: the
  first free one is taken. The run with liveness properties uses none.

Deadlock is checked in every run: in each state some call can be made, or one
returns.

## Fairness

Only `keystore_dynamic` needs it: `FairSpec` is weak fairness of `Continue(t)` for
each thread, which says that a thread inside the library keeps running. It is
justified as each action is a section under the mutex, or code without it, that
has no loop waiting for another thread; the mutex is released at the end of every
section, so a thread that waits for it gets it under any fair scheduler. Nothing
is assumed of the application: calls need not be made. A crash may happen at any
time and need not.

## Proofs

All theorems hold for every value of the constants that satisfies the named
assumption of its module; these only say that the sizes are numbers and that
identifiers, materials and special values differ, and those of `Hash`, `Mac` and `Aead` also
that messages are as short as the algorithm allows. Each proof has one lemma for each action and closes
with PTL.

* **`KeyStoreSafe`: `Spec => []KeyStoreInv`** (`KeyStoreProof`). `KeyStoreInv` is
  the safety invariants of the run together with three facts that make them
  inductive: which slots a thread holds at each place (`PcShape`), what a slot
  being filled contains (`FillShape`), and what a slot in use contains
  (`SlotShape`). The heart is counting: `registered_readers` is the cardinality of
  the set of threads with that source, so a count of one means that the thread
  itself is the only reader, and the wipe by the last reader disturbs nobody.
  `OneSlotPerId` and `CacheCoherent` support each other: a file is only written
  when there is none, so no slot holds its identifier. Each part is stated as a
  corollary of its own.
* **`RegisteredReadsAreStable`, `DestructionIsFinal`, `VolatileKeysAreKept`,
  `KeyStoreImplementsMap`** (`KeyStoreProof`): the action properties of the key store
  and its refinement of the map `KeyStoreAbs`, for any number of threads and slots.
  One lemma for each action shows `StepSafe`: from `KeyStoreInv`, the step has the
  three properties and is a step of the map or leaves it as it was. What the map
  holds after a step follows from two facts about a refinement mapping with a choice
  in it: an identifier is mapped to its file, or to the only slot that offers it
  (`AbsKeysAt`), so a step that changes one slot changes the map at one place
  (`AbsKeysAtNext`). A wipe by the last reader is invisible since the key was out of
  the map when it was marked; eviction and loading, since the slot and the file agree
  (`CacheCoherent`).
* **`FreeListIsExact`, `FreeListSafe`** (`LibraryProof`). That the links form a
  list of exactly the set of free slots is expressed by a rank: the distance of
  each slot to the end, injective, one less at each link, and the size of the set
  at the head. Taking the head removes the slot with the highest rank, freeing a
  slot adds a higher one; a new slice has rank *n - j* at slot *j*. No induction on
  the list is needed. That the union is a count while the slot is in use is part
  of the same invariant.
* **`InitIsThreadSafe`, `GuardIsSound`, `NothingHalfInitialised`,
  `SourcesAreFixed`** (`LibraryProof`). `InitInv` says that, until a subsystem has
  failed, flags tell the truth, what a thread may conclude from the sections it has
  passed, and that the library is released by a thread alone. Without that proviso
  the property is false: see `init_race`. Whatever fails, each thread that has
  failed is on its way through `mbedtls_psa_crypto_free()`; from this follows that
  nothing is half initialised once all calls have returned, and the action property
  that the sources of a generator in use do not change.
* **`ItsAtomic`, `ItsCommits`** (`KeyStorageProof`), whatever fails and wherever the
  process dies. `TempFollows` relates the temporary file to the step: from the
  close on, unless an error was recorded, it holds the whole file.
* **`SaveIsCommitting`**, and with files that can be opened for reading
  **`DestroyedKeysAreGone`** and the action property **`SavedKeysStay`**
  (`KeyStorageProof`). `JobOfCall` ties the running `psa_its_set()` to the call and
  `FreshJob` says that there is no file until the rename.
* **`LoadIsFaithful`: `StorageSpec => []LoadExact`** (`KeyStorageProof`). `KeyFiles`
  says that each file is one that a save wrote or one of another program. For the
  first kind, what the parser cuts out of the cells is what the formatter put there
  (`FirstCells`, `LastCells`); for the second, a parser that accepts has compared the
  length field with what it read, so that the material is a stretch of the file.
* **`LengthsAreHonoured`** (`AeadProof`). What was passed and what remains add up
  to what was declared, and nothing was passed while the flags say that nothing
  was; the second part makes the first true when lengths are declared. The
  algorithms are left opaque: they may return any context and any status.
* **`KeystreamIsInOrder`: `Spec => []KeystreamInOrder`**, **`TagsCoverMessages`:
  `Spec => []TagCoversMessage`** and **`LayersDoAgree`: `Spec => []LayersAgree`**
  (`AeadProof`), for CCM, GCM and ChaCha20-Poly1305, any sizes of blocks, limits and
  chunks, any order of calls and any failure in them. The invariant is `AeadInv`:
  `LengthsInv`, `TagCoversMessage` and `StreamInv`, which gives the context of a
  started operation as a function of three numbers: how much associated data it took,
  how much of the body, and what was declared. Everything is in that function
  (`CcmStream`, `GcmStream`, `ChaStream`): the blocks the tag was fed, the part of a
  block in hand, the counter and the masks. The calls are then equations between such
  contexts, proved in `AeadEnginesProof` without a word about states: a piece of *n*
  bytes leads from the context after *k* to that after *k + n*, wherever blocks end, and
  finishing gives the reference `Authenticated`. The loops over blocks are recursive
  functions, unfolded by induction on the number of blocks. Three places need care. In
  CCM, the first block is only made once both nonce and lengths are known, in either order,
  and the associated data ends its block early, so that the body starts a new one. In
  GCM, the block of associated data is completed by the first piece of the body, or by
  `mbedtls_gcm_finish()` when there is none. In ChaCha20-Poly1305, the padding of either
  half is written by the call after it, which may be `finish`. That a keystream block does not serve
  twice is the statement that the counter does not come round (`FewMasks`): GCM's limit
  and the length field of CCM guarantee it. `chacha20.c` does not count its keystream, and
  neither `chachapoly.c` nor `psa_crypto.c` limits the body, so for it the theorem says
  exactly how far single use goes: up to `CounterRange` - 1 blocks, (2^32 - 1) * 64 bytes
  in the code, and no byte further, as the next one is masked with the block whose first
  half is the key of Poly1305 (`CounterComesBack`). `LayersDoAgree` follows
  from the same invariant: in the context it describes, no check of the driver is met by
  what the core lets through.
* **`LmsLeafSignsOnce`: `LmsSpec => [](LmsOneTime /\ LmsNeverStuck)`**
  (`OperationsProof`). The account of what each leaf signed is not part of the
  program; `LmsKeyInv` ties it to the private key: a leaf that has signed is below the
  next usable one and its one-time key is gone, and no leaf from the next on is
  missing. Both halves are needed: the first gives one-time use, the second that a
  failed call leaves the other keys usable.
* **`PakeOwnsItsMemory`: `PakeSpec => []PakeMemory`** (`OperationsProof`). In
  `PakeHeapInv` the blocks in memory are exactly those that the stage and the inputs
  of the operation say it owns (`Owned`). The delicate step is the completion of the
  inputs, where the union changes hands: `CompleteOwns` goes through it with each
  failure, and `AbortOwnsNothing` shows that an abort from any stage frees them all.
* **`RandomRepeatsNothing`: `RandomSpec => []RandomNeverRepeats`**
  (`OperationsProof`), for any number of processes that fork, exit and are given
  identifiers of processes that are gone, and even if the entropy source never gives
  anything new. That an output is new says nothing of what comes next, so the
  invariant is about prefixes (`Apart`): whatever extends the list of a process that
  uses its own generator, in an output or in another such process, was seeded by
  another process after the common part. Requests and common seeds keep that
  (`PlainKeepsApart`), a request adds its list to the outputs after the length of the
  generator's own list has grown (`OutputKeepsApart`), and a child becomes one of these
  processes by a seed that names it and the time (`ChildIsApart`). The last needs
  `Timely`: no list has a seed of that process at that time yet, as time passes between
  the exit of a process and the reuse of its identifier.
* **`RandomIsFreshAndServed`: `RandomSpec => []RandomCorrect`** (`OperationsProof`).
  `AllSound` says of each process what the reseed counter and the process identifier
  stored in its generator mean, and of a call in progress that what it was asked for is
  what it has given and what is left. A step is one request, and the requests of
  a call are cut along the limit of one request; a call gives up only where a seed was
  due and the source failed (`EntropyComes`: entropy is gathered until there is enough
  of it or the sources are exhausted, by the least number of polls that is enough). Other
  processes leave a generator alone, and a child starts with what its parent had.
* **`Sha256UpdateAppends`, `Sha256FinishIsReference`** (`HashProof`), about the
  operators of `Hash`, for blocks and words of any size. The context is determined by
  the message so far: `Hashed` says that its whole blocks have been processed, that
  the rest is at the start of the buffer, and that the number of bytes is in the two words
  of the counter. An update with any number of bytes, empty or across several blocks, takes
  the bytes of a message to those of the longer message. The count is of all of them, the
  carry into the high word included, if every update had fewer than `HashWord` (2^32)
  bytes; an update with more is counted without its whole words, and `HashedButFor` says
  how many are missing. Its digest has the wrong length in its padding; the theorems about
  operations are of calls that stay below. Finishing gives the reference definition, on both sides of the length
  where the padding needs a block of its own.
* **`MacIsOfWholeMessage`: `MacSpec => []MacCorrect`** (`HashProof`), for HMAC and
  CMAC with keys shorter and longer than a block, any chunks, truncated MACs, failures and
  calls in a wrong order. `MacInv` ties the context to the key and the bytes given so far:
  for HMAC it is `Hashed` of the inner block followed by them; for CMAC (`CmacOf`) all
  blocks but the last have been chained, and the last one is held back, whole or not, as it
  is treated differently. The first needs the strengthened `MacAssumption`: the bits of a
  message can be counted in two words, which FIPS 180-4 demands of messages and the code
  does not check, and lengths of keys and chunks fit one word, as an update adds no more
  than the low word of a length to the count.
* **`Sha3UpdateAppends`, `Sha3FinishIsReference`** (`HashProof`): the same for SHA-3.
  `SpongeOf` is the context of a message, whole blocks and the part of the last one, and
  an update leads from that of a message to that of the longer one, byte by byte or lane
  by lane. The crux is that a lane never goes past the end of a block (`LaneFits`,
  `AlignFits`), as the rate is a multiple of the lane and the first bytes are for
  completing one. `Squeezed` is the context after some output; the padding leads
  to the first of them (`PadsTheLast`), and every byte of output to the next.
* **`HashIsOfWholeMessage`: `HashSpec => []HashCorrect`** and **`XofIsOneStream`:
  `XofSpec => []XofCorrect`** (`HashProof`) follow from these: the context of each
  operation is always that of the bytes it was given (`HashInv`), whether they came
  to it or to the operation it was cloned from; the stream of an extendable-output
  function is at the place that the length of its output says (`XofInv`), also when the
  first output asks for no bytes, which ends the input without padding it. The lengths
  of the messages of SHA-256 are assumed as for MAC (`MaxHashedAssumption`).
* **`KdfGivesItsStream`: `KdfSpec => []KdfCorrect`** (`OperationsProof`), for all seven
  algorithms, any sequence of calls and any failures in them. `KdfSound` says what the inputs
  that were accepted make of the context in each of its states (`KdfHas`), and where the
  context is in the stream (`KdfAt`): the number of the block, the place in it and the
  bytes drawn are one equation, the block in hand is the one with that number, and for the
  PRF of TLS 1.2 so is the seed of the next block. The rounds of a block of PBKDF2 add up
  the terms of RFC 8018, for any number of rounds (`PbkdfRoundsAre`). It says the place only as long as
  something can be drawn: an operation whose output failed keeps its algorithm and takes
  inputs again, but has no capacity left. One byte leads from place to place
  (`NextByteGoes`), so that it does not matter where a request ends (`KdfReadGives`), and as
  the capacity was never more than the counter can number (`RoomIs`) the loop does not meet
  its error. An input is accepted only in states where nothing was drawn and, if it is the
  secret, only once (`InputTaken`): thus the permission to derive a key stays that of the
  secret in use. `KdfAssumption` has what `RoomIs` needs of the length of a master secret, 48:
  that many bytes can be numbered by 255 blocks.
* **`InterruptionsChangeNothing`: `IopSpec => []IopCorrect`** and
  **`EveryCallMakesProgress`: `IopSpec => []IopProgress`** (`LoopsProof`), for any
  curve, window, costs and sequence of limits. A call is a loop of steps until the
  budget is spent. In `IopInv`, what was done followed by what the state of the
  restart contexts says is left (`RestOf`) is the whole computation, and the count
  is the price of what was done (`Paid`). Every step takes the first name off
  the rest (`RunKeeps`, `CompletesKeeps`), so it is indifferent where a call ends. No
  step is lost when a context is freed: each of the nested contexts is freed only when
  its rest is empty. In an operation that is in error and still has its context no step
  was done (`NotBegun`), which no later call can change. The first step of a call is free of the budget, which gives progress.
* **`MemoryIsKeptWhole`: `BufferSpec => []BufferCorrect`** (`LoopsProof`), for any
  buffers, sizes of headers and alignment, and all calls of `calloc` and `free` in any
  order. `BufferInv` has four parts. `Tiled`: blocks end where their next begins, and do
  not overlap. `Listed`: the links of the free list are inverse to each other, and there
  are ranks that get lower along it; without the ranks, the links could run in a circle
  that the head of the list does not reach. `Compact`: no two free blocks are neighbours.
  `Owned`: the program's pointers are the blocks in use. Inside `free` they do not hold:
  the freed block is in no list yet, and may have free neighbours on both sides. So
  `HeapInv` and `Compact` have a parameter, the blocks that are exempt, and each part of
  the code takes some of them away (`Released`, `MergedBefore`, `MergedAfter`,
  `Prepended`); `WholeTaken` and `CutOff` are the two ways of `calloc`. `RoundedUp` shows
  that a request that passes the test for overflow is not rounded to less than was asked.
  `FreeBlocksAre` ties the ranks to the loop: by induction along the list it reaches every
  free block once and ends.

The last two of these need an induction along a loop. The induction theorems of the
library take an operator as parameter and are of no use to these provers; the same
with a set in its place (`Induction`), and the unfolding of a function defined by
recursion (`Recursion`, with the set of values and the step as functions), are proved
from the well-foundedness of the order and used for `Run`, `Total` and `FreeBlocks`, which
are written as recursive functions for that.

The theorems about operation objects are about the specifications of the components
(`LmsSpec`, `PakeSpec`, `RandomSpec`, `KdfSpec`, `HashSpec`, `XofSpec`, `MacSpec`,
`IopSpec`, `BufferSpec`). `Operations`, where TLC checks the properties, runs one of them at a time with the others idle; it reaches recursive operators,
which shut the prover out.

Only model-checked, on the instances above, and why:

* Liveness (`DeletionCompletes`, `CallsReturn`): beyond this proof system.
* `BignumCorrect`, `RsaCorrect`, and whatever else their modules hold: they use
  recursive operators, in whose presence the SMT solver is not available.
* `CipherCorrect`, `PakeCorrect` and `LmsCorrect` are about folds and recursive
  definitions over data, and `KeyRulesCorrect` about the bits of numbers. Their proofs
  would need inductions of the kind above for each of the algorithms, and are not done.

## Disagreements with the documentation

Each is the expected result of a run, and its sources are quoted in `PROJECT.json`.

* `init_race`: a thread that fails to seed the generator leaves it at
  `RNG_INITIALIZED` until its cleanup. Another thread sees that value, skips the
  generator and returns `PSA_SUCCESS`; the cleanup then also frees what that thread
  relies on. The thread-safety document allows concurrent initialisation.
* `keystore_lock_failure`: when `psa_destroy_key()` cannot take the mutex for the
  second time it returns `overall_status`, which is still `PSA_SUCCESS`, and the
  key stays.
* `storage_open`: every failure of `fopen()` for reading is reported as a file
  that does not exist, so a key whose file cannot be opened for the moment is
  reported as destroyed.
* `cipher_buffer`: `psa_cipher_update()` asks for room for all whole blocks of the
  kept bytes and the input, also in CBC decryption with padding, where the last one
  is withheld; a buffer of `PSA_CIPHER_UPDATE_OUTPUT_SIZE()` bytes can be refused.
* `iop_reuse`: after a successful `psa_key_agreement_iop_complete()` the operation
  is marked as failed and must be aborted before it is used again.

* `pss_marker`: with a modulus of 8*k* + 1 bits and the longest salt, the marker
  before the salt of a PSS block is written into the byte that is then cleared, and
  the signature that is made does not verify. `rsa.h` says that the salt length is
  checked against the standards. Only the functions of `rsa.h` are affected: the PSA
  calls refuse keys of such sizes.

Met while modelling, without a run:

* A key that does not exist is reported as `PSA_ERROR_INSUFFICIENT_MEMORY` when the
  cache is full of keys in use, as a slot is reserved before storage is asked
  (`psa_get_and_lock_key_slot()`).
* `psa_its_set()` and `psa_its_remove()` do not look at
  `PSA_STORAGE_FLAG_WRITE_ONCE`, which the header describes.
* `psa_aead_set_nonce()` leaves the operation active when its local copy cannot be
  allocated, where the other calls abort it; so does `psa_hash_finish()`. In the
  same case `psa_aead_finish()` wipes the tag through a null pointer.
* A failed `psa_cipher_setup()` leaves `iv_required`, and a failed
  `psa_mac_setup()` leaves `mac_size` and `is_sign`, in an operation that is not in
  use; the next setup sets them again.
* A derivation with `TLS12_ECJPAKE_TO_PMS` accepts a second secret, and its output
  can be read without an input. For it `KdfCorrect` only says what its output is;
  and for the PRF of TLS 1.2, whose capacity is `SIZE_MAX`, requests are served as far
  as its counter goes.
* `mbedtls_sha256_update()` counts a single update of 2^32 bytes or more modulo
  2^32.
* `mbedtls_mpi_exp_mod()` gives *N* instead of 0 when *A* is negative, *E* odd and
  *A^E* a multiple of *N*, and 1 for an exponent without limbs even if *N* is 1.
* In `mbedtls_mpi_gen_prime()` a first candidate can lie just below
  2^(*nbits* - 0.5), the bound of the comment, as the constant it is compared with
  is rounded down. With the flag for Diffie-Hellman and a few bits only, a candidate
  that is itself one of the small primes is reported as an error.
* The mask for a base of Miller-Rabin shifts by the size of a limb or more when the
  number tested has leading zero limbs.
* `mbedtls_mpi_mod_int()` loses bits of the remainder when the divisor has more than
  half the bits of a limb.
* `psa_rsa_read_exponent()` reads the exponent of the custom key production in
  big-endian order; the comment at `psa/crypto_types.h:454` says little-endian.
* `mbedtls_rsa_gen_key()` accepts an even exponent of 4 or more, for which no pair of
  primes is ever good.
* When `rsa_prepare_blinding()` fails to allocate after it has set `Vf`, a later call
  finds `Vf` set and squares a pair that was never completed.
* `psa_random_deplete()` and `psa_random_reseed()` hold the mutex of the generator's
  data, generation only that of the DRBG.

## What is not modelled

* Loss of power: files are not synchronised to the disk, so only the end of the
  process is covered, not that of the machine.
* Cryptography itself: block ciphers, hash functions, GHASH and Poly1305 as
  functions, curves. Test vectors serve them better.
* In RSA: import and export in DER, real digests, and allocation of the numbers.
* Large numbers in Montgomery form that last longer than a call
  (`bignum_mod.c`, `bignum_mod_raw.c`), and fast reduction for named curves.
* Parsing and printing (ASN.1, PEM, Base64), PK and MD wrappers: no state.
* Timing of constant-time code.
* Accelerator and opaque drivers, and vendored code.
* Buffers that a caller changes while the library reads them; of the local copies
  only their allocation is modelled.
* In `Cipher`: XTS and CCM*. In `Random`: HMAC_DRBG, the seed file, and threads of
  one process; that a process identifier is not used again while a process that had
  it has a descendant is assumed, as in the code. In `BufferAlloc`: the locking
  wrappers. In `Lms`: import and export of public keys.
* In `KeyStore`: attribute validation, import and export formats, and the
  intersection of policies in `psa_copy_key()`, each of which is a success or a
  failure there; `KeyPolicy` has the rules. In `KeyPolicy`: keys with an external
  location, production parameters other than the default, the sizes of output
  buffers, and policies of kinds of algorithms other than the ones named. In `Aead`: CCM*, block ciphers that fail, and invalid tag lengths.

## Plan

Done: the key store and its abstract specification; free lists; initialisation;
files and persistent keys; authenticated encryption; the operation objects, the
random generator, LMS, the buffer allocator, large numbers, the rules about keys and
RSA. Proved: the safety and the refinement of the key store, free lists,
initialisation, storage, AEAD with its streaming code, hashes, extendable output, MAC, LMS
public keys and hashes, key derivation, the memory of PAKE, interruptible
operations, the buffer allocator and the random generator.

Left to prove: `CipherCorrect`, `PakeCorrect`, `LmsCorrect` and `KeyRulesCorrect`.
`BignumCorrect` and `RsaCorrect` rest on recursive operators, which the prover does not
take.

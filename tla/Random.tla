------------------------------- MODULE Random -------------------------------
(***************************************************************************)
(* The random generator of the library in a program that forks:            *)
(* core/psa_crypto_random.c with the CTR_DRBG of ctr_drbg.c, seeded by     *)
(* entropy.c.  A process is one thread.                                    *)
(*                                                                         *)
(* The key and counter of the DRBG are the list of all that went into      *)
(* them: seeds with their additional data, and the length of each request, *)
(* since the block cipher is taken to give different values for different  *)
(* inputs.  Two outputs made from the same list are the same bytes.        *)
(***************************************************************************)
EXTENDS Status, FiniteSets

CONSTANTS
    ReseedInterval, \* MBEDTLS_PSA_RNG_RESEED_INTERVAL
    MaxRequest,     \* MBEDTLS_PSA_RANDOM_MAX_REQUEST
    EntropyBlock,   \* MBEDTLS_ENTROPY_BLOCK_SIZE
    EntropyMaxLoop, \* ENTROPY_MAX_LOOP
    Gathers,        \* bound: what the source may give in a call
    RequestSizes,   \* bound: sizes of requests
    Pids,           \* bound: process identifiers
    MaxForks,       \* bound: processes forked
    MaxSteps        \* bound: length of the list of a generator

ASSUME RandomAssumption ==
    /\ {ReseedInterval, MaxRequest, EntropyBlock} \subseteq Nat \ {0}
    /\ EntropyMaxLoop \in Nat /\ Gathers \subseteq Nat
    /\ \A olen \in Gathers : (EntropyMaxLoop + 1) * olen >= EntropyBlock
    /\ RequestSizes \subseteq Nat
    /\ 1 \in Pids /\ Pids \subseteq Nat
    /\ MaxForks \in Nat /\ MaxSteps \in Nat

VARIABLES
    rproc,  \* pid -> global_data.rng of the process, or NoProcess; `due' is set
            \* while the application or a fork asks for a new seed; `left' is what
            \* the call in progress has still to give of the `want' bytes, `got' what
            \* it gave
    rtrue,  \* MBEDTLS_ENTROPY_TRUE_SOURCES > 0, else only the seed in a file
    rworld, \* entropy drawn from a true source, time, and processes forked
    rpast,  \* the lists that output was made from
    rout    \* what there is to say of the last step, if it was of psa_generate_random()
randomVars == <<rproc, rtrue, rworld, rpast, rout>>

NoProcess == [live |-> FALSE]
NoOutput == [repeated |-> FALSE, stale |-> FALSE, ok |-> TRUE, over |-> FALSE, missing |-> 0, excused |-> TRUE]

(* entropy.c: one strong source.                                           *)

\* What a call of the source gives goes into the pool; what is counted of it stays
\* counted when the call fails.  `good' is how many times the source works.
GathersNeeded(size, olen) ==
    {n \in 1 .. EntropyMaxLoop + 1 : size + n * olen >= EntropyBlock}
mbedtls_entropy_func(size, olen, good) ==
    LET needed == GathersNeeded(size, olen)
        n == CHOOSE k \in needed : \A l \in needed : k <= l
        tried == IF good < EntropyMaxLoop + 1 THEN good ELSE EntropyMaxLoop + 1
        ok == needed # {} /\ n <= good
    IN [ok |-> ok, size |-> IF ok THEN 0 ELSE size + tried * olen]

(* ctr_drbg.c.                                                             *)

\* What entropy is made of: a true source never gives the same twice; the seed in
\* the file does, and only the pool of the process makes a difference.
Seed(g, additional) ==
    <<"seed", IF rtrue THEN <<rworld.drawn, g.pools>> ELSE <<0, g.pools>>, additional>>

\* mbedtls_ctr_drbg_reseed(), with the source giving `olen' bytes `good' times.
Reseeded(g, additional, e) ==
    LET g1 == [g EXCEPT !.size = e.size]
    IN [ok |-> e.ok,
        rng |-> IF ~e.ok THEN g1
                ELSE [g1 EXCEPT !.list = Append(@, Seed(g, additional)),
                                !.pools = @ + 1, !.counter = 0, !.due = FALSE]]
mbedtls_ctr_drbg_reseed_internal(g, additional, olen, good) ==
    Reseeded(g, additional, mbedtls_entropy_func(g.size, olen, good))

ReseedAfter(g) == g.resist \/ g.counter > ReseedInterval          \* mutant
ReseedNow(g) == g.resist \/ g.counter >= ReseedInterval

\* The list of what went into the key after a request.
Generate(g, n) == [g EXCEPT !.list = Append(@, <<"request", n>>), !.counter = @ + 1]

mbedtls_ctr_drbg_random(g, n, olen, good) ==
    LET r == IF ReseedNow(g) THEN mbedtls_ctr_drbg_reseed_internal(g, <<>>, olen, good)
             ELSE [ok |-> TRUE, rng |-> g]
    IN [ok |-> r.ok, made |-> IF r.ok THEN {r.rng.list} ELSE {},
        got |-> IF r.ok THEN n ELSE 0,
        rng |-> IF r.ok THEN Generate(r.rng, n) ELSE r.rng]

(* psa_crypto_random.c.                                                    *)

Personalize(pid) == <<pid, rworld.now>>

\* The process identifier is noted only when the generator was seeded again.
psa_random_internal_reseed_child(g, pid, olen, good) ==
    LET r == mbedtls_ctr_drbg_reseed_internal(g, Personalize(pid), olen, good)
    IN IF r.ok THEN [r EXCEPT !.rng.pid = pid] ELSE r

ForkUnnoticed(g, pid, olen, good) == [ok |-> TRUE, rng |-> g]     \* mutant
\* Before its first request a call makes sure that the generator is not the one of
\* the parent.
psa_random_internal_generate(g, pid, olen, good) ==
    IF pid = g.pid THEN [ok |-> TRUE, rng |-> g]
    ELSE psa_random_internal_reseed_child(g, pid, olen, good)

\* The request that a call makes next: a long one is cut.
RequestSize(left) == IF left > MaxRequest THEN MaxRequest ELSE left

(* The calls of a process, and what happens to processes.                  *)

NewProcess == [live |-> TRUE, ready |-> FALSE, list |-> <<>>, counter |-> 0, resist |-> FALSE,
          pid |-> 0, size |-> 0, pools |-> 0, due |-> FALSE,
          want |-> 0, left |-> 0, got |-> 0]

RandomInit ==
    /\ rtrue \in BOOLEAN
    /\ rproc = [p \in Pids |-> IF p = 1 THEN NewProcess ELSE NoProcess]
    /\ rworld = [drawn |-> 0, now |-> 0, forks |-> 0]
    /\ rpast = {}
    /\ rout = NoOutput

\* A call that took a seed leaves the true source at another place.
Drawn(before, after) ==
    rworld' = [rworld EXCEPT !.drawn =
                 IF rtrue /\ after.pools # before.pools THEN @ + 1 ELSE @]

\* The seeding in psa_crypto_init(): the identifier is noted even on failure, and
\* the generator may be used only after a success.
psa_random_internal_seed(p, olen, good) ==
    LET r == mbedtls_ctr_drbg_reseed_internal(rproc[p], <<>>, olen, good) IN
    /\ ~rproc[p].ready
    /\ rproc' = [rproc EXCEPT ![p] = [r.rng EXCEPT !.pid = p, !.ready = r.ok]]
    /\ Drawn(rproc[p], r.rng)
    /\ rout' = NoOutput
    /\ UNCHANGED <<rtrue, rpast>>

\* For the properties.  How many requests a list ends with, after its last seed.
RequestsSince(list) ==
    Cardinality({i \in 1 .. Len(list) : \A j \in i .. Len(list) : list[j][1] = "request"})

\* What is to be said of a request, or of a call that fails before it makes one:
\* output made from a list that output was made from before; output made without a
\* seed that is as new as it must be; and whether the call may fail, which it may
\* if the source does when a seed is due.
Judged(g, r, after, works) ==
    LET newSeed(list) == \E i \in Len(g.list) + 1 .. Len(list) : list[i][1] = "seed"
        most == IF g.resist THEN 1 ELSE ReseedInterval
    IN [repeated |-> r.made \cap rpast # {},
        stale |-> \E list \in r.made :
                    RequestsSince(list) >= most \/ (g.due /\ ~newSeed(list)),
        over |-> ~r.ok \/ after.left = 0, ok |-> r.ok, missing |-> after.want - after.got,
        excused |-> ~works /\ \/ g.due \/ g.resist
                              \/ RequestsSince(r.rng.list) >= ReseedInterval]

\* A call begins; its requests are steps of their own, since other processes run in
\* between.  The process itself does nothing else until the call is over.
psa_generate_random(p, n, olen, good) ==
    LET g == rproc[p]
        r == psa_random_internal_generate(g, p, olen, good)
        after == [r.rng EXCEPT !.want = n, !.left = IF r.ok THEN n ELSE 0, !.got = 0]
    IN /\ g.ready
       /\ rproc' = [rproc EXCEPT ![p] = after]
       /\ Drawn(g, r.rng)
       /\ rout' = Judged(g, [ok |-> r.ok, made |-> {}, rng |-> r.rng], after,
                         good > EntropyMaxLoop)
       /\ UNCHANGED <<rtrue, rpast>>

\* One turn of the loop of psa_random_internal_generate().
NextRequest(p, olen, good) ==
    LET g == rproc[p]
        size == RequestSize(g.left)
        r == mbedtls_ctr_drbg_random(g, size, olen, good)
        after == [r.rng EXCEPT !.left = IF r.ok THEN @ - size ELSE 0, !.got = @ + r.got]
    IN /\ rproc' = [rproc EXCEPT ![p] = after]
       /\ Drawn(g, r.rng)
       /\ rpast' = rpast \cup r.made
       /\ rout' = Judged(g, r, after, good > EntropyMaxLoop)
       /\ UNCHANGED rtrue

psa_random_reseed(p, olen, good) ==
    LET r == mbedtls_ctr_drbg_reseed_internal(rproc[p], <<>>, olen, good) IN
    /\ rproc[p].ready
    \* A child that seeds by itself is still to be told from its parent.
    /\ rproc' = [rproc EXCEPT ![p] = [r.rng EXCEPT !.due = @ \/ r.rng.pid # p]]
    /\ Drawn(rproc[p], r.rng)
    /\ rout' = NoOutput
    /\ UNCHANGED <<rtrue, rpast>>

Deplete(g) == [g EXCEPT !.counter = ReseedInterval, !.due = TRUE]

psa_random_deplete(p) ==
    /\ rproc[p].ready
    /\ rproc' = [rproc EXCEPT ![p] = Deplete(@)]
    /\ rout' = NoOutput
    /\ UNCHANGED <<rtrue, rworld, rpast>>

\* Without a true source it cannot be enabled.
psa_random_set_prediction_resistance(p, enabled) ==
    /\ rproc[p].ready /\ rtrue
    /\ rproc' = [rproc EXCEPT ![p].resist = enabled]
    /\ rout' = NoOutput
    /\ UNCHANGED <<rtrue, rworld, rpast>>

\* A child gets an identifier that no process has, or has noted from an ancestor.
\* One that is forked before psa_crypto_init() has no generator to share.
Fork(p, q) ==
    /\ rproc[p].ready
    /\ rworld.forks < MaxForks
    /\ \A o \in Pids : rproc[o].live => q # o /\ rproc[o].pid # q
    /\ rproc' = [rproc EXCEPT ![q] = [rproc[p] EXCEPT !.due = TRUE]]
    /\ rworld' = [rworld EXCEPT !.forks = @ + 1]
    /\ rout' = NoOutput
    /\ UNCHANGED <<rtrue, rpast>>

\* Time passes before the identifier of a process is given to another.
Exit(p) ==
    /\ \E q \in Pids \ {p} : rproc[q].live
    /\ rproc' = [rproc EXCEPT ![p] = NoProcess]
    /\ rworld' = [rworld EXCEPT !.now = @ + 1]
    /\ rout' = NoOutput
    /\ UNCHANGED <<rtrue, rpast>>

RandomNext ==
    \E p \in {q \in Pids : rproc[q].live} :
      \/ /\ rproc[p].left > 0
         /\ \E olen \in Gathers, good \in 0 .. EntropyMaxLoop + 1 : NextRequest(p, olen, good)
      \/ /\ rproc[p].left = 0
         /\ \/ /\ Len(rproc[p].list) < MaxSteps
               /\ \E olen \in Gathers, good \in 0 .. EntropyMaxLoop + 1 :
                    \/ psa_random_internal_seed(p, olen, good)
                    \/ psa_random_reseed(p, olen, good)
                    \/ \E n \in RequestSizes : psa_generate_random(p, n, olen, good)
            \/ psa_random_deplete(p)
            \/ \E enabled \in BOOLEAN : psa_random_set_prediction_resistance(p, enabled)
            \/ \E q \in Pids : Fork(p, q)
            \/ Exit(p)

RandomSpec == RandomInit /\ [][RandomNext]_randomVars

-----------------------------------------------------------------------------
(* Properties.                                                             *)

\* No process ever outputs what it or another one has output, however they forked,
\* whether or not the entropy source works and even when it gives nothing new
\* (psa_random_internal_generate(), psa_random_internal_reseed_child()).
RandomNeverRepeats == ~rout.repeated

\* A request is served with a seed as new as it must be: taken after the fork or
\* the depletion that asks for it, taken for this request under prediction
\* resistance, and used for no more requests than the interval allows.
RandomReseeded == ~rout.stale

\* A call gives all the bytes it was asked for or fails, and it fails only when the
\* source does and a new seed is due: a failed attempt to take one does not make the
\* generator unusable (psa_random_reseed()).
RandomServed ==
    /\ rout.over /\ rout.ok => rout.missing = 0
    /\ ~rout.ok => rout.excused

\* No output is drawn from a generator that was due to be reseeded, and a request
\* is served in full or refused for a reason (psa_random_internal_generate()).
RandomCorrect ==
    /\ RandomReseeded
    /\ RandomServed
=============================================================================

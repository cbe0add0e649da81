------------------------------ MODULE PsaInit ------------------------------
(***************************************************************************)
(* Initialisation of the library: psa_crypto_init(),                       *)
(* mbedtls_psa_crypto_free(), the entropy configuration and the guard of   *)
(* the calls that use the random generator (core/psa_crypto.c).            *)
(*                                                                         *)
(* global_data.initialized is protected by the global data mutex and the   *)
(* random generator by the RNG data mutex; psa_crypto_init() takes and     *)
(* releases one of them for each subsystem, so every section is an action  *)
(* and those of different threads interleave.                              *)
(***************************************************************************)
EXTENDS Naturals, FiniteSets

CONSTANTS
    Threads,
    CanFail     \* subsystems whose initialisation may fail

Subsystems == {"DRIVERS", "KEY_SLOTS", "TRANSACTION"}
FreeSteps == {"free_slots", "free_rng", "free_drivers"}

ASSUME PsaInitAssumption == CanFail \subseteq {"DRIVERS", "KEY_SLOTS", "RNG"}

VARIABLES
    flags,      \* global_data.initialized
    rng,        \* global_data.rng_state
    sources,    \* global_data.rng.entropy_init / entropy_free
    slotsUp,    \* key_slots_initialized of the slot manager
    drivers,    \* the drivers themselves
    pc,         \* where each thread is
    seen,       \* what the thread read in its previous section
    ret,        \* result of the thread's last psa_crypto_init()
    failed      \* whether a subsystem has ever failed to initialise

vars == <<flags, rng, sources, slotsUp, drivers, pc, seen, ret, failed>>

Idle(t) == pc[t] = "idle"

Goto(t, l) == pc' = [pc EXCEPT ![t] = l]

\* mbedtls_psa_crypto_free() is called by one thread once all threads have
\* completed their operations, and until it returns no other call is made.
Freeing == \E t \in Threads : ret[t] = "FREEING"

-----------------------------------------------------------------------------
(* psa_crypto_init().                                                      *)

\* psa_get_initialized(): the state of the generator and the flags are read
\* under two different mutexes. The answer is used by psa_crypto_init() and
\* by GUARD_MODULE_INITIALIZED.
ReadRngState(t, l) ==
    /\ Idle(t)
    /\ ~Freeing
    /\ seen' = [seen EXCEPT ![t] = (rng = "SEEDED")]
    /\ Goto(t, l)
    /\ UNCHANGED <<flags, rng, sources, slotsUp, drivers, ret, failed>>

\* Mutant of AllInitialized: the marks are tested the wrong way round, and
\* the generator is forgotten.
NothingElseSet(t) == flags \subseteq Subsystems
AllInitialized(t) == seen[t] /\ flags = Subsystems

\* Early out if everything is done.
InitChecked(t) ==
    /\ pc[t] = "init_check"
    /\ \/ /\ AllInitialized(t)
          /\ ret' = [ret EXCEPT ![t] = "SUCCESS"]
          /\ Goto(t, "idle")
       \/ /\ ~AllInitialized(t)
          /\ Goto(t, "init_drivers")
          /\ UNCHANGED ret
    /\ UNCHANGED <<flags, rng, sources, slotsUp, drivers, seen, failed>>

\* The next section after subsystem s came up, or the cleanup if it did not.
Continue(t, ok, l) ==
    /\ Goto(t, IF ok THEN l ELSE "free_slots")
    /\ failed' = (failed \/ ~ok)
    /\ ret' = [ret EXCEPT ![t] = IF ok THEN @ ELSE "FAILED"]

Outcomes(s) == IF s \in CanFail THEN BOOLEAN ELSE {TRUE}

\* A subsystem is marked as initialised even if its initialisation failed, so
\* that it is shut down; a thread that finds the mark goes on.
InitDrivers(t) ==
    /\ pc[t] = "init_drivers"
    /\ flags' = flags \cup {"DRIVERS"}
    /\ \/ /\ "DRIVERS" \notin flags
          /\ \E ok \in Outcomes("DRIVERS") :
                /\ drivers' = IF ok THEN "up" ELSE "broken"
                /\ Continue(t, ok, "init_slots")
       \/ /\ "DRIVERS" \in flags
          /\ UNCHANGED drivers
          /\ Continue(t, TRUE, "init_slots")
    /\ UNCHANGED <<rng, sources, slotsUp, seen>>

InitKeySlots(t) ==
    /\ pc[t] = "init_slots"
    /\ flags' = flags \cup {"KEY_SLOTS"}
    /\ \/ /\ "KEY_SLOTS" \notin flags
          /\ \E ok \in Outcomes("KEY_SLOTS") :
                /\ slotsUp' = IF ok THEN TRUE ELSE slotsUp
                /\ Continue(t, ok, "init_rng_check")
       \/ /\ "KEY_SLOTS" \in flags
          /\ UNCHANGED slotsUp
          /\ Continue(t, TRUE, "init_rng_check")
    /\ UNCHANGED <<rng, sources, drivers, seen>>

\* The generator needs the drivers: their flag is read under the global data
\* mutex, and used under the other one.
ReadDriversFlag(t) ==
    /\ pc[t] = "init_rng_check"
    /\ seen' = [seen EXCEPT ![t] = ("DRIVERS" \in flags)]
    /\ Goto(t, "init_rng")
    /\ UNCHANGED <<flags, rng, sources, slotsUp, drivers, ret, failed>>

Seeded(ok) == IF ok THEN "SEEDED" ELSE "INITIALIZED"

InitRng(t) ==
    /\ pc[t] = "init_rng"
    /\ \/ /\ rng = "NOT_INITIALIZED" /\ seen[t]
          /\ \E ok \in Outcomes("RNG") :
                /\ rng' = Seeded(ok)
                /\ Continue(t, ok, "init_transaction")
          /\ sources' = IF sources = "NONE" THEN "DEFAULT" ELSE sources
       \/ /\ ~(rng = "NOT_INITIALIZED" /\ seen[t])
          /\ Continue(t, TRUE, "init_transaction")
          /\ UNCHANGED <<rng, sources>>
    /\ UNCHANGED <<flags, slotsUp, drivers, seen>>

TransactionFlag == "TRANSACTION"

InitTransaction(t) ==
    /\ pc[t] = "init_transaction"
    /\ flags' = flags \cup {TransactionFlag}
    /\ ret' = [ret EXCEPT ![t] = "SUCCESS"]
    /\ Goto(t, "idle")
    /\ UNCHANGED <<rng, sources, slotsUp, drivers, seen, failed>>

-----------------------------------------------------------------------------
(* mbedtls_psa_crypto_free(), called by the application or by              *)
(* psa_crypto_init() when a subsystem failed.                              *)

psa_crypto_free(t) ==
    /\ \A u \in Threads : Idle(u)
    /\ ret' = [u \in Threads |-> IF u = t THEN "FREEING" ELSE "NONE"]
    /\ Goto(t, "free_slots")
    /\ UNCHANGED <<flags, rng, sources, slotsUp, drivers, seen, failed>>

\* Mutant of Unflagged: the key slots keep their flag.
UnflaggedTransaction == flags \ {"TRANSACTION"}
Unflagged == flags \ {"TRANSACTION", "KEY_SLOTS"}

FreeSlots(t) ==
    /\ pc[t] = "free_slots"
    /\ flags' = Unflagged
    /\ slotsUp' = (slotsUp /\ "KEY_SLOTS" \notin flags)
    /\ Goto(t, "free_rng")
    /\ UNCHANGED <<rng, sources, drivers, seen, ret, failed>>

\* The whole generator is zeroized, the configured entropy sources included.
FreeRng(t) ==
    /\ pc[t] = "free_rng"
    /\ rng' = "NOT_INITIALIZED"
    /\ sources' = "NONE"
    /\ Goto(t, "free_drivers")
    /\ UNCHANGED <<flags, slotsUp, drivers, seen, ret, failed>>

FreeDrivers(t) ==
    /\ pc[t] = "free_drivers"
    /\ flags' = flags \ {"DRIVERS"}
    /\ drivers' = IF "DRIVERS" \in flags THEN "down" ELSE drivers
    /\ ret' = [ret EXCEPT ![t] = IF @ = "FREEING" THEN "NONE" ELSE @]
    /\ Goto(t, "idle")
    /\ UNCHANGED <<rng, sources, slotsUp, seen, failed>>

\* mbedtls_psa_crypto_configure_entropy_sources(), refused once the generator
\* has read its sources.
SourcesAlwaysOpen == TRUE       \* mutant
SourcesOpen == rng = "NOT_INITIALIZED"

ConfigureEntropySources(t) ==
    /\ Idle(t)
    /\ ~Freeing
    /\ SourcesOpen
    /\ sources' = "CUSTOM"
    /\ UNCHANGED <<flags, rng, slotsUp, drivers, pc, seen, ret, failed>>

-----------------------------------------------------------------------------
(* A call that uses the generator, at any time: the guard, then the use.   *)

\* Mutant of GuardChecked: any mark will do.
GuardAnyMark(t) ==
    /\ pc[t] = "guard"
    /\ Goto(t, IF flags # {} THEN "generate" ELSE "idle")
    /\ UNCHANGED <<flags, rng, sources, slotsUp, drivers, seen, ret, failed>>
GuardChecked(t) ==
    /\ pc[t] = "guard"
    /\ Goto(t, IF AllInitialized(t) THEN "generate" ELSE "idle")
    /\ UNCHANGED <<flags, rng, sources, slotsUp, drivers, seen, ret, failed>>

Generate(t) ==
    /\ pc[t] = "generate"
    /\ Goto(t, "idle")
    /\ UNCHANGED <<flags, rng, sources, slotsUp, drivers, seen, ret, failed>>

Init ==
    /\ flags = {}
    /\ rng = "NOT_INITIALIZED"
    /\ sources = "NONE"
    /\ slotsUp = FALSE
    /\ drivers = "down"
    /\ pc = [t \in Threads |-> "idle"]
    /\ seen = [t \in Threads |-> FALSE]
    /\ failed = FALSE
    /\ ret = [t \in Threads |-> "NONE"]

Step(t) ==
    \/ ReadRngState(t, "init_check")
    \/ InitChecked(t)
    \/ InitDrivers(t)
    \/ InitKeySlots(t)
    \/ ReadDriversFlag(t)
    \/ InitRng(t)
    \/ InitTransaction(t)
    \/ psa_crypto_free(t)
    \/ FreeSlots(t)
    \/ FreeRng(t)
    \/ FreeDrivers(t)
    \/ ConfigureEntropySources(t)
    \/ ReadRngState(t, "guard")
    \/ GuardChecked(t)
    \/ Generate(t)

Next == \E t \in Threads : Step(t)

Spec == Init /\ [][Next]_vars

-----------------------------------------------------------------------------
(* Correctness.                                                            *)

Pcs == {"idle", "init_check", "init_drivers", "init_slots", "init_rng_check",
        "init_rng", "init_transaction", "guard", "generate"} \cup FreeSteps

\* global_data.initialized holds only the three flags psa_crypto_init() compares
\* it with, and every thread is in a section of a call.
TypeOK ==
    /\ flags \subseteq Subsystems
    /\ rng \in {"NOT_INITIALIZED", "INITIALIZED", "SEEDED"}
    /\ sources \in {"NONE", "DEFAULT", "CUSTOM"}
    /\ slotsUp \in BOOLEAN
    /\ drivers \in {"down", "up", "broken"}
    /\ pc \in [Threads -> Pcs]
    /\ failed \in BOOLEAN
    /\ seen \in [Threads -> BOOLEAN]
    /\ ret \in [Threads -> {"NONE", "SUCCESS", "FAILED", "FREEING"}]

Ready ==
    /\ flags = Subsystems
    /\ rng = "SEEDED"
    /\ slotsUp
    /\ drivers = "up"

\* Once psa_crypto_init() has returned PSA_SUCCESS to a thread the library is
\* ready for that thread, until mbedtls_psa_crypto_free() is called: "It is
\* valid to have multiple threads each calling psa_crypto_init followed by a
\* call to any PSA key management function (if the init succeeds)".
ReadyAfterInit == \A t \in Threads : ret[t] = "SUCCESS" => Ready

\* The same as long as no subsystem has failed to initialise.
ReadyIfNoneFailed == ~failed => ReadyAfterInit

\* A thread past GUARD_MODULE_INITIALIZED uses a seeded generator, as long as no
\* subsystem has failed to initialise.
GuardHolds == ~failed => \A t \in Threads : pc[t] = "generate" => rng = "SEEDED"

\* The marks tell the truth, and the last one is set only when all is ready.
FlagsTrue ==
    /\ "DRIVERS" \in flags => drivers = "up"
    /\ "KEY_SLOTS" \in flags => slotsUp
    /\ "TRANSACTION" \in flags => Ready
    /\ rng # "INITIALIZED"

\* What a thread that has passed a section of psa_crypto_init() knows.
StageReached ==
    \A t \in Threads :
        /\ pc[t] \in {"init_slots", "init_rng_check", "init_rng",
                      "init_transaction"} => "DRIVERS" \in flags
        /\ pc[t] \in {"init_rng_check", "init_rng", "init_transaction"} =>
              "KEY_SLOTS" \in flags
        /\ pc[t] = "init_rng" => seen[t]
        /\ pc[t] \in {"init_transaction", "generate"} => rng = "SEEDED"
        /\ pc[t] \in {"init_check", "guard"} /\ seen[t] => rng = "SEEDED"

\* The library is torn down by one thread, with no other call in progress.
FreeAlone ==
    \A t \in Threads :
        /\ pc[t] \in FreeSteps <=> ret[t] = "FREEING"
        /\ ret[t] = "FREEING" =>
              \A u \in Threads : u # t => Idle(u) /\ ret[u] = "NONE"
        /\ pc[t] \in {"free_rng", "free_drivers"} => "TRANSACTION" \notin flags

\* The inductive invariant behind ReadyIfNoneFailed and GuardHolds.
SoundInv == TypeOK /\ FlagsTrue /\ StageReached /\ FreeAlone /\ ReadyAfterInit
InitInv == ~failed => SoundInv

\* Whatever fails and whoever cleans up after it, no subsystem is left marked
\* as initialised without being so once all calls have returned: the next
\* psa_crypto_init() starts from a state it can complete.
NoHalfInitAtRest ==
    (\A t \in Threads : Idle(t)) =>
        /\ "DRIVERS" \in flags <=> drivers = "up"
        /\ drivers # "broken"
        /\ "KEY_SLOTS" \in flags <=> slotsUp
        /\ rng # "INITIALIZED"

\* The inductive invariant behind it: what is half up has a thread that will take
\* it down.
Cleaning(steps) == \E t \in Threads : pc[t] \in steps
RestInv ==
    /\ "DRIVERS" \in flags <=> drivers # "down"
    /\ drivers = "broken" => Cleaning(FreeSteps)
    /\ slotsUp => "KEY_SLOTS" \in flags
    /\ "KEY_SLOTS" \in flags /\ ~slotsUp => Cleaning({"free_slots"})
    /\ rng = "INITIALIZED" => Cleaning({"free_slots", "free_rng"})

\* A generator is seeded from the sources configured for it: once it is
\* initialised they are set, and do not change until it is freed.
SourcesFixed ==
    [][rng # "NOT_INITIALIZED" =>
          /\ sources # "NONE"
          /\ sources' # sources => rng' = "NOT_INITIALIZED"]_vars

=============================================================================

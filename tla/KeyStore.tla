------------------------------ MODULE KeyStore ------------------------------
(***************************************************************************)
(* The PSA key store shared by the threads of a process: the key slots of  *)
(* core/psa_crypto_slot_management.c, the key management calls of          *)
(* core/psa_crypto.c that create, read, copy, purge and destroy keys, and  *)
(* the persistent copies kept by core/psa_crypto_storage.c.                *)
(*                                                                         *)
(* Every section of code that runs under mbedtls_threading_key_slot_mutex  *)
(* is one action; what a call does between two such sections (writing the  *)
(* attributes and the key material of a slot it is filling, reading the    *)
(* material of a slot it is registered on) is one action too, and the      *)
(* actions of different threads interleave.                                *)
(***************************************************************************)
EXTENDS Naturals, FiniteSets

CONSTANTS
    Threads,        \* threads that call the library
    UserIds,        \* identifiers of persistent keys
    BuiltinIds,     \* identifiers of keys provided by the platform
    Materials,      \* key material the application can supply
    BuiltinKey,     \* the material of a platform key
    NoKey,          \* slot->key.data == NULL, or no file in storage
    NoId,           \* the null key identifier
    CacheCount,     \* PERSISTENT_KEY_CACHE_COUNT
    VolatileCount   \* slots in the volatile slices; 0 is the static key store

ASSUME KeyStoreAssumption ==
    /\ IsFiniteSet(Threads)
    /\ CacheCount \in Nat \ {0}
    /\ VolatileCount \in Nat
    /\ NoKey \notin Materials \cup {BuiltinKey}
    /\ UserIds \cap BuiltinIds = {}
    /\ NoId \notin Nat \cup UserIds \cup BuiltinIds
    /\ (UserIds \cup BuiltinIds) \cap Nat = {}

VARIABLES
    slots,      \* global_data.key_slots / key_slices
    storage,    \* the persistent key file of every user identifier
    pc,         \* where each thread is inside the library
    src,        \* the slot a thread is registered to read
    dst,        \* the slot a thread is filling
    want,       \* the identifier requested for the key being created
    ret         \* status of the thread's current or last call

vars == <<slots, storage, pc, src, dst, want, ret>>

-----------------------------------------------------------------------------
(* Slots and identifiers.                                                  *)

NoSlot == 0

\* With MBEDTLS_PSA_KEY_STORE_DYNAMIC volatile keys live in slices of their
\* own and the cache holds only keys that can be loaded again. The static key
\* store has one array for both.
Dynamic == VolatileCount > 0
Cache == 1 .. CacheCount
VolatileSlots == (CacheCount + 1) .. (CacheCount + VolatileCount)
Slots == 1 .. (CacheCount + VolatileCount)
VolatileHome == IF Dynamic THEN VolatileSlots ELSE Cache

\* The identifier of a volatile key encodes the place of its slot.
VolatileIds == VolatileHome
Ids == UserIds \cup BuiltinIds \cup VolatileIds

SlotStates == {"EMPTY", "FILLING", "FULL", "PENDING_DELETION"}
Lifetimes == {"VOLATILE", "PERSISTENT", "READ_ONLY"}

SlotType == [state : SlotStates, readers : Nat, id : Ids \cup {NoId},
             life : Lifetimes, key : Materials \cup {BuiltinKey, NoKey}]

\* A slot after memset(slot, 0, sizeof(*slot)).
EmptySlot == [state |-> "EMPTY", readers |-> 0, id |-> NoId,
              life |-> "VOLATILE", key |-> NoKey]

FillingSlot == [state |-> "FILLING", readers |-> 0, id |-> NoId,
                life |-> "VOLATILE", key |-> NoKey]

Statuses == {"NONE", "SUCCESS", "INVALID_HANDLE", "DOES_NOT_EXIST",
             "NOT_PERMITTED", "ALREADY_EXISTS", "INSUFFICIENT_MEMORY",
             "DATA_INVALID", "FAILED", "CORRUPTION_DETECTED"}

Pcs == {"idle", "reserved", "filling", "finish", "fail",
        "using", "copying", "release", "destroying"}

\* What a call may do with the key it registers on.
Readings == {"using", "copying", "destroying"}

Put(s, r) == slots' = [slots EXCEPT ![s] = r]

Goto(t, l) == pc' = [pc EXCEPT ![t] = l]

Return(t, st) == ret' = [ret EXCEPT ![t] = st]

-----------------------------------------------------------------------------
(* Internal functions of the slot manager.                                 *)

Empty(s) == slots[s].state = "EMPTY"

\* Mutant of Evictable: the lifetime is not looked at.
EvictableVolatile(s) == /\ slots[s].state = "FULL"
                        /\ slots[s].readers = 0

Evictable(s) == /\ slots[s].state = "FULL"
                /\ slots[s].readers = 0
                /\ slots[s].life # "VOLATILE"

\* The cache slot psa_reserve_free_key_slot() selects: the first empty one,
\* else the first loaded key that can be loaded again and has no reader.
SelectsCacheSlot(s) ==
    \/ /\ Empty(s)
       /\ \A r \in Cache : r < s => ~Empty(r)
    \/ /\ \A r \in Cache : ~Empty(r)
       /\ Evictable(s)
       /\ \A r \in Cache : r < s => ~Evictable(r)

\* The slots a key creation may get; the free list that orders the volatile
\* slots of the dynamic key store is the subject of module FreeList.
psa_reserve_free_key_slot(isVolatile) ==
    IF Dynamic /\ isVolatile
    THEN {s \in VolatileSlots : Empty(s)}
    ELSE {s \in Cache : SelectsCacheSlot(s)}

\* The slots among which psa_get_and_lock_key_slot_in_memory() looks for k.
SearchedFor(k) == IF k \in VolatileIds THEN {k} ELSE Cache

\* Mutant of InMemory: the state of the slot is not looked at.
InMemoryAnyState(k) == {s \in SearchedFor(k) : slots[s].id = k}

InMemory(k) == {s \in SearchedFor(k) : slots[s].state = "FULL" /\ slots[s].id = k}

FirstInMemory(k, s) == s \in InMemory(k) /\ \A r \in InMemory(k) : s <= r

\* psa_wipe_key_slot() clears the whole slot, which makes it EMPTY, whatever
\* was in it. Its status tells whether that was right: the caller is the last
\* reader of a key, or fails to put one in.
psa_wipe_key_slot(r) == EmptySlot
WipeStatus(r) ==
    IF \/ r.state \in {"FULL", "PENDING_DELETION"} /\ r.readers = 1
       \/ r.state = "FILLING" /\ r.readers = 0
    THEN "SUCCESS" ELSE "CORRUPTION_DETECTED"

\* psa_reserve_free_key_slot() on the slot it selects: a key that is evicted is
\* registered on and wiped; then the slot is EMPTY and becomes FILLING.
ReserveStatus(s) ==
    IF Empty(s) THEN "SUCCESS" ELSE WipeStatus([slots[s] EXCEPT !.readers = @ + 1])

\* psa_unregister_read() on a slot with contents r: its status and the
\* contents it leaves (the last reader of a deleted key wipes the slot).
LastReader(r) == r.state = "PENDING_DELETION" /\ r.readers = 1
UnregisterStatus(r) ==
    IF LastReader(r) THEN WipeStatus(r)
    ELSE IF r.state \in {"FULL", "PENDING_DELETION"} /\ r.readers > 0
    THEN "SUCCESS" ELSE "CORRUPTION_DETECTED"

\* Mutant of Unregistered: nobody wipes the slot of a deleted key.
UnregisteredNoWipe(r) ==
    IF UnregisterStatus(r) # "SUCCESS" THEN r ELSE [r EXCEPT !.readers = @ - 1]

Unregistered(r) ==
    IF LastReader(r) THEN psa_wipe_key_slot(r)
    ELSE IF UnregisterStatus(r) # "SUCCESS" THEN r
    ELSE [r EXCEPT !.readers = @ - 1]

\* psa_purge_key() on the slot of the key: it registers, and wipes the slot if
\* it is the only reader of a key that can be loaded again.
PurgedAlways(r) ==          \* mutant: the other readers are forgotten
    IF r.life # "VOLATILE" THEN psa_wipe_key_slot(r) ELSE r

Purged(r) ==
    LET registered == [r EXCEPT !.readers = @ + 1] IN
    IF registered.life # "VOLATILE" /\ registered.readers = 1
    THEN psa_wipe_key_slot(registered) ELSE Unregistered(registered)
PurgeStatus(r) ==
    LET registered == [r EXCEPT !.readers = @ + 1] IN
    IF registered.life # "VOLATILE" /\ registered.readers = 1
    THEN WipeStatus(registered) ELSE UnregisterStatus(registered)

-----------------------------------------------------------------------------
(* Persistent storage.                                                     *)

\* The outcomes of module KeyStorage when files can be opened for reading.
\* psa_save_persistent_key(): a file that exists, or whose presence cannot be
\* determined, is never overwritten; a file that cannot be verified after it
\* was written is removed again, and stays if the removal fails as well.
\* "DATA_INVALID" stands for any status of a save that failed.
SaveOverwrites(k, m) ==     \* mutant: the file may exist
    {[disk |-> [storage EXCEPT ![k] = m], status |-> "SUCCESS"]}

psa_save_persistent_key(k, m) ==
    LET written == [storage EXCEPT ![k] = m] IN
    IF storage[k] # NoKey
    THEN {[disk |-> storage, status |-> "ALREADY_EXISTS"]}
    ELSE {[disk |-> storage, status |-> "ALREADY_EXISTS"],
          [disk |-> storage, status |-> "DATA_INVALID"],
          [disk |-> written, status |-> "DATA_INVALID"],
          [disk |-> written, status |-> "SUCCESS"]}

\* psa_destroy_persistent_key(): the removal can fail, and so can the check
\* that the file is gone.
DestroyUnchecked(k) ==      \* mutant: a failed removal goes unnoticed
    {[disk |-> storage, status |-> "SUCCESS"],
     [disk |-> [storage EXCEPT ![k] = NoKey], status |-> "SUCCESS"]}

psa_destroy_persistent_key(k) ==
    LET removed == [storage EXCEPT ![k] = NoKey] IN
    IF storage[k] = NoKey
    THEN {[disk |-> storage, status |-> "SUCCESS"],
          [disk |-> storage, status |-> "DATA_INVALID"]}
    ELSE {[disk |-> storage, status |-> "DATA_INVALID"],
          [disk |-> removed, status |-> "DATA_INVALID"],
          [disk |-> removed, status |-> "SUCCESS"]}

\* The keys that can be loaded into a slot, with the lifetime they come with.
Loadable(k) == \/ k \in BuiltinIds
               \/ k \in UserIds /\ storage[k] # NoKey

LoadedSlot(k) ==
    [state |-> "FULL", readers |-> 1, id |-> k,
     life |-> IF k \in BuiltinIds THEN "READ_ONLY" ELSE "PERSISTENT",
     key |-> IF k \in BuiltinIds THEN BuiltinKey ELSE storage[k]]

-----------------------------------------------------------------------------
(* Key creation: psa_import_key(), psa_generate_key(), psa_copy_key() and  *)
(* the other calls built on start / finish / fail_key_creation.            *)

\* Where a call goes when its creation part is over: psa_copy_key() still has
\* to unregister from the source slot.
RetriesCreation(t) == IF src[t] = NoSlot THEN "idle" ELSE "copying"  \* mutant
AfterCreation(t) == IF src[t] = NoSlot THEN "idle" ELSE "release"

\* psa_start_key_creation() up to the unlock; k = NoId asks for a volatile
\* key.
StartCreation(t, k) ==
    /\ pc[t] \in {"idle", "copying"}
    /\ \E s \in psa_reserve_free_key_slot(k = NoId) :
        IF ReserveStatus(s) = "SUCCESS"
        THEN /\ Put(s, FillingSlot)
             /\ dst' = [dst EXCEPT ![t] = s]
             /\ want' = [want EXCEPT ![t] = k]
             /\ Goto(t, "reserved")
             /\ Return(t, "NONE")
        ELSE /\ Put(s, psa_wipe_key_slot(slots[s]))
             /\ Goto(t, AfterCreation(t))
             /\ Return(t, ReserveStatus(s))
             /\ UNCHANGED <<dst, want>>
    /\ UNCHANGED <<storage, src>>

\* No slot is free, or a new slice of volatile slots cannot be allocated.
StartCreationFails(t, k) ==
    /\ pc[t] \in {"idle", "copying"}
    /\ \/ psa_reserve_free_key_slot(k = NoId) = {}
       \/ Dynamic /\ k = NoId
    /\ Goto(t, AfterCreation(t))
    /\ Return(t, "INSUFFICIENT_MEMORY")
    /\ UNCHANGED <<slots, storage, src, dst, want>>

\* The rest of psa_start_key_creation(), outside the mutex.
SetAttributes(t) ==
    /\ pc[t] = "reserved"
    /\ Put(dst[t],
           [slots[dst[t]] EXCEPT
              !.id = IF want[t] = NoId THEN dst[t] ELSE want[t],
              !.life = IF want[t] = NoId THEN "VOLATILE" ELSE "PERSISTENT"])
    /\ Goto(t, "filling")
    /\ UNCHANGED <<storage, src, dst, want, ret>>

\* Writing the key material, outside the mutex: supplied by the application
\* or a generator, or copied from the slot the thread is registered on.
FillSlot(t) ==
    /\ pc[t] = "filling"
    /\ \E m \in IF src[t] = NoSlot THEN Materials ELSE {slots[src[t]].key} :
        Put(dst[t], [slots[dst[t]] EXCEPT !.key = m])
    /\ Goto(t, "finish")
    /\ UNCHANGED <<storage, src, dst, want, ret>>

\* The material is rejected, or there is no memory for it.
FillFails(t) ==
    /\ pc[t] \in {"filling", "finish"}
    /\ Goto(t, "fail")
    /\ Return(t, "FAILED")
    /\ UNCHANGED <<slots, storage, src, dst, want>>

\* What psa_finish_key_creation() writes to storage.
Saves(slot) ==
    IF slot.life = "VOLATILE"
    THEN {[disk |-> storage, status |-> "SUCCESS"]}
    ELSE psa_save_persistent_key(slot.id, slot.key)

\* psa_finish_key_creation(), under one hold of the mutex.
FinishCreation(t) ==
    LET slot == slots[dst[t]] IN
    /\ pc[t] = "finish"
    /\ \E save \in Saves(slot) :
        /\ storage' = save.disk
        /\ \/ /\ save.status = "SUCCESS"
              /\ slot.state = "FILLING"
              /\ Put(dst[t], [slot EXCEPT !.state = "FULL"])
              /\ dst' = [dst EXCEPT ![t] = NoSlot]
              /\ want' = [want EXCEPT ![t] = NoId]
              /\ Return(t, "SUCCESS")
              /\ Goto(t, AfterCreation(t))
           \/ /\ save.status # "SUCCESS" \/ slot.state # "FILLING"
              /\ Return(t, IF save.status = "SUCCESS"
                           THEN "CORRUPTION_DETECTED" ELSE save.status)
              /\ Goto(t, "fail")
              /\ UNCHANGED <<slots, dst, want>>
    /\ UNCHANGED src

\* psa_fail_key_creation() wipes the slot whatever its state.
FailCreation(t) ==
    /\ pc[t] = "fail"
    /\ Put(dst[t], psa_wipe_key_slot(slots[dst[t]]))
    /\ dst' = [dst EXCEPT ![t] = NoSlot]
    /\ want' = [want EXCEPT ![t] = NoId]
    /\ Goto(t, AfterCreation(t))
    /\ UNCHANGED <<storage, src, ret>>

-----------------------------------------------------------------------------
(* psa_get_and_lock_key_slot(): one hold of the mutex from the search in   *)
(* memory to the registration.                                             *)

LockInMemory(t, k, reading) ==
    /\ pc[t] = "idle"
    /\ \E s \in Slots :
        /\ FirstInMemory(k, s)
        /\ Put(s, [slots[s] EXCEPT !.readers = @ + 1])
        /\ src' = [src EXCEPT ![t] = s]
    /\ Goto(t, reading)
    /\ Return(t, "NONE")
    /\ UNCHANGED <<storage, dst, want>>

LoadAndLock(t, k, reading) ==
    /\ pc[t] = "idle"
    /\ InMemory(k) = {}
    /\ Loadable(k)
    /\ \E s \in psa_reserve_free_key_slot(FALSE) :
        /\ ReserveStatus(s) = "SUCCESS"
        /\ Put(s, LoadedSlot(k))
        /\ src' = [src EXCEPT ![t] = s]
    /\ Goto(t, reading)
    /\ Return(t, "NONE")
    /\ UNCHANGED <<storage, dst, want>>

\* The slot reserved for the key is wiped: there is no such key, or reading
\* it failed. A key evicted to make room is gone from memory all the same, also
\* when the reservation itself fails after the eviction.
LoadFails(t, k) ==
    /\ pc[t] = "idle"
    /\ InMemory(k) = {}
    /\ \E s \in psa_reserve_free_key_slot(FALSE) :
        /\ Put(s, psa_wipe_key_slot(FillingSlot))
        /\ \E st \in {"INVALID_HANDLE", "DATA_INVALID"} :
            /\ st = "INVALID_HANDLE" => ~Loadable(k)
            /\ st = "DATA_INVALID" => k \notin VolatileIds
            /\ Return(t, IF ReserveStatus(s) = "SUCCESS" THEN st ELSE ReserveStatus(s))
    /\ UNCHANGED <<storage, pc, src, dst, want>>

LoadHasNoSlot(t, k) ==
    /\ pc[t] = "idle"
    /\ InMemory(k) = {}
    /\ psa_reserve_free_key_slot(FALSE) = {}
    /\ Return(t, "INSUFFICIENT_MEMORY")
    /\ UNCHANGED <<slots, storage, pc, src, dst, want>>

\* The part of a call that reads the slot outside the mutex: the policy check
\* and the cryptographic computation. psa_copy_key() can stop here too.
ReadKey(t, st) ==
    /\ pc[t] \in {"using", "copying"}
    /\ pc[t] = "copying" => st # "SUCCESS"
    /\ Goto(t, "release")
    /\ Return(t, st)
    /\ UNCHANGED <<slots, storage, src, dst, want>>

\* psa_unregister_read_under_mutex() at the end of the call.
Release(t) ==
    /\ pc[t] = "release"
    /\ Put(src[t], Unregistered(slots[src[t]]))
    /\ src' = [src EXCEPT ![t] = NoSlot]
    /\ Return(t, IF ret[t] = "SUCCESS" THEN UnregisterStatus(slots[src[t]])
                 ELSE ret[t])
    /\ Goto(t, "idle")
    /\ UNCHANGED <<storage, dst, want>>

-----------------------------------------------------------------------------
(* psa_destroy_key() after it has registered on the slot, and purge.       *)

\* Another thread has marked the slot since this one registered on it.
DestroyedByOther(t) == slots[src[t]].state = "PENDING_DELETION"

DestroyLost(t) ==
    LET slot == slots[src[t]] IN
    /\ pc[t] = "destroying"
    /\ DestroyedByOther(t)
    /\ Put(src[t], Unregistered(slot))
    /\ Return(t, IF UnregisterStatus(slot) = "SUCCESS"
                 THEN "INVALID_HANDLE" ELSE UnregisterStatus(slot))
    /\ src' = [src EXCEPT ![t] = NoSlot]
    /\ Goto(t, "idle")
    /\ UNCHANGED <<storage, dst, want>>

\* The deletion mark, the removal from storage and the unregistration are one
\* hold of the mutex.
DestroyKey(t) ==
    LET slot == slots[src[t]]
        marked == IF slot.state = "FULL"
                  THEN [slot EXCEPT !.state = "PENDING_DELETION"] ELSE slot
        removals ==
          CASE slot.state # "FULL" ->
                 {[disk |-> storage, status |-> "CORRUPTION_DETECTED"]}
            [] slot.state = "FULL" /\ slot.life = "READ_ONLY" ->
                 {[disk |-> storage, status |-> "NOT_PERMITTED"]}
            [] slot.state = "FULL" /\ slot.life = "VOLATILE" ->
                 {[disk |-> storage, status |-> "SUCCESS"]}
            [] slot.state = "FULL" /\ slot.life = "PERSISTENT" ->
                 psa_destroy_persistent_key(slot.id)
    IN
    /\ pc[t] = "destroying"
    /\ ~DestroyedByOther(t)
    /\ \E removal \in removals :
        /\ storage' = removal.disk
        /\ Return(t, IF UnregisterStatus(marked) = "SUCCESS"
                     THEN removal.status ELSE UnregisterStatus(marked))
    /\ Put(src[t], Unregistered(marked))
    /\ src' = [src EXCEPT ![t] = NoSlot]
    /\ Goto(t, "idle")
    /\ UNCHANGED <<dst, want>>

\* psa_purge_key(): registers, then wipes the slot if it is the only reader
\* of a key that can be loaded again, else unregisters.
PurgeKey(t, k) ==
    /\ pc[t] = "idle"
    /\ \/ \E s \in Slots :
            /\ FirstInMemory(k, s)
            /\ Put(s, Purged(slots[s]))
            /\ Return(t, PurgeStatus(slots[s]))
       \/ /\ InMemory(k) = {}
          /\ Return(t, "DOES_NOT_EXIST")
          /\ UNCHANGED slots
    /\ UNCHANGED <<storage, pc, src, dst, want>>

-----------------------------------------------------------------------------
(* The end of the process, orderly or not. Storage survives.               *)

ForgetMemory ==
    /\ slots' = [s \in Slots |-> EmptySlot]
    /\ pc' = [t \in Threads |-> "idle"]
    /\ src' = [t \in Threads |-> NoSlot]
    /\ dst' = [t \in Threads |-> NoSlot]
    /\ want' = [t \in Threads |-> NoId]
    /\ ret' = [t \in Threads |-> "NONE"]
    /\ UNCHANGED storage

\* psa_wipe_all_key_slots(), called by mbedtls_psa_crypto_free() once all
\* threads have completed their operations, and psa_initialize_key_slots().
psa_wipe_all_key_slots ==
    /\ \A t \in Threads : pc[t] = "idle"
    /\ ForgetMemory

\* The process dies between two sections and starts again.
Crash ==
    /\ \E t \in Threads : pc[t] # "idle"
    /\ ForgetMemory

-----------------------------------------------------------------------------
Init ==
    /\ slots = [s \in Slots |-> EmptySlot]
    /\ storage = [k \in UserIds |-> NoKey]
    /\ pc = [t \in Threads |-> "idle"]
    /\ src = [t \in Threads |-> NoSlot]
    /\ dst = [t \in Threads |-> NoSlot]
    /\ want = [t \in Threads |-> NoId]
    /\ ret = [t \in Threads |-> "NONE"]

\* The steps of a call that is in progress.
Continue(t) ==
    \/ \E k \in UserIds \cup {NoId} :
        /\ pc[t] = "copying"
        /\ StartCreation(t, k) \/ StartCreationFails(t, k)
    \/ SetAttributes(t)
    \/ FillSlot(t)
    \/ FillFails(t)
    \/ FinishCreation(t)
    \/ FailCreation(t)
    \/ \E st \in {"SUCCESS", "NOT_PERMITTED"} : ReadKey(t, st)
    \/ Release(t)
    \/ DestroyLost(t)
    \/ DestroyKey(t)

\* The first step of a call.
Call(t) ==
    \/ \E k \in UserIds \cup {NoId} :
        /\ pc[t] = "idle"
        /\ StartCreation(t, k) \/ StartCreationFails(t, k)
    \/ \E k \in Ids :
        \/ \E reading \in Readings :
            LockInMemory(t, k, reading) \/ LoadAndLock(t, k, reading)
        \/ LoadFails(t, k)
        \/ LoadHasNoSlot(t, k)
        \/ PurgeKey(t, k)

Next ==
    \/ \E t \in Threads : Call(t) \/ Continue(t)
    \/ psa_wipe_all_key_slots
    \/ Crash

Spec == Init /\ [][Next]_vars

\* A thread inside the library is scheduled and its call runs on; no call has
\* to be made, and the process need not stop.
FairSpec == Spec /\ \A t \in Threads : WF_vars(Continue(t))
-----------------------------------------------------------------------------
(* Correctness.                                                            *)

\* Slots hold one of the four states, a count of readers that is never below
\* zero, and attributes and material the calls have put there.
TypeOK ==
    /\ slots \in [Slots -> SlotType]
    /\ storage \in [UserIds -> Materials \cup {BuiltinKey, NoKey}]
    /\ pc \in [Threads -> Pcs]
    /\ src \in [Threads -> Slots \cup {NoSlot}]
    /\ dst \in [Threads -> Slots \cup {NoSlot}]
    /\ want \in [Threads -> UserIds \cup {NoId}]
    /\ ret \in [Threads -> Statuses]

ReadersOf(s) == {t \in Threads : src[t] = s}

\* registered_readers of a slot is the number of threads between
\* psa_get_and_lock_key_slot() and psa_unregister_read(): no path of a call
\* registers without unregistering once, eviction and loading included.
ReadersCounted == \A s \in Slots : slots[s].readers = Cardinality(ReadersOf(s))

\* A thread registered on a slot finds the key there: the slot is never
\* evicted, purged, wiped or reused below a reader.
ReadersHoldKey ==
    \A t \in Threads : src[t] # NoSlot =>
        /\ slots[src[t]].state \in {"FULL", "PENDING_DELETION"}
        /\ slots[src[t]].key # NoKey

\* A slot in state FILLING belongs to exactly one thread, which is creating a
\* key in it; no reserved slot is leaked by an error path and none is handed
\* out twice.
FillingOwned ==
    /\ \A s \in Slots :
          slots[s].state = "FILLING" <=> \E t \in Threads : dst[t] = s
    /\ \A t, u \in Threads : dst[t] = dst[u] /\ dst[t] # NoSlot => t = u

\* A slot marked for deletion still has a reader, who will wipe it: no slot
\* is left in PENDING_DELETION with nobody to free it.
PendingHasReader ==
    \A s \in Slots :
        slots[s].state = "PENDING_DELETION" => \E t \in Threads : src[t] = s

\* Two slots never offer the same identifier, whatever the order of loads,
\* creations and destructions of that identifier.
OneSlotPerId ==
    \A r, s \in Slots :
        /\ slots[r].state = "FULL"
        /\ slots[s].state = "FULL"
        /\ slots[r].id = slots[s].id
        => r = s

\* A key offered under a persistent identifier is the one in storage: no
\* stale copy survives a destruction, and no key is visible before its file.
CacheCoherent ==
    \A s \in Slots : slots[s].state = "FULL" =>
        /\ slots[s].id \in UserIds =>
              /\ slots[s].key = storage[slots[s].id]
              /\ slots[s].life = "PERSISTENT"
        /\ slots[s].id \in BuiltinIds =>
              slots[s].key = BuiltinKey /\ slots[s].life = "READ_ONLY"
        /\ slots[s].id \in VolatileIds =>
              slots[s].id = s /\ slots[s].life = "VOLATILE"

\* The consistency checks of psa_key_slot_state_transition(),
\* psa_unregister_read() and psa_wipe_key_slot() never fail: no call returns
\* their status, and psa_fail_key_creation(), which ignores it, wipes a slot
\* that is its own.
NoCorruption ==
    \A t \in Threads :
        /\ ret[t] # "CORRUPTION_DETECTED"
        /\ pc[t] = "fail" => WipeStatus(slots[dst[t]]) = "SUCCESS"

\* Where a thread is says which slots it holds; a thread about to destroy a key
\* has no result yet.
PcShape ==
    \A t \in Threads :
        /\ dst[t] # NoSlot <=> pc[t] \in {"reserved", "filling", "finish", "fail"}
        /\ pc[t] = "idle" => src[t] = NoSlot
        /\ pc[t] \in {"using", "copying", "release", "destroying"} =>
              src[t] # NoSlot
        /\ pc[t] = "destroying" => ret[t] = "NONE"
        /\ dst[t] # NoSlot =>
              dst[t] \in IF want[t] = NoId THEN VolatileHome ELSE Cache

\* What a slot being filled holds once its attributes and key are written.
FillShape ==
    \A t \in Threads :
        /\ pc[t] \in {"filling", "finish"} =>
              /\ slots[dst[t]].id = IF want[t] = NoId THEN dst[t] ELSE want[t]
              /\ slots[dst[t]].life
                    = IF want[t] = NoId THEN "VOLATILE" ELSE "PERSISTENT"
        /\ pc[t] = "finish" => slots[dst[t]].key # NoKey

\* A slot in use has a key and an identifier, and only volatile keys live
\* outside the cache.
SlotShape ==
    \A s \in Slots : slots[s].state \in {"FULL", "PENDING_DELETION"} =>
        /\ slots[s].key # NoKey
        /\ slots[s].id # NoId
        /\ slots[s].id \in UserIds \cup BuiltinIds => s \in Cache

\* The inductive invariant behind the safety properties of the key store.
KeyStoreInv ==
    /\ TypeOK
    /\ PcShape
    /\ FillShape
    /\ SlotShape
    /\ ReadersCounted
    /\ ReadersHoldKey
    /\ FillingOwned
    /\ PendingHasReader
    /\ OneSlotPerId
    /\ CacheCoherent
    /\ NoCorruption

\* The identifiers the application can use now.
Exists(k) == \/ InMemory(k) # {}
             \/ Loadable(k)

\* While a thread is registered on a slot, what it reads there does not
\* change, even if other threads destroy the key and create it again.
ReadsAreStable ==
    [][\A t \in Threads : src[t] # NoSlot /\ src'[t] = src[t] =>
          /\ slots'[src[t]].key = slots[src[t]].key
          /\ slots'[src[t]].id = slots[src[t]].id]_vars

\* psa_destroy_key() returns PSA_SUCCESS only when the identifier is gone
\* from memory and from storage, so that it cannot be loaded again.
DestroyIsFinal ==
    [][\A t \in Threads, k \in Ids :
          /\ pc[t] = "destroying"
          /\ slots[src[t]].id = k
          /\ ret'[t] = "SUCCESS"
          => ~Exists(k)']_vars

\* A volatile key has no other copy: as long as the process lives only its
\* destruction takes it out of its slot, never an eviction or a purge.
VolatileKeysStay ==
    [][\A s \in Slots :
          /\ slots[s].state = "FULL"
          /\ slots[s].life = "VOLATILE"
          /\ slots'[s] # [slots[s] EXCEPT !.readers = slots'[s].readers]
          => \/ \E t \in Threads : pc[t] = "destroying" /\ src[t] = s
                                  /\ pc'[t] = "idle"
             \/ \A t \in Threads : pc'[t] = "idle" /\ ret'[t] = "NONE"]_vars

\* A destroyed key is wiped from memory once its readers have finished.
DeletionCompletes ==
    \A s \in Slots :
        slots[s].state = "PENDING_DELETION" ~> slots[s].state = "EMPTY"

\* No call waits for another one for ever.
CallsReturn == \A t \in Threads : pc[t] # "idle" ~> pc[t] = "idle"

-----------------------------------------------------------------------------
(* Refinement.                                                             *)

\* The abstraction function of the refinement: a persistent identifier stands
\* for its file, a volatile one for its slot, and a thread works with what
\* the slot it is registered on holds now.
AbsKeys ==
    [k \in Ids |->
       CASE k \in UserIds -> storage[k]
         [] k \in BuiltinIds -> BuiltinKey
         [] k \in VolatileIds -> IF InMemory(k) # {} THEN slots[k].key ELSE NoKey]

AbsHandle ==
    [t \in Threads |-> IF src[t] = NoSlot THEN NoKey ELSE slots[src[t]].key]

Abs == INSTANCE KeyStoreAbs WITH
           keys <- AbsKeys, handle <- AbsHandle,
           FixedKeys <- [k \in BuiltinIds |-> BuiltinKey],
           KeyValues <- Materials \cup {BuiltinKey}

\* The key store implements the map of KeyStoreAbs: creation, use and
\* destruction are atomic, a destroyed key is not used by a later call, and
\* eviction, loading and purging cannot be observed.
Linearizable == Abs!Spec
=============================================================================

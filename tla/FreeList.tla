------------------------------ MODULE FreeList ------------------------------
(***************************************************************************)
(* The volatile slots of the dynamic key store: slices of key slots        *)
(* allocated on demand, and the free list threaded through the slots of    *)
(* each slice (psa_allocate_volatile_key_slot and psa_free_key_slot in     *)
(* core/psa_crypto_slot_management.c, psa_wipe_key_slot in                 *)
(* core/psa_crypto.c).                                                     *)
(*                                                                         *)
(* psa_key_slot_t.var is a union: while the slot is free it links the free *)
(* list, while it is occupied it counts the readers. Everything here runs  *)
(* under mbedtls_threading_key_slot_mutex, so every action is a whole call.*)
(***************************************************************************)
EXTENDS Integers, FiniteSets

CONSTANTS
    SliceCount,     \* KEY_SLOT_VOLATILE_SLICE_COUNT
    SliceLength,         \* key_slice_length(), a function of the slice index
    MaxReaders      \* bound on the readers registered on one slot

SlotIndexRange == 33554432      \* 1 << KEY_ID_SLOT_INDEX_WIDTH
SliceIndexRange == 32           \* 1 << KEY_ID_SLICE_INDEX_WIDTH
Slices == 0 .. (SliceCount - 1)

ASSUME FreeListAssumption ==
    /\ SliceCount \in 1 .. SliceIndexRange
    /\ SliceLength \in [Slices -> 1 .. SlotIndexRange]
    /\ MaxReaders \in Nat

VARIABLES
    slices,     \* the slices with key_slices[i] != NULL
    first,      \* first_free_slot_index
    state,      \* the state of each slot
    var,        \* the union: next_free_relative_to_next or registered_readers
    sliceIndex, \* psa_key_slot_t.slice_index
    id,         \* the key identifier given to the key in the slot
    status      \* what the last operation returned

freeListVars == <<slices, first, state, var, sliceIndex, id, status>>

Indices(i) == 0 .. (SliceLength[i] - 1)

FREE_SLOT_INDEX_NONE == SlotIndexRange      \* any value beyond every slice

-----------------------------------------------------------------------------
(* Volatile key identifiers.                                               *)

NoSlot == <<-1, -1>>    \* NULL
NoId == 0

\* The two indices are bit fields of the identifier, below bit 30.
volatile_key_id_of_index(i, j) == 1073741824 + i * SlotIndexRange + j

slice_index_of_volatile_key_id(k) == (k \div SlotIndexRange) % SliceIndexRange

slot_index_of_volatile_key_id(k) == k % SlotIndexRange

get_volatile_key_slot(k) ==
    LET i == slice_index_of_volatile_key_id(k)
        j == slot_index_of_volatile_key_id(k)
    IN  IF i >= SliceCount THEN NoSlot
        ELSE IF j >= SliceLength[i] \/ i \notin slices THEN NoSlot
        ELSE <<i, j>>

-----------------------------------------------------------------------------
(* The free list of a slice.                                               *)

\* The index after j in the list of slice i; SliceLength[i] or more ends the list.
Follows(i, j) == j + 1 + var[i][j]

\* The head of the list once slot j is taken out.
NextFree(i, j) ==
    IF Follows(i, j) >= SliceLength[i] THEN FREE_SLOT_INDEX_NONE ELSE Follows(i, j)

\* psa_free_key_slot() on a slot just cleared by psa_wipe_key_slot(): the slot
\* becomes the head of the list. An empty list ends at the length of the slice.
LinkOffByOne(i, j) ==       \* mutant
    (IF first[i] >= SliceLength[i] THEN SliceLength[i] ELSE first[i]) - j
Link(i, j) ==
    (IF first[i] >= SliceLength[i] THEN SliceLength[i] ELSE first[i]) - j - 1

\* The slice psa_wipe_key_slot() frees the slot into: slice_index, read before
\* the slot is cleared.
FreedInto(i, j) == sliceIndex[i][j]

\* The consistency checks of psa_wipe_key_slot() on a slot in state st that
\* counts r readers.
WipeStatus(st, r) ==
    IF \/ st \in {"FULL", "PENDING_DELETION"} /\ r = 1
       \/ st = "FILLING" /\ r = 0
    THEN "SUCCESS" ELSE "CORRUPTION_DETECTED"

\* psa_wipe_key_slot(): clears the slot, and returns it to the list of the
\* slice its slice_index names unless the slot was found to be corrupted.
WipeKeySlot(i, j, st) ==
    LET ok == /\ WipeStatus(st, var[i][j]) = "SUCCESS"
              /\ FreedInto(i, j) = i
    IN  /\ state' = [state EXCEPT ![i][j] = "EMPTY"]
        /\ id' = [id EXCEPT ![i][j] = NoId]
        /\ sliceIndex' = [sliceIndex EXCEPT ![i][j] = 0]
        /\ var' = [var EXCEPT ![i][j] = IF ok THEN Link(i, j) ELSE 0]
        /\ first' = [first EXCEPT ![i] = IF ok THEN j ELSE @]
        /\ status' = IF ok THEN "SUCCESS" ELSE "CORRUPTION_DETECTED"

-----------------------------------------------------------------------------
(* Operations.                                                             *)

\* The slice psa_allocate_volatile_key_slot() takes a slot from.
Selected(i) ==
    /\ first[i] # FREE_SLOT_INDEX_NONE
    /\ \A h \in Slices : h < i => first[h] = FREE_SLOT_INDEX_NONE

Reused(i, j) == 0

\* psa_allocate_volatile_key_slot() with a slice in hand. The slot leaves the
\* list even when it turns out not to be empty.
psa_allocate_volatile_key_slot ==
    \E i \in Slices :
        LET j == first[i] IN
        /\ Selected(i)
        /\ slices' = slices \cup {i}
        /\ first' = [first EXCEPT ![i] = NextFree(i, j)]
        /\ var' = [var EXCEPT ![i][j] = Reused(i, j)]
        /\ IF state[i][j] = "EMPTY"
           THEN /\ state' = [state EXCEPT ![i][j] = "FILLING"]
                /\ sliceIndex' = [sliceIndex EXCEPT ![i][j] = i]
                /\ id' = [id EXCEPT ![i][j] = volatile_key_id_of_index(i, j)]
                /\ status' = "SUCCESS"
           ELSE /\ status' = "CORRUPTION_DETECTED"
                /\ UNCHANGED <<state, sliceIndex, id>>

\* Every slice is full, or the memory for a new slice is refused.
AllocationFails ==
    /\ \/ \A i \in Slices : first[i] = FREE_SLOT_INDEX_NONE
       \/ \E i \in Slices : Selected(i) /\ i \notin slices
    /\ status' = "INSUFFICIENT_MEMORY"
    /\ UNCHANGED <<slices, first, state, var, sliceIndex, id>>

\* psa_finish_key_creation().
FinishCreation(i, j) ==
    /\ state[i][j] = "FILLING"
    /\ state' = [state EXCEPT ![i][j] = "FULL"]
    /\ status' = "SUCCESS"
    /\ UNCHANGED <<slices, first, var, sliceIndex, id>>

\* psa_fail_key_creation().
FailCreation(i, j) ==
    /\ state[i][j] = "FILLING"
    /\ WipeKeySlot(i, j, "FILLING")
    /\ UNCHANGED slices

\* psa_register_read(), on the slot of a key that a call has found.
RegisterRead(i, j) ==
    /\ state[i][j] = "FULL"
    /\ var[i][j] < MaxReaders
    /\ var' = [var EXCEPT ![i][j] = @ + 1]
    /\ status' = "SUCCESS"
    /\ UNCHANGED <<slices, first, state, sliceIndex, id>>

\* psa_unregister_read() by one of the readers.
LastReader(i, j) == state[i][j] = "PENDING_DELETION" /\ var[i][j] = 1
UnregisterRead(i, j) ==
    /\ state[i][j] \in {"FULL", "PENDING_DELETION"}
    /\ var[i][j] > 0
    /\ \/ /\ LastReader(i, j)
          /\ WipeKeySlot(i, j, state[i][j])
       \/ /\ ~LastReader(i, j)
          /\ var' = [var EXCEPT ![i][j] = @ - 1]
          /\ status' = "SUCCESS"
          /\ UNCHANGED <<first, state, sliceIndex, id>>
    /\ UNCHANGED slices

\* psa_destroy_key() by a registered reader, up to its psa_unregister_read().
MarkForDeletion(i, j) ==
    /\ state[i][j] = "FULL"
    /\ var[i][j] > 0
    /\ state' = [state EXCEPT ![i][j] = "PENDING_DELETION"]
    /\ status' = "SUCCESS"
    /\ UNCHANGED <<slices, first, var, sliceIndex, id>>

\* psa_wipe_all_key_slots(): all the slices are freed, with their slots.
psa_wipe_all_key_slots ==
    /\ slices' = {}
    /\ first' = [i \in Slices |-> 0]
    /\ state' = [i \in Slices |-> [j \in Indices(i) |-> "EMPTY"]]
    /\ var' = [i \in Slices |-> [j \in Indices(i) |-> 0]]
    /\ sliceIndex' = [i \in Slices |-> [j \in Indices(i) |-> 0]]
    /\ id' = [i \in Slices |-> [j \in Indices(i) |-> NoId]]
    /\ status' = "SUCCESS"

\* A slice that is not allocated reads as calloc() will return it.
FreeListInit ==
    /\ slices = {}
    /\ first = [i \in Slices |-> 0]
    /\ state = [i \in Slices |-> [j \in Indices(i) |-> "EMPTY"]]
    /\ var = [i \in Slices |-> [j \in Indices(i) |-> 0]]
    /\ sliceIndex = [i \in Slices |-> [j \in Indices(i) |-> 0]]
    /\ id = [i \in Slices |-> [j \in Indices(i) |-> NoId]]
    /\ status = "SUCCESS"

OnSlot(i, j) ==
    \/ FinishCreation(i, j)
    \/ FailCreation(i, j)
    \/ RegisterRead(i, j)
    \/ UnregisterRead(i, j)
    \/ MarkForDeletion(i, j)

FreeListNext ==
    \/ psa_allocate_volatile_key_slot
    \/ AllocationFails
    \/ \E i \in Slices : \E j \in Indices(i) : OnSlot(i, j)
    \/ psa_wipe_all_key_slots

FreeListSpec == FreeListInit /\ [][FreeListNext]_freeListVars

-----------------------------------------------------------------------------
(* Correctness.                                                            *)

\* The types of the free list: no index points outside its slice, and a
\* count of readers is never negative.
FreeListTypeOK ==
    /\ slices \in SUBSET Slices
    /\ first \in [Slices -> 0 .. FREE_SLOT_INDEX_NONE]
    /\ DOMAIN state = Slices
    /\ DOMAIN var = Slices
    /\ DOMAIN sliceIndex = Slices
    /\ DOMAIN id = Slices
    /\ \A i \in Slices :
          /\ state[i] \in [Indices(i) -> {"EMPTY", "FILLING", "FULL", "PENDING_DELETION"}]
          /\ var[i] \in [Indices(i) -> Int]
          /\ sliceIndex[i] \in [Indices(i) -> Slices]
          /\ id[i] \in [Indices(i) -> Nat]
          /\ first[i] < SliceLength[i] \/ first[i] = FREE_SLOT_INDEX_NONE
    /\ status \in {"SUCCESS", "INSUFFICIENT_MEMORY", "CORRUPTION_DETECTED"}

Free(i) == {j \in Indices(i) : state[i][j] = "EMPTY"}

\* The slots F of an array of n slots, linked by the relative offsets v from
\* the head h, form one list that passes through each of them once: rank is
\* the distance of a slot to the end of the list.
IsFreeList(F, h, v, n) ==
    \/ F = {} /\ h >= n
    \/ \E rank \in [F -> 1 .. n] :
          /\ h \in F
          /\ rank[h] = Cardinality(F)
          /\ \A j, k \in F : rank[j] = rank[k] => j = k
          /\ \A j \in F :
                /\ rank[j] <= rank[h]
                /\ rank[j] = 1 => j + 1 + v[j] >= n
                /\ rank[j] # 1 => /\ j + 1 + v[j] \in F
                                  /\ rank[j + 1 + v[j]] = rank[j] - 1

\* The free list of every slice holds exactly its empty slots: none is lost
\* after any sequence of allocations and frees, none is listed twice, and no
\* slot in use can be handed out again.
FreeListExact ==
    \A i \in Slices : IsFreeList(Free(i), first[i], var[i], SliceLength[i])

\* A slot in use counts readers in the union, not a link of the list: a slot
\* being filled has none, one that is marked for deletion at least one. Its
\* slice_index is right, which is where it will be freed.
UnionIsReaders ==
    \A i \in Slices : \A j \in Indices(i) :
        /\ state[i][j] = "FILLING" => var[i][j] = 0
        /\ state[i][j] = "FULL" => var[i][j] >= 0
        /\ state[i][j] = "PENDING_DELETION" => var[i][j] > 0
        /\ state[i][j] # "EMPTY" => sliceIndex[i][j] = i /\ i \in slices

\* A key in use is found under its identifier, in its slot.
IdFindsSlot ==
    \A i \in Slices : \A j \in Indices(i) :
        state[i][j] # "EMPTY" => get_volatile_key_slot(id[i][j]) = <<i, j>>

\* None of the consistency checks of the slot manager fails.
NoCorruption == status # "CORRUPTION_DETECTED"

\* The inductive invariant.
FreeListInv ==
    /\ FreeListTypeOK
    /\ FreeListExact
    /\ UnionIsReaders
    /\ IdFindsSlot
    /\ NoCorruption
=============================================================================

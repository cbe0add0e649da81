---------------------------- MODULE KeyStoreProof ----------------------------
(***************************************************************************)
(* Proofs about the key store, for any set of threads, identifiers and key *)
(* materials and any number of slots, static or dynamic.                   *)
(***************************************************************************)
EXTENDS KeyStore, FiniteSetTheorems, TLAPS

-----------------------------------------------------------------------------
(* What is inductive: KeyStoreInv, but of the consistency checks only that *)
(* no call has returned the status of one. That the wipe of a creation     *)
(* which failed finds the slot as it should follows (OwnSlotWiped).        *)

NoneReturned == \A t \in Threads : ret[t] # "CORRUPTION_DETECTED"
SlotsInv ==
    /\ TypeOK
    /\ PcShape
    /\ FillShape
    /\ SlotShape
    /\ ReadersCounted
    /\ ReadersHoldKey
    /\ FillingOwned
    /\ PendingHasReader
    /\ OneSlotPerId
    /\ CacheCoherent
    /\ NoneReturned

-----------------------------------------------------------------------------
(* Facts about the constants and the helpers.                              *)

\* Slot numbers are positive, and every home of a key is made of slots.
LEMMA SlotSets ==
    /\ Slots \subseteq Nat
    /\ Cache \subseteq Slots
    /\ VolatileHome \subseteq Slots
    /\ NoSlot \notin Slots
    /\ \A s \in Slots : s \in Nat /\ s # NoSlot
  BY KeyStoreAssumption
     DEF Slots, Cache, VolatileSlots, VolatileHome, Dynamic, NoSlot

\* The kinds of identifiers do not overlap.
LEMMA IdKinds ==
    /\ UserIds \cap VolatileIds = {}
    /\ BuiltinIds \cap VolatileIds = {}
    /\ UserIds \cap BuiltinIds = {}
    /\ NoId \notin Ids
  BY KeyStoreAssumption, SlotSets DEF VolatileIds, Ids

\* The records the actions store in a slot are slot contents.
LEMMA EmptySlotType ==
    /\ EmptySlot \in SlotType
    /\ FillingSlot \in SlotType
    /\ EmptySlot.state = "EMPTY" /\ EmptySlot.readers = 0
    /\ FillingSlot.state = "FILLING" /\ FillingSlot.readers = 0
  BY DEF EmptySlot, FillingSlot, SlotType, SlotStates, Lifetimes

\* psa_reserve_free_key_slot() returns slots of the right kind: empty ones,
\* or loaded keys without readers.
LEMMA ReserveFacts ==
    ASSUME SlotsInv, NEW v \in BOOLEAN, NEW s \in psa_reserve_free_key_slot(v)
    PROVE  /\ s \in Slots
           /\ s \in IF v THEN VolatileHome ELSE Cache
           /\ ReadersOf(s) = {}
           /\ slots[s].state \in {"EMPTY", "FULL"}
           /\ slots[s].readers = 0
           /\ slots[s].state = "FULL" => slots[s].life # "VOLATILE"
  <1>1. s \in Slots /\ s \in IF v THEN VolatileHome ELSE Cache
    BY SlotSets DEF psa_reserve_free_key_slot, VolatileHome
  <1>2. /\ slots[s].state \in {"EMPTY", "FULL"}
        /\ slots[s].state = "FULL" => slots[s].life # "VOLATILE" /\ slots[s].readers = 0
    BY DEF psa_reserve_free_key_slot, SelectsCacheSlot, Evictable, Empty
  <1>3. ReadersOf(s) = {}
    <2>1. CASE slots[s].state = "EMPTY"
      BY <1>1, <2>1, SlotSets DEF SlotsInv, ReadersHoldKey, ReadersOf
    <2>2. CASE slots[s].state = "FULL"
      <3>1. Cardinality(ReadersOf(s)) = 0
        BY <1>1, <1>2, <2>2 DEF SlotsInv, ReadersCounted
      <3>2. IsFiniteSet(ReadersOf(s))
        BY KeyStoreAssumption, FS_Subset DEF ReadersOf
      <3>3. QED BY <3>1, <3>2, FS_EmptySet
    <2>3. QED BY <1>2, <2>1, <2>2
  <1>4. slots[s].readers = 0
    BY <1>1, <1>3, FS_EmptySet DEF SlotsInv, ReadersCounted
  <1>5. QED BY <1>1, <1>2, <1>3, <1>4

\* The key that is evicted is wiped by its only reader.
LEMMA ReserveSucceeds ==
    ASSUME SlotsInv, NEW v \in BOOLEAN, NEW s \in psa_reserve_free_key_slot(v)
    PROVE  ReserveStatus(s) = "SUCCESS"
  <1>1. /\ s \in Slots /\ slots[s].state \in {"EMPTY", "FULL"} /\ slots[s].readers = 0
        /\ slots[s] \in SlotType
    BY ReserveFacts DEF SlotsInv, TypeOK
  <1>2. CASE slots[s].state = "EMPTY"
    BY <1>2 DEF ReserveStatus, Empty
  <1>3. CASE slots[s].state = "FULL"
    <2> DEFINE r == [slots[s] EXCEPT !.readers = @ + 1]
    <2>1. r.state = "FULL" /\ r.readers = 1
      BY <1>1, <1>3 DEF SlotType
    <2>2. WipeStatus(r) = "SUCCESS"
      BY <2>1 DEF WipeStatus
    <2> QED
      BY <1>3, <2>2 DEF ReserveStatus, Empty
  <1> QED
    BY <1>1, <1>2, <1>3

\* A creation that fails wipes the slot it was filling, which nobody reads.
LEMMA OwnSlotWiped == SlotsInv => KeyStoreInv
  <1> SUFFICES ASSUME SlotsInv PROVE KeyStoreInv
    OBVIOUS
  <1>1. ASSUME NEW t \in Threads, pc[t] = "fail"
        PROVE  WipeStatus(slots[dst[t]]) = "SUCCESS"
    <2>1. dst[t] \in Slots /\ slots[dst[t]].state = "FILLING"
      BY <1>1 DEF SlotsInv, TypeOK, PcShape, FillingOwned
    <2>2. ReadersOf(dst[t]) = {}
      BY <2>1, SlotSets DEF SlotsInv, ReadersHoldKey, ReadersOf
    <2>3. slots[dst[t]].readers = 0
      BY <2>1, <2>2, FS_EmptySet DEF SlotsInv, ReadersCounted
    <2> QED
      BY <2>1, <2>3 DEF WipeStatus
  <1> QED
    BY <1>1 DEF SlotsInv, KeyStoreInv, NoneReturned, NoCorruption

-----------------------------------------------------------------------------
(* Counting readers.                                                       *)

LEMMA ReadersAdd ==
    ASSUME SlotsInv, NEW t \in Threads, NEW s \in Slots,
           src[t] = NoSlot, src' = [src EXCEPT ![t] = s]
    PROVE  \A r \in Slots :
             Cardinality(ReadersOf(r)')
               = IF r = s THEN Cardinality(ReadersOf(r)) + 1
                 ELSE Cardinality(ReadersOf(r))
  <1> SUFFICES ASSUME NEW r \in Slots
      PROVE  Cardinality(ReadersOf(r)')
               = IF r = s THEN Cardinality(ReadersOf(r)) + 1
                 ELSE Cardinality(ReadersOf(r))
    OBVIOUS
  <1>1. IsFiniteSet(ReadersOf(r))
    BY KeyStoreAssumption, FS_Subset DEF ReadersOf
  <1>2. CASE r = s
    <2>1. ReadersOf(r)' = ReadersOf(r) \cup {t} /\ t \notin ReadersOf(r)
      BY <1>2, SlotSets DEF ReadersOf, SlotsInv, TypeOK
    <2>2. QED BY <1>1, <1>2, <2>1, FS_AddElement
  <1>3. CASE r # s
    <2>1. ReadersOf(r)' = ReadersOf(r)
      BY <1>3, SlotSets DEF ReadersOf, SlotsInv, TypeOK
    <2>2. QED BY <1>3, <2>1
  <1>4. QED BY <1>2, <1>3

LEMMA ReadersDrop ==
    ASSUME SlotsInv, NEW t \in Threads, NEW s \in Slots,
           src[t] = s, src' = [src EXCEPT ![t] = NoSlot]
    PROVE  /\ \A r \in Slots \ {s} : ReadersOf(r)' = ReadersOf(r)
           /\ ReadersOf(s)' = ReadersOf(s) \ {t}
           /\ Cardinality(ReadersOf(s)) \in Nat \ {0}
           /\ Cardinality(ReadersOf(s)') = Cardinality(ReadersOf(s)) - 1
  <1>1. IsFiniteSet(ReadersOf(s)) /\ t \in ReadersOf(s)
    BY KeyStoreAssumption, FS_Subset DEF ReadersOf
  <1>2. ReadersOf(s)' = ReadersOf(s) \ {t}
    BY SlotSets DEF ReadersOf, SlotsInv, TypeOK
  <1>3. \A r \in Slots \ {s} : ReadersOf(r)' = ReadersOf(r)
    BY SlotSets DEF ReadersOf, SlotsInv, TypeOK
  <1>4. Cardinality(ReadersOf(s)) \in Nat \ {0}
    BY <1>1, FS_CardinalityType, FS_EmptySet
  <1>5. Cardinality(ReadersOf(s)') = Cardinality(ReadersOf(s)) - 1
    BY <1>1, <1>2, FS_RemoveElement
  <1>6. QED BY <1>2, <1>3, <1>4, <1>5

\* The effect of an assignment to one slot.
LEMMA PutFacts ==
    ASSUME slots \in [Slots -> SlotType], NEW s \in Slots, NEW r \in SlotType,
           Put(s, r)
    PROVE  /\ slots' \in [Slots -> SlotType]
           /\ slots'[s] = r
           /\ \A x \in Slots : x # s => slots'[x] = slots[x]
  BY DEF Put

\* FillingOwned when a thread takes a slot, gives it back, or neither.
LEMMA FillingTaken ==
    ASSUME SlotsInv, NEW t \in Threads, NEW s \in Slots, dst[t] = NoSlot,
           \A u \in Threads : dst[u] # s,
           dst' = [dst EXCEPT ![t] = s],
           slots'[s].state = "FILLING",
           \A x \in Slots : x # s => slots'[x] = slots[x]
    PROVE  FillingOwned'
  <1>0. dst \in [Threads -> Slots \cup {NoSlot}] /\ FillingOwned
    BY DEF SlotsInv, TypeOK
  <1>1. dst'[t] = s /\ \A u \in Threads : u # t => dst'[u] = dst[u]
    BY <1>0
  <1>2. ASSUME NEW x \in Slots
        PROVE  slots'[x].state = "FILLING" <=> \E u \in Threads : dst'[u] = x
    <2>1. CASE x = s
      BY <1>1, <2>1
    <2>2. CASE x # s
      <3>1. \A u \in Threads : dst'[u] = x <=> dst[u] = x
        BY <1>1, <2>2, SlotSets
      <3>2. QED BY <1>0, <2>2, <3>1 DEF FillingOwned
    <2>3. QED BY <2>1, <2>2
  <1>3. \A u, v \in Threads : dst'[u] = dst'[v] /\ dst'[u] # NoSlot => u = v
    BY <1>0, <1>1 DEF FillingOwned
  <1>4. QED BY <1>2, <1>3 DEF FillingOwned

LEMMA FillingGiven ==
    ASSUME SlotsInv, NEW t \in Threads, NEW s \in Slots, dst[t] = s,
           dst' = [dst EXCEPT ![t] = NoSlot],
           slots'[s].state # "FILLING",
           \A x \in Slots : x # s => slots'[x] = slots[x]
    PROVE  FillingOwned'
  <1>0. dst \in [Threads -> Slots \cup {NoSlot}] /\ FillingOwned
    BY DEF SlotsInv, TypeOK
  <1>1. dst'[t] = NoSlot /\ \A u \in Threads : u # t => dst'[u] = dst[u]
    BY <1>0
  <1>2. ASSUME NEW x \in Slots
        PROVE  slots'[x].state = "FILLING" <=> \E u \in Threads : dst'[u] = x
    <2>1. CASE x = s
      BY <1>0, <1>1, <2>1, SlotSets DEF FillingOwned
    <2>2. CASE x # s
      <3>1. \A u \in Threads : dst'[u] = x <=> dst[u] = x
        BY <1>1, <2>2, SlotSets
      <3>2. QED BY <1>0, <2>2, <3>1 DEF FillingOwned
    <2>3. QED BY <2>1, <2>2
  <1>3. \A u, v \in Threads : dst'[u] = dst'[v] /\ dst'[u] # NoSlot => u = v
    BY <1>0, <1>1 DEF FillingOwned
  <1>4. QED BY <1>2, <1>3 DEF FillingOwned

LEMMA FillingKept ==
    ASSUME SlotsInv, dst' = dst,
           \A x \in Slots :
             slots'[x].state = "FILLING" <=> slots[x].state = "FILLING"
    PROVE  FillingOwned'
  BY DEF SlotsInv, FillingOwned

-----------------------------------------------------------------------------
(* Each action preserves the invariant.                                    *)

LEMMA StartCreationInv ==
    ASSUME SlotsInv, NEW t \in Threads, NEW k \in UserIds \cup {NoId},
           StartCreation(t, k)
    PROVE  SlotsInv'
  <1> USE DEF SlotsInv
  <1>1. PICK s \in psa_reserve_free_key_slot(k = NoId) :
            /\ Put(s, FillingSlot) /\ dst' = [dst EXCEPT ![t] = s]
            /\ want' = [want EXCEPT ![t] = k]
            /\ Goto(t, "reserved") /\ Return(t, "NONE")
    BY ReserveSucceeds DEF StartCreation
  <1>2. /\ s \in Slots
        /\ s \in IF k = NoId THEN VolatileHome ELSE Cache
        /\ ReadersOf(s) = {}
        /\ slots[s].state \in {"EMPTY", "FULL"}
        /\ slots[s].readers = 0
    BY ReserveFacts
  <1>3. /\ slots' \in [Slots -> SlotType]
        /\ slots'[s] = FillingSlot
        /\ \A x \in Slots : x # s => slots'[x] = slots[x]
    BY <1>1, <1>2, PutFacts, EmptySlotType DEF TypeOK
  <1>4. /\ pc[t] \in {"idle", "copying"} /\ dst[t] = NoSlot
        /\ want' = [want EXCEPT ![t] = k]
        /\ pc' = [pc EXCEPT ![t] = "reserved"]
        /\ ret' = [ret EXCEPT ![t] = "NONE"]
        /\ storage' = storage /\ src' = src
    BY <1>1 DEF StartCreation, Goto, Return, PcShape
  <1>5. \A u \in Threads : src[u] # s /\ dst[u] # s
    BY <1>2, SlotSets DEF ReadersOf, FillingOwned, TypeOK
  <1>6. TypeOK'
    BY <1>1, <1>2, <1>3, <1>4 DEF TypeOK, Pcs, Statuses
  <1>7. PcShape'
    BY <1>1, <1>2, <1>4, SlotSets DEF TypeOK, PcShape
  <1>8. FillShape'
    BY <1>1, <1>3, <1>4, <1>5 DEF TypeOK, FillShape, PcShape
  <1>9. SlotShape'
    BY <1>3, EmptySlotType DEF SlotShape
  <1>10. ReadersCounted'
    BY <1>2, <1>3, <1>4, EmptySlotType DEF ReadersCounted, ReadersOf
  <1>11. ReadersHoldKey'
    BY <1>3, <1>4, <1>5 DEF ReadersHoldKey, TypeOK
  <1>12. FillingOwned'
    BY <1>1, <1>2, <1>3, <1>4, <1>5, FillingTaken, EmptySlotType
  <1>13. PendingHasReader'
    BY <1>3, <1>4, EmptySlotType DEF PendingHasReader
  <1>14. OneSlotPerId'
    BY <1>3, EmptySlotType DEF OneSlotPerId
  <1>15. CacheCoherent'
    BY <1>3, <1>4, EmptySlotType DEF CacheCoherent
  <1>16. NoneReturned'
    BY <1>4 DEF NoneReturned, TypeOK
  <1>17. QED
    BY <1>6, <1>7, <1>8, <1>9, <1>10, <1>11, <1>12, <1>13, <1>14, <1>15, <1>16
\* A step that moves a thread and sets its status, and nothing else.
LEMMA ControlStep ==
    ASSUME SlotsInv, NEW t \in Threads, NEW l \in Pcs,
           NEW st \in Statuses \ {"CORRUPTION_DETECTED"},
           UNCHANGED <<slots, storage, src, dst, want>>,
           pc' = [pc EXCEPT ![t] = l], ret' = [ret EXCEPT ![t] = st],
           dst[t] # NoSlot <=> l = "fail",
           l = "idle" <=> src[t] = NoSlot /\ dst[t] = NoSlot,
           l \in {"idle", "release", "fail"}
    PROVE  SlotsInv'
  <1> USE DEF SlotsInv
  <1>1. TypeOK'
    BY DEF TypeOK
  <1>2. PcShape'
    BY DEF PcShape, TypeOK
  <1>3. FillShape'
    BY DEF FillShape, TypeOK
  <1>4. SlotShape' /\ PendingHasReader' /\ OneSlotPerId'
    BY DEF SlotShape, PendingHasReader, OneSlotPerId
  <1>5. ReadersCounted' /\ ReadersHoldKey'
    BY DEF ReadersCounted, ReadersOf, ReadersHoldKey
  <1>6. FillingOwned'
    BY FillingKept
  <1>7. CacheCoherent'
    BY DEF CacheCoherent
  <1>8. NoneReturned'
    BY DEF NoneReturned, TypeOK
  <1>9. QED BY <1>1, <1>2, <1>3, <1>4, <1>5, <1>6, <1>7, <1>8

LEMMA StartCreationFailsInv ==
    ASSUME SlotsInv, NEW t \in Threads, NEW k \in UserIds \cup {NoId},
           StartCreationFails(t, k)
    PROVE  SlotsInv'
  <1>1. dst[t] = NoSlot /\ (pc[t] = "idle" <=> src[t] = NoSlot)
    BY DEF StartCreationFails, SlotsInv, PcShape
  <1>2. AfterCreation(t) \in Pcs /\ AfterCreation(t) \in {"idle", "release"}
        /\ (AfterCreation(t) = "idle" <=> src[t] = NoSlot)
    BY DEF AfterCreation, Pcs
  <1>3. QED
    BY <1>1, <1>2, ControlStep DEF StartCreationFails, Goto, Return, Statuses

LEMMA FillFailsInv ==
    ASSUME SlotsInv, NEW t \in Threads, FillFails(t)
    PROVE  SlotsInv'
  <1>1. dst[t] # NoSlot
    BY DEF FillFails, SlotsInv, PcShape
  <1>2. QED
    BY <1>1, ControlStep DEF FillFails, Goto, Return, Statuses, Pcs

LEMMA ReadKeyInv ==
    ASSUME SlotsInv, NEW t \in Threads,
           NEW st \in {"SUCCESS", "NOT_PERMITTED"}, ReadKey(t, st)
    PROVE  SlotsInv'
  <1>1. dst[t] = NoSlot /\ src[t] # NoSlot
    BY DEF ReadKey, SlotsInv, PcShape
  <1>2. QED
    BY <1>1, ControlStep DEF ReadKey, Goto, Return, Statuses, Pcs

LEMMA LoadHasNoSlotInv ==
    ASSUME SlotsInv, NEW t \in Threads, NEW k \in Ids, LoadHasNoSlot(t, k)
    PROVE  SlotsInv'
  <1>1. dst[t] = NoSlot /\ src[t] = NoSlot /\ pc[t] = "idle"
    BY DEF LoadHasNoSlot, SlotsInv, PcShape
  <1>2. pc' = [pc EXCEPT ![t] = "idle"]
    BY <1>1 DEF LoadHasNoSlot, SlotsInv, TypeOK
  <1>3. QED
    BY <1>1, <1>2, ControlStep DEF LoadHasNoSlot, Return, Statuses, Pcs
\* A step of the owner of a slot in state FILLING that rewrites attributes or
\* material of that slot.
LEMMA OwnerWrites ==
    ASSUME SlotsInv, NEW t \in Threads, NEW l \in {"filling", "finish"},
           NEW r \in SlotType, dst[t] # NoSlot,
           r.state = slots[dst[t]].state, r.readers = slots[dst[t]].readers,
           r.id = IF want[t] = NoId THEN dst[t] ELSE want[t],
           r.life = IF want[t] = NoId THEN "VOLATILE" ELSE "PERSISTENT",
           l = "finish" => r.key # NoKey,
           Put(dst[t], r), pc' = [pc EXCEPT ![t] = l],
           UNCHANGED <<storage, src, dst, want, ret>>
    PROVE  SlotsInv'
  <1> USE DEF SlotsInv
  <1>1. /\ dst[t] \in Slots /\ slots[dst[t]].state = "FILLING"
        /\ \A u \in Threads : u # t => dst[u] # dst[t]
    BY DEF TypeOK, FillingOwned
  <1>2. /\ slots' \in [Slots -> SlotType]
        /\ slots'[dst[t]] = r
        /\ \A x \in Slots : x # dst[t] => slots'[x] = slots[x]
    BY <1>1, PutFacts DEF TypeOK
  <1>3. \A u \in Threads : src[u] # dst[t]
    BY <1>1, SlotSets DEF ReadersHoldKey
  <1>4. \A x \in Slots : slots'[x].state = slots[x].state
                         /\ slots'[x].readers = slots[x].readers
    BY <1>2
  <1>5. TypeOK'
    BY <1>2 DEF TypeOK, Pcs
  <1>6. PcShape'
    BY DEF TypeOK, PcShape
  <1>7. FillShape'
    BY <1>1, <1>2 DEF FillShape, TypeOK, PcShape
  <1>8. SlotShape'
    BY <1>1, <1>2, <1>4 DEF SlotShape
  <1>9. ReadersCounted'
    BY <1>4 DEF ReadersCounted, ReadersOf
  <1>10. ReadersHoldKey'
    BY <1>2, <1>3 DEF ReadersHoldKey, TypeOK
  <1>11. FillingOwned'
    BY <1>4, FillingKept
  <1>12. PendingHasReader'
    BY <1>4 DEF PendingHasReader
  <1>13. OneSlotPerId'
    BY <1>1, <1>2, <1>4 DEF OneSlotPerId
  <1>14. CacheCoherent'
    BY <1>1, <1>2, <1>4 DEF CacheCoherent
  <1>15. NoneReturned'
    BY DEF NoneReturned
  <1>16. QED
    BY <1>5, <1>6, <1>7, <1>8, <1>9, <1>10, <1>11, <1>12, <1>13, <1>14, <1>15

LEMMA SetAttributesInv ==
    ASSUME SlotsInv, NEW t \in Threads, SetAttributes(t)
    PROVE  SlotsInv'
  <1> DEFINE r == [slots[dst[t]] EXCEPT
                     !.id = IF want[t] = NoId THEN dst[t] ELSE want[t],
                     !.life = IF want[t] = NoId THEN "VOLATILE" ELSE "PERSISTENT"]
  <1>1. /\ dst[t] # NoSlot /\ dst[t] \in Slots
        /\ want[t] \in UserIds \cup {NoId}
        /\ want[t] = NoId => dst[t] \in VolatileIds
        /\ slots[dst[t]] \in SlotType
    BY DEF SetAttributes, SlotsInv, TypeOK, PcShape, VolatileIds
  <1>2. /\ r \in SlotType
        /\ r.state = slots[dst[t]].state /\ r.readers = slots[dst[t]].readers
        /\ r.id = IF want[t] = NoId THEN dst[t] ELSE want[t]
        /\ r.life = IF want[t] = NoId THEN "VOLATILE" ELSE "PERSISTENT"
    BY <1>1 DEF SlotType, Lifetimes, Ids
  <1>3. Put(dst[t], r) /\ pc' = [pc EXCEPT ![t] = "filling"]
        /\ UNCHANGED <<storage, src, dst, want, ret>>
    BY DEF SetAttributes, Goto
  <1>4. QED
    BY <1>1, <1>2, <1>3, OwnerWrites

LEMMA FillSlotInv ==
    ASSUME SlotsInv, NEW t \in Threads, FillSlot(t)
    PROVE  SlotsInv'
  <1>1. PICK m \in IF src[t] = NoSlot THEN Materials ELSE {slots[src[t]].key} :
            Put(dst[t], [slots[dst[t]] EXCEPT !.key = m])
    BY DEF FillSlot
  <1> DEFINE r == [slots[dst[t]] EXCEPT !.key = m]
  <1>2. /\ dst[t] # NoSlot /\ dst[t] \in Slots /\ slots[dst[t]] \in SlotType
        /\ slots[dst[t]].id = IF want[t] = NoId THEN dst[t] ELSE want[t]
        /\ slots[dst[t]].life = IF want[t] = NoId THEN "VOLATILE" ELSE "PERSISTENT"
    BY DEF FillSlot, SlotsInv, TypeOK, PcShape, FillShape
  <1>3. m \in Materials \cup {BuiltinKey} /\ m # NoKey
    <2>1. CASE src[t] = NoSlot
      BY <1>1, <2>1, KeyStoreAssumption
    <2>2. CASE src[t] # NoSlot
      BY <1>1, <2>2 DEF SlotsInv, TypeOK, ReadersHoldKey, SlotType
    <2>3. QED BY <2>1, <2>2
  <1>4. /\ r \in SlotType
        /\ r.state = slots[dst[t]].state /\ r.readers = slots[dst[t]].readers
        /\ r.id = slots[dst[t]].id /\ r.life = slots[dst[t]].life /\ r.key = m
    BY <1>2, <1>3 DEF SlotType
  <1>5. pc' = [pc EXCEPT ![t] = "finish"]
        /\ UNCHANGED <<storage, src, dst, want, ret>>
    BY DEF FillSlot, Goto
  <1>6. QED
    BY <1>1, <1>2, <1>3, <1>4, <1>5, OwnerWrites

LEMMA FinishCreationInv ==
    ASSUME SlotsInv, NEW t \in Threads, FinishCreation(t)
    PROVE  SlotsInv'
  <1> USE DEF SlotsInv
  <1> DEFINE s == dst[t]
  <1> DEFINE slot == slots[s]
  <1>1. PICK save \in Saves(slot) :
        /\ storage' = save.disk
        /\ \/ /\ save.status = "SUCCESS"
              /\ slot.state = "FILLING"
              /\ Put(s, [slot EXCEPT !.state = "FULL"])
              /\ dst' = [dst EXCEPT ![t] = NoSlot]
              /\ want' = [want EXCEPT ![t] = NoId]
              /\ Return(t, "SUCCESS")
              /\ Goto(t, AfterCreation(t))
           \/ /\ save.status # "SUCCESS" \/ slot.state # "FILLING"
              /\ Return(t, IF save.status = "SUCCESS"
                           THEN "CORRUPTION_DETECTED" ELSE save.status)
              /\ Goto(t, "fail")
              /\ UNCHANGED <<slots, dst, want>>
    BY DEF FinishCreation
  <1>2. /\ pc[t] = "finish" /\ src' = src
        /\ s \in Slots /\ s # NoSlot /\ slot \in SlotType
        /\ slot.state = "FILLING" /\ slot.key # NoKey
        /\ slot.key \in Materials \cup {BuiltinKey}
        /\ want[t] \in UserIds \cup {NoId}
        /\ s \in IF want[t] = NoId THEN VolatileHome ELSE Cache
        /\ slot.id = IF want[t] = NoId THEN s ELSE want[t]
        /\ slot.life = IF want[t] = NoId THEN "VOLATILE" ELSE "PERSISTENT"
    BY DEF FinishCreation, TypeOK, PcShape, FillShape, FillingOwned, SlotType
  <1>3. /\ \A u \in Threads : src[u] # s
        /\ \A u \in Threads : u # t => dst[u] # s
    BY <1>2, SlotSets DEF ReadersHoldKey, FillingOwned
  \* What the save can do to storage.
  <1>4. /\ save.status \in {"SUCCESS", "ALREADY_EXISTS", "DATA_INVALID"}
        /\ storage' \in [UserIds -> Materials \cup {BuiltinKey, NoKey}]
        /\ \A k \in UserIds : storage[k] # NoKey => storage'[k] = storage[k]
        /\ save.status = "SUCCESS" /\ want[t] # NoId =>
              storage[slot.id] = NoKey /\ storage'[slot.id] = slot.key
    <2>1. CASE want[t] = NoId
      BY <1>1, <1>2, <2>1 DEF Saves, TypeOK
    <2>2. CASE want[t] # NoId
      <3>1. slot.id \in UserIds /\ save \in psa_save_persistent_key(slot.id, slot.key)
        BY <1>1, <1>2, <2>2 DEF Saves
      <3> DEFINE written == [storage EXCEPT ![slot.id] = slot.key]
      <3>2. /\ written \in [UserIds -> Materials \cup {BuiltinKey, NoKey}]
            /\ written[slot.id] = slot.key
            /\ \A k \in UserIds : k # slot.id => written[k] = storage[k]
        BY <1>2, <3>1 DEF TypeOK
      <3>3. \/ save.disk = storage /\ save.status = "ALREADY_EXISTS"
            \/ save.disk = storage /\ save.status = "DATA_INVALID"
            \/ /\ save.disk = written /\ save.status \in {"DATA_INVALID", "SUCCESS"}
               /\ storage[slot.id] = NoKey
        BY <3>1 DEF psa_save_persistent_key
      <3>4. QED BY <1>1, <3>1, <3>2, <3>3 DEF TypeOK
    <2>3. QED BY <2>1, <2>2
  <1>5. CASE /\ save.status = "SUCCESS"
             /\ Put(s, [slot EXCEPT !.state = "FULL"])
             /\ dst' = [dst EXCEPT ![t] = NoSlot]
             /\ want' = [want EXCEPT ![t] = NoId]
             /\ Return(t, "SUCCESS")
             /\ Goto(t, AfterCreation(t))
    <2> DEFINE r == [slot EXCEPT !.state = "FULL"]
    <2>1. /\ r \in SlotType /\ r.state = "FULL" /\ r.readers = slot.readers
          /\ r.id = slot.id /\ r.life = slot.life /\ r.key = slot.key
      BY <1>2 DEF SlotType, SlotStates
    <2>2. /\ slots' \in [Slots -> SlotType]
          /\ slots'[s] = r
          /\ \A x \in Slots : x # s => slots'[x] = slots[x]
      BY <1>2, <1>5, <2>1, PutFacts DEF TypeOK
    <2> HIDE DEF r
    <2>3. AfterCreation(t) \in {"idle", "release"}
          /\ (AfterCreation(t) = "idle" <=> src[t] = NoSlot)
      BY DEF AfterCreation
    \* No other slot offers the identifier of the new key.
    <2>4. \A x \in Slots : x # s /\ slots[x].state = "FULL" => slots[x].id # slot.id
      <3>1. CASE want[t] = NoId
        BY <1>2, <3>1 DEF CacheCoherent, VolatileIds
      <3>2. CASE want[t] # NoId
        BY <1>2, <1>4, <1>5, <3>2 DEF CacheCoherent, SlotShape
      <3>3. QED BY <3>1, <3>2
    <2>5. TypeOK'
      BY <1>2, <1>4, <1>5, <2>2, <2>3 DEF TypeOK, Return, Goto, Pcs, Statuses
    <2>6. PcShape'
      BY <1>2, <1>5, <2>3 DEF TypeOK, PcShape, Goto, Return
    <2>7. FillShape'
      BY <1>2, <1>3, <1>5, <2>2, <2>3 DEF TypeOK, FillShape, PcShape, Goto
    <2>8. SlotShape'
      <3>1. /\ r.key # NoKey /\ r.id # NoId
            /\ r.id \in UserIds \cup BuiltinIds => s \in Cache
        BY <1>2, <2>1, IdKinds DEF VolatileIds, Ids
      <3>2. QED BY <2>2, <3>1 DEF SlotShape
    <2>9. ReadersCounted'
      <3>1. \A x \in Slots : slots'[x].readers = slots[x].readers
        BY <2>1, <2>2
      <3>2. QED BY <1>2, <3>1 DEF ReadersCounted, ReadersOf
    <2>10. ReadersHoldKey'
      BY <1>2, <1>3, <2>2 DEF ReadersHoldKey, TypeOK
    <2>11. FillingOwned'
      BY <1>2, <1>5, <2>1, <2>2, FillingGiven
    <2>12. PendingHasReader'
      BY <1>2, <2>1, <2>2 DEF PendingHasReader
    <2>13. OneSlotPerId'
      <3>1. \A x \in Slots :
              x # s /\ slots'[x].state = "FULL" => slots'[x].id # slots'[s].id
        BY <2>1, <2>2, <2>4
      <3>2. QED BY <2>2, <3>1 DEF OneSlotPerId
    <2>14. CacheCoherent'
      <3>1. ASSUME NEW x \in Slots, x # s, slots[x].state = "FULL",
                   slots[x].id \in UserIds
            PROVE  storage'[slots[x].id] = storage[slots[x].id]
        BY <1>4, <3>1 DEF CacheCoherent, SlotShape
      <3>2. /\ r.id \in UserIds => r.key = storage'[r.id] /\ r.life = "PERSISTENT"
            /\ r.id \notin BuiltinIds
            /\ r.id \in VolatileIds => r.id = s /\ r.life = "VOLATILE"
        BY <1>2, <1>4, <1>5, <2>1, IdKinds DEF VolatileIds
      <3>3. QED
        BY <2>2, <3>1, <3>2 DEF CacheCoherent
    <2>15. NoneReturned'
      BY <1>5 DEF NoneReturned, TypeOK, Return
    <2>16. QED
      BY <2>5, <2>6, <2>7, <2>8, <2>9, <2>10, <2>11, <2>12, <2>13, <2>14, <2>15
  <1>6. CASE /\ save.status # "SUCCESS"
             /\ Return(t, save.status)
             /\ Goto(t, "fail")
             /\ UNCHANGED <<slots, dst, want>>
    <2>1. TypeOK' /\ NoneReturned'
      BY <1>2, <1>4, <1>6 DEF TypeOK, Return, Goto, Pcs, Statuses, NoneReturned
    <2>2. PcShape' /\ FillShape'
      BY <1>2, <1>6 DEF TypeOK, PcShape, FillShape, Goto, Return
    <2>3. SlotShape' /\ PendingHasReader' /\ OneSlotPerId'
      BY <1>2, <1>6 DEF SlotShape, PendingHasReader, OneSlotPerId
    <2>4. ReadersCounted' /\ ReadersHoldKey'
      BY <1>2, <1>6 DEF ReadersCounted, ReadersOf, ReadersHoldKey
    <2>5. FillingOwned'
      BY <1>6, FillingKept
    <2>6. CacheCoherent'
      BY <1>4, <1>6 DEF CacheCoherent, SlotShape
    <2>7. QED BY <2>1, <2>2, <2>3, <2>4, <2>5, <2>6
  <1>7. QED
    BY <1>1, <1>2, <1>5, <1>6

\* psa_fail_key_creation() and the wipe of a slot.
LEMMA WipeIsEmpty == \A r : psa_wipe_key_slot(r) = EmptySlot
  BY DEF psa_wipe_key_slot

LEMMA FailCreationInv ==
    ASSUME SlotsInv, NEW t \in Threads, FailCreation(t)
    PROVE  SlotsInv'
  <1> USE DEF SlotsInv
  <1>1. /\ pc[t] = "fail" /\ dst[t] \in Slots /\ dst[t] # NoSlot
        /\ slots[dst[t]].state = "FILLING"
    BY DEF FailCreation, TypeOK, PcShape, FillingOwned
  <1>2. /\ slots' \in [Slots -> SlotType]
        /\ slots'[dst[t]] = EmptySlot
        /\ \A x \in Slots : x # dst[t] => slots'[x] = slots[x]
    BY <1>1, WipeIsEmpty, EmptySlotType, PutFacts DEF FailCreation, TypeOK
  <1>3. /\ dst' = [dst EXCEPT ![t] = NoSlot]
        /\ want' = [want EXCEPT ![t] = NoId]
        /\ pc' = [pc EXCEPT ![t] = AfterCreation(t)]
        /\ storage' = storage /\ src' = src /\ ret' = ret
        /\ AfterCreation(t) \in {"idle", "release"}
        /\ AfterCreation(t) = "idle" <=> src[t] = NoSlot
    BY DEF FailCreation, Goto, AfterCreation
  <1>4. /\ \A u \in Threads : src[u] # dst[t]
        /\ \A u \in Threads : u # t => dst[u] # dst[t]
    BY <1>1, SlotSets DEF ReadersHoldKey, FillingOwned
  <1>5. TypeOK'
    BY <1>2, <1>3 DEF TypeOK, Pcs
  <1>6. PcShape'
    BY <1>1, <1>3 DEF TypeOK, PcShape
  <1>7. FillShape'
    BY <1>1, <1>2, <1>3, <1>4 DEF TypeOK, FillShape, PcShape
  <1>8. SlotShape' /\ PendingHasReader' /\ OneSlotPerId'
    BY <1>2, <1>3, EmptySlotType DEF SlotShape, PendingHasReader, OneSlotPerId
  <1>9. ReadersCounted'
    <2>1. slots[dst[t]].readers = 0
      <3>1. ReadersOf(dst[t]) = {}
        BY <1>4 DEF ReadersOf
      <3>2. QED BY <1>1, <3>1, FS_EmptySet DEF ReadersCounted
    <2>2. \A x \in Slots : slots'[x].readers = slots[x].readers
      BY <1>2, <2>1, EmptySlotType
    <2>3. QED BY <1>3, <2>2 DEF ReadersCounted, ReadersOf
  <1>10. ReadersHoldKey'
    BY <1>2, <1>3, <1>4 DEF ReadersHoldKey, TypeOK
  <1>11. FillingOwned'
    BY <1>1, <1>2, <1>3, FillingGiven, EmptySlotType
  <1>12. CacheCoherent' /\ NoneReturned'
    BY <1>2, <1>3, EmptySlotType DEF CacheCoherent, NoneReturned
  <1>13. QED
    BY <1>5, <1>6, <1>7, <1>8, <1>9, <1>10, <1>11, <1>12

\* A slot that nobody reads or fills is emptied: eviction and purge.
LEMMA SlotEmptied ==
    ASSUME SlotsInv, NEW t \in Threads, NEW s \in Slots,
           NEW st \in Statuses \ {"CORRUPTION_DETECTED"},
           pc[t] = "idle",
           ReadersOf(s) = {}, slots[s].state # "FILLING", Put(s, EmptySlot),
           Return(t, st), UNCHANGED <<storage, pc, src, dst, want>>
    PROVE  SlotsInv'
  <1> USE DEF SlotsInv
  <1>1. /\ slots' \in [Slots -> SlotType]
        /\ slots'[s] = EmptySlot
        /\ \A x \in Slots : x # s => slots'[x] = slots[x]
    BY EmptySlotType, PutFacts DEF TypeOK
  <1>2. \A u \in Threads : src[u] # s /\ dst[u] # s
    BY DEF ReadersOf, FillingOwned
  <1>3. TypeOK' /\ NoneReturned'
    BY <1>1 DEF TypeOK, NoneReturned, Return
  <1>4. PcShape'
    BY DEF PcShape, TypeOK, Return
  <1>5. FillShape'
    BY <1>1, <1>2 DEF TypeOK, FillShape, PcShape
  <1>6. SlotShape' /\ PendingHasReader' /\ OneSlotPerId' /\ CacheCoherent'
    BY <1>1, EmptySlotType
       DEF SlotShape, PendingHasReader, OneSlotPerId, CacheCoherent
  <1>7. ReadersCounted'
    <2>1. slots[s].readers = 0
      BY FS_EmptySet DEF ReadersCounted
    <2>2. \A x \in Slots : slots'[x].readers = slots[x].readers
      BY <1>1, <2>1, EmptySlotType
    <2>3. QED BY <2>2 DEF ReadersCounted, ReadersOf
  <1>8. ReadersHoldKey'
    BY <1>1, <1>2 DEF ReadersHoldKey, TypeOK
  <1>9. FillingOwned'
    <2>1. \A x \in Slots :
            slots'[x].state = "FILLING" <=> slots[x].state = "FILLING"
      BY <1>1, EmptySlotType
    <2>2. QED BY <2>1, FillingKept
  <1>10. QED
    BY <1>3, <1>4, <1>5, <1>6, <1>7, <1>8, <1>9

LEMMA LoadFailsIs ==
    ASSUME SlotsInv, NEW t \in Threads, NEW k \in Ids, LoadFails(t, k)
    PROVE  \E s \in psa_reserve_free_key_slot(FALSE),
              st \in {"INVALID_HANDLE", "DATA_INVALID"} :
             Put(s, EmptySlot) /\ Return(t, st)
  <1>1. PICK s \in psa_reserve_free_key_slot(FALSE) :
            /\ Put(s, psa_wipe_key_slot(FillingSlot))
            /\ \E st \in {"INVALID_HANDLE", "DATA_INVALID"} :
                 Return(t, IF ReserveStatus(s) = "SUCCESS" THEN st ELSE ReserveStatus(s))
    BY DEF LoadFails
  <1>2. ReserveStatus(s) = "SUCCESS"
    BY ReserveSucceeds
  <1> QED
    BY <1>1, <1>2, WipeIsEmpty
LEMMA LoadFailsInv ==
    ASSUME SlotsInv, NEW t \in Threads, NEW k \in Ids, LoadFails(t, k)
    PROVE  SlotsInv'
  <1>1. PICK s \in psa_reserve_free_key_slot(FALSE),
             st \in {"INVALID_HANDLE", "DATA_INVALID"} :
            Put(s, EmptySlot) /\ Return(t, st)
    BY LoadFailsIs
  <1>2. /\ s \in Slots /\ ReadersOf(s) = {} /\ slots[s].state # "FILLING"
    BY ReserveFacts
  <1>4. pc[t] = "idle" /\ UNCHANGED <<storage, pc, src, dst, want>>
    BY DEF LoadFails
  <1>5. QED
    BY <1>1, <1>2, <1>4, SlotEmptied DEF Statuses

\* A thread registers on a slot that holds, or has just been given, a key.
LEMMA RegisterStep ==
    ASSUME SlotsInv, NEW t \in Threads, NEW s \in Slots, NEW r \in SlotType,
           NEW reading \in Readings, pc[t] = "idle",
           slots[s].state \in {"EMPTY", "FULL"},
           r.state = "FULL", r.readers = slots[s].readers + 1,
           r.key # NoKey, r.id # NoId,
           r.id \in UserIds \cup BuiltinIds => s \in Cache,
           r.id \in UserIds => r.key = storage[r.id] /\ r.life = "PERSISTENT",
           r.id \in BuiltinIds => r.key = BuiltinKey /\ r.life = "READ_ONLY",
           r.id \in VolatileIds => r.id = s /\ r.life = "VOLATILE",
           \A x \in Slots : x # s /\ slots[x].state = "FULL" => slots[x].id # r.id,
           Put(s, r), src' = [src EXCEPT ![t] = s],
           Goto(t, reading), Return(t, "NONE"), UNCHANGED <<storage, dst, want>>
    PROVE  SlotsInv'
  <1> USE DEF SlotsInv
  <1>1. /\ slots' \in [Slots -> SlotType]
        /\ slots'[s] = r
        /\ \A x \in Slots : x # s => slots'[x] = slots[x]
    BY PutFacts DEF TypeOK
  <1>2. /\ src[t] = NoSlot /\ dst[t] = NoSlot
        /\ \A u \in Threads : dst[u] # s
    BY DEF PcShape, FillingOwned
  <1>3. /\ src'[t] = s
        /\ \A u \in Threads : u # t => src'[u] = src[u]
    BY DEF TypeOK
  <1>4. TypeOK' /\ NoneReturned'
    BY <1>1 DEF TypeOK, NoneReturned, Return, Goto, Readings, Pcs, Statuses
  <1>5. PcShape'
    BY <1>2, SlotSets DEF PcShape, TypeOK, Goto, Return, Readings
  <1>6. FillShape'
    BY <1>1, <1>2 DEF TypeOK, FillShape, PcShape, Goto, Readings
  <1>7. SlotShape'
    BY <1>1 DEF SlotShape
  <1>8. PendingHasReader'
    <2>1. ASSUME NEW x \in Slots, slots'[x].state = "PENDING_DELETION"
          PROVE  \E u \in Threads : src'[u] = x
      <3>1. x # s /\ slots[x].state = "PENDING_DELETION"
        BY <1>1, <2>1
      <3>2. PICK u \in Threads : src[u] = x
        BY <3>1 DEF PendingHasReader
      <3>3. u # t
        BY <1>2, <3>2, SlotSets
      <3>4. QED BY <1>3, <3>2, <3>3
    <2>2. QED BY <2>1 DEF PendingHasReader
  <1>9. OneSlotPerId'
    <2>1. \A x \in Slots :
            x # s /\ slots'[x].state = "FULL" => slots'[x].id # slots'[s].id
      BY <1>1
    <2>2. QED BY <1>1, <2>1 DEF OneSlotPerId
  <1>10. CacheCoherent'
    BY <1>1 DEF CacheCoherent
  <1>11. ReadersCounted'
    <2>1. \A x \in Slots :
             Cardinality(ReadersOf(x)')
               = IF x = s THEN Cardinality(ReadersOf(x)) + 1
                 ELSE Cardinality(ReadersOf(x))
      BY <1>2, ReadersAdd
    <2>2. QED BY <1>1, <2>1 DEF ReadersCounted
  <1>12. ReadersHoldKey'
    BY <1>1, <1>3 DEF ReadersHoldKey, TypeOK
  <1>13. FillingOwned'
    <2>1. \A x \in Slots :
            slots'[x].state = "FILLING" <=> slots[x].state = "FILLING"
      BY <1>1
    <2>2. QED BY <2>1, FillingKept
  <1>14. QED
    BY <1>4, <1>5, <1>6, <1>7, <1>8, <1>9, <1>10, <1>11, <1>12, <1>13

LEMMA LockInMemoryInv ==
    ASSUME SlotsInv, NEW t \in Threads, NEW k \in Ids,
           NEW reading \in Readings, LockInMemory(t, k, reading)
    PROVE  SlotsInv'
  <1> USE DEF SlotsInv
  <1>1. PICK s \in Slots :
            /\ FirstInMemory(k, s)
            /\ Put(s, [slots[s] EXCEPT !.readers = @ + 1])
            /\ src' = [src EXCEPT ![t] = s]
    BY DEF LockInMemory
  <1> DEFINE r == [slots[s] EXCEPT !.readers = @ + 1]
  <1>2. slots[s] \in SlotType /\ slots[s].state = "FULL"
    BY <1>1 DEF FirstInMemory, InMemory, TypeOK
  <1>3. /\ r \in SlotType /\ r.state = "FULL" /\ r.readers = slots[s].readers + 1
        /\ r.id = slots[s].id /\ r.life = slots[s].life /\ r.key = slots[s].key
    BY <1>2 DEF SlotType
  <1>4. Put(s, r)
    BY <1>1
  <1> HIDE DEF r
  <1>5. /\ r.key # NoKey /\ r.id # NoId
        /\ r.id \in UserIds \cup BuiltinIds => s \in Cache
    BY <1>2, <1>3 DEF SlotShape
  <1>6. /\ r.id \in UserIds => r.key = storage[r.id] /\ r.life = "PERSISTENT"
        /\ r.id \in BuiltinIds => r.key = BuiltinKey /\ r.life = "READ_ONLY"
        /\ r.id \in VolatileIds => r.id = s /\ r.life = "VOLATILE"
    BY <1>2, <1>3 DEF CacheCoherent
  <1>7. \A x \in Slots : x # s /\ slots[x].state = "FULL" => slots[x].id # r.id
    BY <1>2, <1>3 DEF OneSlotPerId
  <1>8. /\ pc[t] = "idle" /\ Goto(t, reading) /\ Return(t, "NONE")
        /\ UNCHANGED <<storage, dst, want>>
    BY DEF LockInMemory
  <1>9. QED
    BY <1>1, <1>2, <1>3, <1>4, <1>5, <1>6, <1>7, <1>8, RegisterStep

LEMMA LoadAndLockInv ==
    ASSUME SlotsInv, NEW t \in Threads, NEW k \in Ids,
           NEW reading \in Readings, LoadAndLock(t, k, reading)
    PROVE  SlotsInv'
  <1> USE DEF SlotsInv
  <1>1. PICK s \in psa_reserve_free_key_slot(FALSE) :
            Put(s, LoadedSlot(k)) /\ src' = [src EXCEPT ![t] = s]
    BY DEF LoadAndLock
  <1>2. /\ s \in Slots /\ s \in Cache /\ slots[s].state \in {"EMPTY", "FULL"}
        /\ slots[s].readers = 0
    BY ReserveFacts
  <1> DEFINE r == LoadedSlot(k)
  <1>3. k \in UserIds \cup BuiltinIds /\ (k \in UserIds => storage[k] # NoKey)
    BY IdKinds DEF LoadAndLock, Loadable
  <1>4. /\ r \in SlotType /\ r.state = "FULL" /\ r.readers = 1 /\ r.id = k
        /\ r.life = IF k \in BuiltinIds THEN "READ_ONLY" ELSE "PERSISTENT"
        /\ r.key = IF k \in BuiltinIds THEN BuiltinKey ELSE storage[k]
    BY <1>3 DEF LoadedSlot, SlotType, SlotStates, Lifetimes, Ids, TypeOK
  <1> HIDE DEF r
  <1>5. r.key # NoKey /\ r.id # NoId
    BY <1>3, <1>4, KeyStoreAssumption
  <1>6. /\ r.id \in UserIds => r.key = storage[r.id] /\ r.life = "PERSISTENT"
        /\ r.id \in BuiltinIds => r.key = BuiltinKey /\ r.life = "READ_ONLY"
        /\ r.id \notin VolatileIds
    BY <1>3, <1>4, IdKinds
  <1>7. \A x \in Slots : x # s /\ slots[x].state = "FULL" => slots[x].id # r.id
    <2>1. SearchedFor(k) = Cache /\ InMemory(k) = {}
      BY <1>3, IdKinds DEF LoadAndLock, SearchedFor
    <2>2. QED BY <1>3, <1>4, <2>1 DEF InMemory, SlotShape
  <1>8. /\ pc[t] = "idle" /\ Goto(t, reading) /\ Return(t, "NONE")
        /\ UNCHANGED <<storage, dst, want>>
    BY DEF LoadAndLock
  <1>9. Put(s, r)
    BY <1>1 DEF r
  <1>10. r.readers = slots[s].readers + 1
    BY <1>2, <1>4
  <1>11. QED
    BY <1>1, <1>2, <1>4, <1>5, <1>6, <1>7, <1>8, <1>9, <1>10, RegisterStep

\* What psa_unregister_read() does to a slot with a registered reader.
LEMMA UnregisterFacts ==
    ASSUME NEW r \in SlotType, r.state \in {"FULL", "PENDING_DELETION"},
           r.readers # 0
    PROVE  /\ UnregisterStatus(r) = "SUCCESS"
           /\ Unregistered(r) \in SlotType
           /\ r.state = "PENDING_DELETION" /\ r.readers = 1 =>
                Unregistered(r) = EmptySlot
           /\ ~(r.state = "PENDING_DELETION" /\ r.readers = 1) =>
                /\ Unregistered(r).state = r.state
                /\ Unregistered(r).readers = r.readers - 1
                /\ Unregistered(r).id = r.id
                /\ Unregistered(r).life = r.life
                /\ Unregistered(r).key = r.key
  <1>1. r.readers \in Nat \ {0}
    BY DEF SlotType
  <1>2. UnregisterStatus(r) = "SUCCESS"
    BY <1>1 DEF UnregisterStatus, LastReader, WipeStatus
  <1>3. CASE r.state = "PENDING_DELETION" /\ r.readers = 1
    BY <1>2, <1>3, EmptySlotType DEF Unregistered, LastReader, psa_wipe_key_slot
  <1>4. CASE ~(r.state = "PENDING_DELETION" /\ r.readers = 1)
    <2> DEFINE q == [r EXCEPT !.readers = @ - 1]
    <2>1. Unregistered(r) = q
      BY <1>2, <1>4 DEF Unregistered, LastReader
    <2>2. /\ q \in SlotType /\ q.state = r.state /\ q.readers = r.readers - 1
          /\ q.id = r.id /\ q.life = r.life /\ q.key = r.key
      BY <1>1 DEF SlotType
    <2>3. QED BY <1>2, <1>4, <2>1, <2>2
  <1>5. QED BY <1>3, <1>4

\* A registered thread leaves its slot, which it may have marked for deletion
\* (r is the contents it unregisters from), and its call returns.
LEMMA UnregisterStep ==
    ASSUME SlotsInv, NEW t \in Threads, NEW s \in Slots,
           NEW r \in SlotType, src[t] = s,
           NEW st \in Statuses \ {"CORRUPTION_DETECTED"},
           pc[t] \in {"release", "destroying"},
           r.state \in {slots[s].state, "PENDING_DELETION"},
           r.readers = slots[s].readers, r.id = slots[s].id,
           r.life = slots[s].life, r.key = slots[s].key,
           storage' \in [UserIds -> Materials \cup {BuiltinKey, NoKey}],
           \A k \in UserIds : storage'[k] # storage[k] =>
               k = r.id /\ r.state = "PENDING_DELETION"
               /\ slots[s].state = "FULL",
           Put(s, Unregistered(r)), src' = [src EXCEPT ![t] = NoSlot],
           Goto(t, "idle"), Return(t, st), UNCHANGED <<dst, want>>
    PROVE  SlotsInv'
  <1> USE DEF SlotsInv
  <1> DEFINE q == Unregistered(r)
  <1>1. /\ s \in Slots /\ dst[t] = NoSlot /\ slots[s] \in SlotType
        /\ slots[s].state \in {"FULL", "PENDING_DELETION"}
        /\ slots[s].key # NoKey
    BY DEF PcShape, TypeOK, ReadersHoldKey
  <1>2. /\ \A x \in Slots \ {s} : ReadersOf(x)' = ReadersOf(x)
        /\ ReadersOf(s)' = ReadersOf(s) \ {t}
        /\ Cardinality(ReadersOf(s)) \in Nat \ {0}
        /\ Cardinality(ReadersOf(s)') = Cardinality(ReadersOf(s)) - 1
    BY <1>1, ReadersDrop
  <1>3. r.readers = Cardinality(ReadersOf(s)) /\ r.readers \in Nat \ {0}
        /\ r.state \in {"FULL", "PENDING_DELETION"}
    BY <1>1, <1>2 DEF ReadersCounted
  <1>4. /\ q \in SlotType
        /\ r.state = "PENDING_DELETION" /\ r.readers = 1 => q = EmptySlot
        /\ ~(r.state = "PENDING_DELETION" /\ r.readers = 1) =>
             /\ q.state = r.state /\ q.readers = r.readers - 1
             /\ q.id = r.id /\ q.life = r.life /\ q.key = r.key
    BY <1>3, UnregisterFacts
  <1> HIDE DEF q
  <1>5. /\ slots' \in [Slots -> SlotType]
        /\ slots'[s] = q
        /\ \A x \in Slots : x # s => slots'[x] = slots[x]
    BY <1>1, <1>4, PutFacts DEF TypeOK, q
  <1>6. /\ src'[t] = NoSlot
        /\ \A u \in Threads : u # t => src'[u] = src[u]
    BY DEF TypeOK
  <1>7. q.state # "FILLING" /\ (q.state = "FULL" => r.state = "FULL")
        /\ q.readers = r.readers - 1
    BY <1>3, <1>4, EmptySlotType
  <1>8. TypeOK' /\ NoneReturned'
    BY <1>5 DEF TypeOK, NoneReturned, Return, Goto, Pcs
  <1>9. PcShape'
    BY <1>1, <1>6 DEF PcShape, TypeOK, Goto, Return
  <1>10. FillShape'
    <2>1. \A u \in Threads : dst[u] # s
      BY <1>1 DEF FillingOwned
    <2>2. QED
      BY <1>5, <2>1 DEF TypeOK, FillShape, PcShape, Goto
  <1>11. SlotShape'
    <2>1. q.state \in {"FULL", "PENDING_DELETION"} =>
            /\ q.key # NoKey /\ q.id # NoId
            /\ q.id \in UserIds \cup BuiltinIds => s \in Cache
      BY <1>1, <1>4, EmptySlotType DEF SlotShape
    <2>2. QED BY <1>5, <2>1 DEF SlotShape
  <1>12. ReadersCounted'
    <2>1. ASSUME NEW x \in Slots
          PROVE  slots'[x].readers = Cardinality(ReadersOf(x)')
      <3>1. CASE x = s
        BY <1>2, <1>3, <1>5, <1>7, <3>1
      <3>2. CASE x # s
        BY <1>2, <1>5, <3>2 DEF ReadersCounted
      <3>3. QED BY <3>1, <3>2
    <2>2. QED BY <2>1 DEF ReadersCounted
  <1>13. ReadersHoldKey'
    <2>1. ASSUME NEW u \in Threads, u # t, src[u] = s
          PROVE  q.state \in {"FULL", "PENDING_DELETION"} /\ q.key # NoKey
      <3>1. Cardinality(ReadersOf(s)') # 0
        <4>1. u \in ReadersOf(s)'
          BY <1>2, <2>1 DEF ReadersOf
        <4>2. IsFiniteSet(ReadersOf(s)')
          BY KeyStoreAssumption, FS_Subset DEF ReadersOf
        <4>3. QED BY <4>1, <4>2, FS_EmptySet
      <3>2. r.readers # 1
        BY <1>2, <1>3, <3>1
      <3>3. QED BY <1>1, <1>3, <1>4, <3>2
    <2>2. QED BY <1>5, <1>6, <2>1 DEF ReadersHoldKey, TypeOK
  <1>14. FillingOwned'
    <2>1. \A x \in Slots :
            slots'[x].state = "FILLING" <=> slots[x].state = "FILLING"
      BY <1>1, <1>5, <1>7
    <2>2. QED BY <2>1, FillingKept
  <1>15. PendingHasReader'
    <2>1. ASSUME NEW x \in Slots, slots'[x].state = "PENDING_DELETION"
          PROVE  \E u \in Threads : src'[u] = x
      <3>1. CASE x = s
        <4>1. r.readers # 1
          BY <1>3, <1>4, <1>5, <2>1, <3>1, EmptySlotType
        <4>2. Cardinality(ReadersOf(s)') # 0
          BY <1>2, <1>3, <4>1
        <4>3. ReadersOf(s)' # {}
          BY <4>2, FS_EmptySet
        <4>4. QED BY <3>1, <4>3, <1>2, <1>6 DEF ReadersOf
      <3>2. CASE x # s
        BY <1>5, <1>6, <2>1, <3>2 DEF PendingHasReader
      <3>3. QED BY <3>1, <3>2
    <2>2. QED BY <2>1 DEF PendingHasReader
  <1>16. OneSlotPerId'
    <2>1. q.state = "FULL" => q.id = slots[s].id /\ slots[s].state = "FULL"
      BY <1>1, <1>4, <1>7, EmptySlotType
    <2>2. QED BY <1>5, <2>1 DEF OneSlotPerId
  <1>17. CacheCoherent'
    <2>1. ASSUME NEW x \in Slots, slots'[x].state = "FULL"
          PROVE  /\ slots[x].state = "FULL"
                 /\ slots'[x].id = slots[x].id /\ slots'[x].key = slots[x].key
                 /\ slots'[x].life = slots[x].life
                 /\ slots[x].id \in UserIds =>
                      storage'[slots[x].id] = storage[slots[x].id]
      <3>1. CASE x = s
        BY <1>1, <1>4, <1>5, <1>7, <2>1, <3>1, EmptySlotType
      <3>2. CASE x # s
        BY <1>1, <1>5, <2>1, <3>2 DEF OneSlotPerId
      <3>3. QED BY <3>1, <3>2
    <2>2. QED BY <2>1 DEF CacheCoherent
  <1>18. QED
    BY <1>8, <1>9, <1>10, <1>11, <1>12, <1>13, <1>14, <1>15, <1>16, <1>17

LEMMA ReleaseInv ==
    ASSUME SlotsInv, NEW t \in Threads, Release(t)
    PROVE  SlotsInv'
  <1> USE DEF SlotsInv
  <1>1. PICK s \in Slots : src[t] = s
    BY DEF Release, PcShape, TypeOK
  <1>2. slots[s] \in SlotType /\ slots[s].state \in {"FULL", "PENDING_DELETION"}
        /\ slots[s].readers # 0
    <2>1. Cardinality(ReadersOf(s)) # 0
      BY <1>1, KeyStoreAssumption, FS_Subset, FS_EmptySet DEF ReadersOf
    <2>2. QED BY <1>1, <2>1, SlotSets DEF TypeOK, ReadersHoldKey, ReadersCounted
  <1> DEFINE st == IF ret[t] = "SUCCESS" THEN UnregisterStatus(slots[s]) ELSE ret[t]
  <1>3. st \in Statuses \ {"CORRUPTION_DETECTED"} /\ Return(t, st)
    BY <1>1, <1>2, UnregisterFacts DEF TypeOK, NoneReturned, Release, Statuses
  <1>4. /\ pc[t] = "release" /\ Put(s, Unregistered(slots[s]))
        /\ src' = [src EXCEPT ![t] = NoSlot] /\ Goto(t, "idle")
        /\ storage' = storage /\ UNCHANGED <<dst, want>>
    BY <1>1 DEF Release
  <1> HIDE DEF st
  <1>5. storage' \in [UserIds -> Materials \cup {BuiltinKey, NoKey}]
    BY <1>4 DEF TypeOK
  <1>6. QED
    BY <1>1, <1>2, <1>3, <1>4, <1>5, UnregisterStep

LEMMA DestroyLostInv ==
    ASSUME SlotsInv, NEW t \in Threads, DestroyLost(t)
    PROVE  SlotsInv'
  <1> USE DEF SlotsInv
  <1>1. PICK s \in Slots : src[t] = s
    BY DEF DestroyLost, PcShape, TypeOK
  <1>2. slots[s] \in SlotType /\ slots[s].state = "PENDING_DELETION"
        /\ slots[s].readers # 0
    <2>1. Cardinality(ReadersOf(s)) # 0
      BY <1>1, KeyStoreAssumption, FS_Subset, FS_EmptySet DEF ReadersOf
    <2>2. QED BY <1>1, <2>1 DEF TypeOK, ReadersCounted, DestroyLost, DestroyedByOther
  <1>3. Return(t, "INVALID_HANDLE")
    BY <1>1, <1>2, UnregisterFacts DEF DestroyLost
  <1>4. /\ pc[t] = "destroying" /\ Put(s, Unregistered(slots[s]))
        /\ src' = [src EXCEPT ![t] = NoSlot] /\ Goto(t, "idle")
        /\ storage' = storage /\ UNCHANGED <<dst, want>>
    BY <1>1 DEF DestroyLost
  <1>5. storage' \in [UserIds -> Materials \cup {BuiltinKey, NoKey}]
    BY <1>4 DEF TypeOK
  <1>6. "INVALID_HANDLE" \in Statuses \ {"CORRUPTION_DETECTED"}
    BY DEF Statuses
  <1>7. QED
    BY <1>1, <1>2, <1>3, <1>4, <1>5, <1>6, UnregisterStep

\* What the removal of a persistent key does to storage.
LEMMA RemovalFacts ==
    ASSUME TypeOK, NEW k \in UserIds, NEW removal \in psa_destroy_persistent_key(k)
    PROVE  /\ removal.status \in {"SUCCESS", "DATA_INVALID"}
           /\ removal.disk \in [UserIds -> Materials \cup {BuiltinKey, NoKey}]
           /\ \A j \in UserIds : removal.disk[j] # storage[j] => j = k
           /\ removal.status = "SUCCESS" => removal.disk[k] = NoKey
  <1> DEFINE removed == [storage EXCEPT ![k] = NoKey]
  <1>1. /\ removed \in [UserIds -> Materials \cup {BuiltinKey, NoKey}]
        /\ removed[k] = NoKey
        /\ \A j \in UserIds : j # k => removed[j] = storage[j]
    BY DEF TypeOK
  <1>2. \/ removal.disk = storage /\ storage[k] = NoKey
             /\ removal.status \in {"SUCCESS", "DATA_INVALID"}
        \/ removal.disk = storage /\ removal.status = "DATA_INVALID"
        \/ removal.disk = removed /\ removal.status \in {"SUCCESS", "DATA_INVALID"}
    BY DEF psa_destroy_persistent_key
  <1>3. QED
    BY <1>1, <1>2 DEF TypeOK

LEMMA DestroyKeyInv ==
    ASSUME SlotsInv, NEW t \in Threads, DestroyKey(t)
    PROVE  SlotsInv'
  <1> USE DEF SlotsInv
  <1>1. PICK s \in Slots : src[t] = s
    BY DEF DestroyKey, PcShape, TypeOK
  <1>2. /\ slots[s] \in SlotType /\ slots[s].state = "FULL"
        /\ slots[s].readers # 0 /\ slots[s].readers \in Nat
    <2>1. Cardinality(ReadersOf(s)) # 0
      BY <1>1, KeyStoreAssumption, FS_Subset, FS_EmptySet DEF ReadersOf
    <2>2. QED
      BY <1>1, <2>1, SlotSets
         DEF TypeOK, ReadersCounted, ReadersHoldKey, DestroyKey, DestroyedByOther, SlotType
  <1> DEFINE r == [slots[s] EXCEPT !.state = "PENDING_DELETION"]
  <1>3. /\ r \in SlotType /\ r.state = "PENDING_DELETION"
        /\ r.readers = slots[s].readers /\ r.id = slots[s].id
        /\ r.life = slots[s].life /\ r.key = slots[s].key
    BY <1>2 DEF SlotType, SlotStates
  <1>4. UnregisterStatus(r) = "SUCCESS"
    BY <1>2, <1>3, UnregisterFacts
  <1>5. PICK removal \in
            CASE slots[s].state # "FULL" ->
                   {[disk |-> storage, status |-> "CORRUPTION_DETECTED"]}
              [] slots[s].state = "FULL" /\ slots[s].life = "READ_ONLY" ->
                   {[disk |-> storage, status |-> "NOT_PERMITTED"]}
              [] slots[s].state = "FULL" /\ slots[s].life = "VOLATILE" ->
                   {[disk |-> storage, status |-> "SUCCESS"]}
              [] slots[s].state = "FULL" /\ slots[s].life = "PERSISTENT" ->
                   psa_destroy_persistent_key(slots[s].id) :
          storage' = removal.disk /\ Return(t, removal.status)
    BY <1>1, <1>2, <1>4 DEF DestroyKey
  <1>6. /\ storage' \in [UserIds -> Materials \cup {BuiltinKey, NoKey}]
        /\ \A k \in UserIds : storage'[k] # storage[k] => k = r.id
        /\ removal.status \in Statuses \ {"CORRUPTION_DETECTED"}
    <2>1. CASE slots[s].life = "READ_ONLY"
      BY <1>2, <1>5, <2>1 DEF TypeOK, Statuses
    <2>2. CASE slots[s].life = "VOLATILE"
      BY <1>2, <1>5, <2>2 DEF TypeOK, Statuses
    <2>3. CASE slots[s].life = "PERSISTENT"
      <3>1. slots[s].id \in UserIds
        BY <1>2, <2>3 DEF CacheCoherent, SlotShape, SlotType, Ids
      <3>2. removal \in psa_destroy_persistent_key(slots[s].id)
        BY <1>2, <1>5, <2>3
      <3>3. QED BY <1>3, <1>5, <3>1, <3>2, RemovalFacts DEF Statuses
    <2>4. QED BY <1>2, <2>1, <2>2, <2>3 DEF SlotType, Lifetimes
  <1>7. /\ pc[t] = "destroying" /\ Put(s, Unregistered(r))
        /\ src' = [src EXCEPT ![t] = NoSlot] /\ Goto(t, "idle")
        /\ UNCHANGED <<dst, want>>
    BY <1>1, <1>2 DEF DestroyKey
  <1> HIDE DEF r
  <1>8. QED
    BY <1>1, <1>2, <1>3, <1>5, <1>6, <1>7, UnregisterStep

\* Registering and unregistering again leaves a slot as it was.
LEMMA PurgedFacts ==
    ASSUME NEW r \in SlotType, r.state = "FULL"
    PROVE  /\ PurgeStatus(r) = "SUCCESS"
           /\ \/ Purged(r) = EmptySlot /\ r.readers = 0 /\ r.life # "VOLATILE"
              \/ Purged(r) = r
  <1> DEFINE g == [r EXCEPT !.readers = @ + 1]
  <1>1. /\ r.readers \in Nat
        /\ g \in SlotType /\ g.state = "FULL" /\ g.readers = r.readers + 1
        /\ g.life = r.life /\ g.id = r.id /\ g.key = r.key
    BY DEF SlotType
  <1>2. CASE g.life # "VOLATILE" /\ g.readers = 1
    <2>1. PurgeStatus(r) = WipeStatus(g)
      BY <1>2 DEF PurgeStatus
    <2>2. Purged(r) = EmptySlot
      BY <1>2 DEF Purged, psa_wipe_key_slot
    <2> HIDE DEF g
    <2>3. WipeStatus(g) = "SUCCESS"
      BY <1>1, <1>2 DEF WipeStatus
    <2> QED
      BY <1>1, <1>2, <2>1, <2>2, <2>3
  <1>3. CASE ~(g.life # "VOLATILE" /\ g.readers = 1)
    <2>1. Purged(r) = Unregistered(g)
      BY <1>3 DEF Purged
    <2>2. UnregisterStatus(g) = "SUCCESS"
      BY <1>1 DEF UnregisterStatus, LastReader
    <2>6. PurgeStatus(r) = UnregisterStatus(g)
      BY <1>3 DEF PurgeStatus
    <2>3. Unregistered(g) = [g EXCEPT !.readers = @ - 1]
      BY <1>1, <2>2 DEF Unregistered, LastReader
    <2> HIDE DEF g
    <2> DEFINE q == [g EXCEPT !.readers = @ - 1]
    <2>4. q = r
      <3>1. /\ q \in SlotType /\ q.state = r.state /\ q.readers = r.readers
            /\ q.id = r.id /\ q.life = r.life /\ q.key = r.key
        BY <1>1 DEF SlotType
      <3> HIDE DEF q
      <3>2. \A x \in SlotType :
              x = [state |-> x.state, readers |-> x.readers, id |-> x.id,
                   life |-> x.life, key |-> x.key]
        BY DEF SlotType
      <3>3. QED BY <3>1, <3>2
    <2>5. QED BY <2>1, <2>2, <2>3, <2>4, <2>6
  <1>4. QED BY <1>2, <1>3

LEMMA PurgeKeyInv ==
    ASSUME SlotsInv, NEW t \in Threads, NEW k \in Ids, PurgeKey(t, k)
    PROVE  SlotsInv'
  <1> USE DEF SlotsInv
  <1>1. /\ pc[t] = "idle" /\ src[t] = NoSlot /\ dst[t] = NoSlot
        /\ pc' = [pc EXCEPT ![t] = "idle"]
        /\ UNCHANGED <<storage, pc, src, dst, want>>
    BY DEF PurgeKey, PcShape, TypeOK
  <1>2. CASE Return(t, "DOES_NOT_EXIST") /\ UNCHANGED slots
    BY <1>1, <1>2, ControlStep DEF Return, Statuses, Pcs
  <1>3. ASSUME NEW s \in Slots, FirstInMemory(k, s), Put(s, Purged(slots[s])),
               Return(t, PurgeStatus(slots[s]))
        PROVE  SlotsInv'
    <2>1. slots[s] \in SlotType /\ slots[s].state = "FULL"
      BY <1>3 DEF FirstInMemory, InMemory, TypeOK
    <2>5. Return(t, "SUCCESS")
      BY <1>3, <2>1, PurgedFacts
    <2>2. CASE Purged(slots[s]) = EmptySlot /\ slots[s].readers = 0
      <3>1. ReadersOf(s) = {}
        BY <2>2, KeyStoreAssumption, FS_Subset, FS_EmptySet DEF ReadersCounted, ReadersOf
      <3>2. QED BY <1>1, <1>3, <2>1, <2>2, <2>5, <3>1, SlotEmptied DEF Statuses
    <2>3. CASE Purged(slots[s]) = slots[s]
      <3>1. slots' = slots
        BY <1>3, <2>3 DEF Put, TypeOK
      <3>2. QED BY <1>1, <2>5, <3>1, ControlStep DEF Return, Statuses, Pcs
    <2>4. QED BY <2>1, <2>2, <2>3, PurgedFacts
  <1>4. QED
    BY <1>2, <1>3 DEF PurgeKey

\* A key store with no key in memory satisfies the invariant, whatever is in
\* storage: the initial state and the state after a restart.
LEMMA FreshInv ==
    ASSUME slots = [s \in Slots |-> EmptySlot],
           storage \in [UserIds -> Materials \cup {BuiltinKey, NoKey}],
           pc = [t \in Threads |-> "idle"], src = [t \in Threads |-> NoSlot],
           dst = [t \in Threads |-> NoSlot], want = [t \in Threads |-> NoId],
           ret = [t \in Threads |-> "NONE"]
    PROVE  SlotsInv
  <1>1. TypeOK
    BY EmptySlotType DEF TypeOK, Pcs, Statuses
  <1>2. PcShape /\ FillShape /\ ReadersHoldKey /\ NoneReturned
    BY DEF PcShape, FillShape, ReadersHoldKey, NoneReturned
  <1>3. SlotShape /\ PendingHasReader /\ OneSlotPerId /\ CacheCoherent
    BY EmptySlotType DEF SlotShape, PendingHasReader, OneSlotPerId, CacheCoherent
  <1>4. FillingOwned
    BY EmptySlotType, SlotSets DEF FillingOwned
  <1>5. ReadersCounted
    <2>1. \A s \in Slots : ReadersOf(s) = {}
      BY SlotSets DEF ReadersOf
    <2>2. QED BY <2>1, EmptySlotType, FS_EmptySet DEF ReadersCounted
  <1>6. QED BY <1>1, <1>2, <1>3, <1>4, <1>5 DEF SlotsInv

LEMMA InitInv == Init => SlotsInv
  BY FreshInv DEF Init

LEMMA ForgetMemoryInv ==
    ASSUME SlotsInv, ForgetMemory
    PROVE  SlotsInv'
  <1> USE DEF SlotsInv
  <1>1. TypeOK'
    BY EmptySlotType DEF ForgetMemory, TypeOK, Pcs, Statuses
  <1>2. PcShape' /\ FillShape' /\ ReadersHoldKey' /\ NoneReturned'
    BY DEF ForgetMemory, PcShape, FillShape, ReadersHoldKey, NoneReturned
  <1>3. SlotShape' /\ PendingHasReader' /\ OneSlotPerId' /\ CacheCoherent'
    BY EmptySlotType
       DEF ForgetMemory, SlotShape, PendingHasReader, OneSlotPerId, CacheCoherent
  <1>4. FillingOwned'
    BY EmptySlotType, SlotSets DEF ForgetMemory, FillingOwned
  <1>5. ReadersCounted'
    <2>1. \A s \in Slots : ReadersOf(s)' = {}
      BY SlotSets DEF ForgetMemory, ReadersOf
    <2>2. QED BY <2>1, EmptySlotType, FS_EmptySet DEF ForgetMemory, ReadersCounted
  <1>6. QED BY <1>1, <1>2, <1>3, <1>4, <1>5

-----------------------------------------------------------------------------
(* The theorems.                                                           *)

\* Every step of the key store preserves the inductive invariant.
THEOREM InvInductive == SlotsInv /\ [Next]_vars => SlotsInv'
  <1> SUFFICES ASSUME SlotsInv, [Next]_vars PROVE SlotsInv'
    OBVIOUS
  <1>1. ASSUME NEW t \in Threads, Call(t) PROVE SlotsInv'
    BY <1>1, StartCreationInv, StartCreationFailsInv, LockInMemoryInv,
       LoadAndLockInv, LoadFailsInv, LoadHasNoSlotInv, PurgeKeyInv DEF Call
  <1>2. ASSUME NEW t \in Threads, Continue(t) PROVE SlotsInv'
    BY <1>2, StartCreationInv, StartCreationFailsInv, SetAttributesInv,
       FillSlotInv, FillFailsInv, FinishCreationInv, FailCreationInv,
       ReadKeyInv, ReleaseInv, DestroyLostInv, DestroyKeyInv DEF Continue
  <1>3. CASE psa_wipe_all_key_slots \/ Crash
    BY <1>3, ForgetMemoryInv DEF psa_wipe_all_key_slots, Crash
  <1>4. CASE UNCHANGED vars
    BY <1>4 DEF vars, SlotsInv, TypeOK, PcShape, FillShape, SlotShape,
       ReadersCounted, ReadersOf, ReadersHoldKey, FillingOwned,
       PendingHasReader, OneSlotPerId, CacheCoherent, NoneReturned
  <1>5. QED
    BY <1>1, <1>2, <1>3, <1>4 DEF Next

\* The invariant of every reachable state that the steps are looked at in.
LEMMA SlotsAlways == Spec => []SlotsInv
  BY InitInv, InvInductive, PTL DEF Spec

\* In every reachable state of the key store, for any number of threads, keys
\* and slots: the reader counts are exact, no slot is wiped or reused below a
\* reader, slots being filled have one owner, no slot is leaked in
\* PENDING_DELETION, identifiers are unique, cached keys agree with storage,
\* and no consistency check of the code fails.
THEOREM KeyStoreSafe == Spec => []KeyStoreInv
  BY SlotsAlways, OwnSlotWiped, PTL

\* The slots, the files and the threads are always in the states the code names.
THEOREM KeyStoreTyped == Spec => []TypeOK
<1>1. KeyStoreInv => TypeOK
  BY DEF KeyStoreInv
<1> QED
  BY <1>1, KeyStoreSafe, PTL

\* registered_readers of a slot is the number of threads that will unregister.
THEOREM ReadersAreCounted == Spec => []ReadersCounted
<1>1. KeyStoreInv => ReadersCounted
  BY DEF KeyStoreInv
<1> QED
  BY <1>1, KeyStoreSafe, PTL

\* No slot is wiped, evicted or given away under a reader.
THEOREM ReadersKeepTheirKey == Spec => []ReadersHoldKey
<1>1. KeyStoreInv => ReadersHoldKey
  BY DEF KeyStoreInv
<1> QED
  BY <1>1, KeyStoreSafe, PTL

\* A slot that is being filled belongs to the one call that fills it.
THEOREM FillingHasOneOwner == Spec => []FillingOwned
<1>1. KeyStoreInv => FillingOwned
  BY DEF KeyStoreInv
<1> QED
  BY <1>1, KeyStoreSafe, PTL

\* A slot that waits for its deletion has a reader, who will wipe it.
THEOREM DeletedKeyHasReader == Spec => []PendingHasReader
<1>1. KeyStoreInv => PendingHasReader
  BY DEF KeyStoreInv
<1> QED
  BY <1>1, KeyStoreSafe, PTL

\* No two slots offer one persistent identifier.
THEOREM IdentifiersAreUnique == Spec => []OneSlotPerId
<1>1. KeyStoreInv => OneSlotPerId
  BY DEF KeyStoreInv
<1> QED
  BY <1>1, KeyStoreSafe, PTL

\* A persistent key in memory is the key in its file.
THEOREM CacheIsCoherent == Spec => []CacheCoherent
<1>1. KeyStoreInv => CacheCoherent
  BY DEF KeyStoreInv
<1> QED
  BY <1>1, KeyStoreSafe, PTL

\* No consistency check of the slot manager fails.
THEOREM ChecksNeverFail == Spec => []NoCorruption
<1>1. KeyStoreInv => NoCorruption
  BY DEF KeyStoreInv
<1> QED
  BY <1>1, KeyStoreSafe, PTL

-----------------------------------------------------------------------------
(* What a step does to the keys that the application sees. The action      *)
(* properties of the key store and its refinement of KeyStoreAbs follow    *)
(* from one statement about every action, StepSafe, made in a state of the *)
(* inductive invariant.                                                    *)

\* The bodies of the action properties ReadsAreStable, DestroyIsFinal and
\* VolatileKeysStay.
ReadsKept ==
    \A t \in Threads : src[t] # NoSlot /\ src'[t] = src[t] =>
          /\ slots'[src[t]].key = slots[src[t]].key
          /\ slots'[src[t]].id = slots[src[t]].id

Destroyed ==
    \A t \in Threads, k \in Ids :
          /\ pc[t] = "destroying"
          /\ slots[src[t]].id = k
          /\ ret'[t] = "SUCCESS"
          => ~Exists(k)'

VolatileKept ==
    \A s \in Slots :
          /\ slots[s].state = "FULL"
          /\ slots[s].life = "VOLATILE"
          /\ slots'[s] # [slots[s] EXCEPT !.readers = slots'[s].readers]
          => \/ \E t \in Threads : pc[t] = "destroying" /\ src[t] = s
                                  /\ pc'[t] = "idle"
             \/ \A t \in Threads : pc'[t] = "idle" /\ ret'[t] = "NONE"

AbsStep == Abs!Next \/ UNCHANGED <<AbsKeys, AbsHandle>>

StepSafe == ReadsKept /\ Destroyed /\ VolatileKept /\ AbsStep

\* A volatile key is offered by the slot its identifier names.
Offers(k) == slots[k].state = "FULL" /\ slots[k].id = k

\* The abstract map of keys and the abstract handles, case by case.
LEMMA AbsKeysAt ==
    /\ AbsKeys = [k \in Ids |-> AbsKeys[k]]
    /\ \A k \in UserIds : AbsKeys[k] = storage[k]
    /\ \A k \in BuiltinIds : AbsKeys[k] = BuiltinKey
    /\ \A k \in VolatileIds :
         AbsKeys[k] = IF Offers(k) THEN slots[k].key ELSE NoKey
  <1>1. AbsKeys = [k \in Ids |-> AbsKeys[k]]
    <2> DEFINE Key(k) ==
          CASE k \in UserIds -> storage[k]
            [] k \in BuiltinIds -> BuiltinKey
            [] k \in VolatileIds -> IF InMemory(k) # {} THEN slots[k].key ELSE NoKey
    <2>1. AbsKeys = [k \in Ids |-> Key(k)]
      BY DEF AbsKeys
    <2> HIDE DEF Key
    <2>2. QED BY <2>1
  <1>2. /\ \A k \in UserIds : AbsKeys[k] = storage[k]
        /\ \A k \in BuiltinIds : AbsKeys[k] = BuiltinKey
    BY IdKinds DEF AbsKeys, Ids
  <1>3. ASSUME NEW k \in VolatileIds
        PROVE  AbsKeys[k] = IF Offers(k) THEN slots[k].key ELSE NoKey
    <2>1. InMemory(k) # {} <=> Offers(k)
      BY DEF InMemory, SearchedFor, Offers
    <2>2. k \in Ids /\ k \notin UserIds /\ k \notin BuiltinIds
      BY IdKinds DEF Ids
    <2>3. QED BY <2>1, <2>2 DEF AbsKeys
  <1>4. QED BY <1>1, <1>2, <1>3

\* The same in the next state.
LEMMA AbsKeysAtNext ==
    /\ AbsKeys' = [k \in Ids |-> AbsKeys'[k]]
    /\ \A k \in UserIds : AbsKeys'[k] = storage'[k]
    /\ \A k \in BuiltinIds : AbsKeys'[k] = BuiltinKey
    /\ \A k \in VolatileIds :
         AbsKeys'[k] = IF Offers(k)' THEN slots'[k].key ELSE NoKey
  <1>1. AbsKeys' = [k \in Ids |-> AbsKeys'[k]]
    <2> DEFINE Key(k) ==
          CASE k \in UserIds -> storage'[k]
            [] k \in BuiltinIds -> BuiltinKey
            [] k \in VolatileIds -> IF InMemory(k)' # {} THEN slots'[k].key ELSE NoKey
    <2>1. AbsKeys' = [k \in Ids |-> Key(k)]
      BY DEF AbsKeys
    <2> HIDE DEF Key
    <2>2. QED BY <2>1
  <1>2. /\ \A k \in UserIds : AbsKeys'[k] = storage'[k]
        /\ \A k \in BuiltinIds : AbsKeys'[k] = BuiltinKey
    BY IdKinds DEF AbsKeys, Ids
  <1>3. ASSUME NEW k \in VolatileIds
        PROVE  AbsKeys'[k] = IF Offers(k)' THEN slots'[k].key ELSE NoKey
    <2>1. InMemory(k)' # {} <=> Offers(k)'
      BY DEF InMemory, SearchedFor, Offers
    <2>2. k \in Ids /\ k \notin UserIds /\ k \notin BuiltinIds
      BY IdKinds DEF Ids
    <2>3. QED BY <2>1, <2>2 DEF AbsKeys
  <1>4. QED BY <1>1, <1>2, <1>3

\* The application sees no difference when storage is untouched and the slots of
\* the volatile keys offer what they did.
LEMMA KeysUnchanged ==
    ASSUME storage' = storage,
           \A k \in VolatileIds : /\ Offers(k)' <=> Offers(k)
                                  /\ Offers(k) => slots'[k].key = slots[k].key
    PROVE  AbsKeys' = AbsKeys
  <1>1. ASSUME NEW k \in Ids PROVE AbsKeys'[k] = AbsKeys[k]
    BY AbsKeysAt, AbsKeysAtNext DEF Ids
  <1>2. QED BY <1>1, AbsKeysAt, AbsKeysAtNext

\* What the threads hold does not change when the keys under their handles do not.
LEMMA HandlesUnchanged ==
    ASSUME src' = src, ReadsKept
    PROVE  AbsHandle' = AbsHandle
  BY DEF AbsHandle, ReadsKept

\* A step of a thread that is not destroying a key ends no destruction.
LEMMA NotDestroying ==
    ASSUME SlotsInv, NEW t \in Threads, pc[t] # "destroying",
           \A u \in Threads : u # t => ret'[u] = ret[u]
    PROVE  Destroyed
  BY DEF Destroyed, SlotsInv, PcShape

\* The volatile keys stay when one slot changes, in its readers only or if it held
\* no volatile key.
LEMMA OnlyOneSlot ==
    ASSUME SlotsInv, NEW s \in Slots,
           \A x \in Slots : x # s => slots'[x] = slots[x],
           slots[s].state = "FULL" /\ slots[s].life = "VOLATILE" =>
             slots'[s] = [slots[s] EXCEPT !.readers = slots'[s].readers]
    PROVE  VolatileKept
  <1>1. ASSUME NEW x \in Slots, x # s
        PROVE  slots'[x] = [slots[x] EXCEPT !.readers = slots'[x].readers]
    <2>1. slots[x] \in SlotType /\ slots'[x] = slots[x]
      BY <1>1 DEF SlotsInv, TypeOK
    <2>2. QED BY <2>1 DEF SlotType
  <1>2. QED BY <1>1 DEF VolatileKept

\* A step that takes a slot without readers, and rewrites it, changes nothing
\* the application sees unless the slot held or holds a volatile key.
LEMMA UnobservedStep ==
    ASSUME SlotsInv, SlotsInv', NEW t \in Threads, pc[t] # "destroying",
           \A u \in Threads : u # t => ret'[u] = ret[u],
           NEW s \in Slots, ReadersOf(s) = {},
           \A x \in Slots : x # s => slots'[x] = slots[x],
           ~(slots[s].state = "FULL" /\ slots[s].life = "VOLATILE"),
           ~(slots'[s].state = "FULL" /\ slots'[s].life = "VOLATILE"),
           UNCHANGED <<storage, src>>
    PROVE  StepSafe
  <1>1. ReadsKept
    BY DEF ReadsKept, ReadersOf, SlotsInv, TypeOK
  <1>2. VolatileKept
    BY OnlyOneSlot
  <1>3. AbsKeys' = AbsKeys
    <2>1. VolatileIds \subseteq Slots
      BY SlotSets DEF VolatileIds
    <2>2. ASSUME NEW k \in VolatileIds
          PROVE  /\ Offers(k)' <=> Offers(k)
                 /\ Offers(k) => slots'[k].key = slots[k].key
      <3>1. CASE k # s
        BY <2>1, <3>1 DEF Offers
      <3>2. CASE k = s
        <4>1. ~Offers(k)
          BY <3>2 DEF Offers, SlotsInv, CacheCoherent
        <4>2. ~Offers(k)'
          BY <3>2 DEF Offers, SlotsInv, CacheCoherent
        <4>3. QED BY <4>1, <4>2
      <3>3. QED BY <3>1, <3>2
    <2>3. QED BY <2>2, KeysUnchanged
  <1>4. QED
    BY <1>1, <1>2, <1>3, NotDestroying, HandlesUnchanged DEF StepSafe, AbsStep

\* A step that leaves the slots, the files and the registrations alone.
LEMMA ControlStepSafe ==
    ASSUME SlotsInv, NEW t \in Threads, pc[t] # "destroying",
           \A u \in Threads : u # t => ret'[u] = ret[u],
           UNCHANGED <<slots, storage, src>>
    PROVE  StepSafe
  <1>1. ReadsKept
    BY DEF ReadsKept
  <1>2. VolatileKept
    <2>1. ASSUME NEW x \in Slots
          PROVE  slots'[x] = [slots[x] EXCEPT !.readers = slots'[x].readers]
      <3>1. slots[x] \in SlotType /\ slots'[x] = slots[x]
        BY DEF SlotsInv, TypeOK
      <3>2. QED BY <3>1 DEF SlotType
    <2>2. QED BY <2>1 DEF VolatileKept
  <1>3. AbsKeys' = AbsKeys
    BY KeysUnchanged DEF Offers
  <1>4. QED
    BY <1>1, <1>2, <1>3, NotDestroying, HandlesUnchanged DEF StepSafe, AbsStep

\* Each action is safe in this sense.
LEMMA StartCreationSafe ==
    ASSUME SlotsInv, SlotsInv', NEW t \in Threads,
           NEW k \in UserIds \cup {NoId}, StartCreation(t, k)
    PROVE  StepSafe
  <1>1. PICK s \in psa_reserve_free_key_slot(k = NoId) :
            Put(s, FillingSlot) /\ Return(t, "NONE")
    BY ReserveSucceeds DEF StartCreation
  <1>2. /\ s \in Slots /\ ReadersOf(s) = {}
        /\ ~(slots[s].state = "FULL" /\ slots[s].life = "VOLATILE")
    BY ReserveFacts
  <1>3. /\ slots'[s] = FillingSlot
        /\ \A x \in Slots : x # s => slots'[x] = slots[x]
    BY <1>1, <1>2, PutFacts, EmptySlotType DEF SlotsInv, TypeOK
  <1>4. /\ pc[t] # "destroying" /\ UNCHANGED <<storage, src>>
        /\ \A u \in Threads : u # t => ret'[u] = ret[u]
    BY <1>1 DEF StartCreation, Return, SlotsInv, TypeOK
  <1>5. QED
    BY <1>2, <1>3, <1>4, EmptySlotType, UnobservedStep

\* The owner of a slot in state FILLING has it for itself.
LEMMA OwnedSlot ==
    ASSUME SlotsInv, NEW t \in Threads,
           pc[t] \in {"reserved", "filling", "finish", "fail"}
    PROVE  /\ dst[t] \in Slots /\ slots[dst[t]] \in SlotType
           /\ slots[dst[t]].state = "FILLING" /\ ReadersOf(dst[t]) = {}
  <1>1. dst[t] \in Slots /\ slots[dst[t]] \in SlotType
    BY DEF SlotsInv, TypeOK, PcShape
  <1>2. slots[dst[t]].state = "FILLING"
    BY <1>1 DEF SlotsInv, FillingOwned
  <1>3. ReadersOf(dst[t]) = {}
    BY <1>1, <1>2, SlotSets DEF SlotsInv, ReadersHoldKey, ReadersOf
  <1>4. QED BY <1>1, <1>2, <1>3

\* The steps of the thread that owns the slot it is filling.
LEMMA OwnerSafe ==
    ASSUME SlotsInv, SlotsInv', NEW t \in Threads,
           SetAttributes(t) \/ FillSlot(t) \/ FailCreation(t)
    PROVE  StepSafe
  <1> DEFINE s == dst[t]
  <1>1. /\ pc[t] \in {"reserved", "filling", "fail"}
        /\ UNCHANGED <<storage, src, ret>>
    BY DEF SetAttributes, FillSlot, FailCreation
  <1>2. /\ s \in Slots /\ slots[s] \in SlotType
        /\ slots[s].state = "FILLING" /\ ReadersOf(s) = {}
    BY <1>1, OwnedSlot
  <1>3. \A x \in Slots : x # s => slots'[x] = slots[x]
    BY <1>2 DEF SetAttributes, FillSlot, FailCreation, Put, SlotsInv, TypeOK
  <1>4. slots'[s].state # "FULL"
    <2>1. CASE SetAttributes(t)
      <3>1. PICK i, l : Put(s, [slots[s] EXCEPT !.id = i, !.life = l])
        BY <2>1 DEF SetAttributes
      <3>2. slots'[s].state = slots[s].state
        BY <1>2, <3>1 DEF Put, SlotsInv, TypeOK, SlotType
      <3>3. QED BY <1>2, <3>2
    <2>3. CASE FillSlot(t)
      <3>1. PICK m : Put(s, [slots[s] EXCEPT !.key = m])
        BY <2>3 DEF FillSlot
      <3>2. slots'[s].state = slots[s].state
        BY <1>2, <3>1 DEF Put, SlotsInv, TypeOK, SlotType
      <3>3. QED BY <1>2, <3>2
    <2>2. CASE FailCreation(t)
      <3>1. slots' = [slots EXCEPT ![s] = EmptySlot]
        BY <2>2 DEF FailCreation, Put, psa_wipe_key_slot
      <3>2. QED BY <1>2, <3>1, EmptySlotType DEF SlotsInv, TypeOK
    <2>4. QED BY <2>1, <2>2, <2>3
  <1>5. QED
    BY <1>1, <1>2, <1>3, <1>4, UnobservedStep

\* A key that cannot be loaded leaves its slot empty again.
LEMMA LoadFailsSafe ==
    ASSUME SlotsInv, SlotsInv', NEW t \in Threads, NEW k \in Ids, LoadFails(t, k)
    PROVE  StepSafe
  <1>1. PICK s \in psa_reserve_free_key_slot(FALSE),
             st \in {"INVALID_HANDLE", "DATA_INVALID"} :
            Put(s, EmptySlot) /\ Return(t, st)
    BY LoadFailsIs
  <1>2. /\ s \in Slots /\ ReadersOf(s) = {}
        /\ ~(slots[s].state = "FULL" /\ slots[s].life = "VOLATILE")
    BY ReserveFacts
  <1>3. /\ slots'[s] = EmptySlot
        /\ \A x \in Slots : x # s => slots'[x] = slots[x]
    BY <1>1, <1>2, PutFacts, EmptySlotType DEF SlotsInv, TypeOK
  <1>4. /\ pc[t] # "destroying" /\ UNCHANGED <<storage, src>>
        /\ \A u \in Threads : u # t => ret'[u] = ret[u]
    BY <1>1 DEF LoadFails, Return, SlotsInv, TypeOK
  <1>5. QED
    BY <1>2, <1>3, <1>4, EmptySlotType, UnobservedStep

\* The steps that end a call, and those that only move a thread on.
LEMMA ControlSafe ==
    ASSUME SlotsInv, NEW t \in Threads,
           \/ \E k \in UserIds \cup {NoId} : StartCreationFails(t, k)
           \/ FillFails(t)
           \/ \E st \in {"SUCCESS", "NOT_PERMITTED"} : ReadKey(t, st)
           \/ \E k \in Ids : LoadHasNoSlot(t, k)
    PROVE  StepSafe
  <1>1. /\ pc[t] # "destroying" /\ UNCHANGED <<slots, storage, src>>
        /\ \A u \in Threads : u # t => ret'[u] = ret[u]
    BY DEF StartCreationFails, FillFails, ReadKey, LoadHasNoSlot, Return,
           SlotsInv, TypeOK
  <1>2. QED BY <1>1, ControlStepSafe

\* Purging a key frees the slot of a persistent key: its file stays.
LEMMA PurgeKeySafe ==
    ASSUME SlotsInv, SlotsInv', NEW t \in Threads, NEW k \in Ids, PurgeKey(t, k)
    PROVE  StepSafe
  <1>1. /\ pc[t] # "destroying" /\ UNCHANGED <<storage, src>>
        /\ \A u \in Threads : u # t => ret'[u] = ret[u]
    BY DEF PurgeKey, Return, SlotsInv, TypeOK
  <1>2. CASE UNCHANGED slots
    BY <1>1, <1>2, ControlStepSafe
  <1>3. ASSUME NEW s \in Slots, FirstInMemory(k, s), Put(s, Purged(slots[s]))
        PROVE  StepSafe
    <2>1. slots[s] \in SlotType /\ slots[s].state = "FULL"
      BY <1>3 DEF FirstInMemory, InMemory, SlotsInv, TypeOK
    <2>2. CASE Purged(slots[s]) = slots[s]
      <3>1. slots' = slots
        BY <1>3, <2>2 DEF Put, SlotsInv, TypeOK
      <3>2. QED BY <1>1, <3>1, ControlStepSafe
    <2>3. CASE /\ Purged(slots[s]) = EmptySlot
               /\ slots[s].readers = 0 /\ slots[s].life # "VOLATILE"
      <3>1. ReadersOf(s) = {}
        BY <2>3, KeyStoreAssumption, FS_Subset, FS_EmptySet
           DEF SlotsInv, ReadersCounted, ReadersOf
      <3>2. /\ slots'[s] = EmptySlot
            /\ \A x \in Slots : x # s => slots'[x] = slots[x]
        BY <1>3, <2>3, PutFacts, EmptySlotType DEF SlotsInv, TypeOK
      <3>3. QED BY <1>1, <2>3, <3>1, <3>2, EmptySlotType, UnobservedStep
    <2>4. QED BY <2>1, <2>2, <2>3, PurgedFacts
  <1>4. QED BY <1>2, <1>3 DEF PurgeKey

\* A key creation ends: the key appears in the map when its slot becomes FULL
\* or its file is written, whichever makes it available, and even if the call then
\* reports a failure because the file could not be verified or removed.
LEMMA FinishCreationSafe ==
    ASSUME SlotsInv, SlotsInv', NEW t \in Threads, FinishCreation(t)
    PROVE  StepSafe
  <1>0. PICK s \in Slots : s = dst[t]
    BY OwnedSlot DEF FinishCreation
  <1> DEFINE slot == slots[s]
  <1>1. PICK save \in Saves(slot) :
        /\ storage' = save.disk
        /\ \/ save.status = "SUCCESS" /\ Put(s, [slot EXCEPT !.state = "FULL"])
           \/ save.status # "SUCCESS" /\ UNCHANGED slots
    <2>1. slot.state = "FILLING"
      BY <1>0, OwnedSlot DEF FinishCreation
    <2>2. QED BY <1>0, <2>1 DEF FinishCreation
  <1>2. /\ pc[t] = "finish" /\ src' = src
        /\ \A u \in Threads : u # t => ret'[u] = ret[u]
    BY DEF FinishCreation, Return, SlotsInv, TypeOK
  <1>3. /\ s \in Slots /\ slot \in SlotType /\ slot.state = "FILLING"
        /\ ReadersOf(s) = {}
    BY <1>0, <1>2, OwnedSlot
  <1>4. /\ slot.key \in Materials \cup {BuiltinKey} /\ slot.key # NoKey
        /\ want[t] \in UserIds \cup {NoId}
        /\ s \in IF want[t] = NoId THEN VolatileHome ELSE Cache
        /\ slot.id = IF want[t] = NoId THEN s ELSE want[t]
        /\ slot.life = IF want[t] = NoId THEN "VOLATILE" ELSE "PERSISTENT"
    BY <1>0, <1>2, <1>3 DEF SlotsInv, FillShape, PcShape, TypeOK, SlotType
  <1>5. \A x \in Slots : x # s => slots'[x] = slots[x]
    BY <1>1, <1>3 DEF Put, SlotsInv, TypeOK
  <1>6. ReadsKept
    BY <1>2, <1>3, <1>5 DEF ReadsKept, ReadersOf, SlotsInv, TypeOK
  <1>7. VolatileKept
    BY <1>5, <1>3, OnlyOneSlot
  <1>8. AbsHandle' = AbsHandle
    BY <1>2, <1>6, HandlesUnchanged
  <1>9. AbsStep
    <2>1. CASE want[t] = NoId /\ save.status = "SUCCESS"
      <3>1. storage' = storage /\ s \in VolatileIds /\ s \in Ids \ BuiltinIds
        BY <1>1, <1>4, <2>1, IdKinds DEF Saves, VolatileIds, Ids
      <3>2. slots'[s] = [slot EXCEPT !.state = "FULL"]
        BY <1>1, <1>3, <2>1 DEF Put, SlotsInv, TypeOK
      <3>3. Offers(s)' /\ ~Offers(s) /\ slots'[s].key = slot.key
        BY <1>3, <1>4, <2>1, <3>2 DEF Offers, SlotType
      <3>4. \A k \in VolatileIds : k # s =>
             /\ Offers(k)' <=> Offers(k)
             /\ slots'[k] = slots[k]
        BY <1>5, SlotSets DEF Offers, VolatileIds
      <3>5. AbsKeys' = [AbsKeys EXCEPT ![s] = slot.key] /\ AbsKeys[s] = NoKey
        <4>1. \A k \in Ids : AbsKeys'[k] = IF k = s THEN slot.key ELSE AbsKeys[k]
          BY <3>1, <3>3, <3>4, AbsKeysAt, AbsKeysAtNext, IdKinds DEF Ids
        <4>2. QED BY <3>1, <3>3, <4>1, AbsKeysAt, AbsKeysAtNext
      <3>6. Abs!Create(s, slot.key)
        BY <1>8, <3>5 DEF Abs!Create
      <3>7. QED
        BY <1>4, <3>1, <3>6 DEF AbsStep, Abs!Next, Abs!Destroyable
    <2>2. CASE want[t] = NoId /\ save.status # "SUCCESS"
      BY <1>1, <1>4, <2>2 DEF Saves
    <2>3. CASE want[t] # NoId
      <3>1. /\ slot.id \in UserIds /\ slot.id \in Ids \ BuiltinIds
            /\ save \in psa_save_persistent_key(slot.id, slot.key)
        BY <1>1, <1>4, <2>3, IdKinds DEF Saves, Ids
      <3>2. \A k \in VolatileIds :
             /\ Offers(k)' <=> Offers(k)
             /\ Offers(k) => slots'[k].key = slots[k].key
        <4>1. ~Offers(s)' /\ ~Offers(s)
          <5>1. slots'[s].id = slot.id
            BY <1>1, <1>3 DEF Put, SlotsInv, TypeOK, SlotType
          <5>2. s # slot.id
            BY <3>1, SlotSets, KeyStoreAssumption
          <5>3. QED BY <5>1, <5>2 DEF Offers
        <4>2. ASSUME NEW k \in VolatileIds, k # s
              PROVE  slots'[k] = slots[k]
          BY <1>5, <4>2, SlotSets DEF VolatileIds
        <4>3. QED BY <4>1, <4>2 DEF Offers
      <3>3. CASE storage' = storage
        <4>1. AbsKeys' = AbsKeys
          BY <3>2, <3>3, KeysUnchanged
        <4>2. QED BY <1>8, <4>1 DEF AbsStep
      <3>4. CASE storage' # storage
        <4>1. storage' = [storage EXCEPT ![slot.id] = slot.key] /\ storage[slot.id] = NoKey
          BY <1>1, <3>1, <3>4 DEF psa_save_persistent_key
        <4>2. \A k \in Ids : AbsKeys'[k] = IF k = slot.id THEN slot.key ELSE AbsKeys[k]
          BY <3>1, <3>2, <4>1, AbsKeysAt, AbsKeysAtNext, IdKinds DEF Ids, SlotsInv, TypeOK
        <4>3. AbsKeys' = [AbsKeys EXCEPT ![slot.id] = slot.key] /\ AbsKeys[slot.id] = NoKey
          BY <3>1, <4>1, <4>2, AbsKeysAt, AbsKeysAtNext
        <4>4. Abs!Create(slot.id, slot.key)
          BY <1>8, <4>3 DEF Abs!Create
        <4>5. QED
          BY <1>4, <3>1, <4>4 DEF AbsStep, Abs!Next, Abs!Destroyable
      <3>5. QED BY <3>3, <3>4
    <2>4. QED BY <2>1, <2>2, <2>3
  <1>10. QED
    BY <1>2, <1>6, <1>7, <1>9, NotDestroying DEF StepSafe

\* Registration: a thread without a key gets the one that the map holds.
LEMMA RegisterSafe ==
    ASSUME SlotsInv, SlotsInv', NEW t \in Threads, NEW k \in Ids, NEW s \in Slots,
           pc[t] = "idle", \A u \in Threads : u # t => ret'[u] = ret[u],
           storage' = storage, src' = [src EXCEPT ![t] = s],
           \A x \in Slots : x # s => slots'[x] = slots[x],
           slots'[s].state = "FULL", slots'[s].id = k,
           \/ /\ slots[s].state = "FULL"
              /\ slots'[s] = [slots[s] EXCEPT !.readers = @ + 1]
           \/ /\ ReadersOf(s) = {}
              /\ ~(slots[s].state = "FULL" /\ slots[s].life = "VOLATILE")
              /\ slots'[s].life # "VOLATILE"
    PROVE  StepSafe
  <1>1. /\ src[t] = NoSlot /\ src'[t] = s
        /\ \A u \in Threads : u # t => src'[u] = src[u]
    BY DEF SlotsInv, TypeOK, PcShape
  <1>2. slots[s] \in SlotType /\ slots'[s] \in SlotType
    BY DEF SlotsInv, TypeOK
  <1>3. slots[s].state = "FULL" /\ slots'[s] = [slots[s] EXCEPT !.readers = @ + 1]
        => slots'[s].key = slots[s].key /\ slots'[s].id = slots[s].id
           /\ slots'[s].life = slots[s].life
           /\ slots'[s] = [slots[s] EXCEPT !.readers = slots'[s].readers]
    BY <1>2 DEF SlotType
  <1>4. ReadsKept
    BY <1>1, <1>3, SlotSets DEF ReadsKept, ReadersOf, SlotsInv, TypeOK
  <1>5. VolatileKept
    BY <1>3, OnlyOneSlot
  <1>6. AbsKeys' = AbsKeys
    <2>1. ASSUME NEW v \in VolatileIds
          PROVE  /\ Offers(v)' <=> Offers(v)
                 /\ Offers(v) => slots'[v].key = slots[v].key
      <3>1. v \in Slots
        BY SlotSets DEF VolatileIds
      <3>2. CASE v # s
        BY <3>1, <3>2 DEF Offers
      <3>3. CASE v = s
        <4>1. CASE /\ slots[s].state = "FULL"
                   /\ slots'[s] = [slots[s] EXCEPT !.readers = @ + 1]
          BY <1>3, <3>3, <4>1 DEF Offers
        <4>2. CASE /\ ~(slots[s].state = "FULL" /\ slots[s].life = "VOLATILE")
                   /\ slots'[s].life # "VOLATILE"
          <5>1. ~Offers(v)
            BY <3>3, <4>2 DEF Offers, SlotsInv, CacheCoherent
          <5>2. ~Offers(v)'
            BY <3>3, <4>2 DEF Offers, SlotsInv, CacheCoherent
          <5>3. QED BY <5>1, <5>2
        <4>3. QED BY <4>1, <4>2
      <3>4. QED BY <3>2, <3>3
    <2>2. QED BY <2>1, KeysUnchanged
  <1>7. slots'[s].key = AbsKeys'[k] /\ slots'[s].key # NoKey
    <2>1. CASE k \in UserIds \cup BuiltinIds
      BY <2>1, AbsKeysAtNext DEF SlotsInv, CacheCoherent, SlotShape
    <2>2. CASE k \in VolatileIds
      <3>1. k = s
        BY <2>2 DEF SlotsInv, CacheCoherent
      <3>2. Offers(k)'
        BY <3>1 DEF Offers
      <3>3. QED BY <2>2, <3>1, <3>2, AbsKeysAtNext DEF SlotsInv, SlotShape
    <2>3. QED BY <2>1, <2>2 DEF Ids
  <1>8. AbsHandle' = [AbsHandle EXCEPT ![t] = AbsKeys[k]] /\ AbsHandle[t] = NoKey
    <2>1. \A u \in Threads : AbsHandle'[u] = IF u = t THEN AbsKeys[k] ELSE AbsHandle[u]
      BY <1>1, <1>4, <1>6, <1>7, SlotSets DEF AbsHandle, ReadsKept
    <2>2. /\ AbsHandle = [u \in Threads |-> AbsHandle[u]] /\ AbsHandle[t] = NoKey
          /\ AbsHandle' = [u \in Threads |-> AbsHandle'[u]]
      BY <1>1 DEF AbsHandle
    <2>3. QED BY <2>1, <2>2
  <1>9. Abs!Open(t, k)
    BY <1>6, <1>7, <1>8 DEF Abs!Open
  <1>10. QED
    BY <1>4, <1>5, <1>9, NotDestroying DEF StepSafe, AbsStep, Abs!Next

\* A thread finds the key in a slot, and becomes a reader.
LEMMA LockInMemorySafe ==
    ASSUME SlotsInv, SlotsInv', NEW t \in Threads, NEW k \in Ids,
           NEW reading \in Readings, LockInMemory(t, k, reading)
    PROVE  StepSafe
  <1>1. PICK s \in Slots :
            /\ FirstInMemory(k, s)
            /\ Put(s, [slots[s] EXCEPT !.readers = @ + 1])
            /\ src' = [src EXCEPT ![t] = s]
    BY DEF LockInMemory
  <1>2. slots[s] \in SlotType /\ slots[s].state = "FULL" /\ slots[s].id = k
    BY <1>1 DEF FirstInMemory, InMemory, SlotsInv, TypeOK
  <1>3. /\ slots'[s] = [slots[s] EXCEPT !.readers = @ + 1]
        /\ \A x \in Slots : x # s => slots'[x] = slots[x]
    BY <1>1 DEF Put, SlotsInv, TypeOK
  <1>4. slots'[s].state = "FULL" /\ slots'[s].id = k
    BY <1>2, <1>3 DEF SlotType
  <1>5. /\ pc[t] = "idle" /\ storage' = storage
        /\ \A u \in Threads : u # t => ret'[u] = ret[u]
    BY DEF LockInMemory, Return, SlotsInv, TypeOK
  <1>6. QED
    BY <1>1, <1>2, <1>3, <1>4, <1>5, RegisterSafe

\* A thread has loaded the key into its slot, and becomes its reader.
LEMMA LoadAndLockSafe ==
    ASSUME SlotsInv, SlotsInv', NEW t \in Threads, NEW k \in Ids,
           NEW reading \in Readings, LoadAndLock(t, k, reading)
    PROVE  StepSafe
  <1>1. PICK s \in psa_reserve_free_key_slot(FALSE) :
            Put(s, LoadedSlot(k)) /\ src' = [src EXCEPT ![t] = s]
    BY DEF LoadAndLock
  <1>2. /\ s \in Slots /\ ReadersOf(s) = {}
        /\ ~(slots[s].state = "FULL" /\ slots[s].life = "VOLATILE")
    BY ReserveFacts
  <1>3. /\ slots'[s] = LoadedSlot(k)
        /\ \A x \in Slots : x # s => slots'[x] = slots[x]
    BY <1>1, <1>2 DEF Put, SlotsInv, TypeOK
  <1>4. slots'[s].state = "FULL" /\ slots'[s].id = k /\ slots'[s].life # "VOLATILE"
    BY <1>3 DEF LoadedSlot
  <1>5. /\ pc[t] = "idle" /\ storage' = storage
        /\ \A u \in Threads : u # t => ret'[u] = ret[u]
    BY DEF LoadAndLock, Return, SlotsInv, TypeOK
  <1>6. QED
    BY <1>1, <1>2, <1>3, <1>4, <1>5, RegisterSafe

\* The end of a registration: the thread has no key any more, the others keep
\* theirs. r is what the slot holds when the thread unregisters.
LEMMA UnregisterSafe ==
    ASSUME SlotsInv, NEW t \in Threads, NEW s \in Slots, src[t] = s,
           NEW r \in SlotType, r.state \in {"FULL", "PENDING_DELETION"},
           r.readers = slots[s].readers, r.id = slots[s].id,
           r.life = slots[s].life, r.key = slots[s].key,
           Put(s, Unregistered(r)), src' = [src EXCEPT ![t] = NoSlot]
    PROVE  /\ ReadsKept
           /\ AbsHandle' = [AbsHandle EXCEPT ![t] = NoKey]
           /\ \A x \in Slots : x # s => slots'[x] = slots[x]
           /\ r.state = "FULL" => slots'[s] = [r EXCEPT !.readers = @ - 1]
           /\ r.state = "PENDING_DELETION" => slots'[s].state # "FULL"
  <1>1. /\ Cardinality(ReadersOf(s)) \in Nat \ {0}
        /\ Cardinality(ReadersOf(s)') = Cardinality(ReadersOf(s)) - 1
        /\ ReadersOf(s)' = ReadersOf(s) \ {t}
        /\ slots[s].readers = Cardinality(ReadersOf(s))
    BY ReadersDrop DEF SlotsInv, ReadersCounted
  <1>2. /\ UnregisterStatus(r) = "SUCCESS"
        /\ r.state = "PENDING_DELETION" /\ r.readers = 1 =>
             Unregistered(r) = EmptySlot
        /\ ~(r.state = "PENDING_DELETION" /\ r.readers = 1) =>
             /\ Unregistered(r).state = r.state
             /\ Unregistered(r).id = r.id
             /\ Unregistered(r).key = r.key
    BY <1>1, UnregisterFacts
  <1>3. /\ slots'[s] = Unregistered(r)
        /\ \A x \in Slots : x # s => slots'[x] = slots[x]
    BY DEF Put, SlotsInv, TypeOK
  <1>4. /\ src'[t] = NoSlot
        /\ \A u \in Threads : u # t => src'[u] = src[u]
    BY DEF SlotsInv, TypeOK
  <1>5. ASSUME NEW u \in Threads, u # t, src[u] = s
        PROVE  slots'[s].key = slots[s].key /\ slots'[s].id = slots[s].id
    <2>1. ReadersOf(s)' # {}
      BY <1>1, <1>5 DEF ReadersOf
    <2>2. IsFiniteSet(ReadersOf(s)')
      BY KeyStoreAssumption, FS_Subset DEF ReadersOf
    <2>3. r.readers # 1
      BY <1>1, <2>1, <2>2, FS_EmptySet
    <2>4. QED BY <1>2, <1>3, <2>3
  <1>6. ReadsKept
    <2>1. ASSUME NEW u \in Threads, src[u] # NoSlot, src'[u] = src[u]
          PROVE  /\ slots'[src[u]].key = slots[src[u]].key
                 /\ slots'[src[u]].id = slots[src[u]].id
      <3>1. u # t /\ src[u] \in Slots
        BY <1>4, <2>1 DEF SlotsInv, TypeOK
      <3>2. CASE src[u] = s
        BY <1>5, <3>1, <3>2
      <3>3. CASE src[u] # s
        BY <1>3, <3>1, <3>3
      <3>4. QED BY <3>2, <3>3
    <2>2. QED BY <2>1 DEF ReadsKept
  <1>7. AbsHandle' = [AbsHandle EXCEPT ![t] = NoKey]
    <2>1. \A u \in Threads : AbsHandle'[u] = IF u = t THEN NoKey ELSE AbsHandle[u]
      BY <1>4, <1>6 DEF AbsHandle, ReadsKept
    <2>2. /\ AbsHandle = [u \in Threads |-> AbsHandle[u]]
          /\ AbsHandle' = [u \in Threads |-> AbsHandle'[u]]
      BY DEF AbsHandle
    <2>3. QED BY <2>1, <2>2
  <1>8. r.state = "FULL" => slots'[s] = [r EXCEPT !.readers = @ - 1]
    BY <1>2, <1>3 DEF Unregistered, LastReader
  <1>9. r.state = "PENDING_DELETION" => slots'[s].state # "FULL"
    BY <1>2, <1>3, EmptySlotType
  <1>10. QED BY <1>3, <1>6, <1>7, <1>8, <1>9

\* A reader is done: the last one may wipe a slot that waits for deletion.
LEMMA ReleaseSafe ==
    ASSUME SlotsInv, SlotsInv', NEW t \in Threads, Release(t) \/ DestroyLost(t)
    PROVE  StepSafe
  <1>1. PICK s \in Slots : src[t] = s
    BY DEF Release, DestroyLost, SlotsInv, PcShape, TypeOK
  <1>2. /\ slots[s] \in SlotType /\ slots[s].state \in {"FULL", "PENDING_DELETION"}
        /\ slots[s].readers \in Nat \ {0}
    <2>1. slots[s].readers = Cardinality(ReadersOf(s)) /\ Cardinality(ReadersOf(s)) # 0
      BY <1>1, KeyStoreAssumption, FS_Subset, FS_EmptySet
         DEF ReadersOf, SlotsInv, ReadersCounted
    <2>2. QED BY <1>1, <2>1, SlotSets DEF SlotsInv, TypeOK, SlotType, ReadersHoldKey
  <1>3. /\ Put(s, Unregistered(slots[s])) /\ src' = [src EXCEPT ![t] = NoSlot]
        /\ storage' = storage
        /\ \A u \in Threads : u # t => ret'[u] = ret[u]
    BY <1>1 DEF Release, DestroyLost, Return, SlotsInv, TypeOK
  <1>4. /\ ReadsKept
        /\ AbsHandle' = [AbsHandle EXCEPT ![t] = NoKey]
        /\ \A x \in Slots : x # s => slots'[x] = slots[x]
        /\ slots[s].state = "FULL" => slots'[s] = [slots[s] EXCEPT !.readers = @ - 1]
        /\ slots[s].state = "PENDING_DELETION" => slots'[s].state # "FULL"
    BY <1>1, <1>2, <1>3, UnregisterSafe
  <1>5. slots[s].state = "FULL" =>
          /\ slots'[s].state = "FULL" /\ slots'[s].id = slots[s].id
          /\ slots'[s].key = slots[s].key
          /\ slots'[s] = [slots[s] EXCEPT !.readers = slots'[s].readers]
    BY <1>2, <1>4 DEF SlotType
  <1>6. VolatileKept
    BY <1>4, <1>5, OnlyOneSlot
  <1>7. AbsKeys' = AbsKeys
    <2>1. ASSUME NEW k \in VolatileIds
          PROVE  /\ Offers(k)' <=> Offers(k)
                 /\ Offers(k) => slots'[k].key = slots[k].key
      BY <1>2, <1>4, <1>5, SlotSets DEF Offers, VolatileIds
    <2>2. QED BY <1>3, <2>1, KeysUnchanged
  <1>8. Destroyed
    <2>1. CASE Release(t)
      BY <1>3, <2>1, NotDestroying DEF Release
    <2>2. CASE DestroyLost(t)
      <3>1. UnregisterStatus(slots[s]) = "SUCCESS"
        BY <1>2, UnregisterFacts
      <3>2. ret'[t] = "INVALID_HANDLE"
        BY <1>1, <2>2, <3>1 DEF DestroyLost, Return, SlotsInv, TypeOK
      <3>3. QED BY <1>3, <3>2 DEF Destroyed, SlotsInv, PcShape
    <2>3. QED BY <2>1, <2>2
  <1>9. Abs!Close(t)
    BY <1>4, <1>7 DEF Abs!Close
  <1>10. QED BY <1>4, <1>6, <1>8, <1>9 DEF StepSafe, AbsStep, Abs!Next

\* psa_destroy_key() takes effect on the map when the file goes, for a
\* persistent key, and when the slot is marked, for a volatile one.
LEMMA DestroyKeySafe ==
    ASSUME SlotsInv, SlotsInv', NEW t \in Threads, DestroyKey(t)
    PROVE  StepSafe
  <1>1. PICK s \in Slots : src[t] = s
    BY DEF DestroyKey, SlotsInv, PcShape, TypeOK
  <1>2. /\ slots[s] \in SlotType /\ slots[s].state = "FULL"
        /\ slots[s].readers \in Nat \ {0}
    <2>1. slots[s].readers = Cardinality(ReadersOf(s)) /\ Cardinality(ReadersOf(s)) # 0
      BY <1>1, KeyStoreAssumption, FS_Subset, FS_EmptySet
         DEF ReadersOf, SlotsInv, ReadersCounted
    <2>2. QED
      BY <1>1, <2>1, SlotSets
         DEF SlotsInv, TypeOK, SlotType, ReadersHoldKey, DestroyKey, DestroyedByOther
  <1> DEFINE r == [slots[s] EXCEPT !.state = "PENDING_DELETION"]
  <1>3. /\ r \in SlotType /\ r.state = "PENDING_DELETION"
        /\ r.readers = slots[s].readers /\ r.id = slots[s].id
        /\ r.life = slots[s].life /\ r.key = slots[s].key
    BY <1>2 DEF SlotType, SlotStates
  <1>4. UnregisterStatus(r) = "SUCCESS"
    BY <1>2, <1>3, UnregisterFacts
  <1>5. /\ pc[t] = "destroying" /\ pc' = [pc EXCEPT ![t] = "idle"]
        /\ Put(s, Unregistered(r)) /\ src' = [src EXCEPT ![t] = NoSlot]
        /\ \A u \in Threads : u # t => ret'[u] = ret[u]
    BY <1>1, <1>2 DEF DestroyKey, Goto, Return, SlotsInv, TypeOK
  <1>6. PICK removal \in
            CASE slots[s].state # "FULL" ->
                   {[disk |-> storage, status |-> "CORRUPTION_DETECTED"]}
              [] slots[s].state = "FULL" /\ slots[s].life = "READ_ONLY" ->
                   {[disk |-> storage, status |-> "NOT_PERMITTED"]}
              [] slots[s].state = "FULL" /\ slots[s].life = "VOLATILE" ->
                   {[disk |-> storage, status |-> "SUCCESS"]}
              [] slots[s].state = "FULL" /\ slots[s].life = "PERSISTENT" ->
                   psa_destroy_persistent_key(slots[s].id) :
          storage' = removal.disk /\ Return(t, removal.status)
    BY <1>1, <1>2, <1>4 DEF DestroyKey
  <1> HIDE DEF r
  <1>7. /\ ReadsKept
        /\ AbsHandle' = [AbsHandle EXCEPT ![t] = NoKey]
        /\ \A x \in Slots : x # s => slots'[x] = slots[x]
        /\ slots'[s].state # "FULL"
    BY <1>1, <1>3, <1>5, UnregisterSafe
  <1>8. VolatileKept
    <2>1. pc'[t] = "idle"
      BY <1>5 DEF SlotsInv, TypeOK
    <2>2. ASSUME NEW x \in Slots, x # s
          PROVE  slots'[x] = [slots[x] EXCEPT !.readers = slots'[x].readers]
      <3>1. slots[x] \in SlotType /\ slots'[x] = slots[x]
        BY <1>7, <2>2 DEF SlotsInv, TypeOK
      <3>2. QED BY <3>1 DEF SlotType
    <2>3. QED BY <1>1, <1>5, <2>1, <2>2 DEF VolatileKept
  <1> DEFINE k == slots[s].id
  <1>9. /\ k \in Ids
        /\ slots[s].life = "READ_ONLY" <=> k \in BuiltinIds
        /\ slots[s].life = "PERSISTENT" <=> k \in UserIds
        /\ slots[s].life = "VOLATILE" <=> k \in VolatileIds
        /\ k \in VolatileIds => k = s
        /\ k \in UserIds => slots[s].key = storage[k]
        /\ slots[s].key # NoKey
    BY <1>2, IdKinds DEF SlotsInv, CacheCoherent, SlotShape, SlotType, Ids
  <1>10. \A v \in VolatileIds : v # k =>
           /\ Offers(v)' <=> Offers(v)
           /\ Offers(v) => slots'[v].key = slots[v].key
    BY <1>2, <1>7, SlotSets DEF Offers, VolatileIds
  <1>11. k \in VolatileIds => Offers(k) /\ AbsKeys'[k] = NoKey
    <2>1. ASSUME k \in VolatileIds PROVE Offers(k) /\ AbsKeys'[k] = NoKey
      <3>1. PICK v \in VolatileIds : v = k
        BY <2>1
      <3>2. ~Offers(v)' /\ Offers(v)
        BY <1>2, <1>7, <1>9, <3>1 DEF Offers
      <3>3. QED BY <3>1, <3>2, AbsKeysAtNext
    <2>2. QED BY <2>1
  <1>12. AbsHandle[t] = slots[s].key
    BY <1>1, SlotSets DEF AbsHandle
  <1>13. Abs!Close(t) \/ (Abs!Destroy(t, k) /\ k \notin BuiltinIds)
    <2>1. CASE storage' = storage /\ k \notin VolatileIds
      <3>1. AbsKeys' = AbsKeys
        BY <1>10, <2>1, KeysUnchanged
      <3>2. QED BY <1>7, <3>1 DEF Abs!Close
    <2>2. CASE k \in VolatileIds
      <3>1. storage' = storage
        BY <1>2, <1>6, <1>9, <2>2
      <3>2. \A v \in Ids : AbsKeys'[v] = IF v = k THEN NoKey ELSE AbsKeys[v]
        BY <1>10, <1>11, <2>2, <3>1, AbsKeysAt, AbsKeysAtNext, IdKinds DEF Ids
      <3>3. AbsKeys' = [AbsKeys EXCEPT ![k] = NoKey]
        BY <3>2, AbsKeysAt, AbsKeysAtNext
      <3>4. AbsKeys[k] = slots[s].key
        BY <1>9, <1>11, <2>2, AbsKeysAt
      <3>5. QED
        BY <1>7, <1>9, <1>12, <2>2, <3>3, <3>4, IdKinds DEF Abs!Destroy
    <2>3. CASE storage' # storage /\ k \notin VolatileIds
      <3>1. k \in UserIds
        BY <1>2, <1>6, <1>9, <2>3 DEF Ids
      <3>2. removal \in psa_destroy_persistent_key(k)
        BY <1>2, <1>6, <1>9, <3>1
      <3>3. storage' = [storage EXCEPT ![k] = NoKey]
        BY <1>6, <2>3, <3>2 DEF psa_destroy_persistent_key
      <3>4. \A v \in Ids : AbsKeys'[v] = IF v = k THEN NoKey ELSE AbsKeys[v]
        BY <1>10, <2>3, <3>1, <3>3, AbsKeysAt, AbsKeysAtNext, IdKinds
           DEF Ids, SlotsInv, TypeOK
      <3>5. AbsKeys' = [AbsKeys EXCEPT ![k] = NoKey] /\ AbsKeys[k] = slots[s].key
        BY <1>9, <3>1, <3>4, AbsKeysAt, AbsKeysAtNext
      <3>6. QED
        BY <1>7, <1>9, <1>12, <3>1, <3>5, IdKinds DEF Abs!Destroy
    <2>4. QED BY <2>1, <2>2, <2>3
  <1>14. Destroyed
    <2>0. PICK v \in Ids : v = k
      BY <1>9
    <2>1. ASSUME ret'[t] = "SUCCESS" PROVE ~Exists(v)'
      <3>1. removal.status = "SUCCESS"
        BY <1>6, <2>1 DEF Return, SlotsInv, TypeOK
      <3>2. k \notin BuiltinIds /\ (k \in UserIds => storage'[k] = NoKey)
        <4>1. k \notin BuiltinIds
          BY <1>2, <1>6, <1>9, <3>1
        <4>2. CASE k \in UserIds
          <5>1. removal \in psa_destroy_persistent_key(k)
            BY <1>2, <1>6, <1>9, <4>2
          <5>2. QED BY <1>6, <3>1, <4>1, <4>2, <5>1, RemovalFacts DEF SlotsInv
        <4>3. QED BY <4>1, <4>2
      <3>4. \A x \in Slots : ~(slots'[x].state = "FULL" /\ slots'[x].id = v)
        BY <1>2, <1>7, <2>0 DEF SlotsInv, OneSlotPerId
      <3>5. SearchedFor(v) \subseteq Slots
        BY SlotSets DEF SearchedFor, VolatileIds
      <3>6. InMemory(v)' = {} /\ ~Loadable(v)'
        BY <2>0, <3>2, <3>4, <3>5, IdKinds DEF InMemory, SearchedFor, Loadable
      <3>7. QED BY <3>6 DEF Exists
    <2>2. QED BY <1>1, <1>5, <2>0, <2>1 DEF Destroyed, SlotsInv, PcShape
  <1>15. QED
    BY <1>7, <1>8, <1>9, <1>13, <1>14 DEF StepSafe, AbsStep, Abs!Next, Abs!Destroyable

\* The end of the process: volatile keys are lost, files stay.
LEMMA ForgetMemorySafe ==
    ASSUME SlotsInv, ForgetMemory
    PROVE  StepSafe
  <1>1. \A t \in Threads : src'[t] = NoSlot /\ pc'[t] = "idle" /\ ret'[t] = "NONE"
    BY DEF ForgetMemory
  <1>2. ReadsKept /\ VolatileKept /\ Destroyed
    BY <1>1 DEF ReadsKept, VolatileKept, Destroyed
  <1>3. storage' = storage /\ \A k \in VolatileIds : ~Offers(k)'
    BY EmptySlotType, SlotSets DEF ForgetMemory, Offers, VolatileIds
  <1>4. AbsKeys' = [k \in Ids |-> IF k \in VolatileIds THEN NoKey ELSE AbsKeys[k]]
    <2>1. \A k \in Ids : AbsKeys'[k] = IF k \in VolatileIds THEN NoKey ELSE AbsKeys[k]
      BY <1>3, AbsKeysAt, AbsKeysAtNext, IdKinds DEF Ids
    <2>2. QED BY <2>1, AbsKeysAtNext
  <1>5. AbsHandle' = [t \in Threads |-> NoKey]
    BY <1>1 DEF AbsHandle
  <1>6. Abs!Restart
    BY <1>4, <1>5 DEF Abs!Restart
  <1>7. QED
    BY <1>2, <1>6 DEF StepSafe, AbsStep, Abs!Next

\* Nothing changes.
LEMMA StutterSafe ==
    ASSUME SlotsInv, UNCHANGED vars
    PROVE  StepSafe
  <1>1. ReadsKept
    BY DEF vars, ReadsKept
  <1>2. Destroyed
    BY DEF vars, Destroyed, SlotsInv, PcShape
  <1>3. VolatileKept
    <2>1. ASSUME NEW x \in Slots
          PROVE  slots'[x] = [slots[x] EXCEPT !.readers = slots'[x].readers]
      <3>1. slots[x] \in SlotType /\ slots'[x] = slots[x]
        BY DEF vars, SlotsInv, TypeOK
      <3>2. QED BY <3>1 DEF SlotType
    <2>2. QED BY <2>1 DEF VolatileKept
  <1>4. AbsKeys' = AbsKeys
    BY KeysUnchanged DEF vars, Offers
  <1>5. AbsHandle' = AbsHandle
    BY <1>1, HandlesUnchanged DEF vars
  <1>6. QED BY <1>1, <1>2, <1>3, <1>4, <1>5 DEF StepSafe, AbsStep

\* Every step, from a state of the inductive invariant, keeps what registered
\* threads read, is a step of the abstract map or none, and so on.
LEMMA EveryStepSafe == SlotsInv /\ [Next]_vars => StepSafe
  <1> SUFFICES ASSUME SlotsInv, [Next]_vars PROVE StepSafe
    OBVIOUS
  <1>1. SlotsInv'
    BY InvInductive
  <1>2. ASSUME NEW t \in Threads, Call(t) PROVE StepSafe
    BY <1>1, <1>2, StartCreationSafe, ControlSafe, LockInMemorySafe,
       LoadAndLockSafe, LoadFailsSafe, PurgeKeySafe DEF Call
  <1>3. ASSUME NEW t \in Threads, Continue(t) PROVE StepSafe
    BY <1>1, <1>3, StartCreationSafe, ControlSafe, OwnerSafe, FinishCreationSafe,
       ReleaseSafe, DestroyKeySafe DEF Continue
  <1>4. CASE psa_wipe_all_key_slots \/ Crash
    BY <1>4, ForgetMemorySafe DEF psa_wipe_all_key_slots, Crash
  <1>5. CASE UNCHANGED vars
    BY <1>5, StutterSafe
  <1>6. QED
    BY <1>2, <1>3, <1>4, <1>5 DEF Next

\* In the initial states only the built-in keys are there, and no thread reads.
LEMMA AbstractInit == Init => Abs!Init
  <1> SUFFICES ASSUME Init PROVE Abs!Init
    OBVIOUS
  <1>1. \A k \in VolatileIds : ~Offers(k)
    BY EmptySlotType, SlotSets DEF Init, Offers, VolatileIds
  <1>2. \A k \in Ids : AbsKeys[k] = IF k \in BuiltinIds THEN BuiltinKey ELSE NoKey
    BY <1>1, AbsKeysAt, IdKinds DEF Init, Ids
  <1>3. AbsKeys = [k \in Ids |-> IF k \in BuiltinIds THEN BuiltinKey ELSE NoKey]
    BY <1>2, AbsKeysAt
  <1>4. AbsHandle = [t \in Threads |-> NoKey]
    BY DEF AbsHandle, Init
  <1>5. QED BY <1>3, <1>4 DEF Abs!Init

\* A thread between psa_get_and_lock_key_slot() and psa_unregister_read() reads
\* the same key throughout, whatever the other threads destroy, evict or create.
THEOREM RegisteredReadsAreStable == Spec => ReadsAreStable
<1>1. SlotsInv /\ [Next]_vars => [ReadsKept]_vars
  BY EveryStepSafe DEF StepSafe
<1> QED
  BY <1>1, SlotsAlways, PTL DEF Spec, ReadsAreStable, ReadsKept

\* When psa_destroy_key() returns PSA_SUCCESS the identifier is in no slot and in
\* no file.
THEOREM DestructionIsFinal == Spec => DestroyIsFinal
<1>1. SlotsInv /\ [Next]_vars => [Destroyed]_vars
  BY EveryStepSafe DEF StepSafe
<1> QED
  BY <1>1, SlotsAlways, PTL DEF Spec, DestroyIsFinal, Destroyed

\* Only its destruction takes a volatile key out of its slot.
THEOREM VolatileKeysAreKept == Spec => VolatileKeysStay
<1>1. SlotsInv /\ [Next]_vars => [VolatileKept]_vars
  BY EveryStepSafe DEF StepSafe
<1> QED
  BY <1>1, SlotsAlways, PTL DEF Spec, VolatileKeysStay, VolatileKept

\* The key store implements the map of KeyStoreAbs, in which every call takes
\* effect at one instant.
THEOREM KeyStoreImplementsMap == Spec => Linearizable
<1>1. SlotsInv /\ [Next]_vars => [Abs!Next]_<<AbsKeys, AbsHandle>>
  BY EveryStepSafe DEF StepSafe, AbsStep
<1>2. Spec => Abs!Init /\ [][Abs!Next]_<<AbsKeys, AbsHandle>>
  BY <1>1, AbstractInit, SlotsAlways, PTL DEF Spec
<1> QED
  BY <1>2 DEF Linearizable, Abs!Spec, Abs!absvars
=============================================================================

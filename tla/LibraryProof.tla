----------------------------- MODULE LibraryProof -----------------------------
(***************************************************************************)
(* What every call relies on: the free lists of the slots of volatile keys *)
(* and the initialisation of the library. The two share no state.          *)
(*                                                                         *)
(* FreeList, for slices of any number and length: a fresh slice is a list  *)
(* (FreshList), taking the head off a list and pushing a slot onto it      *)
(* leave a list (Pop, Push); every operation does one of these to one      *)
(* slice, or changes only slots that are not on a list.                    *)
(***************************************************************************)
EXTENDS FreeList, PsaInit, FiniteSetTheorems, TLAPS

\* Subsets of a slice are finite and no larger than the slice.
LEMMA SliceFinite ==
    ASSUME NEW n \in Nat, NEW F \in SUBSET (0 .. (n - 1))
    PROVE  /\ IsFiniteSet(F)
           /\ Cardinality(F) \in Nat
           /\ Cardinality(F) <= n
<1>1. /\ IsFiniteSet(0 .. (n - 1))
      /\ Cardinality(0 .. (n - 1)) = n
  BY FS_Interval
<1>2. QED  BY <1>1, FS_Subset, FS_CardinalityType

\* A slice of n slots as calloc() returns it is a list of all its slots: a
\* relative link of zero leads to the next slot.
LEMMA FreshList ==
    ASSUME NEW n \in Nat \ {0}, NEW v \in [0 .. (n - 1) -> Int],
           \A j \in 0 .. (n - 1) : v[j] = 0
    PROVE  IsFreeList(0 .. (n - 1), 0, v, n)
<1> DEFINE F == 0 .. (n - 1)
           rank == [j \in F |-> n - j]
<1>1. Cardinality(F) = n  BY FS_Interval
<1>2. rank \in [F -> 1 .. n]  OBVIOUS
<1>3. 0 \in F /\ rank[0] = Cardinality(F)  BY <1>1
<1>4. \A j, k \in F : rank[j] = rank[k] => j = k  OBVIOUS
<1>5. \A j \in F :
        /\ rank[j] <= rank[0]
        /\ rank[j] = 1 => j + 1 + v[j] >= n
        /\ rank[j] # 1 => /\ j + 1 + v[j] \in F
                          /\ rank[j + 1 + v[j]] = rank[j] - 1
  OBVIOUS
<1>6. QED  BY <1>2, <1>3, <1>4, <1>5 DEF IsFreeList

\* Taking the head off: the list continues at the slot that follows it, and
\* whatever is then written to the link of the head is not looked at.
LEMMA Pop ==
    ASSUME NEW n \in Nat \ {0}, NEW F \in SUBSET (0 .. (n - 1)), NEW h \in F,
           NEW v \in [0 .. (n - 1) -> Int], IsFreeList(F, h, v, n),
           NEW w \in [0 .. (n - 1) -> Int],
           \A j \in F \ {h} : w[j] = v[j],
           NEW none \in Nat, none >= n
    PROVE  /\ h + 1 + v[h] < n => h + 1 + v[h] \in 0 .. (n - 1)
           /\ IsFreeList(F \ {h},
                         IF h + 1 + v[h] >= n THEN none ELSE h + 1 + v[h], w, n)
<1>1. PICK rank \in [F -> 1 .. n] :
          /\ rank[h] = Cardinality(F)
          /\ \A j, k \in F : rank[j] = rank[k] => j = k
          /\ \A j \in F :
                /\ rank[j] <= rank[h]
                /\ rank[j] = 1 => j + 1 + v[j] >= n
                /\ rank[j] # 1 => /\ j + 1 + v[j] \in F
                                  /\ rank[j + 1 + v[j]] = rank[j] - 1
  BY DEF IsFreeList
<1>2. IsFiniteSet(F) /\ Cardinality(F) \in Nat /\ Cardinality(F) <= n
  BY SliceFinite
<1>3. Cardinality(F \ {h}) = Cardinality(F) - 1
  BY <1>2, FS_RemoveElement
<1>4. CASE rank[h] = 1
  <2>1. \A j \in F : j = h  BY <1>1, <1>4
  <2>2. F \ {h} = {}  BY <2>1
  <2>3. h + 1 + v[h] >= n  BY <1>1, <1>4
  <2>4. QED  BY <2>2, <2>3 DEF IsFreeList
<1>5. CASE rank[h] # 1
  <2> DEFINE g == h + 1 + v[h]
             r == [j \in F \ {h} |-> rank[j]]
  <2>1. g \in F /\ rank[g] = rank[h] - 1  BY <1>1, <1>5
  <2>2. g \in F \ {h} /\ g < n /\ g >= 0
    <3>1. rank[h] \in Int  BY <1>1
    <3>2. g # h  BY <3>1, <2>1
    <3> HIDE DEF g
    <3>3. g \in 0 .. (n - 1)  BY <2>1
    <3>4. QED  BY <3>2, <3>3, <2>1
  <2>3. r \in [F \ {h} -> 1 .. n] /\ r[g] = Cardinality(F \ {h})
    BY <1>1, <1>3, <2>1, <2>2
  <2>4. \A j, k \in F \ {h} : r[j] = r[k] => j = k  BY <1>1
  <2>5. ASSUME NEW j \in F \ {h}
        PROVE  /\ r[j] <= r[g]
               /\ r[j] = 1 => j + 1 + w[j] >= n
               /\ r[j] # 1 => /\ j + 1 + w[j] \in F \ {h}
                              /\ r[j + 1 + w[j]] = r[j] - 1
    <3>1. r[j] = rank[j] /\ rank[j] # rank[h] /\ rank[j] \in 1 .. n /\ rank[h] \in 1 .. n
      BY <1>1
    <3>2. r[j] <= r[g]  BY <3>1, <2>1, <2>2, <1>1
    <3>3. r[j] = 1 => j + 1 + w[j] >= n  BY <3>1, <1>1
    <3>4. ASSUME r[j] # 1
          PROVE  j + 1 + w[j] \in F \ {h} /\ r[j + 1 + w[j]] = r[j] - 1
      <4>1. j + 1 + v[j] \in F /\ rank[j + 1 + v[j]] = rank[j] - 1
        BY <3>1, <3>4, <1>1
      <4>2. rank[j] <= rank[h]  BY <1>1
      <4>3. j + 1 + v[j] # h  BY <4>1, <4>2, <3>1
      <4>4. QED  BY <4>1, <4>3, <3>1
    <3>5. QED  BY <3>2, <3>3, <3>4
  <2>6. IsFreeList(F \ {h}, g, w, n)
    BY <2>2, <2>3, <2>4, <2>5 DEF IsFreeList
  <2>7. QED  BY <2>2, <2>6
<1>6. QED  BY <1>4, <1>5

\* Pushing slot j: it links to the old head, or to the end of the array when
\* the list was empty.
LEMMA Push ==
    ASSUME NEW n \in Nat \ {0}, NEW F \in SUBSET (0 .. (n - 1)),
           NEW h \in Nat, NEW j \in (0 .. (n - 1)) \ F,
           NEW v \in [0 .. (n - 1) -> Int], IsFreeList(F, h, v, n),
           NEW w \in [0 .. (n - 1) -> Int],
           \A k \in F : w[k] = v[k],
           w[j] = (IF h >= n THEN n ELSE h) - j - 1
    PROVE  IsFreeList(F \cup {j}, j, w, n)
<1>1. IsFiniteSet(F) /\ Cardinality(F) \in Nat
  BY SliceFinite
<1>2. Cardinality(F \cup {j}) = Cardinality(F) + 1
  BY <1>1, FS_AddElement
<1>3. F \cup {j} \in SUBSET (0 .. (n - 1))  OBVIOUS
<1>4. Cardinality(F \cup {j}) <= n  BY <1>3, SliceFinite
<1>5. CASE F = {} /\ h >= n
  <2> DEFINE r == [k \in {j} |-> 1]
  <2>1. Cardinality({j}) = 1  BY FS_Singleton
  <2>2. r \in [{j} -> 1 .. n] /\ r[j] = Cardinality({j})  BY <2>1
  <2>3. j + 1 + w[j] >= n  BY <1>5
  <2>4. F \cup {j} = {j}  BY <1>5
  <2>5. \A k \in {j} : r[k] = 1 /\ k = j  OBVIOUS
  <2> HIDE DEF r
  <2>6. IsFreeList({j}, j, w, n)
    <3>1. \E q \in [{j} -> 1 .. n] :
            /\ j \in {j}
            /\ q[j] = Cardinality({j})
            /\ \A i, k \in {j} : q[i] = q[k] => i = k
            /\ \A i \in {j} :
                  /\ q[i] <= q[j]
                  /\ q[i] = 1 => i + 1 + w[i] >= n
                  /\ q[i] # 1 => /\ i + 1 + w[i] \in {j}
                                 /\ q[i + 1 + w[i]] = q[i] - 1
      <4> USE <2>2
      <4> WITNESS r \in [{j} -> 1 .. n]
      <4>1. QED  BY <2>2, <2>3, <2>5
    <3>2. QED  BY <3>1 DEF IsFreeList
  <2>7. QED  BY <2>4, <2>6
<1>6. CASE \E rank \in [F -> 1 .. n] :
          /\ h \in F
          /\ rank[h] = Cardinality(F)
          /\ \A i, k \in F : rank[i] = rank[k] => i = k
          /\ \A i \in F :
                /\ rank[i] <= rank[h]
                /\ rank[i] = 1 => i + 1 + v[i] >= n
                /\ rank[i] # 1 => /\ i + 1 + v[i] \in F
                                  /\ rank[i + 1 + v[i]] = rank[i] - 1
  <2>1. PICK rank \in [F -> 1 .. n] :
          /\ h \in F
          /\ rank[h] = Cardinality(F)
          /\ \A i, k \in F : rank[i] = rank[k] => i = k
          /\ \A i \in F :
                /\ rank[i] <= rank[h]
                /\ rank[i] = 1 => i + 1 + v[i] >= n
                /\ rank[i] # 1 => /\ i + 1 + v[i] \in F
                                  /\ rank[i + 1 + v[i]] = rank[i] - 1
    BY <1>6
  <2> DEFINE G == F \cup {j}
             c == Cardinality(F)
             r == [k \in G |-> IF k = j THEN c + 1 ELSE rank[k]]
  <2>2. /\ c \in Nat /\ c + 1 <= n /\ Cardinality(G) = c + 1
        /\ n \in Nat /\ j \in Int /\ h \in F
        /\ rank[h] = c
    BY <1>1, <1>2, <1>4, <2>1
  <2> HIDE DEF c
  <2>3. \A k \in F : rank[k] \in 1 .. n /\ rank[k] <= c /\ k # j /\ k \in Int
    BY <2>1, <2>2
  <2>4. /\ DOMAIN r = G
        /\ r[j] = c + 1
        /\ \A k \in F : r[k] = rank[k]
        /\ r = [k \in G |-> r[k]]
    BY <2>3
  <2> HIDE DEF r
  <2>5. \A k \in G : r[k] \in 1 .. n  BY <2>2, <2>3, <2>4
  <2>6. r \in [G -> 1 .. n]  BY <2>4, <2>5
  <2>7. ASSUME NEW i \in G, NEW k \in G, r[i] = r[k]
        PROVE  i = k
    <3>1. CASE i = j /\ k \in F  BY <3>1, <2>2, <2>3, <2>4, <2>7
    <3>2. CASE k = j /\ i \in F  BY <3>2, <2>2, <2>3, <2>4, <2>7
    <3>3. CASE i \in F /\ k \in F  BY <3>3, <2>1, <2>4, <2>7
    <3>4. QED  BY <3>1, <3>2, <3>3
  <2>8. j + 1 + w[j] = h
    <3>1. h \in Int /\ h < n  BY <2>2
    <3>2. w[j] = h - j - 1  BY <3>1
    <3>3. QED  BY <3>1, <3>2, <2>2
  <2>9. r[j] # 1 /\ r[h] = r[j] - 1  BY <2>2, <2>3, <2>4
  <2>10. ASSUME NEW i \in F
         PROVE  /\ r[i] <= r[j]
                /\ r[i] = 1 => i + 1 + w[i] >= n
                /\ r[i] # 1 => /\ i + 1 + w[i] \in G
                               /\ r[i + 1 + w[i]] = r[i] - 1
    <3>1. r[i] = rank[i] /\ w[i] = v[i]  BY <2>4
    <3>2. r[i] <= r[j]  BY <3>1, <2>2, <2>3, <2>4
    <3>3. r[i] = 1 => i + 1 + w[i] >= n  BY <3>1, <2>1
    <3>4. ASSUME r[i] # 1
          PROVE  i + 1 + w[i] \in G /\ r[i + 1 + w[i]] = r[i] - 1
      <4>1. i + 1 + v[i] \in F /\ rank[i + 1 + v[i]] = rank[i] - 1
        BY <3>1, <3>4, <2>1
      <4>2. QED  BY <4>1, <3>1, <2>4
    <3>5. QED  BY <3>2, <3>3, <3>4
  <2>11. \A i \in G :
            /\ r[i] <= r[j]
            /\ r[i] = 1 => i + 1 + w[i] >= n
            /\ r[i] # 1 => /\ i + 1 + w[i] \in G
                           /\ r[i + 1 + w[i]] = r[i] - 1
    <3>1. SUFFICES ASSUME NEW i \in G
                   PROVE  /\ r[i] <= r[j]
                          /\ r[i] = 1 => i + 1 + w[i] >= n
                          /\ r[i] # 1 => /\ i + 1 + w[i] \in G
                                         /\ r[i + 1 + w[i]] = r[i] - 1
      OBVIOUS
    <3>2. CASE i = j  BY <3>2, <2>2, <2>4, <2>8, <2>9
    <3>3. CASE i \in F  BY <3>3, <2>10
    <3>4. QED  BY <3>2, <3>3
  <2>12. \E q \in [G -> 1 .. n] :
            /\ j \in G
            /\ q[j] = Cardinality(G)
            /\ \A i, k \in G : q[i] = q[k] => i = k
            /\ \A i \in G :
                  /\ q[i] <= q[j]
                  /\ q[i] = 1 => i + 1 + w[i] >= n
                  /\ q[i] # 1 => /\ i + 1 + w[i] \in G
                                 /\ q[i + 1 + w[i]] = q[i] - 1
    <3> USE <2>6
    <3> WITNESS r \in [G -> 1 .. n]
    <3>1. j \in G /\ r[j] = Cardinality(G)  BY <2>2, <2>4
    <3>2. QED  BY <3>1, <2>7, <2>11
  <2>13. QED  BY <2>12 DEF IsFreeList
<1>7. QED  BY <1>5, <1>6 DEF IsFreeList

\* A list is about the links of its own slots only.
LEMMA SameList ==
    ASSUME NEW n \in Nat \ {0}, NEW F \in SUBSET (0 .. (n - 1)), NEW h,
           NEW v, NEW w, IsFreeList(F, h, v, n), \A j \in F : w[j] = v[j]
    PROVE  IsFreeList(F, h, w, n)
  BY DEF IsFreeList

-----------------------------------------------------------------------------
(* Identifiers.                                                            *)

LEMMA Widths ==
    /\ SlotIndexRange \in Nat /\ SlotIndexRange > 0
    /\ 1073741824 = SlotIndexRange * 32
  BY SMT DEF SlotIndexRange

\* The identifier of a slot leads back to the slot, for all the slices and
\* slots the two bit fields have room for.
LEMMA RoundTrip ==
    ASSUME NEW i \in 0 .. (SliceIndexRange - 1), NEW j \in 0 .. (SlotIndexRange - 1)
    PROVE  /\ volatile_key_id_of_index(i, j) \in Nat
           /\ slice_index_of_volatile_key_id(volatile_key_id_of_index(i, j)) = i
           /\ slot_index_of_volatile_key_id(volatile_key_id_of_index(i, j)) = j
<1> DEFINE k == volatile_key_id_of_index(i, j)
<1>1. i \in 0 .. 31  BY DEF SliceIndexRange
<1>2. k = SlotIndexRange * (32 + i) + j /\ k \in Nat
  BY <1>1, Widths, SMT DEF volatile_key_id_of_index
<1> HIDE DEF k
<1>3. k % SlotIndexRange = j /\ k \div SlotIndexRange = 32 + i
  BY <1>1, <1>2, Widths, SMT
<1>4. (32 + i) % 32 = i  BY <1>1
<1>5. QED
  BY <1>2, <1>3, <1>4 DEF k, slice_index_of_volatile_key_id,
     slot_index_of_volatile_key_id, SliceIndexRange

LEMMA SliceFacts ==
    /\ \A i \in Slices : i \in 0 .. (SliceIndexRange - 1) /\ i < SliceCount /\ i \in Nat
    /\ SliceCount \in Nat
    /\ \A i \in Slices : /\ SliceLength[i] \in Nat \ {0}
                         /\ SliceLength[i] <= FREE_SLOT_INDEX_NONE
                         /\ Indices(i) = 0 .. (SliceLength[i] - 1)
    /\ \A i \in Slices : \A j \in Indices(i) :
          j \in 0 .. (SlotIndexRange - 1) /\ j < SliceLength[i] /\ j \in Nat
    /\ FREE_SLOT_INDEX_NONE \in Nat
    /\ 0 \in Slices
<1>1. SliceCount \in Nat /\ SliceCount <= SliceIndexRange /\ SliceCount > 0
      /\ SliceIndexRange \in Nat
  BY FreeListAssumption DEF SliceIndexRange
<1>2. \A i \in Slices : SliceLength[i] \in Nat \ {0} /\ SliceLength[i] <= SlotIndexRange
  BY FreeListAssumption, Widths, SMT
<1> HIDE DEF SliceIndexRange
<1>3. QED
  BY <1>1, <1>2, Widths, SMT DEF Slices, Indices, FREE_SLOT_INDEX_NONE

-----------------------------------------------------------------------------
(* The operations preserve the invariant.                                  *)

\* The free lists of the slices a step does not touch.
LEMMA OtherSlices ==
    ASSUME FreeListTypeOK, FreeListExact, NEW i \in Slices,
           state'[i] = state[i], first'[i] = first[i], var'[i] = var[i]
    PROVE  IsFreeList(Free(i)', first'[i], var'[i], SliceLength[i])
<1>1. Free(i)' = Free(i)  BY DEF Free
<1>2. QED  BY <1>1 DEF FreeListExact

\* A slot that stays off the free list does not affect it.
LEMMA OffList ==
    ASSUME FreeListTypeOK, FreeListExact, NEW i \in Slices, NEW j \in Indices(i),
           state[i][j] # "EMPTY", state'[i][j] # "EMPTY",
           \A k \in Indices(i) \ {j} : state'[i][k] = state[i][k] /\ var'[i][k] = var[i][k],
           first'[i] = first[i]
    PROVE  IsFreeList(Free(i)', first'[i], var'[i], SliceLength[i])
<1>1. Free(i)' = Free(i)  BY DEF Free
<1>2. \A k \in Free(i) : var'[i][k] = var[i][k]  BY DEF Free
<1>3. Free(i) \in SUBSET (0 .. (SliceLength[i] - 1))  BY SliceFacts DEF Free
<1>4. IsFreeList(Free(i), first[i], var[i], SliceLength[i])  BY DEF FreeListExact
<1>5. SliceLength[i] \in Nat \ {0}  BY SliceFacts
<1> HIDE DEF Free, IsFreeList
<1>6. IsFreeList(Free(i), first[i], var'[i], SliceLength[i])
  BY <1>2, <1>3, <1>4, <1>5, SameList
<1>7. QED  BY <1>1, <1>6

\* psa_wipe_key_slot() by its rightful caller returns the slot to the list.
LEMMA WipePreserves ==
    ASSUME FreeListInv, NEW i \in Slices, NEW j \in Indices(i),
           state[i][j] # "EMPTY",
           WipeStatus(state[i][j], var[i][j]) = "SUCCESS",
           WipeKeySlot(i, j, state[i][j]), slices' = slices
    PROVE  FreeListInv'
<1>1. /\ state' = [state EXCEPT ![i][j] = "EMPTY"]
      /\ id' = [id EXCEPT ![i][j] = NoId]
      /\ sliceIndex' = [sliceIndex EXCEPT ![i][j] = 0]
      /\ var' = [var EXCEPT ![i][j] = Link(i, j)]
      /\ first' = [first EXCEPT ![i] = j]
      /\ status' = "SUCCESS"
  <2>1. FreedInto(i, j) = i  BY DEF FreedInto, FreeListInv, UnionIsReaders
  <2>2. QED  BY <2>1 DEF WipeKeySlot
<1>2. FreeListTypeOK  BY DEF FreeListInv
<1>3. Link(i, j) \in Int /\ first[i] \in Nat /\ j \in Nat /\ j < SliceLength[i] /\ SliceLength[i] \in Nat \ {0}
      /\ j <= FREE_SLOT_INDEX_NONE
  <2>1. j \in Nat /\ j < SliceLength[i] /\ SliceLength[i] \in Nat \ {0} /\ j <= FREE_SLOT_INDEX_NONE
    BY SliceFacts
  <2>2. first[i] \in Nat  BY <1>2 DEF FreeListTypeOK
  <2>3. QED  BY <2>1, <2>2 DEF Link
<1> DEFINE w == Link(i, j)
<1>4. w \in Int /\ w = (IF first[i] >= SliceLength[i] THEN SliceLength[i] ELSE first[i]) - j - 1
  BY <1>3 DEF Link
<1> HIDE DEF w
<1>5. /\ state'[i][j] = "EMPTY" /\ var'[i][j] = w /\ first'[i] = j
      /\ sliceIndex'[i][j] = 0 /\ id'[i][j] = NoId
      /\ \A k \in Indices(i) \ {j} :
            /\ state'[i][k] = state[i][k] /\ var'[i][k] = var[i][k]
            /\ sliceIndex'[i][k] = sliceIndex[i][k] /\ id'[i][k] = id[i][k]
      /\ \A h \in Slices \ {i} :
            /\ state'[h] = state[h] /\ var'[h] = var[h] /\ first'[h] = first[h]
            /\ sliceIndex'[h] = sliceIndex[h] /\ id'[h] = id[h]
  BY <1>1, <1>2 DEF FreeListTypeOK, w
<1>6. FreeListTypeOK'
  <2>1. first' \in [Slices -> 0 .. FREE_SLOT_INDEX_NONE]
    BY <1>1, <1>2, <1>3, SliceFacts, SMT DEF FreeListTypeOK
  <2>2. /\ DOMAIN state' = Slices /\ DOMAIN var' = Slices
        /\ DOMAIN sliceIndex' = Slices /\ DOMAIN id' = Slices
    BY <1>1, <1>2 DEF FreeListTypeOK
  <2>3. ASSUME NEW h \in Slices
        PROVE  /\ state'[h] \in [Indices(h) -> {"EMPTY", "FILLING", "FULL", "PENDING_DELETION"}]
               /\ var'[h] \in [Indices(h) -> Int]
               /\ sliceIndex'[h] \in [Indices(h) -> Slices]
               /\ id'[h] \in [Indices(h) -> Nat]
               /\ first'[h] < SliceLength[h] \/ first'[h] = FREE_SLOT_INDEX_NONE
    <3>1. CASE h # i  BY <3>1, <1>2, <1>5 DEF FreeListTypeOK
    <3>2. CASE h = i
      <4>1. /\ state'[i] = [state[i] EXCEPT ![j] = "EMPTY"]
            /\ var'[i] = [var[i] EXCEPT ![j] = w]
            /\ sliceIndex'[i] = [sliceIndex[i] EXCEPT ![j] = 0]
            /\ id'[i] = [id[i] EXCEPT ![j] = NoId]
        BY <1>1, <1>2 DEF FreeListTypeOK, w
      <4>2. /\ state'[i] \in [Indices(i) -> {"EMPTY", "FILLING", "FULL", "PENDING_DELETION"}]
            /\ var'[i] \in [Indices(i) -> Int]
        BY <4>1, <1>2, <1>4 DEF FreeListTypeOK
      <4>3. sliceIndex'[i] \in [Indices(i) -> Slices]
        BY <4>1, <1>2, SliceFacts DEF FreeListTypeOK
      <4>4. id'[i] \in [Indices(i) -> Nat]
        BY <4>1, <1>2 DEF FreeListTypeOK, NoId
      <4>5. first'[i] < SliceLength[i]  BY <1>3, <1>5
      <4>6. QED  BY <4>2, <4>3, <4>4, <4>5, <3>2
    <3>3. QED  BY <3>1, <3>2
  <2>4. QED  BY <2>1, <2>2, <2>3, <1>1, <1>2 DEF FreeListTypeOK
<1>7. FreeListExact'
  <2>1. IsFreeList(Free(i)', first'[i], var'[i], SliceLength[i])
    <3>1. Free(i)' = Free(i) \cup {j}  BY <1>5 DEF Free
    <3>2. Free(i) \in SUBSET (0 .. (SliceLength[i] - 1)) /\ j \in (0 .. (SliceLength[i] - 1)) \ Free(i)
      BY SliceFacts DEF Free
    <3>3. IsFreeList(Free(i), first[i], var[i], SliceLength[i])
      BY DEF FreeListInv, FreeListExact
    <3>4. \A k \in Free(i) : var'[i][k] = var[i][k]
      BY <1>5, <3>2 DEF Free
    <3>5. var[i] \in [0 .. (SliceLength[i] - 1) -> Int] /\ var'[i] \in [0 .. (SliceLength[i] - 1) -> Int]
      BY <1>2, <1>6, SliceFacts DEF FreeListTypeOK
    <3>6. var'[i][j] = (IF first[i] >= SliceLength[i] THEN SliceLength[i] ELSE first[i]) - j - 1
      BY <1>4, <1>5
    <3> HIDE DEF IsFreeList, Free
    <3>7. IsFreeList(Free(i) \cup {j}, j, var'[i], SliceLength[i])
      BY <1>3, <3>2, <3>3, <3>4, <3>5, <3>6, Push
    <3>8. QED  BY <3>1, <3>7, <1>5
  <2>2. ASSUME NEW h \in Slices \ {i}
        PROVE  IsFreeList(Free(h)', first'[h], var'[h], SliceLength[h])
    BY <1>5, <1>2, OtherSlices DEF FreeListInv
  <2>3. QED  BY <2>1, <2>2 DEF FreeListExact
<1>8. UnionIsReaders'
  <2>1. ASSUME NEW h \in Slices, NEW k \in Indices(h)
        PROVE  /\ state'[h][k] = "FILLING" => var'[h][k] = 0
               /\ state'[h][k] = "FULL" => var'[h][k] >= 0
               /\ state'[h][k] = "PENDING_DELETION" => var'[h][k] > 0
               /\ state'[h][k] # "EMPTY" => sliceIndex'[h][k] = h /\ h \in slices'
    <3>1. CASE h = i /\ k = j  BY <3>1, <1>5
    <3>2. CASE ~(h = i /\ k = j)  BY <3>2, <1>5 DEF FreeListInv, UnionIsReaders
    <3>3. QED  BY <3>1, <3>2
  <2>2. QED  BY <2>1 DEF UnionIsReaders
<1>9. IdFindsSlot'
  <2>1. ASSUME NEW h \in Slices, NEW k \in Indices(h), state'[h][k] # "EMPTY"
        PROVE  get_volatile_key_slot(id[h][k])' = <<h, k>>
    <3>1. state[h][k] # "EMPTY" /\ id'[h][k] = id[h][k]
      BY <2>1, <1>5
    <3>2. get_volatile_key_slot(id[h][k]) = <<h, k>>
      BY <3>1 DEF FreeListInv, IdFindsSlot
    <3>3. QED  BY <3>1, <3>2 DEF get_volatile_key_slot
  <2>2. QED  BY <2>1 DEF IdFindsSlot
<1>10. QED  BY <1>1, <1>6, <1>7, <1>8, <1>9 DEF FreeListInv, NoCorruption

\* A step that changes the state or the readers of one slot in use.
LEMMA SlotUpdatePreserves ==
    ASSUME FreeListInv, NEW i \in Slices, NEW j \in Indices(i),
           NEW st \in {"FILLING", "FULL", "PENDING_DELETION"}, NEW r \in Int,
           state[i][j] # "EMPTY",
           st = "FILLING" => r = 0, st = "FULL" => r >= 0,
           st = "PENDING_DELETION" => r > 0,
           DOMAIN state' = Slices, DOMAIN var' = Slices,
           state'[i] = [state[i] EXCEPT ![j] = st],
           var'[i] = [var[i] EXCEPT ![j] = r],
           \A h \in Slices \ {i} : state'[h] = state[h] /\ var'[h] = var[h],
           status' = "SUCCESS", UNCHANGED <<slices, first, sliceIndex, id>>
    PROVE  FreeListInv'
<1>1. FreeListTypeOK  BY DEF FreeListInv
<1>2. /\ state'[i][j] = st /\ var'[i][j] = r
      /\ \A k \in Indices(i) \ {j} :
            state'[i][k] = state[i][k] /\ var'[i][k] = var[i][k]
      /\ \A h \in Slices \ {i} : state'[h] = state[h] /\ var'[h] = var[h]
  BY <1>1 DEF FreeListTypeOK
<1>3. FreeListTypeOK'
  <2>1. ASSUME NEW h \in Slices
        PROVE  /\ state'[h] \in [Indices(h) -> {"EMPTY", "FILLING", "FULL", "PENDING_DELETION"}]
               /\ var'[h] \in [Indices(h) -> Int]
    <3>1. CASE h # i  BY <3>1, <1>1, <1>2 DEF FreeListTypeOK
    <3>2. CASE h = i  BY <3>2, <1>1 DEF FreeListTypeOK
    <3>3. QED  BY <3>1, <3>2
  <2>2. QED  BY <2>1, <1>1 DEF FreeListTypeOK
<1>4. FreeListExact'
  <2>1. FreeListExact  BY DEF FreeListInv
  <2>2. ASSUME NEW h \in Slices
        PROVE  IsFreeList(Free(h)', first'[h], var'[h], SliceLength[h])
    <3>1. CASE h = i  BY <3>1, <2>1, <1>1, <1>2, OffList
    <3>2. CASE h # i  BY <3>2, <2>1, <1>1, <1>2, OtherSlices
    <3>3. QED  BY <3>1, <3>2
  <2>3. QED  BY <2>2 DEF FreeListExact
<1>5. UnionIsReaders'
  <2>1. ASSUME NEW h \in Slices, NEW k \in Indices(h)
        PROVE  /\ state'[h][k] = "FILLING" => var'[h][k] = 0
               /\ state'[h][k] = "FULL" => var'[h][k] >= 0
               /\ state'[h][k] = "PENDING_DELETION" => var'[h][k] > 0
               /\ state'[h][k] # "EMPTY" => sliceIndex'[h][k] = h /\ h \in slices'
    <3>1. CASE h = i /\ k = j
      BY <3>1, <1>2 DEF FreeListInv, UnionIsReaders
    <3>2. CASE ~(h = i /\ k = j)
      <4>1. state'[h][k] = state[h][k] /\ var'[h][k] = var[h][k]
        BY <3>2, <1>2
      <4>2. QED  BY <4>1 DEF FreeListInv, UnionIsReaders
    <3>3. QED  BY <3>1, <3>2
  <2>2. QED  BY <2>1 DEF UnionIsReaders
<1>6. IdFindsSlot'
  <2>1. ASSUME NEW h \in Slices, NEW k \in Indices(h), state'[h][k] # "EMPTY"
        PROVE  get_volatile_key_slot(id[h][k])' = <<h, k>>
    <3>1. state[h][k] # "EMPTY"  BY <2>1, <1>2
    <3>2. get_volatile_key_slot(id[h][k]) = <<h, k>>
      BY <3>1 DEF FreeListInv, IdFindsSlot
    <3>3. QED  BY <3>2 DEF get_volatile_key_slot
  <2>2. QED  BY <2>1 DEF IdFindsSlot
<1>7. QED  BY <1>3, <1>4, <1>5, <1>6 DEF FreeListInv, NoCorruption

\* psa_allocate_volatile_key_slot() takes the head off a list.
LEMMA AllocatePreserves ==
    ASSUME FreeListInv, psa_allocate_volatile_key_slot
    PROVE  FreeListInv'
<1>1. PICK i \in Slices :
        /\ first[i] # FREE_SLOT_INDEX_NONE
        /\ slices' = slices \cup {i}
        /\ first' = [first EXCEPT ![i] = NextFree(i, first[i])]
        /\ var' = [var EXCEPT ![i][first[i]] = Reused(i, first[i])]
        /\ IF state[i][first[i]] = "EMPTY"
           THEN /\ state' = [state EXCEPT ![i][first[i]] = "FILLING"]
                /\ sliceIndex' = [sliceIndex EXCEPT ![i][first[i]] = i]
                /\ id' = [id EXCEPT ![i][first[i]] =
                            volatile_key_id_of_index(i, first[i])]
                /\ status' = "SUCCESS"
           ELSE /\ status' = "CORRUPTION_DETECTED"
                /\ UNCHANGED <<state, sliceIndex, id>>
  BY DEF psa_allocate_volatile_key_slot, Selected
<1>2. FreeListTypeOK  BY DEF FreeListInv
<1>3. PICK j \in Indices(i) : first[i] = j
  <2>1. first[i] \in Nat /\ first[i] < SliceLength[i]  BY <1>1, <1>2 DEF FreeListTypeOK
  <2>2. QED  BY <2>1, SliceFacts
<1>4. /\ IsFreeList(Free(i), j, var[i], SliceLength[i])
      /\ Free(i) \in SUBSET (0 .. (SliceLength[i] - 1))
      /\ SliceLength[i] \in Nat \ {0} /\ j \in Nat /\ j < SliceLength[i]
  BY <1>3, SliceFacts DEF FreeListInv, FreeListExact, Free
<1>5. j \in Free(i)  BY <1>4 DEF IsFreeList
<1>6. state[i][j] = "EMPTY"  BY <1>5 DEF Free
<1> DEFINE g == NextFree(i, j)
           k0 == volatile_key_id_of_index(i, j)
<1>7. /\ first' = [first EXCEPT ![i] = g]
      /\ var' = [var EXCEPT ![i][j] = 0]
      /\ state' = [state EXCEPT ![i][j] = "FILLING"]
      /\ sliceIndex' = [sliceIndex EXCEPT ![i][j] = i]
      /\ id' = [id EXCEPT ![i][j] = k0]
      /\ status' = "SUCCESS"
  BY <1>1, <1>3, <1>6 DEF Reused
<1>8. k0 \in Nat  BY RoundTrip, SliceFacts
<1>9. g = IF j + 1 + var[i][j] >= SliceLength[i]
          THEN FREE_SLOT_INDEX_NONE ELSE j + 1 + var[i][j]
  BY DEF NextFree, Follows
<1> HIDE DEF g, k0
<1>10. /\ state'[i][j] = "FILLING" /\ var'[i][j] = 0 /\ first'[i] = g
       /\ sliceIndex'[i][j] = i /\ id'[i][j] = k0
       /\ \A k \in Indices(i) \ {j} :
             /\ state'[i][k] = state[i][k] /\ var'[i][k] = var[i][k]
             /\ sliceIndex'[i][k] = sliceIndex[i][k] /\ id'[i][k] = id[i][k]
       /\ \A h \in Slices \ {i} :
             /\ state'[h] = state[h] /\ var'[h] = var[h] /\ first'[h] = first[h]
             /\ sliceIndex'[h] = sliceIndex[h] /\ id'[h] = id[h]
  BY <1>7, <1>2 DEF FreeListTypeOK
<1>11. /\ state'[i] = [state[i] EXCEPT ![j] = "FILLING"]
       /\ var'[i] = [var[i] EXCEPT ![j] = 0]
       /\ sliceIndex'[i] = [sliceIndex[i] EXCEPT ![j] = i]
       /\ id'[i] = [id[i] EXCEPT ![j] = k0]
  BY <1>7, <1>2 DEF FreeListTypeOK
<1>12. /\ var[i] \in [0 .. (SliceLength[i] - 1) -> Int]
       /\ var'[i] \in [0 .. (SliceLength[i] - 1) -> Int]
  BY <1>2, <1>11, SliceFacts DEF FreeListTypeOK
<1>13. /\ j + 1 + var[i][j] < SliceLength[i] => j + 1 + var[i][j] \in 0 .. (SliceLength[i] - 1)
       /\ IsFreeList(Free(i) \ {j}, g, var'[i], SliceLength[i])
  <2>1. \A k \in Free(i) \ {j} : var'[i][k] = var[i][k]  BY <1>10 DEF Free
  <2>2. FREE_SLOT_INDEX_NONE \in Nat /\ FREE_SLOT_INDEX_NONE >= SliceLength[i]
    BY SliceFacts
  <2> HIDE DEF Free, IsFreeList, FREE_SLOT_INDEX_NONE
  <2>3. QED  BY <1>4, <1>5, <1>9, <1>12, <2>1, <2>2, Pop
<1>14. g \in 0 .. FREE_SLOT_INDEX_NONE /\ (g < SliceLength[i] \/ g = FREE_SLOT_INDEX_NONE)
  <2>1. FREE_SLOT_INDEX_NONE \in Nat /\ FREE_SLOT_INDEX_NONE >= SliceLength[i]
    BY SliceFacts
  <2>2. CASE j + 1 + var[i][j] >= SliceLength[i]  BY <2>1, <2>2, <1>9
  <2>3. CASE ~(j + 1 + var[i][j] >= SliceLength[i])
    <3>1. var[i][j] \in Int  BY <1>2 DEF FreeListTypeOK
    <3>2. j + 1 + var[i][j] < SliceLength[i]  BY <3>1, <2>3, <1>4
    <3>3. g \in 0 .. (SliceLength[i] - 1)  BY <3>2, <2>3, <1>9, <1>13
    <3>4. QED  BY <3>3, <2>1, <1>4
  <2>4. QED  BY <2>2, <2>3
<1>15. FreeListTypeOK'
  <2>1. first' \in [Slices -> 0 .. FREE_SLOT_INDEX_NONE]
    BY <1>2, <1>7, <1>14 DEF FreeListTypeOK
  <2>2. /\ DOMAIN state' = Slices /\ DOMAIN var' = Slices
        /\ DOMAIN sliceIndex' = Slices /\ DOMAIN id' = Slices
    BY <1>7, <1>2 DEF FreeListTypeOK
  <2>3. ASSUME NEW h \in Slices
        PROVE  /\ state'[h] \in [Indices(h) -> {"EMPTY", "FILLING", "FULL", "PENDING_DELETION"}]
               /\ var'[h] \in [Indices(h) -> Int]
               /\ sliceIndex'[h] \in [Indices(h) -> Slices]
               /\ id'[h] \in [Indices(h) -> Nat]
               /\ first'[h] < SliceLength[h] \/ first'[h] = FREE_SLOT_INDEX_NONE
    <3>1. CASE h # i  BY <3>1, <1>2, <1>10 DEF FreeListTypeOK
    <3>2. CASE h = i
      <4>1. /\ state'[i] \in [Indices(i) -> {"EMPTY", "FILLING", "FULL", "PENDING_DELETION"}]
            /\ var'[i] \in [Indices(i) -> Int]
            /\ sliceIndex'[i] \in [Indices(i) -> Slices]
        BY <1>11, <1>2 DEF FreeListTypeOK
      <4>2. id'[i] \in [Indices(i) -> Nat]  BY <1>11, <1>8, <1>2 DEF FreeListTypeOK
      <4>3. QED  BY <4>1, <4>2, <3>2, <1>10, <1>14
    <3>3. QED  BY <3>1, <3>2
  <2>4. slices' \in SUBSET Slices  BY <1>1, <1>2 DEF FreeListTypeOK
  <2>5. QED  BY <2>1, <2>2, <2>3, <2>4, <1>7 DEF FreeListTypeOK
<1>16. FreeListExact'
  <2>1. Free(i)' = Free(i) \ {j}  BY <1>10 DEF Free
  <2>2. ASSUME NEW h \in Slices
        PROVE  IsFreeList(Free(h)', first'[h], var'[h], SliceLength[h])
    <3>1. CASE h = i  BY <3>1, <2>1, <1>10, <1>13
    <3>2. CASE h # i  BY <3>2, <1>2, <1>10, OtherSlices DEF FreeListInv
    <3>3. QED  BY <3>1, <3>2
  <2>3. QED  BY <2>2 DEF FreeListExact
<1>17. UnionIsReaders'
  <2>1. ASSUME NEW h \in Slices, NEW k \in Indices(h)
        PROVE  /\ state'[h][k] = "FILLING" => var'[h][k] = 0
               /\ state'[h][k] = "FULL" => var'[h][k] >= 0
               /\ state'[h][k] = "PENDING_DELETION" => var'[h][k] > 0
               /\ state'[h][k] # "EMPTY" => sliceIndex'[h][k] = h /\ h \in slices'
    <3>1. CASE h = i /\ k = j  BY <3>1, <1>1, <1>10
    <3>2. CASE ~(h = i /\ k = j)
      BY <3>2, <1>1, <1>10 DEF FreeListInv, UnionIsReaders
    <3>3. QED  BY <3>1, <3>2
  <2>2. QED  BY <2>1 DEF UnionIsReaders
<1>18. IdFindsSlot'
  <2>1. ASSUME NEW h \in Slices, NEW k \in Indices(h), state'[h][k] # "EMPTY"
        PROVE  get_volatile_key_slot(id[h][k])' = <<h, k>>
    <3>1. CASE h = i /\ k = j
      <4>1. i \in slices'  BY <1>1
      <4>2. get_volatile_key_slot(k0)' = <<i, j>>
        <5>1. ~(i >= SliceCount) /\ ~(j >= SliceLength[i])
          BY SliceFacts
        <5>2. /\ slice_index_of_volatile_key_id(k0) = i
              /\ slot_index_of_volatile_key_id(k0) = j
          BY RoundTrip, SliceFacts DEF k0
        <5>3. QED  BY <5>1, <5>2, <4>1 DEF get_volatile_key_slot
      <4>3. QED  BY <3>1, <4>2, <1>10
    <3>2. CASE ~(h = i /\ k = j)
      <4>1. state[h][k] # "EMPTY" /\ id'[h][k] = id[h][k]
        BY <3>2, <2>1, <1>10
      <4>2. get_volatile_key_slot(id[h][k]) = <<h, k>>
        BY <4>1 DEF FreeListInv, IdFindsSlot
      <4>3. slices \subseteq slices'  BY <1>1
      <4>4. QED  BY <4>1, <4>2, <4>3, SliceFacts DEF get_volatile_key_slot, NoSlot
    <3>3. QED  BY <3>1, <3>2
  <2>2. QED  BY <2>1 DEF IdFindsSlot
<1>19. QED  BY <1>7, <1>15, <1>16, <1>17, <1>18 DEF FreeListInv, NoCorruption

\* A store without slices: program startup, or psa_wipe_all_key_slots().
LEMMA EmptyStore ==
    ASSUME FreeListInit
    PROVE  FreeListInv
<1>1. FreeListTypeOK
  BY SliceFacts, SMT DEF FreeListInit, FreeListTypeOK, NoId
<1>2. ASSUME NEW i \in Slices
      PROVE  IsFreeList(Free(i), first[i], var[i], SliceLength[i])
  <2>1. Free(i) = 0 .. (SliceLength[i] - 1)  BY SliceFacts DEF FreeListInit, Free
  <2>2. /\ var[i] \in [0 .. (SliceLength[i] - 1) -> Int]
        /\ \A j \in 0 .. (SliceLength[i] - 1) : var[i][j] = 0
        /\ SliceLength[i] \in Nat \ {0} /\ first[i] = 0
    BY SliceFacts DEF FreeListInit
  <2> HIDE DEF FreeListInit, Free, IsFreeList
  <2>3. QED  BY <2>1, <2>2, FreshList
<1>3. FreeListExact  BY <1>2 DEF FreeListExact
<1>4. UnionIsReaders /\ IdFindsSlot /\ NoCorruption
  BY DEF FreeListInit, UnionIsReaders, IdFindsSlot, NoCorruption
<1>5. QED  BY <1>1, <1>3, <1>4 DEF FreeListInv

LEMMA WipeAllPreserves ==
    ASSUME psa_wipe_all_key_slots
    PROVE  FreeListInv'
<1>1. FreeListInit'  BY DEF psa_wipe_all_key_slots, FreeListInit
<1>2. QED  BY <1>1, EmptyStore, PTL

\* A step that only reports a status.
LEMMA StatusOnly ==
    ASSUME FreeListInv, UNCHANGED <<slices, first, state, var, sliceIndex, id>>,
           status' \in {"SUCCESS", "INSUFFICIENT_MEMORY"}
    PROVE  FreeListInv'
<1>1. FreeListTypeOK'  BY DEF FreeListInv, FreeListTypeOK
<1>2. FreeListExact'
  <2>1. ASSUME NEW i \in Slices
        PROVE  IsFreeList(Free(i)', first'[i], var'[i], SliceLength[i])
    BY OtherSlices DEF FreeListInv
  <2>2. QED  BY <2>1 DEF FreeListExact
<1>3. UnionIsReaders'  BY DEF FreeListInv, UnionIsReaders
<1>4. IdFindsSlot'
  BY DEF FreeListInv, IdFindsSlot, get_volatile_key_slot
<1>5. QED  BY <1>1, <1>2, <1>3, <1>4 DEF FreeListInv, NoCorruption

\* FreeListInv is inductive: each call of the slot manager preserves it.
THEOREM FreeListInductive == FreeListInv /\ [FreeListNext]_freeListVars => FreeListInv'
<1> SUFFICES ASSUME FreeListInv, [FreeListNext]_freeListVars
             PROVE  FreeListInv'
  OBVIOUS
<1>1. CASE psa_allocate_volatile_key_slot  BY <1>1, AllocatePreserves
<1>2. CASE AllocationFails
  BY <1>2, StatusOnly DEF AllocationFails
<1>3. ASSUME NEW i \in Slices, NEW j \in Indices(i), OnSlot(i, j)
      PROVE  FreeListInv'
  <2>1. FreeListTypeOK /\ UnionIsReaders  BY DEF FreeListInv
  <2>2. var[i][j] \in Int  BY <2>1 DEF FreeListTypeOK
  <2>3. /\ state[i] = [state[i] EXCEPT ![j] = state[i][j]]
        /\ var[i] = [var[i] EXCEPT ![j] = var[i][j]]
        /\ DOMAIN state = Slices /\ DOMAIN var = Slices
    BY <2>1 DEF FreeListTypeOK
  <2>4. /\ state[i][j] = "FILLING" => var[i][j] = 0
        /\ state[i][j] = "FULL" => var[i][j] >= 0
        /\ state[i][j] = "PENDING_DELETION" => var[i][j] > 0
    BY <2>1 DEF UnionIsReaders
  <2>5. CASE FinishCreation(i, j)
    <3>1. /\ state'[i] = [state[i] EXCEPT ![j] = "FULL"] /\ DOMAIN state' = Slices
          /\ \A h \in Slices \ {i} : state'[h] = state[h]
          /\ var[i][j] >= 0
      BY <2>5, <2>3, <2>4 DEF FinishCreation
    <3>2. QED  BY <2>5, <2>2, <2>3, <3>1, SlotUpdatePreserves DEF FinishCreation
  <2>6. CASE FailCreation(i, j)
    BY <2>6, <2>4, WipePreserves DEF FailCreation, WipeStatus
  <2>7. CASE RegisterRead(i, j)
    <3>1. /\ var'[i] = [var[i] EXCEPT ![j] = var[i][j] + 1] /\ DOMAIN var' = Slices
          /\ \A h \in Slices \ {i} : var'[h] = var[h]
          /\ state' = state /\ state[i][j] = "FULL"
          /\ var[i][j] + 1 \in Int /\ var[i][j] + 1 >= 0
      BY <2>7, <2>2, <2>3, <2>4 DEF RegisterRead
    <3>2. QED  BY <2>7, <2>3, <3>1, SlotUpdatePreserves DEF RegisterRead
  <2>8. CASE UnregisterRead(i, j)
    <3>1. CASE LastReader(i, j)
      BY <2>8, <3>1, WipePreserves DEF UnregisterRead, LastReader, WipeStatus
    <3>2. CASE ~LastReader(i, j)
      <4>1. /\ var'[i] = [var[i] EXCEPT ![j] = var[i][j] - 1]
            /\ DOMAIN var' = Slices
            /\ \A h \in Slices \ {i} : var'[h] = var[h]
            /\ state' = state
            /\ status' = "SUCCESS"
            /\ UNCHANGED <<slices, first, sliceIndex, id>>
        BY <2>8, <3>2, <2>3 DEF UnregisterRead
      <4>2. /\ state[i][j] \in {"FULL", "PENDING_DELETION"}
            /\ var[i][j] > 0
            /\ state[i][j] = "PENDING_DELETION" => var[i][j] # 1
        BY <2>8, <3>2 DEF UnregisterRead, LastReader
      <4>3. /\ var[i][j] - 1 \in Int /\ var[i][j] - 1 >= 0
            /\ state[i][j] = "PENDING_DELETION" => var[i][j] - 1 > 0
        BY <4>2, <2>2
      <4>4. QED  BY <2>3, <4>1, <4>2, <4>3, SlotUpdatePreserves
    <3>3. QED  BY <3>1, <3>2
  <2>9. CASE MarkForDeletion(i, j)
    <3>1. /\ state'[i] = [state[i] EXCEPT ![j] = "PENDING_DELETION"]
          /\ DOMAIN state' = Slices
          /\ \A h \in Slices \ {i} : state'[h] = state[h]
      BY <2>9, <2>3 DEF MarkForDeletion
    <3>2. QED  BY <2>9, <2>2, <2>3, <3>1, SlotUpdatePreserves DEF MarkForDeletion
  <2>10. QED  BY <1>3, <2>5, <2>6, <2>7, <2>8, <2>9 DEF OnSlot
<1>4. CASE psa_wipe_all_key_slots  BY <1>4, WipeAllPreserves
<1>5. CASE UNCHANGED freeListVars
  <2>1. status \in {"SUCCESS", "INSUFFICIENT_MEMORY"}
    BY DEF FreeListInv, FreeListTypeOK, NoCorruption
  <2>2. QED  BY <2>1, <1>5, StatusOnly DEF freeListVars
<1>6. QED  BY <1>1, <1>2, <1>3, <1>4, <1>5 DEF FreeListNext

\* In every reachable state of the dynamic key store the free list of each
\* slice holds exactly its empty slots, occupied slots count readers in the
\* union and are found under their identifiers, and no consistency check has
\* failed: for any number and length of slices and any number of readers.
THEOREM FreeListSafe == FreeListSpec => []FreeListInv
<1>1. FreeListInit => FreeListInv  BY EmptyStore
<1>2. QED  BY <1>1, FreeListInductive, PTL DEF FreeListSpec

\* The free lists of all slices are exact in every reachable state.
THEOREM FreeListIsExact == FreeListSpec => []FreeListExact
<1>1. FreeListInv => FreeListExact  BY DEF FreeListInv
<1>2. QED  BY <1>1, FreeListSafe, PTL

\* Indices, links and identifiers stay in their ranges.
THEOREM FreeListTyped == FreeListSpec => []FreeListTypeOK
<1>1. FreeListInv => FreeListTypeOK  BY DEF FreeListInv
<1>2. QED  BY <1>1, FreeListSafe, PTL

\* The union of a slot in use is a count of readers, never a stale link.
THEOREM UnionIsCount == FreeListSpec => []UnionIsReaders
<1>1. FreeListInv => UnionIsReaders  BY DEF FreeListInv
<1>2. QED  BY <1>1, FreeListSafe, PTL

\* The identifier of a volatile key leads to its slot and nowhere else.
THEOREM IdentifiersFindSlots == FreeListSpec => []IdFindsSlot
<1>1. FreeListInv => IdFindsSlot  BY DEF FreeListInv
<1>2. QED  BY <1>1, FreeListSafe, PTL

\* No consistency check of the slot manager fails.
THEOREM SliceChecksNeverFail == FreeListSpec => []NoCorruption
<1>1. FreeListInv => NoCorruption  BY DEF FreeListInv
<1>2. QED  BY <1>1, FreeListSafe, PTL

-----------------------------------------------------------------------------
(* PsaInit: psa_crypto_init() may be called by any number of threads at    *)
(* once. Until a subsystem fails, whoever returns first finds the library  *)
(* ready; and whatever fails, nothing stays half initialised.              *)

USE DEF Subsystems, FreeSteps, Pcs

\* The invariant holds before the first call.
LEMMA InitialInv == Init => SoundInv
  BY DEF Init, SoundInv, TypeOK, FlagsTrue, StageReached, FreeAlone,
         ReadyAfterInit, Ready, Idle

-----------------------------------------------------------------------------
(* Every section preserves the invariant.                                  *)

\* The two sections that read the state of the generator and the flags.
LEMMA ReadRngStateInv ==
  ASSUME SoundInv, NEW t \in Threads, NEW l \in {"init_check", "guard"},
         ReadRngState(t, l)
  PROVE  SoundInv'
<1>1. TypeOK'
  BY DEF SoundInv, TypeOK, ReadRngState, Goto, Idle
<1>2. FlagsTrue' /\ ReadyAfterInit'
  BY DEF SoundInv, FlagsTrue, ReadyAfterInit, Ready, ReadRngState, Goto
<1>3. StageReached'
  BY DEF SoundInv, TypeOK, StageReached, ReadRngState, Goto, Idle
<1>4. FreeAlone'
  BY DEF SoundInv, TypeOK, FreeAlone, ReadRngState, Goto, Idle, Freeing
<1> QED
  BY <1>1, <1>2, <1>3, <1>4 DEF SoundInv

\* The early out of psa_crypto_init() is taken only when all is ready.
LEMMA InitCheckedInv ==
  ASSUME SoundInv, NEW t \in Threads, InitChecked(t)
  PROVE  SoundInv'
<1>1. TypeOK'
  BY DEF SoundInv, TypeOK, InitChecked, Goto
<1>2. FlagsTrue'
  BY DEF SoundInv, FlagsTrue, Ready, InitChecked
<1>3. StageReached'
  BY DEF SoundInv, TypeOK, StageReached, InitChecked, Goto
<1>4. FreeAlone'
  BY DEF SoundInv, TypeOK, FreeAlone, InitChecked, Goto, Idle
<1>5. ReadyAfterInit'
  BY DEF SoundInv, TypeOK, FlagsTrue, ReadyAfterInit, Ready, InitChecked,
         AllInitialized
<1> QED
  BY <1>1, <1>2, <1>3, <1>4, <1>5 DEF SoundInv

\* The drivers are marked when they are up.
LEMMA InitDriversInv ==
  ASSUME SoundInv, NEW t \in Threads, InitDrivers(t), ~failed'
  PROVE  SoundInv'
<1>1. TypeOK'
  BY DEF SoundInv, TypeOK, Goto, InitDrivers, Continue, Outcomes
<1>2. FlagsTrue'
  BY DEF SoundInv, TypeOK, FlagsTrue, StageReached, FreeAlone, Ready,
         InitDrivers, Continue, Outcomes
<1>3. StageReached'
  BY DEF SoundInv, TypeOK, StageReached, FreeAlone, Idle, Goto, InitDrivers,
         Continue, Outcomes
<1>4. FreeAlone'
  BY DEF SoundInv, TypeOK, FreeAlone, Goto, Idle, InitDrivers, Continue,
         Outcomes
<1>5. ReadyAfterInit'
  BY DEF SoundInv, TypeOK, FlagsTrue, StageReached, FreeAlone, ReadyAfterInit,
         Ready, InitDrivers, Continue, Outcomes
<1> QED
  BY <1>1, <1>2, <1>3, <1>4, <1>5 DEF SoundInv

\* The key slots are marked when they are initialised.
LEMMA InitKeySlotsInv ==
  ASSUME SoundInv, NEW t \in Threads, InitKeySlots(t), ~failed'
  PROVE  SoundInv'
<1>1. TypeOK'
  BY DEF SoundInv, TypeOK, Goto, InitKeySlots, Continue, Outcomes
<1>2. FlagsTrue'
  BY DEF SoundInv, TypeOK, FlagsTrue, StageReached, FreeAlone, Ready,
         InitKeySlots, Continue, Outcomes
<1>3. StageReached'
  BY DEF SoundInv, TypeOK, StageReached, FreeAlone, Idle, Goto, InitKeySlots,
         Continue, Outcomes
<1>4. FreeAlone'
  BY DEF SoundInv, TypeOK, FreeAlone, Goto, Idle, InitKeySlots, Continue,
         Outcomes
<1>5. ReadyAfterInit'
  BY DEF SoundInv, TypeOK, FlagsTrue, StageReached, FreeAlone, ReadyAfterInit,
         Ready, InitKeySlots, Continue, Outcomes
<1> QED
  BY <1>1, <1>2, <1>3, <1>4, <1>5 DEF SoundInv

\* A thread that got here finds the drivers marked.
LEMMA ReadDriversFlagInv ==
  ASSUME SoundInv, NEW t \in Threads, ReadDriversFlag(t)
  PROVE  SoundInv'
<1>1. TypeOK'
  BY DEF SoundInv, TypeOK, Goto, ReadDriversFlag
<1>2. FlagsTrue'
  BY DEF SoundInv, TypeOK, FlagsTrue, StageReached, FreeAlone, Ready,
         ReadDriversFlag
<1>3. StageReached'
  BY DEF SoundInv, TypeOK, StageReached, FreeAlone, Idle, Goto, ReadDriversFlag
<1>4. FreeAlone'
  BY DEF SoundInv, TypeOK, FreeAlone, Goto, Idle, ReadDriversFlag
<1>5. ReadyAfterInit'
  BY DEF SoundInv, TypeOK, FlagsTrue, StageReached, FreeAlone, ReadyAfterInit,
         Ready, ReadDriversFlag
<1> QED
  BY <1>1, <1>2, <1>3, <1>4, <1>5 DEF SoundInv

\* A thread that leaves this section leaves a seeded generator, its own or
\* that of a thread that was here before.
LEMMA InitRngInv ==
  ASSUME SoundInv, NEW t \in Threads, InitRng(t), ~failed'
  PROVE  SoundInv'
<1>1. TypeOK'
  BY DEF SoundInv, TypeOK, Goto, InitRng, Continue, Outcomes, Seeded
<1>2. FlagsTrue'
  BY DEF SoundInv, TypeOK, FlagsTrue, StageReached, FreeAlone, Ready, InitRng,
         Continue, Outcomes, Seeded
<1>3. StageReached'
  BY DEF SoundInv, TypeOK, FlagsTrue, StageReached, FreeAlone, Idle, Goto,
         InitRng, Continue, Outcomes, Seeded
<1>4. FreeAlone'
  BY DEF SoundInv, TypeOK, FreeAlone, Goto, Idle, InitRng, Continue, Outcomes,
         Seeded
<1>5. ReadyAfterInit'
  BY DEF SoundInv, TypeOK, FlagsTrue, StageReached, FreeAlone, ReadyAfterInit,
         Ready, InitRng, Continue, Outcomes, Seeded
<1> QED
  BY <1>1, <1>2, <1>3, <1>4, <1>5 DEF SoundInv

\* The last mark is set with everything else in place.
LEMMA InitTransactionInv ==
  ASSUME SoundInv, NEW t \in Threads, InitTransaction(t)
  PROVE  SoundInv'
<1>0. Ready'
  <2>1. /\ "DRIVERS" \in flags
        /\ "KEY_SLOTS" \in flags
        /\ rng = "SEEDED"
    BY DEF SoundInv, StageReached, InitTransaction
  <2>2. flags' = Subsystems
    BY <2>1 DEF SoundInv, TypeOK, InitTransaction, TransactionFlag
  <2> QED
    BY <2>1, <2>2 DEF SoundInv, FlagsTrue, Ready, InitTransaction
<1>1. TypeOK'
  BY DEF SoundInv, TypeOK, Goto, InitTransaction, TransactionFlag
<1>2. FlagsTrue'
  BY <1>0 DEF FlagsTrue, Ready
<1>3. StageReached'
  BY DEF SoundInv, TypeOK, StageReached, FreeAlone, Idle, Goto,
         InitTransaction, TransactionFlag
<1>4. FreeAlone'
  BY DEF SoundInv, TypeOK, FreeAlone, Goto, Idle, InitTransaction,
         TransactionFlag
<1>5. ReadyAfterInit'
  BY <1>0 DEF ReadyAfterInit
<1> QED
  BY <1>1, <1>2, <1>3, <1>4, <1>5 DEF SoundInv

\* The tear-down starts with all threads at rest, and takes their results
\* back.
LEMMA psa_crypto_freeInv ==
  ASSUME SoundInv, NEW t \in Threads, psa_crypto_free(t)
  PROVE  SoundInv'
<1>1. TypeOK'
  BY DEF SoundInv, TypeOK, Goto, psa_crypto_free
<1>2. FlagsTrue'
  BY DEF SoundInv, TypeOK, FlagsTrue, StageReached, FreeAlone, Ready,
         psa_crypto_free
<1>3. StageReached'
  BY DEF SoundInv, TypeOK, StageReached, FreeAlone, Idle, Goto, psa_crypto_free
<1>4. FreeAlone'
  BY DEF SoundInv, TypeOK, FreeAlone, Goto, Idle, psa_crypto_free
<1>5. ReadyAfterInit'
  BY DEF SoundInv, TypeOK, FlagsTrue, StageReached, FreeAlone, ReadyAfterInit,
         Ready, psa_crypto_free
<1> QED
  BY <1>1, <1>2, <1>3, <1>4, <1>5 DEF SoundInv

\* The last mark goes first, with the key slots.
LEMMA FreeSlotsInv ==
  ASSUME SoundInv, NEW t \in Threads, FreeSlots(t)
  PROVE  SoundInv'
<1>1. TypeOK'
  BY DEF SoundInv, TypeOK, Goto, FreeSlots, Unflagged
<1>2. FlagsTrue'
  BY DEF SoundInv, TypeOK, FlagsTrue, StageReached, FreeAlone, Ready,
         FreeSlots, Unflagged
<1>3. StageReached'
  BY DEF SoundInv, TypeOK, StageReached, FreeAlone, Idle, Goto, FreeSlots,
         Unflagged
<1>4. FreeAlone'
  BY DEF SoundInv, TypeOK, FreeAlone, Goto, Idle, FreeSlots, Unflagged
<1>5. ReadyAfterInit'
  BY DEF SoundInv, TypeOK, FlagsTrue, StageReached, FreeAlone, ReadyAfterInit,
         Ready, FreeSlots, Unflagged
<1> QED
  BY <1>1, <1>2, <1>3, <1>4, <1>5 DEF SoundInv

\* No thread counts on the generator when it is freed.
LEMMA FreeRngInv ==
  ASSUME SoundInv, NEW t \in Threads, FreeRng(t)
  PROVE  SoundInv'
<1>1. TypeOK'
  BY DEF SoundInv, TypeOK, Goto, FreeRng
<1>2. FlagsTrue'
  BY DEF SoundInv, TypeOK, FlagsTrue, StageReached, FreeAlone, Ready, FreeRng
<1>3. StageReached'
  BY DEF SoundInv, TypeOK, StageReached, FreeAlone, Idle, Goto, FreeRng
<1>4. FreeAlone'
  BY DEF SoundInv, TypeOK, FreeAlone, Goto, Idle, FreeRng
<1>5. ReadyAfterInit'
  BY DEF SoundInv, TypeOK, FlagsTrue, StageReached, FreeAlone, ReadyAfterInit,
         Ready, FreeRng
<1> QED
  BY <1>1, <1>2, <1>3, <1>4, <1>5 DEF SoundInv

\* No thread counts on the drivers when they are terminated.
LEMMA FreeDriversInv ==
  ASSUME SoundInv, NEW t \in Threads, FreeDrivers(t)
  PROVE  SoundInv'
<1>1. TypeOK'
  BY DEF SoundInv, TypeOK, Goto, FreeDrivers
<1>2. FlagsTrue'
  BY DEF SoundInv, TypeOK, FlagsTrue, StageReached, FreeAlone, Ready,
         FreeDrivers
<1>3. StageReached'
  BY DEF SoundInv, TypeOK, StageReached, FreeAlone, Idle, Goto, FreeDrivers
<1>4. FreeAlone'
  BY DEF SoundInv, TypeOK, FreeAlone, Goto, Idle, FreeDrivers
<1>5. ReadyAfterInit'
  BY DEF SoundInv, TypeOK, FlagsTrue, StageReached, FreeAlone, ReadyAfterInit,
         Ready, FreeDrivers
<1> QED
  BY <1>1, <1>2, <1>3, <1>4, <1>5 DEF SoundInv

\* The entropy sources are not part of what a thread counts on.
LEMMA ConfigureEntropySourcesInv ==
  ASSUME SoundInv, NEW t \in Threads, ConfigureEntropySources(t)
  PROVE  SoundInv'
<1>1. TypeOK'
  BY DEF SoundInv, TypeOK, Goto, ConfigureEntropySources, SourcesOpen
<1>2. FlagsTrue'
  BY DEF SoundInv, TypeOK, FlagsTrue, StageReached, FreeAlone, Ready,
         ConfigureEntropySources, SourcesOpen
<1>3. StageReached'
  BY DEF SoundInv, TypeOK, StageReached, FreeAlone, Idle, Goto,
         ConfigureEntropySources, SourcesOpen
<1>4. FreeAlone'
  BY DEF SoundInv, TypeOK, FreeAlone, Goto, Idle, ConfigureEntropySources,
         SourcesOpen
<1>5. ReadyAfterInit'
  BY DEF SoundInv, TypeOK, FlagsTrue, StageReached, FreeAlone, ReadyAfterInit,
         Ready, ConfigureEntropySources, SourcesOpen
<1> QED
  BY <1>1, <1>2, <1>3, <1>4, <1>5 DEF SoundInv

\* A thread passes the guard only with a seeded generator.
LEMMA GuardCheckedInv ==
  ASSUME SoundInv, NEW t \in Threads, GuardChecked(t)
  PROVE  SoundInv'
<1>1. TypeOK'
  BY DEF SoundInv, TypeOK, Goto, GuardChecked, AllInitialized
<1>2. FlagsTrue'
  BY DEF SoundInv, TypeOK, FlagsTrue, StageReached, FreeAlone, Ready,
         GuardChecked, AllInitialized
<1>3. StageReached'
  BY DEF SoundInv, TypeOK, StageReached, FreeAlone, Idle, Goto, GuardChecked,
         AllInitialized
<1>4. FreeAlone'
  BY DEF SoundInv, TypeOK, FreeAlone, Goto, Idle, GuardChecked, AllInitialized
<1>5. ReadyAfterInit'
  BY DEF SoundInv, TypeOK, FlagsTrue, StageReached, FreeAlone, ReadyAfterInit,
         Ready, GuardChecked, AllInitialized
<1> QED
  BY <1>1, <1>2, <1>3, <1>4, <1>5 DEF SoundInv

\* The use of the generator leaves everything as it is.
LEMMA GenerateInv ==
  ASSUME SoundInv, NEW t \in Threads, Generate(t)
  PROVE  SoundInv'
<1>1. TypeOK'
  BY DEF SoundInv, TypeOK, Goto, Generate
<1>2. FlagsTrue'
  BY DEF SoundInv, TypeOK, FlagsTrue, StageReached, FreeAlone, Ready, Generate
<1>3. StageReached'
  BY DEF SoundInv, TypeOK, StageReached, FreeAlone, Idle, Goto, Generate
<1>4. FreeAlone'
  BY DEF SoundInv, TypeOK, FreeAlone, Goto, Idle, Generate
<1>5. ReadyAfterInit'
  BY DEF SoundInv, TypeOK, FlagsTrue, StageReached, FreeAlone, ReadyAfterInit,
         Ready, Generate
<1> QED
  BY <1>1, <1>2, <1>3, <1>4, <1>5 DEF SoundInv

-----------------------------------------------------------------------------

\* A failure is remembered.
LEMMA FailedStays ==
  ASSUME NEW t \in Threads, Step(t), failed PROVE failed'
  BY DEF Step, ReadRngState, InitChecked, InitDrivers, InitKeySlots, ReadDriversFlag,
         InitRng, InitTransaction, psa_crypto_free, FreeSlots, FreeRng, FreeDrivers,
         ConfigureEntropySources, GuardChecked, Generate, Continue

\* Until a subsystem fails, the marks of the subsystems are true and each stage
\* of psa_crypto_init() builds on the previous one, whatever the interleaving.
THEOREM InitInductive == Spec => []InitInv
<1>1. Init => InitInv
  BY InitialInv DEF InitInv
<1>2. InitInv /\ [Next]_vars => InitInv'
  <2> SUFFICES ASSUME InitInv, [Next]_vars, ~failed' PROVE SoundInv'
    BY DEF InitInv
  <2>1. CASE UNCHANGED vars
    BY <2>1 DEF vars, InitInv, SoundInv, TypeOK, FlagsTrue, StageReached, FreeAlone,
                ReadyAfterInit, Ready, Idle
  <2>2. CASE Next
    <3> PICK t \in Threads : Step(t)
      BY <2>2 DEF Next
    <3>1. ~failed
      BY FailedStays
    <3>2. SoundInv
      BY <3>1 DEF InitInv
    <3> QED
      BY <3>2, ReadRngStateInv, InitCheckedInv, InitDriversInv, InitKeySlotsInv,
         ReadDriversFlagInv, InitRngInv, InitTransactionInv, psa_crypto_freeInv,
         FreeSlotsInv, FreeRngInv, FreeDriversInv, ConfigureEntropySourcesInv,
         GuardCheckedInv, GenerateInv DEF Step
  <2> QED
    BY <2>1, <2>2
<1> QED
  BY <1>1, <1>2, PTL DEF Spec

\* As long as no subsystem has failed, a thread to which psa_crypto_init() returned
\* PSA_SUCCESS finds the drivers up, the key slots initialised and the random
\* generator seeded until the library is freed, for any number of threads.
THEOREM InitIsThreadSafe == Spec => []ReadyIfNoneFailed
<1>1. InitInv => ReadyIfNoneFailed
  BY DEF InitInv, SoundInv, ReadyIfNoneFailed
<1> QED
  BY <1>1, InitInductive, PTL

\* As long as no subsystem has failed, a call past GUARD_MODULE_INITIALIZED uses a
\* seeded generator, although the guard reads the two halves of the state under
\* two mutexes.
THEOREM GuardIsSound == Spec => []GuardHolds
<1>1. InitInv => GuardHolds
  BY DEF InitInv, SoundInv, StageReached, GuardHolds
<1> QED
  BY <1>1, InitInductive, PTL

-----------------------------------------------------------------------------
(* Whatever fails.                                                         *)

\* The flags are the three that psa_crypto_init() compares with, and every thread
\* is in a section of a call.
THEOREM InitTyped == Spec => []TypeOK
<1>1. Init => TypeOK
  BY DEF Init, TypeOK
<1>2. TypeOK /\ [Next]_vars => TypeOK'
  <2> SUFFICES ASSUME TypeOK, [Next]_vars PROVE TypeOK'
    OBVIOUS
  <2>1. CASE UNCHANGED vars
    BY <2>1 DEF vars, TypeOK
  <2>2. ASSUME NEW t \in Threads, Step(t) PROVE TypeOK'
    <3>1. CASE \/ ReadRngState(t, "init_check") \/ ReadRngState(t, "guard")
               \/ InitChecked(t) \/ ReadDriversFlag(t) \/ GuardChecked(t) \/ Generate(t)
      <4>1. ASSUME NEW l \in {"init_check", "guard"}, ReadRngState(t, l) PROVE TypeOK'
        BY <4>1 DEF TypeOK, ReadRngState, Goto
      <4>4. CASE ReadDriversFlag(t)
        BY <4>4 DEF TypeOK, ReadDriversFlag, Goto
      <4>2. CASE InitChecked(t) \/ Generate(t)
        BY <4>2 DEF TypeOK, InitChecked, Generate, Goto
      <4>3. CASE GuardChecked(t)
        BY <4>3 DEF TypeOK, GuardChecked, Goto
      <4> QED
        BY <3>1, <4>1, <4>2, <4>3, <4>4
    <3>2. CASE InitDrivers(t)
      BY <3>2 DEF TypeOK, InitDrivers, Continue, Outcomes, Goto
    <3>3. CASE InitKeySlots(t)
      BY <3>3 DEF TypeOK, InitKeySlots, Continue, Outcomes, Goto
    <3>4. CASE InitRng(t)
      BY <3>4 DEF TypeOK, InitRng, Continue, Outcomes, Seeded, Goto
    <3>5. CASE InitTransaction(t) \/ psa_crypto_free(t) \/ ConfigureEntropySources(t)
      BY <3>5 DEF TypeOK, InitTransaction, TransactionFlag, psa_crypto_free,
                  ConfigureEntropySources, Goto
    <3>6. CASE FreeSlots(t) \/ FreeRng(t) \/ FreeDrivers(t)
      BY <3>6 DEF TypeOK, FreeSlots, Unflagged, FreeRng, FreeDrivers, Goto
    <3> QED
      BY <2>2, <3>1, <3>2, <3>3, <3>4, <3>5, <3>6 DEF Step
  <2> QED
    BY <2>1, <2>2 DEF Next
<1> QED
  BY <1>1, <1>2, PTL DEF Spec

\* Whatever fails, and whoever cleans up after it: once all calls have returned no
\* subsystem is marked as initialised without being so.
THEOREM NothingHalfInitialised == Spec => []NoHalfInitAtRest
<1>1. Init => RestInv
  BY DEF Init, RestInv
<1>2. TypeOK /\ RestInv /\ [Next]_vars => RestInv'
  <2> SUFFICES ASSUME TypeOK, RestInv, [Next]_vars PROVE RestInv'
    OBVIOUS
  <2>1. CASE UNCHANGED vars
    BY <2>1 DEF vars, RestInv, Cleaning
  <2>2. ASSUME NEW t \in Threads, Step(t) PROVE RestInv'
    <3>1. CASE \/ ReadRngState(t, "init_check") \/ ReadRngState(t, "guard")
               \/ InitChecked(t) \/ ReadDriversFlag(t) \/ GuardChecked(t) \/ Generate(t)
      BY <3>1 DEF TypeOK, RestInv, Cleaning, ReadRngState, InitChecked, ReadDriversFlag,
                  GuardChecked, Generate, Goto, Idle
    <3>2. CASE InitDrivers(t)
      BY <3>2 DEF TypeOK, RestInv, Cleaning, InitDrivers, Continue, Outcomes, Goto
    <3>3. CASE InitKeySlots(t)
      BY <3>3 DEF TypeOK, RestInv, Cleaning, InitKeySlots, Continue, Outcomes, Goto
    <3>4. CASE InitRng(t)
      BY <3>4 DEF TypeOK, RestInv, Cleaning, InitRng, Continue, Outcomes, Seeded, Goto
    <3>5. CASE InitTransaction(t) \/ psa_crypto_free(t) \/ ConfigureEntropySources(t)
      BY <3>5 DEF TypeOK, RestInv, Cleaning, InitTransaction, TransactionFlag,
                  psa_crypto_free, ConfigureEntropySources, Goto, Idle
    <3>6. CASE FreeSlots(t)
      BY <3>6 DEF TypeOK, RestInv, Cleaning, FreeSlots, Unflagged, Goto
    <3>7. CASE FreeRng(t)
      BY <3>7 DEF TypeOK, RestInv, Cleaning, FreeRng, Goto
    <3>8. CASE FreeDrivers(t)
      BY <3>8 DEF TypeOK, RestInv, Cleaning, FreeDrivers, Goto
    <3> QED
      BY <2>2, <3>1, <3>2, <3>3, <3>4, <3>5, <3>6, <3>7, <3>8 DEF Step
  <2> QED
    BY <2>1, <2>2 DEF Next
<1>3. TypeOK /\ RestInv => NoHalfInitAtRest
  BY DEF TypeOK, RestInv, Cleaning, NoHalfInitAtRest, Idle
<1> QED
  BY <1>1, <1>2, <1>3, InitTyped, PTL DEF Spec

\* The sources of a generator in use are set and do not change until it is freed.
THEOREM SourcesAreFixed == Spec => SourcesFixed
<1> DEFINE Inv == rng # "NOT_INITIALIZED" => sources # "NONE"
           Fixed == rng # "NOT_INITIALIZED" =>
                      /\ sources # "NONE"
                      /\ sources' # sources => rng' = "NOT_INITIALIZED"
<1>1. Init => Inv
  BY DEF Init
<1>2. ASSUME Inv, [Next]_vars PROVE Inv' /\ [Fixed]_vars
  <2>1. CASE UNCHANGED vars
    BY <1>2, <2>1 DEF vars
  <2>2. ASSUME NEW t \in Threads, Step(t) PROVE Inv' /\ Fixed
    <3>1. CASE InitRng(t)
      BY <1>2, <3>1 DEF InitRng, Seeded
    <3>2. CASE FreeRng(t) \/ ConfigureEntropySources(t)
      BY <1>2, <3>2 DEF FreeRng, ConfigureEntropySources, SourcesOpen
    <3>3. CASE ~(InitRng(t) \/ FreeRng(t) \/ ConfigureEntropySources(t))
      <4>1. UNCHANGED <<rng, sources>>
        BY <2>2, <3>3 DEF Step, ReadRngState, InitChecked, InitDrivers, InitKeySlots,
           ReadDriversFlag, InitTransaction, psa_crypto_free, FreeSlots, FreeDrivers,
           GuardChecked, Generate
      <4> QED
        BY <1>2, <4>1
    <3> QED
      BY <3>1, <3>2, <3>3
  <2> QED
    BY <1>2, <2>1, <2>2 DEF Next
<1>3. Inv /\ [Next]_vars => Inv' /\ [Fixed]_vars
  BY <1>2
<1> QED
  BY <1>1, <1>3, PTL DEF Spec, SourcesFixed
=============================================================================

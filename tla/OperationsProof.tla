-------------------------- MODULE OperationsProof --------------------------
(***************************************************************************)
(* Theorems about four of the components that Operations puts side by      *)
(* side: an LMS leaf signs once, PAKE owns its memory, no process repeats  *)
(* the random output of another, and a key derivation gives the stream of  *)
(* its algorithm. They share no state, so that each is proved of the       *)
(* specification of its component alone.                                   *)
(***************************************************************************)
EXTENDS Lms, Pake, Random, KeyDerivation, HashProof

-----------------------------------------------------------------------------
(* LMS.                                                                    *)

\* The private context and the account of its leaves.  The key in the context is
\* the last one that was generated, the leaves that have a private one-time key
\* are all those that were not reached, and no leaf that was written is left.
LmsKeyInv ==
    /\ lused \in [I : Nat, times : [Leaves -> 0 .. 1]]
    /\ lpriv \in [have_private_key : BOOLEAN, I : Nat, q_next_usable_key : Nat, ots : SUBSET Leaves]
    /\ lpriv.have_private_key =>
         \A q \in Leaves :
           /\ q >= lpriv.q_next_usable_key => q \in lpriv.ots
           /\ lused.times[q] > 0 => q < lpriv.q_next_usable_key /\ q \notin lpriv.ots

\* Leaves are numbers.
LEMMA LeavesAreNumbers == Leaves \subseteq Nat
  BY DEF Leaves

\* Only one-time keys that are there sign, and a key that signed is not there any
\* more (mbedtls_lmots_sign() and what it is given by mbedtls_lms_sign()).
LEMMA SignSpendsLeaf ==
  ASSUME LmsKeyInv, NEW msg, NEW c, NEW failure, mbedtls_lms_sign(msg, c, failure)
  PROVE  LmsKeyInv'
<1> DEFINE q == lpriv.q_next_usable_key
           r == mbedtls_lmots_sign(lpriv.ots, q, msg, c, failure)
<1>1. r.ok => q \in lpriv.ots /\ r.ots = lpriv.ots \ {q}
  BY DEF mbedtls_lmots_sign, Erased
<1>2. ~r.ok => r.ots = lpriv.ots
  BY DEF mbedtls_lmots_sign
<1> HIDE DEF r
<1>3. /\ lpriv.have_private_key /\ q \in Leaves
      /\ lpriv' = [lpriv EXCEPT !.q_next_usable_key = q + 1, !.ots = r.ots]
      /\ lused' = IF r.ok THEN [lused EXCEPT !.times[q] = @ + 1] ELSE lused
  BY DEF mbedtls_lms_sign, MarkedUsed, r
<1>4. /\ lpriv' \in [have_private_key : BOOLEAN, I : Nat, q_next_usable_key : Nat,
                       ots : SUBSET Leaves]
      /\ lpriv'.have_private_key /\ lpriv'.q_next_usable_key = q + 1 /\ lpriv'.ots = r.ots
  <2>1. r.ots \in SUBSET Leaves
    BY <1>1, <1>2 DEF LmsKeyInv
  <2>2. lpriv.q_next_usable_key + 1 \in Nat
    BY DEF LmsKeyInv
  <2>3. lpriv' = [lpriv EXCEPT !.q_next_usable_key = q + 1, !.ots = r.ots]
    BY <1>3
  <2>4. lpriv \in [have_private_key : BOOLEAN, I : Nat, q_next_usable_key : Nat, ots : SUBSET Leaves]
    BY DEF LmsKeyInv
  <2>5. lpriv'.q_next_usable_key = q + 1 /\ lpriv'.ots = r.ots
    BY <2>3, <2>4
  <2>6. lpriv'.have_private_key = lpriv.have_private_key
    BY <2>3, <2>4
  <2> QED
    BY <2>1, <2>2, <2>3, <2>4, <2>5, <2>6, <1>3
<1>5. lused' \in [I : Nat, times : [Leaves -> 0 .. 1]]
  <2>1. r.ok => lused.times[q] = 0
    BY <1>1, <1>3 DEF LmsKeyInv
  <2> QED
    BY <2>1, <1>3 DEF LmsKeyInv
<1>6. \A leaf \in Leaves : lused'.times[leaf] = IF r.ok /\ leaf = q THEN lused.times[q] + 1
                                               ELSE lused.times[leaf]
  BY <1>3 DEF LmsKeyInv
<1> QED
  BY <1>1, <1>2, <1>3, <1>4, <1>5, <1>6, LeavesAreNumbers DEF LmsKeyInv

\* The other calls make a new key, for which no leaf was written, or drop it.
THEOREM LmsLeafSignsOnce == LmsSpec => [](LmsOneTime /\ LmsNeverStuck)
<1>1. LmsInit => LmsKeyInv
  BY DEF LmsInit, LmsKeyInv, NoPrivate
<1>2. LmsKeyInv /\ [LmsNext]_lmsVars => LmsKeyInv'
  <2> SUFFICES ASSUME LmsKeyInv, [LmsNext]_lmsVars PROVE LmsKeyInv'
    OBVIOUS
  <2>1. CASE mbedtls_lms_generate_private_key
    <3>1. /\ lused'.I = lused.I + 1 /\ lused' \in [I : Nat, times : [Leaves -> 0 .. 1]]
          /\ \A q \in Leaves : lused'.times[q] = 0
      BY <2>1 DEF LmsKeyInv, mbedtls_lms_generate_private_key
    <3>2. CASE lpriv' = NoPrivate
      BY <3>1, <3>2 DEF LmsKeyInv, NoPrivate
    <3>3. CASE lpriv' = [have_private_key |-> TRUE, I |-> lused.I + 1, q_next_usable_key |-> 0,
                         ots |-> Leaves]
      BY <3>1, <3>3 DEF LmsKeyInv
    <3> QED
      BY <2>1, <3>2, <3>3 DEF mbedtls_lms_generate_private_key
  <2>2. CASE mbedtls_lms_private_free
    BY <2>2 DEF LmsKeyInv, mbedtls_lms_private_free, NoPrivate
  <2>3. CASE mbedtls_lms_calculate_public_key \/ mbedtls_lms_public_free \/ UNCHANGED lmsVars
    BY <2>3 DEF LmsKeyInv, mbedtls_lms_calculate_public_key, mbedtls_lms_public_free, lmsVars
  <2>4. CASE \E msg \in LmsMessages, c \in Digests, failure \in {"none", "ots", "path"} :
               mbedtls_lms_sign(msg, c, failure)
    BY <2>4, SignSpendsLeaf
  <2> QED
    BY <2>1, <2>2, <2>3, <2>4 DEF LmsNext
<1>3. LmsKeyInv => LmsOneTime /\ LmsNeverStuck
  <2> SUFFICES ASSUME LmsKeyInv PROVE LmsOneTime /\ LmsNeverStuck
    OBVIOUS
  <2>1. \A q \in Leaves : lused.times[q] <= 1
    BY DEF LmsKeyInv
  <2>2. LmsOneTime
    BY <2>1 DEF LmsKeyInv, LmsOneTime
  <2>3. LmsNeverStuck
    BY DEF LmsKeyInv, LmsNeverStuck
  <2> QED
    BY <2>2, <2>3
<1> QED
  BY <1>1, <1>2, <1>3, PTL DEF LmsSpec

-----------------------------------------------------------------------------
(* PAKE.                                                                   *)

\* The operation objects, and what an operation owns in its stage.
PakeOps == [stage : {"SETUP", "COLLECT_INPUTS", "COMPUTATION"}, round : Nat,
            io_mode : {"INPUT", "OUTPUT"}, inputs : Nat, outputs : Nat, step : Nat,
            password : BOOLEAN, user : BOOLEAN, peer : BOOLEAN]
Owned(op) == CASE op.stage = "COLLECT_INPUTS" -> Pointed(op)
               [] op.stage = "COMPUTATION" -> {"copy"}
               [] OTHER -> {}

\* PakeMemory with the types that it needs.
PakeHeapInv ==
    /\ pop \in [PakeRoles -> PakeOps]
    /\ DOMAIN pheap = PakeRoles
    /\ \A role \in PakeRoles : pheap[role] = Owned(pop[role])

\* Freeing what is there leaves the rest, and is no wrong free.
LEMMA FreedOwned == \A blocks : Freed(blocks, blocks) = {}
  BY DEF Freed

\* psa_pake_abort() of an operation with what it owns.
LEMMA AbortOwnsNothing ==
  ASSUME PakeHeapInv, NEW role \in PakeRoles, NEW op \in PakeOps, NEW heap, heap = Owned(op),
         psa_pake_abort(role, op, heap)
  PROVE  PakeHeapInv'
<1>1. NoPake \in PakeOps /\ Owned(NoPake) = {}
  BY DEF NoPake, PakeOps, Owned
<1>2. CASE op.stage = "COMPUTATION"
  <2>1. pheap' = [pheap EXCEPT ![role] = {}]
    BY <1>2, FreedOwned DEF psa_pake_abort, Owned
  <2> QED
    BY <1>1, <2>1 DEF PakeHeapInv, psa_pake_abort
<1>3. CASE op.stage = "COLLECT_INPUTS"
  <2>1. pheap' = [pheap EXCEPT ![role] = {}]
    BY <1>3, FreedOwned DEF psa_pake_abort, Owned
  <2> QED
    BY <1>1, <2>1 DEF PakeHeapInv, psa_pake_abort
<1>4. CASE op.stage = "SETUP"
  <2>1. pheap' = [pheap EXCEPT ![role] = {}]
    BY <1>4 DEF psa_pake_abort, Owned
  <2> QED
    BY <1>1, <2>1 DEF PakeHeapInv, psa_pake_abort
<1> QED
  BY <1>2, <1>3, <1>4 DEF PakeOps

\* What psa_pake_complete_inputs() makes of an operation owns what is allocated for
\* it: also where the driver could not be set up and the union holds no inputs any
\* more.
LEMMA CompleteOwns ==
  ASSUME PakeHeapInv, NEW role \in PakeRoles, NEW driver
  PROVE  LET c == PakeComplete(role, driver) IN c.op \in PakeOps /\ c.heap = Owned(c.op)
<1> DEFINE op == pop[role]
           c == PakeComplete(role, driver)
<1>1. op \in PakeOps /\ pheap[role] = Owned(op)
  BY DEF PakeHeapInv
<1>2. CASE op.stage # "COLLECT_INPUTS" \/ ~(op.user /\ op.peer)
  <2>1. CASE op.stage # "COLLECT_INPUTS"
    <3>1. c.op = op /\ c.heap = pheap[role]
      BY <2>1 DEF PakeComplete
    <3> QED
      BY <1>1, <3>1
  <2>2. CASE op.stage = "COLLECT_INPUTS" /\ ~(op.user /\ op.peer)
    <3>1. c.op = op /\ c.heap = pheap[role]
      BY <2>2 DEF PakeComplete
    <3> QED
      BY <1>1, <3>1
  <2> QED
    BY <1>2, <2>1, <2>2
<1>3. CASE op.stage = "COLLECT_INPUTS" /\ op.user /\ op.peer
  <2>1. Freed(pheap[role], Pointed(op)) = {}
    BY <1>1, <1>3, FreedOwned DEF Owned
  <2>2. /\ InputsCleared(op) \in PakeOps /\ InputsCleared(op).stage = "COLLECT_INPUTS"
        /\ Pointed(InputsCleared(op)) = {}
    BY <1>1, <1>3 DEF InputsCleared, PakeOps, Pointed
  <2>3. CASE ~driver
    <3>1. c.op = InputsCleared(op) /\ c.heap = {}
      BY <1>3, <2>1, <2>3 DEF PakeComplete
    <3> QED
      BY <2>2, <3>1 DEF Owned
  <2>4. CASE driver
    <3>1. c.op = [InputsCleared(op) EXCEPT !.stage = "COMPUTATION"] /\ c.heap = {"copy"}
      BY <1>3, <2>1, <2>4 DEF PakeComplete
    <3>2. c.op \in PakeOps /\ c.op.stage = "COMPUTATION"
      BY <2>2, <3>1 DEF PakeOps
    <3> QED
      BY <3>1, <3>2 DEF Owned
  <2> QED
    BY <2>3, <2>4
<1> QED
  BY <1>2, <1>3

\* The sequence of the steps is kept in fields that own nothing.
LEMMA StepsKeepOwned ==
  ASSUME NEW op \in PakeOps, NEW step, NEW io_mode \in {"INPUT", "OUTPUT"}
  PROVE  /\ psa_jpake_prologue(op, step, io_mode).op \in PakeOps
         /\ Owned(psa_jpake_prologue(op, step, io_mode).op) = Owned(op)
         /\ psa_jpake_epilogue(op, io_mode) \in PakeOps
         /\ Owned(psa_jpake_epilogue(op, io_mode)) = Owned(op)
<1>1. [op EXCEPT !.io_mode = io_mode] \in PakeOps
      /\ Owned([op EXCEPT !.io_mode = io_mode]) = Owned(op)
  BY DEF PakeOps, Owned, Pointed
<1>2. psa_jpake_epilogue(op, io_mode) \in PakeOps
  <2> DEFINE expected == PSA_JPAKE_EXPECTED(op.round)
             inputs == op.inputs + IF io_mode = "INPUT" THEN 1 ELSE 0
             outputs == op.outputs + IF io_mode = "OUTPUT" THEN 1 ELSE 0
             next == CASE op.io_mode = "INPUT" /\ inputs = expected -> "OUTPUT"
                       [] op.io_mode = "OUTPUT" /\ outputs = expected -> "INPUT"
                       [] OTHER -> op.io_mode
  <2>1. inputs \in Nat /\ outputs \in Nat /\ op.step + 1 \in Nat /\ op.round + 1 \in Nat
    BY DEF PakeOps
  <2>2. next \in {"INPUT", "OUTPUT"}
    BY DEF PakeOps
  <2> HIDE DEF expected, inputs, outputs, next
  <2>3. [op EXCEPT !.step = @ + 1] \in PakeOps
    BY <2>1 DEF PakeOps
  <2>4. [op EXCEPT !.step = 1, !.inputs = inputs, !.outputs = outputs, !.io_mode = next]
          \in PakeOps
    BY <2>1, <2>2 DEF PakeOps
  <2>5. [[op EXCEPT !.step = 1, !.inputs = inputs, !.outputs = outputs, !.io_mode = next]
           EXCEPT !.inputs = 0, !.outputs = 0, !.round = @ + 1] \in PakeOps
    BY <2>1, <2>2 DEF PakeOps
  <2> QED
    BY <2>3, <2>4, <2>5 DEF psa_jpake_epilogue, expected, inputs, outputs, next
<1>3. LET e == psa_jpake_epilogue(op, io_mode) IN
      /\ e.stage = op.stage /\ e.password = op.password /\ e.user = op.user /\ e.peer = op.peer
  BY DEF PakeOps, psa_jpake_epilogue
<1> QED
  BY <1>1, <1>2, <1>3 DEF psa_jpake_prologue, Owned, Pointed

\* psa_pake_setup(): what is freed on a failure was not allocated yet.
LEMMA SetupOwns ==
  ASSUME PakeHeapInv, NEW role \in PakeRoles, psa_pake_setup(role)
  PROVE  PakeHeapInv'
<1> DEFINE op == pop[role]
           collecting == [NoPake EXCEPT !.stage = "COLLECT_INPUTS", !.step = 1]
           started == [collecting EXCEPT !.password = TRUE]
<1>1. op \in PakeOps /\ pheap[role] = Owned(op)
  BY DEF PakeHeapInv
<1>2. /\ collecting \in PakeOps /\ Owned(collecting) = {}
      /\ started \in PakeOps /\ Owned(started) = {"password"}
  <2>1. collecting \in PakeOps /\ collecting.stage = "COLLECT_INPUTS"
        /\ ~collecting.password /\ ~collecting.user /\ ~collecting.peer
    BY DEF NoPake, PakeOps
  <2> HIDE DEF collecting
  <2>2. started \in PakeOps /\ started.stage = "COLLECT_INPUTS"
        /\ started.password /\ ~started.user /\ ~started.peer
    BY <2>1 DEF PakeOps
  <2> HIDE DEF started
  <2> QED
    BY <2>1, <2>2 DEF Owned, Pointed
<1> HIDE DEF collecting
<1>3. CASE op.stage # "SETUP" /\ PakeAborts(role, op, pheap[role])
  BY <1>1, <1>3, AbortOwnsNothing DEF PakeAborts
<1>4. ASSUME op.stage = "SETUP" PROVE pheap[role] = {}
  BY <1>1, <1>4 DEF Owned
<1>5. CASE op.stage = "SETUP" /\ PakeAborts(role, collecting, pheap[role])
  BY <1>2, <1>4, <1>5, AbortOwnsNothing DEF PakeAborts
<1>6. CASE /\ op.stage = "SETUP"
           /\ pop' = [pop EXCEPT ![role] = started]
           /\ pheap' = [pheap EXCEPT ![role] = @ \cup {"password"}]
  <2>1. pheap' = [pheap EXCEPT ![role] = {"password"}]
    BY <1>4, <1>6
  <2> QED
    BY <1>2, <1>6, <2>1 DEF PakeHeapInv
<1> QED
  BY <1>3, <1>5, <1>6 DEF psa_pake_setup, collecting

\* psa_pake_set_user() and psa_pake_set_peer(): the block is allocated before the
\* copy may fail.
LEMMA SetNameOwns ==
  ASSUME PakeHeapInv, NEW role \in PakeRoles, NEW name \in {"user", "peer"}, SetName(role, name)
  PROVE  PakeHeapInv'
<1> DEFINE op == pop[role]
           heap == pheap[role] \cup {name}
           named == [op EXCEPT ![name] = TRUE]
<1>1. op \in PakeOps /\ pheap[role] = Owned(op)
  BY DEF PakeHeapInv
<1>2. CASE PakeAborts(role, op, pheap[role])
  BY <1>1, <1>2, AbortOwnsNothing DEF PakeAborts
<1>3. ASSUME op.stage = "COLLECT_INPUTS" PROVE named \in PakeOps /\ heap = Owned(named)
  <2>1. CASE name = "user"
    BY <1>1, <1>3, <2>1 DEF PakeOps, Owned, Pointed
  <2>2. CASE name = "peer"
    BY <1>1, <1>3, <2>2 DEF PakeOps, Owned, Pointed
  <2> QED
    BY <2>1, <2>2
<1> HIDE DEF named
<1>4. CASE op.stage = "COLLECT_INPUTS" /\ PakeBecomes(role, named, heap)
  BY <1>3, <1>4 DEF PakeHeapInv, PakeBecomes
<1>5. CASE op.stage = "COLLECT_INPUTS" /\ PakeAborts(role, named, heap)
  BY <1>3, <1>5, AbortOwnsNothing DEF PakeAborts
<1> QED
  BY <1>2, <1>4, <1>5 DEF SetName, named

\* psa_pake_output() and psa_pake_input().
LEMMA RoundsOwn ==
  ASSUME PakeHeapInv, NEW role \in PakeRoles, NEW step, NEW fails,
         psa_pake_output(role, step, fails) \/ psa_pake_input(role, step, fails)
  PROVE  PakeHeapInv'
<1> DEFINE c == PakeComplete(role, fails # "setup")
<1> PICK op, heap : op = c.op /\ heap = c.heap
  OBVIOUS
<1>1. op \in PakeOps /\ heap = Owned(op)
  BY CompleteOwns
<1>2. ASSUME PakeAborts(role, op, heap) PROVE PakeHeapInv'
  BY <1>1, <1>2, AbortOwnsNothing DEF PakeAborts
<1>3. ASSUME NEW io_mode \in {"INPUT", "OUTPUT"},
             PakeAborts(role, psa_jpake_prologue(op, step, io_mode).op, heap)
      PROVE  PakeHeapInv'
  BY <1>1, <1>3, StepsKeepOwned, AbortOwnsNothing, ZenonT(30) DEF PakeAborts
<1>4. ASSUME NEW io_mode \in {"INPUT", "OUTPUT"}, NEW r,
             PakeEnds(role, psa_jpake_prologue(op, step, io_mode).op, heap, r, io_mode)
      PROVE  PakeHeapInv'
  <2>1. PICK p \in PakeOps : p = psa_jpake_prologue(op, step, io_mode).op
    BY <1>1, StepsKeepOwned
  <2>2. /\ Owned(p) = heap
        /\ psa_jpake_epilogue(p, io_mode) \in PakeOps
        /\ Owned(psa_jpake_epilogue(p, io_mode)) = heap
    <3>1. Owned(p) = heap
      BY <1>1, <2>1, StepsKeepOwned
    <3>2. /\ psa_jpake_epilogue(p, io_mode) \in PakeOps
          /\ Owned(psa_jpake_epilogue(p, io_mode)) = Owned(p)
      BY StepsKeepOwned
    <3> QED
      BY <3>1, <3>2
  <2>3. /\ pop' = [pop EXCEPT ![role] = psa_jpake_epilogue(p, io_mode)]
        /\ pheap' = [pheap EXCEPT ![role] = heap]
    BY <1>4, <2>1 DEF PakeEnds
  <2> QED
    BY <2>2, <2>3 DEF PakeHeapInv
<1>5. CASE psa_pake_output(role, step, fails)
  BY <1>2, <1>3, <1>4, <1>5 DEF psa_pake_output, PakeOutputs
<1>6. CASE psa_pake_input(role, step, fails)
  BY <1>2, <1>3, <1>4, <1>6 DEF psa_pake_input
<1> QED
  BY <1>5, <1>6

\* No call of J-PAKE loses a block of the operation or frees one that it does not
\* own, whatever fails and in whatever state it is called.
THEOREM PakeOwnsItsMemory == PakeSpec => []PakeMemory
<1>1. PakeInit => PakeHeapInv
  BY DEF PakeInit, PakeHeapInv, NoPake, PakeOps, Owned
<1>2. PakeHeapInv /\ [PakeNext]_pakeVars => PakeHeapInv'
  <2> SUFFICES ASSUME PakeHeapInv, [PakeNext]_pakeVars PROVE PakeHeapInv'
    OBVIOUS
  <2>1. CASE UNCHANGED pakeVars
    BY <2>1 DEF PakeHeapInv, pakeVars
  <2>2. ASSUME NEW role \in PakeRoles,
               psa_pake_set_role(role) \/ psa_pake_get_shared_key(role)
        PROVE  PakeHeapInv'
    <3>1. pop[role] \in PakeOps /\ pheap[role] = Owned(pop[role])
      BY DEF PakeHeapInv
    <3>2. psa_pake_abort(role, pop[role], pheap[role])
      BY <2>2 DEF psa_pake_set_role, psa_pake_get_shared_key, PakeAborts
    <3> QED
      BY <3>1, <3>2, AbortOwnsNothing
  <2>3. ASSUME NEW role \in PakeRoles, psa_pake_set_user(role) \/ psa_pake_set_peer(role)
        PROVE  PakeHeapInv'
    BY <2>3, SetNameOwns DEF psa_pake_set_user, psa_pake_set_peer
  <2> QED
    BY <2>1, <2>2, <2>3, SetupOwns, RoundsOwn DEF PakeNext
<1>3. PakeHeapInv => PakeMemory
  BY DEF PakeHeapInv, PakeMemory, Owned
<1> QED
  BY <1>1, <1>2, <1>3, PTL DEF PakeSpec
-----------------------------------------------------------------------------
(* The random generator.                                                   *)

\* What goes into the list of a generator: a request or a seed for all to see, and
\* the seed of process c at time t after a fork.
Drawings == Nat \X Nat
Plain == {<<"request", n>> : n \in Nat} \cup {<<"seed", d, <<>>>> : d \in Drawings}
Personal(c, t) == {<<"seed", d, <<c, t>>>> : d \in Drawings}
Entries == Plain \cup UNION {Personal(c, t) : c \in Pids, t \in Nat}
Lists == Seq(Entries)

PrefixOf(list, long) == Len(list) <= Len(long) /\ \A i \in 1 .. Len(list) : list[i] = long[i]
\* Another process than p seeded itself after the first k entries.
SeededAfter(list, k, p) ==
    \E i \in k + 1 .. Len(list) : \E c \in Pids \ {p}, t \in Nat : list[i] \in Personal(c, t)

\* The processes in `own' have noted their identifier. What extends the list of one
\* of them, where output was made or in another of them, was seeded by another
\* process in between.
Apart(own, list, past) ==
    /\ \A p \in own : \A made \in past :
         PrefixOf(list[p], made) => SeededAfter(made, Len(list[p]), p)
    /\ \A p, q \in own :
         p # q /\ PrefixOf(list[p], list[q]) => SeededAfter(list[q], Len(list[p]), p)

\* No list has a seed of the future, nor one of this moment that was taken by a
\* process that has not noted its identifier yet.
Timely(all, own, now) ==
    \A made \in all, c \in Pids, t \in Nat : \A i \in 1 .. Len(made) :
      made[i] \in Personal(c, t) => t <= now /\ (c \notin own => t < now)

\* A seed tells who took it, if it is one of a fork.
LEMMA SeedsApart ==
  /\ \A c, d, t, u : Personal(c, t) \cap Personal(d, u) # {} => c = d /\ t = u
  /\ \A c, t : Personal(c, t) \cap Plain = {}
<1>1. ASSUME NEW c, NEW d, NEW t, NEW u, Personal(c, t) \cap Personal(d, u) # {}
      PROVE  c = d /\ t = u
  <2>1. PICK e : e \in Personal(c, t) /\ e \in Personal(d, u)
    BY <1>1
  <2>2. PICK x \in Drawings : e = <<"seed", x, <<c, t>>>>
    BY <2>1 DEF Personal
  <2>3. PICK y \in Drawings : e = <<"seed", y, <<d, u>>>>
    BY <2>1 DEF Personal
  <2>4. <<c, t>> = <<d, u>>
    BY <2>2, <2>3
  <2> QED
    BY <2>4
<1>2. ASSUME NEW c, NEW t, NEW e, e \in Personal(c, t), e \in Plain PROVE FALSE
  <2>1. PICK x \in Drawings : e = <<"seed", x, <<c, t>>>>
    BY <1>2 DEF Personal
  <2>2. CASE \E n \in Nat : e = <<"request", n>>
    <3>1. PICK n \in Nat : e = <<"request", n>>
      BY <2>2
    <3>2. e[1] = "request" /\ e[1] = "seed"
      BY <2>1, <3>1
    <3> QED
      BY <3>2
  <2>3. CASE \E y \in Drawings : e = <<"seed", y, <<>>>>
    <3>1. PICK y \in Drawings : e = <<"seed", y, <<>>>>
      BY <2>3
    <3>2. <<c, t>> = <<>>
      BY <2>1, <3>1
    <3>3. Len(<<c, t>>) = 2 /\ Len(<<>>) = 0
      OBVIOUS
    <3> QED
      BY <3>2, <3>3
  <2> QED
    BY <1>2, <2>2, <2>3 DEF Plain
<1> QED
  BY <1>1, <1>2

\* Appending, entry by entry.
LEMMA Appended ==
  ASSUME NEW list \in Lists, NEW e \in Entries
  PROVE  /\ Append(list, e) \in Lists /\ Len(Append(list, e)) = Len(list) + 1
         /\ \A i \in 1 .. Len(list) : Append(list, e)[i] = list[i]
         /\ Append(list, e)[Len(list) + 1] = e
  BY DEF Lists

\* Both kinds are entries, and lists have lengths.
LEMMA EntryKinds ==
  /\ \A e \in Plain : e \in Entries
  /\ \A c \in Pids, t \in Nat : \A e \in Personal(c, t) : e \in Entries
  /\ \A list \in Lists : Len(list) \in Nat
<1>1. \A list \in Lists : Len(list) \in Nat
  BY DEF Lists
<1> QED
  BY <1>1 DEF Entries

\* The lists of some processes and of the outputs, as the lemmas below take them.
Listing(own, list, past) ==
    own \subseteq Pids /\ list \in [Pids -> Lists] /\ past \in SUBSET Lists

\* Output is not made again from a list that it was made from.
LEMMA NotMadeBefore ==
  ASSUME NEW own, NEW list, NEW past, Listing(own, list, past), Apart(own, list, past),
         NEW p \in own
  PROVE  list[p] \notin past
<1> SUFFICES ASSUME list[p] \in past PROVE FALSE
  OBVIOUS
<1>1. list[p] \in Lists
  BY DEF Listing
<1>2. PrefixOf(list[p], list[p])
  BY <1>1 DEF PrefixOf, Lists
<1>3. SeededAfter(list[p], Len(list[p]), p)
  BY <1>2 DEF Apart
<1>4. Len(list[p]) \in Nat
  BY <1>1 DEF Lists
<1> QED
  BY <1>3, <1>4 DEF SeededAfter

\* An entry that all processes may have made hides nothing: what extends the longer
\* list extends the shorter one, and was seeded after the new entry.
LEMMA PlainKeepsSeeded ==
  ASSUME NEW list \in Lists, NEW long \in Lists, NEW e \in Plain, NEW p,
         PrefixOf(list, long) => SeededAfter(long, Len(list), p),
         PrefixOf(Append(list, e), long)
  PROVE  SeededAfter(long, Len(list) + 1, p)
<1>1. e \in Entries
  BY DEF Entries
<1>2. Len(list) \in Nat /\ Len(long) \in Nat
  BY DEF Lists
<1>3. PrefixOf(list, long) /\ long[Len(list) + 1] = e
  BY <1>1, <1>2, Appended DEF PrefixOf
<1>4. PICK i \in Len(list) + 1 .. Len(long) :
        \E c \in Pids \ {p}, t \in Nat : long[i] \in Personal(c, t)
  BY <1>3 DEF SeededAfter
<1>5. i # Len(list) + 1
  BY <1>3, <1>4, SeedsApart
<1>6. i \in (Len(list) + 1) + 1 .. Len(long)
  BY <1>2, <1>5
<1> QED
  BY <1>4, <1>6 DEF SeededAfter

\* A longer list has all the seeds of the shorter one.
LEMMA SeededStays ==
  ASSUME NEW list \in Lists, NEW e \in Entries, NEW k \in Nat, NEW p, SeededAfter(list, k, p)
  PROVE  SeededAfter(Append(list, e), k, p)
<1>1. Len(list) \in Nat
  BY DEF Lists
<1>2. PICK i \in k + 1 .. Len(list) :
        \E c \in Pids \ {p}, t \in Nat : list[i] \in Personal(c, t)
  BY DEF SeededAfter
<1>3. i \in 1 .. Len(list) /\ i \in k + 1 .. Len(Append(list, e))
  BY <1>1, Appended
<1>4. Append(list, e)[i] = list[i]
  BY <1>3, Appended
<1> QED
  BY <1>2, <1>3, <1>4 DEF SeededAfter

\* What is a prefix of a list with one more entry is a prefix of the list, or all of it.
LEMMA PrefixOfAppended ==
  ASSUME NEW list \in Lists, NEW e \in Entries, NEW other \in Lists,
         PrefixOf(other, Append(list, e))
  PROVE  \/ PrefixOf(other, list)
         \/ Len(other) = Len(list) + 1 /\ PrefixOf(list, other) /\ other[Len(list) + 1] = e
<1>1. Len(list) \in Nat /\ Len(other) \in Nat
  BY DEF Lists
<1>2. Len(other) <= Len(list) + 1
      /\ \A i \in 1 .. Len(other) : other[i] = Append(list, e)[i]
  BY Appended DEF PrefixOf
<1>3. CASE Len(other) <= Len(list)
  BY <1>1, <1>2, <1>3, Appended DEF PrefixOf
<1>4. CASE Len(other) = Len(list) + 1
  <2>1. \A i \in 1 .. Len(list) : other[i] = list[i]
    BY <1>1, <1>2, <1>4, Appended
  <2>2. other[Len(list) + 1] = e
    BY <1>1, <1>2, <1>4, Appended
  <2> QED
    BY <1>1, <1>4, <2>1, <2>2 DEF PrefixOf
<1> QED
  BY <1>1, <1>2, <1>3, <1>4

\* A process of its own goes on: with a request or a seed.
LEMMA PlainKeepsApart ==
  ASSUME NEW own, NEW list, NEW past, Listing(own, list, past), Apart(own, list, past),
         NEW p \in own, NEW e \in Plain
  PROVE  Apart(own, [list EXCEPT ![p] = Append(@, e)], past)
<1> DEFINE grown == [list EXCEPT ![p] = Append(@, e)]
<1>1. /\ p \in Pids /\ e \in Entries
      /\ \A q \in own : list[q] \in Lists /\ Len(list[q]) \in Nat
      /\ \A made \in past : made \in Lists
  BY EntryKinds DEF Listing
<1>2. /\ grown[p] = Append(list[p], e) /\ Len(grown[p]) = Len(list[p]) + 1
      /\ \A q \in own \ {p} : grown[q] = list[q]
  BY <1>1, Appended DEF Listing
<1> HIDE DEF grown
<1>3. ASSUME NEW q \in own, NEW made \in past, PrefixOf(grown[q], made)
      PROVE  SeededAfter(made, Len(grown[q]), q)
  <2>1. CASE q = p
    BY <1>1, <1>2, <1>3, <2>1, PlainKeepsSeeded DEF Apart
  <2>2. CASE q # p
    BY <1>2, <1>3, <2>2 DEF Apart
  <2> QED
    BY <2>1, <2>2
<1>4. ASSUME NEW q \in own, NEW r \in own, q # r, PrefixOf(grown[q], grown[r])
      PROVE  SeededAfter(grown[r], Len(grown[q]), q)
  <2>1. CASE q = p
    <3>1. PrefixOf(Append(list[p], e), list[r])
      BY <1>2, <1>4, <2>1
    <3>2. PrefixOf(list[p], list[r]) => SeededAfter(list[r], Len(list[p]), p)
      BY <1>4, <2>1 DEF Apart
    <3> QED
      BY <1>1, <1>2, <1>4, <2>1, <3>1, <3>2, PlainKeepsSeeded
  <2>2. CASE r = p
    <3>1. PrefixOf(list[q], Append(list[p], e))
      BY <1>2, <1>4, <2>2
    <3>2. CASE PrefixOf(list[q], list[p])
      <4>1. SeededAfter(list[p], Len(list[q]), q)
        BY <1>4, <2>2, <3>2 DEF Apart
      <4> QED
        BY <1>1, <1>2, <1>4, <2>2, <4>1, SeededStays
    <3>3. CASE /\ Len(list[q]) = Len(list[p]) + 1 /\ PrefixOf(list[p], list[q])
               /\ list[q][Len(list[p]) + 1] = e
      <4>1. SeededAfter(list[q], Len(list[p]), p)
        BY <1>4, <2>2, <3>3 DEF Apart
      <4>2. PICK i \in Len(list[p]) + 1 .. Len(list[q]) :
              \E c \in Pids \ {p}, t \in Nat : list[q][i] \in Personal(c, t)
        BY <4>1 DEF SeededAfter
      <4>3. i = Len(list[p]) + 1
        BY <1>1, <3>3
      <4> QED
        BY <3>3, <4>2, <4>3, SeedsApart
    <3> QED
      BY <1>1, <3>1, <3>2, <3>3, PrefixOfAppended
  <2>3. CASE q # p /\ r # p
    BY <1>2, <1>4, <2>3 DEF Apart
  <2> QED
    BY <2>1, <2>2, <2>3
<1> QED
  BY <1>3, <1>4 DEF Apart, grown

\* The output that is made before the entry of its request.
LEMMA OutputKeepsApart ==
  ASSUME NEW own, NEW list, NEW past, Listing(own, list, past), Apart(own, list, past),
         NEW p \in own, NEW e \in Plain
  PROVE  Apart(own, [list EXCEPT ![p] = Append(@, e)], past \cup {list[p]})
<1> DEFINE grown == [list EXCEPT ![p] = Append(@, e)]
<1>1. Apart(own, grown, past)
  BY PlainKeepsApart
<1>2. /\ p \in Pids /\ e \in Entries /\ list[p] \in Lists /\ Len(list[p]) \in Nat
      /\ Len(grown[p]) = Len(list[p]) + 1
      /\ \A q \in own \ {p} : grown[q] = list[q]
  <2>1. p \in Pids /\ e \in Entries /\ list[p] \in Lists
    BY DEF Listing, Entries
  <2> QED
    BY <2>1, Appended DEF Listing, Lists
<1> HIDE DEF grown
<1>3. ASSUME NEW q \in own, PrefixOf(grown[q], list[p])
      PROVE  SeededAfter(list[p], Len(grown[q]), q)
  <2>1. q # p
    BY <1>2, <1>3 DEF PrefixOf
  <2> QED
    BY <1>2, <1>3, <2>1 DEF Apart
<1> QED
  BY <1>1, <1>3 DEF Apart, grown

\* A child takes the seed that tells it from its parent.
LEMMA ChildIsApart ==
  ASSUME NEW own, NEW list, NEW past, Listing(own, list, past), Apart(own, list, past),
         NEW now \in Nat, Timely(past \cup {list[q] : q \in Pids}, own, now),
         NEW p \in Pids \ own, NEW e \in Personal(p, now)
  PROVE  Apart(own \cup {p}, [list EXCEPT ![p] = Append(@, e)], past)
<1> DEFINE grown == [list EXCEPT ![p] = Append(@, e)]
           all == past \cup {list[q] : q \in Pids}
<1>1. /\ e \in Entries
      /\ \A q \in Pids : list[q] \in Lists /\ Len(list[q]) \in Nat
      /\ \A made \in past : made \in Lists
      /\ own \subseteq Pids
  BY EntryKinds DEF Listing
<1>2. /\ grown[p] = Append(list[p], e) /\ Len(grown[p]) = Len(list[p]) + 1
      /\ grown[p][Len(list[p]) + 1] = e
      /\ \A q \in own : grown[q] = list[q]
  BY <1>1, Appended DEF Listing
<1> HIDE DEF grown
<1>3. ASSUME NEW made \in all, PrefixOf(grown[p], made) PROVE FALSE
  <2>1. made[Len(list[p]) + 1] = e /\ Len(list[p]) + 1 \in 1 .. Len(made)
    BY <1>1, <1>2, <1>3 DEF PrefixOf, Lists
  <2>2. now < now
    BY <2>1 DEF Timely
  <2> QED
    BY <2>2
<1>4. ASSUME NEW q \in own, PrefixOf(list[q], grown[p])
      PROVE  SeededAfter(grown[p], Len(list[q]), q)
  <2>1. PrefixOf(list[q], list[p])
    <3>1. CASE /\ Len(list[q]) = Len(list[p]) + 1 /\ list[q][Len(list[p]) + 1] = e
      <4>1. Len(list[p]) + 1 \in 1 .. Len(list[q]) /\ list[q] \in all
        BY <1>1, <3>1
      <4>2. now < now
        BY <3>1, <4>1 DEF Timely
      <4> QED
        BY <4>2
    <3> QED
      BY <1>1, <1>2, <1>4, <3>1, PrefixOfAppended
  <2>2. Len(list[p]) + 1 \in Len(list[q]) + 1 .. Len(grown[p])
    BY <1>1, <1>2, <2>1 DEF PrefixOf
  <2>3. p \in Pids \ {q}
    OBVIOUS
  <2> QED
    BY <1>2, <2>2, <2>3 DEF SeededAfter
<1>5. ASSUME NEW q \in own \cup {p}, NEW made \in past, PrefixOf(grown[q], made)
      PROVE  SeededAfter(made, Len(grown[q]), q)
  <2>1. CASE q = p
    BY <1>3, <1>5, <2>1
  <2>2. CASE q \in own
    BY <1>2, <1>5, <2>2 DEF Apart
  <2> QED
    BY <2>1, <2>2
<1>6. ASSUME NEW q \in own \cup {p}, NEW r \in own \cup {p}, q # r, PrefixOf(grown[q], grown[r])
      PROVE  SeededAfter(grown[r], Len(grown[q]), q)
  <2>1. CASE q = p
    <3>1. r \in own /\ grown[r] \in all
      BY <1>1, <1>2, <1>6, <2>1
    <3> QED
      BY <1>3, <1>6, <2>1, <3>1
  <2>2. CASE r = p
    BY <1>2, <1>4, <1>6, <2>2
  <2>3. CASE q \in own /\ r \in own
    BY <1>2, <1>6, <2>3 DEF Apart
  <2> QED
    BY <2>1, <2>2, <2>3
<1> QED
  BY <1>5, <1>6 DEF Apart, grown
\* Lists that are as they were, or have one more entry for all to see.
LEMMA PlainKeepsTimely ==
  ASSUME NEW all \in SUBSET Lists, NEW own, NEW now, Timely(all, own, now),
         NEW list \in all, NEW e \in Plain
  PROVE  Timely(all \cup {Append(list, e)}, own, now)
<1>1. list \in Lists /\ e \in Entries
  BY EntryKinds
<1>2. Len(list) \in Nat
  BY <1>1, EntryKinds
<1>3. ASSUME NEW c \in Pids, NEW t \in Nat, NEW i \in 1 .. Len(Append(list, e)),
             Append(list, e)[i] \in Personal(c, t)
      PROVE  t <= now /\ (c \notin own => t < now)
  <2>1. i # Len(list) + 1
    BY <1>1, <1>3, Appended, SeedsApart
  <2>2. i \in 1 .. Len(list)
    BY <1>1, <1>2, <2>1, Appended
  <2>3. list[i] \in Personal(c, t)
    BY <1>1, <1>3, <2>2, Appended
  <2> QED
    BY <2>2, <2>3 DEF Timely
<1> QED
  BY <1>3 DEF Timely

\* The seed that a child takes, by which it is one of those that noted their identifier.
LEMMA PersonalKeepsTimely ==
  ASSUME NEW all \in SUBSET Lists, NEW own, NEW now \in Nat, Timely(all, own, now),
         NEW list \in all, NEW p \in Pids, NEW e \in Personal(p, now)
  PROVE  Timely(all \cup {Append(list, e)}, own \cup {p}, now)
<1>1. list \in Lists /\ e \in Entries
  BY EntryKinds
<1>2. Len(list) \in Nat
  BY <1>1, EntryKinds
<1>3. ASSUME NEW c \in Pids, NEW t \in Nat, NEW i \in 1 .. Len(Append(list, e)),
             Append(list, e)[i] \in Personal(c, t)
      PROVE  t <= now /\ (c \notin own \cup {p} => t < now)
  <2>1. CASE i = Len(list) + 1
    <3>1. e \in Personal(c, t)
      BY <1>1, <1>3, <2>1, Appended
    <3>2. c = p /\ t = now
      BY <3>1, SeedsApart
    <3> QED
      BY <3>2
  <2>2. CASE i # Len(list) + 1
    <3>1. i \in 1 .. Len(list)
      BY <1>1, <1>2, <2>2, Appended
    <3>2. list[i] \in Personal(c, t)
      BY <1>1, <1>3, <3>1, Appended
    <3> QED
      BY <3>1, <3>2 DEF Timely
  <2> QED
    BY <2>1, <2>2
<1> QED
  BY <1>3 DEF Timely

\* The state of a generator, and the processes that use their own.
Generators ==
    [live : {TRUE}, ready : BOOLEAN, list : Lists, counter : Nat, resist : BOOLEAN,
     pid : Nat, size : Nat, pools : Nat, due : BOOLEAN, want : Nat, left : Nat, got : Nat]
Own == {p \in Pids : rproc[p].live /\ rproc[p].pid = p}
ListOf == [p \in Pids |-> IF rproc[p].live THEN rproc[p].list ELSE <<>>]

RandomTyped ==
    /\ rproc \in [Pids -> Generators \cup {NoProcess}]
    /\ rtrue \in BOOLEAN
    /\ rworld \in [drawn : Nat, now : Nat, forks : Nat]
    /\ rpast \in SUBSET Lists
\* Before psa_crypto_init() there are no children and there was no output, and only a
\* process that has noted its identifier makes requests.
OnlyReadyOutput ==
    \A p \in Pids : rproc[p].live =>
      /\ ~rproc[p].ready => rpast = {} /\ \A q \in Pids \ {p} : ~rproc[q].live
      /\ rproc[p].left > 0 => rproc[p].ready /\ rproc[p].pid = p
RandomInv ==
    /\ RandomTyped
    /\ Apart(Own, ListOf, rpast)
    /\ Timely(rpast \cup {ListOf[q] : q \in Pids}, Own, rworld.now)
    /\ OnlyReadyOutput

\* A live process has a generator, and a list of its own.
LEMMA LiveHasList ==
  ASSUME RandomTyped
  PROVE  /\ Listing(Own, ListOf, rpast)
         /\ \A p \in Pids : rproc[p].live =>
              rproc[p] \in Generators /\ ListOf[p] = rproc[p].list /\ ListOf[p] \in Lists
<1>1. \A p \in Pids : rproc[p].live => rproc[p] \in Generators
  BY DEF RandomTyped, NoProcess
<1>2. \A p \in Pids : rproc[p].live => rproc[p].list \in Lists
  BY <1>1 DEF Generators
<1>3. <<>> \in Lists
  BY DEF Lists
<1> QED
  BY <1>1, <1>2, <1>3 DEF Listing, ListOf, Own, RandomTyped

\* The seeds that are taken without additional data and with those of a child.
LEMMA SeedKinds ==
  \A d \in Drawings :
    /\ <<"seed", d, <<>>>> \in Plain
    /\ \A a \in Pids \X Nat : <<"seed", d, a>> \in Personal(a[1], a[2])
    /\ \A a \in {<<>>} \cup (Pids \X Nat) : <<"seed", d, a>> \in Entries
<1>1. \A d \in Drawings : <<"seed", d, <<>>>> \in Plain
  BY DEF Plain
<1>2. \A d \in Drawings, a \in Pids \X Nat : <<"seed", d, a>> \in Personal(a[1], a[2])
  BY DEF Personal
<1>3. \A a \in Pids \X Nat : a[1] \in Pids /\ a[2] \in Nat
  OBVIOUS
<1> QED
  BY <1>1, <1>2, <1>3, EntryKinds

\* What mbedtls_ctr_drbg_reseed() makes of a generator: one entry more, or none, as
\* the entropy source works.
Reseeding(g, additional, works, r) ==
    /\ r.ok \in BOOLEAN /\ r.ok = works /\ r.rng \in Generators
    /\ r.rng.pid = g.pid /\ r.rng.ready = g.ready /\ r.rng.resist = g.resist
    /\ r.rng.want = g.want /\ r.rng.left = g.left /\ r.rng.got = g.got
    /\ r.ok => /\ r.rng.counter = 0 /\ ~r.rng.due
               /\ \E d \in Drawings : r.rng.list = Append(g.list, <<"seed", d, additional>>)
    /\ ~r.ok => r.rng.list = g.list /\ r.rng.counter = g.counter /\ r.rng.due = g.due

\* mbedtls_ctr_drbg_reseed() is such a reseed.
LEMMA Reseeds ==
  ASSUME RandomTyped, NEW g \in Generators, NEW additional \in {<<>>} \cup (Pids \X Nat),
         NEW olen \in Nat, NEW good \in Nat
  PROVE  Reseeding(g, additional, mbedtls_entropy_func(g.size, olen, good).ok,
                   mbedtls_ctr_drbg_reseed_internal(g, additional, olen, good))
<1> DEFINE r == mbedtls_ctr_drbg_reseed_internal(g, additional, olen, good)
           e == mbedtls_entropy_func(g.size, olen, good)
           g1 == [g EXCEPT !.size = e.size]
           s == Seed(g, additional)
<1>1. e.ok \in BOOLEAN /\ e.size \in Nat
  <2>1. g.size \in Nat /\ EntropyMaxLoop + 1 \in Nat
    BY RandomAssumption DEF Generators
  <2>2. \A k \in Nat : g.size + k * olen \in Nat
    BY <2>1
  <2> QED
    BY <2>1, <2>2 DEF mbedtls_entropy_func
<1> HIDE DEF e
<1>2. /\ g1 \in Generators /\ g1.pools = g.pools /\ g1.list = g.list
      /\ g1.pid = g.pid /\ g1.ready = g.ready /\ g1.left = g.left /\ g1.resist = g.resist
      /\ g1.want = g.want /\ g1.got = g.got /\ g1.counter = g.counter /\ g1.due = g.due
  BY <1>1 DEF Generators
<1> HIDE DEF g1
<1>3. PICK d \in Drawings : s = <<"seed", d, additional>>
  <2>1. rworld.drawn \in Nat /\ g.pools \in Nat
    BY DEF RandomTyped, Generators
  <2>2. <<rworld.drawn, g.pools>> \in Drawings /\ <<0, g.pools>> \in Drawings
    BY <2>1 DEF Drawings
  <2> QED
    BY <2>2 DEF Seed
<1>4. Append(g.list, s) \in Lists
  <2>1. g.list \in Lists /\ s \in Entries
    BY <1>3, SeedKinds DEF Generators
  <2> QED
    BY <2>1, Appended
<1>5. r = [ok |-> e.ok,
           rng |-> IF ~e.ok THEN g1
                   ELSE [g1 EXCEPT !.list = Append(@, s), !.pools = @ + 1, !.counter = 0,
                                   !.due = FALSE]]
  BY DEF mbedtls_ctr_drbg_reseed_internal, Reseeded, e, g1
<1> HIDE DEF r, s
<1>6. ASSUME ~e.ok PROVE Reseeding(g, additional, e.ok, r)
  <2>1. r.ok = FALSE /\ r.rng = g1
    BY <1>1, <1>5, <1>6
  <2> QED
    BY <1>1, <1>2, <1>6, <2>1 DEF Reseeding
<1>7. ASSUME e.ok PROVE Reseeding(g, additional, e.ok, r)
  <2>1. r.ok = TRUE
    BY <1>1, <1>5, <1>7
  <2>2. r.rng = [g1 EXCEPT !.list = Append(g1.list, s), !.pools = g1.pools + 1, !.counter = 0,
                           !.due = FALSE]
    BY <1>5, <1>7
  <2>3. PICK pools \in Nat : pools = g1.pools + 1
    BY <1>2 DEF Generators
  <2>4. PICK list \in Lists : list = Append(g1.list, s)
    BY <1>2, <1>4
  <2>5. PICK g2 \in Generators : g2 = [g1 EXCEPT !.list = list, !.pools = pools]
    BY <1>2, <2>3, <2>4 DEF Generators
  <2>6. g2.list = list /\ g2.pid = g1.pid /\ g2.ready = g1.ready /\ g2.left = g1.left
        /\ g2.resist = g1.resist /\ g2.want = g1.want /\ g2.got = g1.got
    BY <1>2, <2>5 DEF Generators
  <2>7. PICK g3 \in Generators : g3 = [g2 EXCEPT !.counter = 0, !.due = FALSE]
    BY <2>5 DEF Generators
  <2>8. g3.list = g2.list /\ g3.pid = g2.pid /\ g3.ready = g2.ready /\ g3.left = g2.left
        /\ g3.resist = g2.resist /\ g3.want = g2.want /\ g3.got = g2.got
        /\ g3.counter = 0 /\ g3.due = FALSE
    BY <2>5, <2>7 DEF Generators
  <2>9. r.rng = g3
    BY <2>2, <2>3, <2>4, <2>5, <2>7
  <2>10. r.rng.list = Append(g.list, <<"seed", d, additional>>)
    BY <1>2, <1>3, <2>4, <2>6, <2>8, <2>9
  <2>11. r.rng \in Generators /\ r.rng.pid = g.pid /\ r.rng.ready = g.ready
         /\ r.rng.left = g.left /\ r.rng.resist = g.resist /\ r.rng.want = g.want
         /\ r.rng.got = g.got /\ r.rng.counter = 0 /\ ~r.rng.due
    BY <1>2, <2>6, <2>8, <2>9
  <2> QED
    BY <1>7, <2>1, <2>10, <2>11 DEF Reseeding
<1> QED
  BY <1>6, <1>7 DEF e, r

\* The same without additional data: an entry for all to see.
PlainlyReseeded(g, r) ==
    /\ r.ok \in BOOLEAN /\ r.rng \in Generators
    /\ r.rng.pid = g.pid /\ r.rng.ready = g.ready /\ r.rng.left = g.left
    /\ \/ r.rng.list = g.list
       \/ \E e \in Plain : r.rng.list = Append(g.list, e)
\* Both psa_crypto_init() and a process that seeds by itself reseed so.
LEMMA PlainReseeds ==
  ASSUME RandomTyped, NEW g \in Generators, NEW olen \in Nat, NEW good \in Nat
  PROVE  PlainlyReseeded(g, mbedtls_ctr_drbg_reseed_internal(g, <<>>, olen, good))
<1> DEFINE r == mbedtls_ctr_drbg_reseed_internal(g, <<>>, olen, good)
<1>1. <<>> \in {<<>>} \cup (Pids \X Nat)
  OBVIOUS
<1>2. Reseeding(g, <<>>, mbedtls_entropy_func(g.size, olen, good).ok, r)
  BY <1>1, Reseeds
<1> HIDE DEF r
<1>3. /\ r.ok \in BOOLEAN /\ r.rng \in Generators
      /\ r.rng.pid = g.pid /\ r.rng.ready = g.ready /\ r.rng.left = g.left
      /\ ~r.ok => r.rng.list = g.list
      /\ r.ok => \E d \in Drawings : r.rng.list = Append(g.list, <<"seed", d, <<>>>>)
  BY <1>2 DEF Reseeding
<1>4. ASSUME r.ok PROVE \E e \in Plain : r.rng.list = Append(g.list, e)
  <2>1. PICK d \in Drawings : r.rng.list = Append(g.list, <<"seed", d, <<>>>>)
    BY <1>3, <1>4
  <2>2. <<"seed", d, <<>>>> \in Plain
    BY SeedKinds
  <2> QED
    BY <2>1, <2>2
<1>5. PlainlyReseeded(g, r)
  BY <1>3, <1>4 DEF PlainlyReseeded
<1> QED
  BY <1>5 DEF r

\* The lists of the processes that use their own are all that matters.
LEMMA OthersKeepApart ==
  ASSUME NEW own, NEW list, NEW other, NEW past, Apart(own, list, past),
         \A p \in own : other[p] = list[p]
  PROVE  Apart(own, other, past)
  BY DEF Apart

\* A call that took a seed, or none, leaves the clock alone.
LEMMA DrawnKeepsTime ==
  ASSUME RandomTyped, NEW g, NEW after, Drawn(g, after)
  PROVE  rworld' \in [drawn : Nat, now : Nat, forks : Nat] /\ rworld'.now = rworld.now
  BY DEF RandomTyped, Drawn

\* A process goes on with its generator: with the same list or one more entry.
LEMMA GoesOn ==
  ASSUME RandomInv, NEW p \in Pids, rproc[p].live, rproc[p].ready,
         NEW after \in Generators, rproc' = [rproc EXCEPT ![p] = after],
         after.pid = rproc[p].pid, after.ready, after.left > 0 => after.pid = p,
         \/ after.list = rproc[p].list
         \/ \E e \in Plain : after.list = Append(rproc[p].list, e),
         rtrue' = rtrue, rpast' = rpast,
         rworld' \in [drawn : Nat, now : Nat, forks : Nat], rworld'.now = rworld.now
  PROVE  RandomInv'
<1>1. RandomTyped /\ rproc[p] \in Generators /\ rproc[p].list \in Lists
      /\ ListOf[p] = rproc[p].list /\ Listing(Own, ListOf, rpast)
  BY LiveHasList DEF RandomInv
<1>2. rproc'[p] = after /\ \A q \in Pids \ {p} : rproc'[q] = rproc[q]
  BY <1>1 DEF RandomTyped
<1>3. after.live /\ after.list \in Lists
  BY DEF Generators
<1>4. RandomTyped'
  BY <1>1 DEF RandomTyped
<1>5. Own' = Own
  BY <1>2, <1>3 DEF Own
<1>6. ListOf' = [ListOf EXCEPT ![p] = after.list]
  <2>1. ListOf' = [q \in Pids |-> IF rproc'[q].live THEN rproc'[q].list ELSE <<>>]
    BY DEF ListOf
  <2>2. \A q \in Pids : (IF rproc'[q].live THEN rproc'[q].list ELSE <<>>)
                        = IF q = p THEN after.list ELSE ListOf[q]
    BY <1>2, <1>3 DEF ListOf
  <2>3. ListOf' = [q \in Pids |-> IF q = p THEN after.list ELSE ListOf[q]]
    BY <2>1, <2>2
  <2>4. ListOf \in [Pids -> Lists]
    BY <1>1 DEF Listing
  <2> QED
    BY <2>3, <2>4
<1>7. Apart(Own, ListOf', rpast) /\ Timely(rpast \cup {ListOf'[q] : q \in Pids}, Own, rworld.now)
  <2> DEFINE all == rpast \cup {ListOf[q] : q \in Pids}
  <2>1. ListOf[p] \in all /\ all \in SUBSET Lists /\ DOMAIN ListOf = Pids
    BY <1>1 DEF Listing
  <2>2. Apart(Own, ListOf, rpast) /\ Timely(all, Own, rworld.now)
    BY DEF RandomInv
  <2>3. CASE after.list = rproc[p].list
    <3>1. ListOf' = ListOf
      BY <1>1, <1>6, <2>3 DEF Listing
    <3> QED
      BY <2>2, <3>1
  <2>4. ASSUME NEW e \in Plain, after.list = Append(rproc[p].list, e)
        PROVE  Apart(Own, ListOf', rpast)
               /\ Timely(rpast \cup {ListOf'[q] : q \in Pids}, Own, rworld.now)
    <3>1. ListOf' = [ListOf EXCEPT ![p] = Append(@, e)]
      BY <1>1, <1>6, <2>4
    <3>2. ASSUME p \in Own PROVE Apart(Own, ListOf', rpast)
      BY <1>1, <2>2, <3>1, <3>2, PlainKeepsApart
    <3>3. ASSUME p \notin Own PROVE Apart(Own, ListOf', rpast)
      <4>1. \A q \in Own : ListOf'[q] = ListOf[q]
        BY <1>1, <3>1, <3>3 DEF Listing
      <4> QED
        BY <2>2, <4>1, OthersKeepApart
    <3>4. Timely(all \cup {Append(ListOf[p], e)}, Own, rworld.now)
      BY <2>1, <2>2, PlainKeepsTimely
    <3>5. rpast \cup {ListOf'[q] : q \in Pids} \subseteq all \cup {Append(ListOf[p], e)}
      BY <2>1, <3>1
    <3>6. Timely(rpast \cup {ListOf'[q] : q \in Pids}, Own, rworld.now)
      BY <3>4, <3>5 DEF Timely
    <3> QED
      BY <3>2, <3>3, <3>6
  <2> QED
    BY <2>3, <2>4
<1>8. OnlyReadyOutput'
  BY <1>2, <1>3 DEF RandomInv, OnlyReadyOutput
<1>9. rpast' = rpast /\ rworld'.now = rworld.now
  OBVIOUS
<1>10. Apart(Own', ListOf', rpast') /\ Timely(rpast' \cup {ListOf'[q] : q \in Pids}, Own', rworld'.now)
  BY <1>5, <1>7, <1>9
<1> QED
  BY <1>4, <1>8, <1>10 DEF RandomInv

\* psa_random_internal_seed(): the only process there is.
LEMMA SeedKeepsInv ==
  ASSUME RandomInv, NEW p \in Pids, rproc[p].live, rproc[p].left = 0,
         NEW olen \in Gathers, NEW good \in 0 .. EntropyMaxLoop + 1,
         psa_random_internal_seed(p, olen, good)
  PROVE  RandomInv'
<1> DEFINE r == mbedtls_ctr_drbg_reseed_internal(rproc[p], <<>>, olen, good)
<1>1. RandomTyped /\ rproc[p] \in Generators /\ ListOf[p] = rproc[p].list
      /\ Listing(Own, ListOf, rpast)
  BY LiveHasList DEF RandomInv
<1>2. olen \in Nat /\ good \in Nat
  BY RandomAssumption
<1>3. PlainlyReseeded(rproc[p], r)
  BY <1>1, <1>2, PlainReseeds
<1> HIDE DEF r
<1>4. /\ r.ok \in BOOLEAN /\ r.rng \in Generators /\ r.rng.left = rproc[p].left
      /\ \/ r.rng.list = rproc[p].list
         \/ \E e \in Plain : r.rng.list = Append(rproc[p].list, e)
  BY <1>3 DEF PlainlyReseeded
<1> DEFINE after == [r.rng EXCEPT !.pid = p, !.ready = r.ok]
<1>5. /\ ~rproc[p].ready
      /\ rproc' = [rproc EXCEPT ![p] = after]
      /\ rtrue' = rtrue /\ rpast' = rpast
      /\ rworld' \in [drawn : Nat, now : Nat, forks : Nat] /\ rworld'.now = rworld.now
  BY <1>1, DrawnKeepsTime DEF psa_random_internal_seed, r
<1>6. /\ after \in Generators /\ after.live /\ after.pid = p /\ after.left = 0
      /\ after.list = r.rng.list /\ after.list \in Lists
  BY <1>4, RandomAssumption DEF Generators
<1> HIDE DEF after
<1>7. rpast = {} /\ \A q \in Pids \ {p} : ~rproc[q].live
  BY <1>5 DEF RandomInv, OnlyReadyOutput
<1>8. rproc'[p] = after /\ \A q \in Pids \ {p} : rproc'[q] = rproc[q]
  BY <1>1, <1>5 DEF RandomTyped
<1>9. RandomTyped'
  BY <1>1, <1>5, <1>6 DEF RandomTyped
<1>10. Own' = {p} /\ Own \subseteq {p}
  BY <1>6, <1>7, <1>8 DEF Own
<1>11. Apart(Own', ListOf', rpast')
  BY <1>5, <1>7, <1>10 DEF Apart
<1>12. Timely(rpast' \cup {ListOf'[q] : q \in Pids}, Own', rworld'.now)
  <2> DEFINE all == rpast \cup {ListOf[q] : q \in Pids}
  <2>1. ListOf[p] \in all /\ all \in SUBSET Lists
    BY <1>1 DEF Listing
  <2>2. Timely(all, Own, rworld.now)
    BY DEF RandomInv
  <2>3. ListOf'[p] = after.list /\ \A q \in Pids \ {p} : ListOf'[q] = ListOf[q]
    BY <1>6, <1>8 DEF ListOf
  <2>4. CASE after.list = rproc[p].list
    <3>1. rpast' \cup {ListOf'[q] : q \in Pids} \subseteq all
      BY <1>1, <1>5, <2>1, <2>3, <2>4
    <3> QED
      BY <1>5, <1>10, <2>2, <3>1 DEF Timely
  <2>5. ASSUME NEW e \in Plain, after.list = Append(rproc[p].list, e)
        PROVE  Timely(rpast' \cup {ListOf'[q] : q \in Pids}, Own', rworld'.now)
    <3>1. Timely(all \cup {Append(ListOf[p], e)}, Own, rworld.now)
      BY <2>1, <2>2, PlainKeepsTimely
    <3>2. rpast' \cup {ListOf'[q] : q \in Pids} \subseteq all \cup {Append(ListOf[p], e)}
      BY <1>1, <1>5, <2>1, <2>3, <2>5
    <3> QED
      BY <1>5, <1>10, <3>1, <3>2 DEF Timely
  <2> QED
    BY <1>4, <1>6, <2>4, <2>5
<1>13. OnlyReadyOutput'
  BY <1>5, <1>6, <1>7, <1>8 DEF OnlyReadyOutput
<1> QED
  BY <1>9, <1>11, <1>12, <1>13 DEF RandomInv

\* psa_random_reseed().
LEMMA ReseedKeepsInv ==
  ASSUME RandomInv, NEW p \in Pids, rproc[p].live, rproc[p].left = 0,
         NEW olen \in Gathers, NEW good \in 0 .. EntropyMaxLoop + 1,
         psa_random_reseed(p, olen, good)
  PROVE  RandomInv'
<1> DEFINE r == mbedtls_ctr_drbg_reseed_internal(rproc[p], <<>>, olen, good)
<1>1. RandomTyped /\ rproc[p] \in Generators
  BY LiveHasList DEF RandomInv
<1>2. olen \in Nat /\ good \in Nat
  BY RandomAssumption
<1>3. PlainlyReseeded(rproc[p], r)
  BY <1>1, <1>2, PlainReseeds
<1> HIDE DEF r
<1>4. /\ r.rng \in Generators
      /\ r.rng.pid = rproc[p].pid /\ r.rng.ready = rproc[p].ready /\ r.rng.left = 0
      /\ \/ r.rng.list = rproc[p].list
         \/ \E e \in Plain : r.rng.list = Append(rproc[p].list, e)
  BY <1>3 DEF PlainlyReseeded
<1> DEFINE after == [r.rng EXCEPT !.due = @ \/ r.rng.pid # p]
<1>5. /\ rproc[p].ready /\ rproc' = [rproc EXCEPT ![p] = after]
      /\ rtrue' = rtrue /\ rpast' = rpast
      /\ rworld' \in [drawn : Nat, now : Nat, forks : Nat] /\ rworld'.now = rworld.now
  BY <1>1, DrawnKeepsTime DEF psa_random_reseed, r
<1>6. after \in Generators /\ after.pid = r.rng.pid /\ after.ready = r.rng.ready
      /\ after.left = r.rng.left /\ after.list = r.rng.list
  BY <1>4 DEF Generators
<1> HIDE DEF after
<1>7. /\ after.pid = rproc[p].pid /\ after.ready /\ (after.left > 0 => after.pid = p)
      /\ \/ after.list = rproc[p].list
         \/ \E e \in Plain : after.list = Append(rproc[p].list, e)
  BY <1>4, <1>5, <1>6
<1> QED
  BY <1>5, <1>6, <1>7, GoesOn

\* psa_random_deplete() and the change of the prediction resistance.
LEMMA SettingsKeepInv ==
  ASSUME RandomInv, NEW p \in Pids, rproc[p].live, rproc[p].left = 0,
         \/ psa_random_deplete(p)
         \/ \E enabled \in BOOLEAN : psa_random_set_prediction_resistance(p, enabled)
  PROVE  RandomInv'
<1>1. RandomTyped /\ rproc[p] \in Generators
  BY LiveHasList DEF RandomInv
<1>2. rworld \in [drawn : Nat, now : Nat, forks : Nat]
  BY <1>1 DEF RandomTyped
<1>3. ASSUME NEW after \in Generators, rproc[p].ready, rproc' = [rproc EXCEPT ![p] = after],
             after.pid = rproc[p].pid, after.ready = rproc[p].ready, after.left = 0,
             after.list = rproc[p].list, UNCHANGED <<rtrue, rworld, rpast>>
      PROVE  RandomInv'
  <2>1. after.ready /\ (after.left > 0 => after.pid = p)
    BY <1>3
  <2>2. /\ rtrue' = rtrue /\ rpast' = rpast /\ rworld' = rworld
        /\ rworld' \in [drawn : Nat, now : Nat, forks : Nat] /\ rworld'.now = rworld.now
    BY <1>2, <1>3
  <2> QED
    BY <1>3, <2>1, <2>2, GoesOn
<1>4. CASE psa_random_deplete(p)
  <2> DEFINE after == Deplete(rproc[p])
  <2>1. /\ after \in Generators /\ after.pid = rproc[p].pid /\ after.ready = rproc[p].ready
        /\ after.left = 0 /\ after.list = rproc[p].list
    BY <1>1, RandomAssumption DEF Generators, Deplete
  <2>2. /\ rproc[p].ready /\ rproc' = [rproc EXCEPT ![p] = after]
        /\ UNCHANGED <<rtrue, rworld, rpast>>
    BY <1>4 DEF psa_random_deplete
  <2> HIDE DEF after
  <2> QED
    BY <1>3, <2>1, <2>2
<1>5. ASSUME NEW enabled \in BOOLEAN, psa_random_set_prediction_resistance(p, enabled)
      PROVE  RandomInv'
  <2> DEFINE after == [rproc[p] EXCEPT !.resist = enabled]
  <2>1. /\ after \in Generators /\ after.pid = rproc[p].pid /\ after.ready = rproc[p].ready
        /\ after.left = 0 /\ after.list = rproc[p].list
    BY <1>1 DEF Generators
  <2>2. /\ rproc[p].ready /\ rproc' = [rproc EXCEPT ![p] = after]
        /\ UNCHANGED <<rtrue, rworld, rpast>>
    BY <1>5 DEF psa_random_set_prediction_resistance
  <2> HIDE DEF after
  <2> QED
    BY <1>3, <2>1, <2>2
<1> QED
  BY <1>4, <1>5

\* psa_generate_random() begins: a child that can take a seed has its own generator.
LEMMA GenerateKeepsInv ==
  ASSUME RandomInv, NEW p \in Pids, rproc[p].live, rproc[p].left = 0, NEW n \in RequestSizes,
         NEW olen \in Gathers, NEW good \in 0 .. EntropyMaxLoop + 1,
         psa_generate_random(p, n, olen, good)
  PROVE  RandomInv' /\ ~rout'.repeated
<1> DEFINE g == rproc[p]
           r == psa_random_internal_generate(g, p, olen, good)
           after == [r.rng EXCEPT !.want = n, !.left = IF r.ok THEN n ELSE 0, !.got = 0]
<1>1. RandomTyped /\ g \in Generators /\ g.list \in Lists /\ ListOf[p] = g.list
      /\ Listing(Own, ListOf, rpast)
  BY LiveHasList DEF RandomInv
<1>2. olen \in Nat /\ good \in Nat /\ n \in Nat /\ p \in Nat
  BY RandomAssumption
<1>3. /\ g.ready /\ rproc' = [rproc EXCEPT ![p] = after]
      /\ rtrue' = rtrue /\ rpast' = rpast
      /\ rworld' \in [drawn : Nat, now : Nat, forks : Nat] /\ rworld'.now = rworld.now
  BY <1>1, DrawnKeepsTime DEF psa_generate_random
<1>4. ~rout'.repeated
  BY DEF psa_generate_random, Judged
<1>5. CASE p = g.pid
  <2>1. r.ok = TRUE /\ r.rng = g
    BY <1>5 DEF psa_random_internal_generate
  <2>2. after = [g EXCEPT !.want = n, !.left = n, !.got = 0]
    BY <2>1
  <2>3. after \in Generators /\ after.pid = g.pid /\ after.ready = g.ready /\ after.list = g.list
    BY <1>1, <1>2, <2>2 DEF Generators
  <2> HIDE DEF after, r
  <2> QED
    BY <1>3, <1>4, <1>5, <2>3, GoesOn
<1>6. CASE p # g.pid
  <2> DEFINE s == mbedtls_ctr_drbg_reseed_internal(g, <<p, rworld.now>>, olen, good)
             e(d) == <<"seed", d, <<p, rworld.now>>>>
  <2>1. rworld.now \in Nat /\ <<p, rworld.now>> \in Pids \X Nat
    BY <1>1 DEF RandomTyped
  <2>2. /\ s.ok \in BOOLEAN /\ s.rng \in Generators
        /\ s.rng.pid = g.pid /\ s.rng.ready = g.ready /\ s.rng.left = g.left
        /\ ~s.ok => s.rng.list = g.list
        /\ s.ok => \E d \in Drawings : s.rng.list = Append(g.list, e(d))
    <3>1. <<p, rworld.now>> \in {<<>>} \cup (Pids \X Nat)
      BY <2>1
    <3>2. Reseeding(g, <<p, rworld.now>>, mbedtls_entropy_func(g.size, olen, good).ok, s)
      BY <1>1, <1>2, <3>1, Reseeds
    <3> HIDE DEF s
    <3> QED
      BY <3>2 DEF Reseeding
  <2>3. r = IF s.ok THEN [s EXCEPT !.rng.pid = p] ELSE s
    BY <1>6 DEF psa_random_internal_generate, psa_random_internal_reseed_child, Personalize
  <2>4. DOMAIN s = {"ok", "rng"} /\ s = [ok |-> s.ok, rng |-> s.rng]
    BY DEF mbedtls_ctr_drbg_reseed_internal, Reseeded
  <2> HIDE DEF s, r
  <2>5. CASE ~s.ok
    <3>1. after = [s.rng EXCEPT !.want = n, !.left = 0, !.got = 0]
      BY <2>3, <2>5
    <3>2. after \in Generators /\ after.pid = g.pid /\ after.ready = g.ready /\ after.list = g.list
          /\ after.left = 0
      BY <1>2, <2>2, <2>5, <3>1 DEF Generators
    <3> HIDE DEF after
    <3>3. after.ready /\ (after.left > 0 => after.pid = p)
      BY <1>3, <3>2
    <3> QED
      BY <1>3, <1>4, <3>2, <3>3, GoesOn
  <2>6. CASE s.ok
    <3>1. PICK d \in Drawings : s.rng.list = Append(g.list, e(d))
      BY <2>2, <2>6
    <3>2. e(d) \in Personal(p, rworld.now) /\ e(d) \in Entries
      BY <2>1, SeedKinds
    <3>3. r.ok /\ r.rng = [s.rng EXCEPT !.pid = p]
      BY <2>3, <2>4, <2>6
    <3>4. after = [s.rng EXCEPT !.pid = p, !.want = n, !.left = n, !.got = 0]
      BY <3>3
    <3>5. after \in Generators /\ after.live /\ after.pid = p /\ after.ready
          /\ after.list = Append(g.list, e(d))
      BY <1>2, <1>3, <2>2, <3>1, <3>4, ZenonT(30) DEF Generators
    <3> HIDE DEF after, e
    <3>6. rproc'[p] = after /\ \A q \in Pids \ {p} : rproc'[q] = rproc[q]
      BY <1>1, <1>3 DEF RandomTyped
    <3>7. RandomTyped'
      BY <1>1, <1>3, <3>5 DEF RandomTyped
    <3>8. Own' = Own \cup {p} /\ p \notin Own
      BY <1>6, <3>5, <3>6 DEF Own
    <3>9. ListOf' = [ListOf EXCEPT ![p] = Append(@, e(d))]
      <4>1. ListOf' = [q \in Pids |-> IF rproc'[q].live THEN rproc'[q].list ELSE <<>>]
        BY DEF ListOf
      <4>2. \A q \in Pids : (IF rproc'[q].live THEN rproc'[q].list ELSE <<>>)
                            = IF q = p THEN Append(g.list, e(d)) ELSE ListOf[q]
        BY <3>5, <3>6 DEF ListOf
      <4>3. ListOf' = [q \in Pids |-> IF q = p THEN Append(g.list, e(d)) ELSE ListOf[q]]
        BY <4>1, <4>2
      <4>4. ListOf \in [Pids -> Lists]
        BY <1>1 DEF Listing
      <4> QED
        BY <1>1, <4>3, <4>4
    <3> DEFINE all == rpast \cup {ListOf[q] : q \in Pids}
    <3>10. Apart(Own, ListOf, rpast) /\ Timely(all, Own, rworld.now)
      BY DEF RandomInv
    <3>11. Apart(Own', ListOf', rpast')
      BY <1>1, <1>3, <2>1, <3>2, <3>8, <3>9, <3>10, ChildIsApart
    <3>12. ListOf[p] \in all /\ all \in SUBSET Lists
      BY <1>1 DEF Listing
    <3>13. Timely(all \cup {Append(ListOf[p], e(d))}, Own \cup {p}, rworld.now)
      BY <2>1, <3>2, <3>10, <3>12, PersonalKeepsTimely
    <3>14. rpast' \cup {ListOf'[q] : q \in Pids} \subseteq all \cup {Append(ListOf[p], e(d))}
      BY <1>1, <1>3, <3>9 DEF Listing
    <3>15. Timely(rpast' \cup {ListOf'[q] : q \in Pids}, Own', rworld'.now)
      BY <1>3, <3>8, <3>13, <3>14 DEF Timely
    <3>16. OnlyReadyOutput'
      BY <1>3, <3>5, <3>6 DEF RandomInv, OnlyReadyOutput
    <3> QED
      BY <1>4, <3>7, <3>11, <3>15, <3>16 DEF RandomInv
  <2> QED
    BY <2>2, <2>5, <2>6
<1> QED
  BY <1>5, <1>6

\* A request: the list that it is served from, with a new seed or without.
LEMMA ServedFrom ==
  ASSUME RandomTyped, NEW g \in Generators, NEW n \in Nat, NEW olen \in Nat, NEW good \in Nat
  PROVE  LET r == mbedtls_ctr_drbg_random(g, n, olen, good) IN
         \E rng \in Generators :
           /\ rng.pid = g.pid /\ rng.ready = g.ready /\ rng.left = g.left
           /\ rng.list = g.list \/ \E e \in Plain : rng.list = Append(g.list, e)
           /\ r.ok \in BOOLEAN /\ r.got \in Nat
           /\ r.ok => r.made = {rng.list} /\ r.rng = Generate(rng, n)
           /\ ~r.ok => r.made = {} /\ r.rng = rng
<1> DEFINE q == IF ReseedNow(g) THEN mbedtls_ctr_drbg_reseed_internal(g, <<>>, olen, good)
                ELSE [ok |-> TRUE, rng |-> g]
           r == mbedtls_ctr_drbg_random(g, n, olen, good)
<1>1. /\ q.ok \in BOOLEAN /\ q.rng \in Generators
      /\ q.rng.pid = g.pid /\ q.rng.ready = g.ready /\ q.rng.left = g.left
      /\ q.rng.list = g.list \/ \E e \in Plain : q.rng.list = Append(g.list, e)
  <2>1. CASE ReseedNow(g)
    BY <2>1, PlainReseeds DEF PlainlyReseeded
  <2>2. CASE ~ReseedNow(g)
    BY <2>2
  <2> QED
    BY <2>1, <2>2
<1> HIDE DEF q
<1>2. r = [ok |-> q.ok, made |-> IF q.ok THEN {q.rng.list} ELSE {},
           got |-> IF q.ok THEN n ELSE 0,
           rng |-> IF q.ok THEN Generate(q.rng, n) ELSE q.rng]
  BY DEF mbedtls_ctr_drbg_random, q
<1> SUFFICES /\ r.ok \in BOOLEAN /\ r.got \in Nat
             /\ r.ok => r.made = {q.rng.list} /\ r.rng = Generate(q.rng, n)
             /\ ~r.ok => r.made = {} /\ r.rng = q.rng
  BY <1>1
<1> HIDE DEF r
<1> QED
  BY <1>1, <1>2

\* The request of a call in progress: the process uses its own generator.
LEMMA RequestKeepsInv ==
  ASSUME RandomInv, NEW p \in Pids, rproc[p].live, rproc[p].left > 0,
         NEW olen \in Gathers, NEW good \in 0 .. EntropyMaxLoop + 1,
         NextRequest(p, olen, good)
  PROVE  RandomInv' /\ ~rout'.repeated
<1> DEFINE g == rproc[p]
           size == RequestSize(g.left)
           r == mbedtls_ctr_drbg_random(g, size, olen, good)
           after == [r.rng EXCEPT !.left = IF r.ok THEN @ - size ELSE 0, !.got = @ + r.got]
           all == rpast \cup {ListOf[q] : q \in Pids}
<1>1. RandomTyped /\ g \in Generators /\ g.list \in Lists /\ ListOf[p] = g.list
      /\ Listing(Own, ListOf, rpast)
  BY LiveHasList DEF RandomInv
<1>2. olen \in Nat /\ good \in Nat /\ size \in Nat /\ g.left - size \in Nat
  <2>1. g.left \in Nat /\ MaxRequest \in Nat /\ EntropyMaxLoop \in Nat
    BY <1>1, RandomAssumption DEF Generators
  <2>2. olen \in Nat
    BY RandomAssumption
  <2>3. good \in Nat
    BY <2>1
  <2>4. size \in Nat /\ g.left - size \in Nat
    BY <2>1 DEF RequestSize
  <2> QED
    BY <2>2, <2>3, <2>4
<1>3. g.ready /\ g.pid = p /\ p \in Own
  BY DEF RandomInv, OnlyReadyOutput, Own
<1>4. /\ rproc' = [rproc EXCEPT ![p] = after]
      /\ rtrue' = rtrue /\ rpast' = rpast \cup r.made
      /\ rworld' \in [drawn : Nat, now : Nat, forks : Nat] /\ rworld'.now = rworld.now
      /\ rout'.repeated = (r.made \cap rpast # {})
  BY <1>1, DrawnKeepsTime DEF NextRequest, Judged
<1> HIDE DEF size
<1>5. PICK rng \in Generators :
        /\ rng.pid = g.pid /\ rng.ready = g.ready /\ rng.left = g.left
        /\ rng.list = g.list \/ \E e \in Plain : rng.list = Append(g.list, e)
        /\ r.ok \in BOOLEAN /\ r.got \in Nat
        /\ r.ok => r.made = {rng.list} /\ r.rng = Generate(rng, size)
        /\ ~r.ok => r.made = {} /\ r.rng = rng
  BY <1>1, <1>2, ServedFrom
<1> HIDE DEF r
<1>6. CASE ~r.ok
  <2>1. after = [rng EXCEPT !.left = 0, !.got = rng.got + r.got]
    BY <1>5, <1>6
  <2>2. after \in Generators /\ after.pid = g.pid /\ after.ready = g.ready /\ after.left = 0
        /\ after.list = rng.list
    <3>1. rng.got \in Nat /\ r.got \in Nat
      BY <1>5 DEF Generators
    <3> HIDE DEF after
    <3>2. PICK n \in Nat : n = rng.got + r.got
      BY <3>1
    <3>3. after = [rng EXCEPT !.left = 0, !.got = n]
      BY <2>1, <3>2
    <3> QED
      BY <1>5, <3>3 DEF Generators
  <2> HIDE DEF after
  <2>3. /\ after.pid = g.pid /\ after.ready /\ (after.left > 0 => after.pid = p)
        /\ \/ after.list = g.list
           \/ \E e \in Plain : after.list = Append(g.list, e)
    BY <1>3, <1>5, <2>2
  <2>4. rpast' = rpast /\ ~rout'.repeated
    BY <1>4, <1>5, <1>6
  <2> QED
    BY <1>3, <1>4, <2>2, <2>3, <2>4, GoesOn
<1>7. CASE r.ok
  <2> DEFINE e == <<"request", size>>
             mid == [ListOf EXCEPT ![p] = rng.list]
  <2>1. e \in Plain /\ e \in Entries /\ rng.list \in Lists
    BY <1>2, EntryKinds DEF Plain, Generators
  <2>2. r.rng = [rng EXCEPT !.list = Append(rng.list, e), !.counter = rng.counter + 1]
    BY <1>5, <1>7 DEF Generate
  <2> HIDE DEF e
  <2>3. Append(rng.list, e) \in Lists
    BY <2>1, Appended
  <2>4. r.rng \in Generators /\ r.rng.pid = rng.pid /\ r.rng.ready = rng.ready
        /\ r.rng.left = rng.left /\ r.rng.list = Append(rng.list, e)
    <3>1. PICK m \in Nat : m = rng.counter + 1
      BY DEF Generators
    <3>2. PICK list \in Lists : list = Append(rng.list, e)
      BY <2>3
    <3>3. PICK h \in Generators : h = [rng EXCEPT !.list = list]
      BY DEF Generators
    <3>4. r.rng = [h EXCEPT !.counter = m]
      BY <2>2, <3>1, <3>2, <3>3
    <3>5. h.pid = rng.pid /\ h.ready = rng.ready /\ h.left = rng.left /\ h.list = list
      BY <3>3 DEF Generators
    <3>6. [h EXCEPT !.counter = m] \in Generators
      BY DEF Generators
    <3>7. LET h2 == [h EXCEPT !.counter = m]
          IN  h2.pid = h.pid /\ h2.ready = h.ready /\ h2.left = h.left /\ h2.list = h.list
      BY DEF Generators
    <3> QED
      BY <3>2, <3>4, <3>5, <3>6, <3>7
  <2>5. after = [r.rng EXCEPT !.left = g.left - size, !.got = r.rng.got + r.got]
    BY <1>5, <1>7, <2>4
  <2>6. after \in Generators /\ after.live /\ after.pid = p /\ after.ready
        /\ after.list = Append(rng.list, e)
    <3>1. \A h \in Generators : h.live /\ h.got \in Nat
      BY DEF Generators
    <3>2. PICK h \in Generators : h = r.rng
      BY <2>4
    <3>3. PICK m \in Nat : m = g.left - size
      BY <1>2
    <3>4. h.got \in Nat /\ r.got \in Nat
      BY <1>5, <3>1
    <3>5. PICK n \in Nat : n = h.got + r.got
      BY <3>4
    <3> HIDE DEF after
    <3>6. after = [h EXCEPT !.left = m, !.got = n]
      BY <2>5, <3>2, <3>3, <3>5
    <3>7. after \in Generators /\ after.pid = h.pid /\ after.ready = h.ready /\ after.list = h.list
      BY <3>6 DEF Generators
    <3> QED
      BY <1>3, <1>5, <2>4, <3>1, <3>2, <3>7
  <2> HIDE DEF after
  <2>7. rproc'[p] = after /\ \A q \in Pids \ {p} : rproc'[q] = rproc[q]
    BY <1>1, <1>4 DEF RandomTyped
  <2>8. rpast' = rpast \cup {rng.list}
    BY <1>4, <1>5, <1>7
  <2>9. RandomTyped'
    BY <1>1, <1>4, <2>1, <2>6, <2>8 DEF RandomTyped
  <2>10. Own' = Own
    BY <1>3, <2>6, <2>7 DEF Own
  <2>11. Apart(Own, ListOf, rpast) /\ Timely(all, Own, rworld.now)
    BY DEF RandomInv
  <2>12. ListOf \in [Pids -> Lists] /\ mid \in [Pids -> Lists] /\ mid[p] = rng.list
         /\ Listing(Own, mid, rpast)
    BY <1>1, <2>1 DEF Listing
  <2>13. Apart(Own, mid, rpast) /\ Timely(all \cup {rng.list}, Own, rworld.now)
    <3>1. ListOf[p] \in all /\ all \in SUBSET Lists
      BY <1>1 DEF Listing
    <3>2. CASE rng.list = g.list
      <4>1. mid = ListOf /\ all \cup {rng.list} = all
        BY <1>1, <2>12, <3>1, <3>2
      <4> QED
        BY <2>11, <4>1
    <3>3. ASSUME NEW f \in Plain, rng.list = Append(g.list, f)
          PROVE  Apart(Own, mid, rpast) /\ Timely(all \cup {rng.list}, Own, rworld.now)
      <4>1. mid = [ListOf EXCEPT ![p] = Append(@, f)]
        BY <1>1, <3>3
      <4>2. Apart(Own, mid, rpast)
        BY <1>1, <1>3, <2>11, <4>1, PlainKeepsApart
      <4>3. Timely(all \cup {Append(ListOf[p], f)}, Own, rworld.now)
        BY <2>11, <3>1, PlainKeepsTimely
      <4> QED
        BY <1>1, <3>3, <4>2, <4>3
    <3> QED
      BY <1>5, <3>2, <3>3
  <2>14. ~rout'.repeated
    <3> HIDE DEF mid
    <3>1. mid[p] \notin rpast
      BY <1>3, <2>12, <2>13, NotMadeBefore
    <3> QED
      BY <1>4, <1>5, <1>7, <2>12, <3>1
  <2>15. ListOf' = [mid EXCEPT ![p] = Append(@, e)]
    <3>1. ListOf' = [q \in Pids |-> IF rproc'[q].live THEN rproc'[q].list ELSE <<>>]
      BY DEF ListOf
    <3>2. \A q \in Pids : (IF rproc'[q].live THEN rproc'[q].list ELSE <<>>)
                          = IF q = p THEN Append(rng.list, e) ELSE ListOf[q]
      BY <2>6, <2>7 DEF ListOf
    <3>3. ListOf' = [q \in Pids |-> IF q = p THEN Append(rng.list, e) ELSE ListOf[q]]
      BY <3>1, <3>2
    <3> QED
      BY <2>12, <3>3
  <2>16. Apart(Own, [mid EXCEPT ![p] = Append(@, e)], rpast \cup {mid[p]})
    BY <1>3, <2>1, <2>12, <2>13, OutputKeepsApart
  <2>17. Apart(Own', ListOf', rpast')
    BY <2>8, <2>10, <2>12, <2>15, <2>16
  <2>18. Timely(rpast' \cup {ListOf'[q] : q \in Pids}, Own', rworld'.now)
    <3>1. all \cup {rng.list} \in SUBSET Lists
      BY <1>1, <2>1 DEF Listing
    <3>2. Timely((all \cup {rng.list}) \cup {Append(rng.list, e)}, Own, rworld.now)
      BY <2>1, <2>13, <3>1, PlainKeepsTimely
    <3>3. \A q \in Pids : ListOf'[q] = IF q = p THEN Append(rng.list, e) ELSE ListOf[q]
      BY <2>12, <2>15
    <3>4. rpast' \cup {ListOf'[q] : q \in Pids}
            \subseteq (all \cup {rng.list}) \cup {Append(rng.list, e)}
      BY <2>8, <3>3
    <3> QED
      BY <1>4, <2>10, <3>2, <3>4 DEF Timely
  <2>19. OnlyReadyOutput'
    BY <1>3, <2>6, <2>7 DEF RandomInv, OnlyReadyOutput
  <2> QED
    BY <2>9, <2>14, <2>17, <2>18, <2>19 DEF RandomInv
<1> QED
  BY <1>5, <1>6, <1>7

\* Fork: the child has the list of its parent, and no identifier of its own.
LEMMA ForkKeepsInv ==
  ASSUME RandomInv, NEW p \in Pids, NEW q \in Pids, rproc[p].live, rproc[p].left = 0, Fork(p, q)
  PROVE  RandomInv'
<1> DEFINE child == [rproc[p] EXCEPT !.due = TRUE]
<1>1. RandomTyped /\ rproc[p] \in Generators /\ ListOf[p] = rproc[p].list
      /\ Listing(Own, ListOf, rpast)
  BY LiveHasList DEF RandomInv
<1>2. /\ rproc[p].ready /\ rproc[p].pid # q /\ ~rproc[q].live
      /\ rproc' = [rproc EXCEPT ![q] = child]
      /\ rworld' = [rworld EXCEPT !.forks = @ + 1]
      /\ rtrue' = rtrue /\ rpast' = rpast
  BY DEF Fork
<1>3. /\ child \in Generators /\ child.live /\ child.pid = rproc[p].pid /\ child.ready
      /\ child.left = 0 /\ child.list = rproc[p].list
  BY <1>1, <1>2 DEF Generators
<1> HIDE DEF child
<1>4. rproc'[q] = child /\ \A o \in Pids \ {q} : rproc'[o] = rproc[o]
  BY <1>1, <1>2 DEF RandomTyped
<1>5. rworld' \in [drawn : Nat, now : Nat, forks : Nat] /\ rworld'.now = rworld.now
  BY <1>1, <1>2 DEF RandomTyped
<1>6. RandomTyped'
  BY <1>1, <1>2, <1>3, <1>5 DEF RandomTyped
<1>7. Own' = Own /\ q \notin Own
  BY <1>2, <1>3, <1>4 DEF Own
<1>8. ListOf'[q] = ListOf[p] /\ \A o \in Pids \ {q} : ListOf'[o] = ListOf[o]
  BY <1>1, <1>3, <1>4 DEF ListOf
<1>9. Apart(Own', ListOf', rpast')
  <2>1. \A o \in Own : ListOf'[o] = ListOf[o]
    BY <1>1, <1>7, <1>8 DEF Listing
  <2> QED
    BY <1>2, <1>7, <2>1, OthersKeepApart DEF RandomInv
<1>10. Timely(rpast' \cup {ListOf'[o] : o \in Pids}, Own', rworld'.now)
  <2>1. rpast' \cup {ListOf'[o] : o \in Pids} \subseteq rpast \cup {ListOf[o] : o \in Pids}
    BY <1>2, <1>8
  <2> QED
    BY <1>5, <1>7, <2>1 DEF RandomInv, Timely
<1>11. OnlyReadyOutput'
  <2>1. \A o \in Pids : rproc[o].live => rproc[o].ready
    BY <1>2 DEF RandomInv, OnlyReadyOutput
  <2> QED
    BY <1>3, <1>4, <2>1 DEF RandomInv, OnlyReadyOutput
<1> QED
  BY <1>6, <1>9, <1>10, <1>11 DEF RandomInv

\* Exit: the identifier may be given again, at a later time.
LEMMA ExitKeepsInv ==
  ASSUME RandomInv, NEW p \in Pids, rproc[p].live, Exit(p)
  PROVE  RandomInv'
<1>1. RandomTyped /\ Listing(Own, ListOf, rpast)
  BY LiveHasList DEF RandomInv
<1>2. /\ \E q \in Pids \ {p} : rproc[q].live
      /\ rproc' = [rproc EXCEPT ![p] = NoProcess]
      /\ rworld' = [rworld EXCEPT !.now = @ + 1]
      /\ rtrue' = rtrue /\ rpast' = rpast
  BY DEF Exit
<1>3. ~rproc'[p].live /\ \A o \in Pids \ {p} : rproc'[o] = rproc[o]
  BY <1>1, <1>2 DEF RandomTyped, NoProcess
<1>4. rworld.now \in Nat /\ rworld'.now = rworld.now + 1
  BY <1>1, <1>2 DEF RandomTyped
<1>5. RandomTyped'
  BY <1>1, <1>2 DEF RandomTyped
<1>6. Own' = Own \ {p}
  BY <1>3 DEF Own
<1>7. ListOf'[p] = <<>> /\ \A o \in Pids \ {p} : ListOf'[o] = ListOf[o]
  BY <1>3 DEF ListOf
<1>8. Apart(Own', ListOf', rpast')
  <2>1. \A o \in Own' : o \in Own /\ ListOf'[o] = ListOf[o]
    BY <1>1, <1>6, <1>7 DEF Listing
  <2>2. Apart(Own, ListOf, rpast)
    BY DEF RandomInv
  <2> QED
    BY <1>2, <2>1, <2>2 DEF Apart
<1>9. Timely(rpast' \cup {ListOf'[o] : o \in Pids}, Own', rworld'.now)
  <2> SUFFICES ASSUME NEW made \in rpast' \cup {ListOf'[o] : o \in Pids},
                      NEW c \in Pids, NEW t \in Nat, NEW i \in 1 .. Len(made),
                      made[i] \in Personal(c, t)
               PROVE  t <= rworld'.now /\ t < rworld'.now
    BY DEF Timely
  <2>1. made # <<>>
    OBVIOUS
  <2>2. made \in rpast \cup {ListOf[o] : o \in Pids}
    BY <1>2, <1>7, <2>1
  <2>3. t <= rworld.now
    BY <2>2 DEF RandomInv, Timely
  <2> QED
    BY <1>4, <2>3
<1>10. OnlyReadyOutput'
  <2>1. \A o \in Pids \ {p} : rproc[o].live => rproc[o].ready
    BY DEF RandomInv, OnlyReadyOutput
  <2> QED
    BY <1>3, <2>1 DEF RandomInv, OnlyReadyOutput
<1> QED
  BY <1>5, <1>8, <1>9, <1>10 DEF RandomInv

\* The invariant, and what no process has done, hold at first.
LEMMA RandomStarts ==
  ASSUME RandomInit
  PROVE  RandomInv /\ ~rout.repeated
<1>1. NewProcess \in Generators /\ NewProcess.live /\ NewProcess.left = 0
      /\ NewProcess.pid = 0 /\ NewProcess.list = <<>>
  BY DEF NewProcess, Generators, Lists
<1>2. ~NoProcess.live
  BY DEF NoProcess
<1>3. \A p \in Pids : rproc[p] = IF p = 1 THEN NewProcess ELSE NoProcess
  BY DEF RandomInit
<1>4. RandomTyped
  BY <1>1 DEF RandomInit, RandomTyped
<1>5. Own = {} /\ \A p \in Pids : ListOf[p] = <<>>
  BY <1>1, <1>2, <1>3 DEF Own, ListOf
<1>6. rpast = {} /\ ~rout.repeated
  BY DEF RandomInit, NoOutput
<1>7. OnlyReadyOutput
  BY <1>1, <1>2, <1>3, <1>6 DEF OnlyReadyOutput
<1>8. Apart(Own, ListOf, rpast)
  BY <1>5 DEF Apart
<1>9. Timely(rpast \cup {ListOf[q] : q \in Pids}, Own, rworld.now)
  BY <1>5, <1>6 DEF Timely
<1> QED
  BY <1>4, <1>6, <1>7, <1>8, <1>9 DEF RandomInv

\* They stay true, whoever forks, exits, fails to take a seed or goes on.
LEMMA RandomGoesOn ==
  ASSUME RandomInv, ~rout.repeated, [RandomNext]_randomVars
  PROVE  RandomInv' /\ ~rout'.repeated
<1>1. CASE UNCHANGED randomVars
  BY <1>1 DEF randomVars, RandomInv, RandomTyped, Own, ListOf, OnlyReadyOutput
<1>2. ASSUME NEW p \in Pids, rproc[p].live, rproc[p].left > 0, NEW olen \in Gathers,
             NEW good \in 0 .. EntropyMaxLoop + 1, NextRequest(p, olen, good)
      PROVE  RandomInv' /\ ~rout'.repeated
  BY <1>2, RequestKeepsInv
<1>3. ASSUME NEW p \in Pids, rproc[p].live, rproc[p].left = 0, NEW olen \in Gathers,
             NEW good \in 0 .. EntropyMaxLoop + 1,
             psa_random_internal_seed(p, olen, good) \/ psa_random_reseed(p, olen, good)
      PROVE  RandomInv' /\ ~rout'.repeated
  <2>1. RandomInv'
    BY <1>3, SeedKeepsInv, ReseedKeepsInv
  <2>2. ~rout'.repeated
    BY <1>3 DEF psa_random_internal_seed, psa_random_reseed, NoOutput
  <2> QED
    BY <2>1, <2>2
<1>4. ASSUME NEW p \in Pids, rproc[p].live, rproc[p].left = 0, NEW n \in RequestSizes,
             NEW olen \in Gathers, NEW good \in 0 .. EntropyMaxLoop + 1,
             psa_generate_random(p, n, olen, good)
      PROVE  RandomInv' /\ ~rout'.repeated
  BY <1>4, GenerateKeepsInv
<1>5. ASSUME NEW p \in Pids, rproc[p].live, rproc[p].left = 0,
             \/ psa_random_deplete(p)
             \/ \E enabled \in BOOLEAN : psa_random_set_prediction_resistance(p, enabled)
             \/ \E q \in Pids : Fork(p, q)
             \/ Exit(p)
      PROVE  RandomInv' /\ ~rout'.repeated
  <2>1. RandomInv'
    BY <1>5, SettingsKeepInv, ForkKeepsInv, ExitKeepsInv
  <2>2. ~rout'.repeated
    BY <1>5 DEF psa_random_deplete, psa_random_set_prediction_resistance, Fork, Exit, NoOutput
  <2> QED
    BY <2>1, <2>2
<1> QED
  BY <1>1, <1>2, <1>3, <1>4, <1>5 DEF RandomNext

\* No process outputs what it or another one has output: whoever forks, exits, fails
\* to take a seed, or is given the identifier of a process that is gone
\* (psa_random_internal_reseed_child()).
THEOREM RandomRepeatsNothing == RandomSpec => []RandomNeverRepeats
<1> DEFINE Inv == RandomInv /\ ~rout.repeated
<1>1. RandomInit => Inv
  BY RandomStarts
<1>2. Inv /\ [RandomNext]_randomVars => Inv'
  BY RandomGoesOn
<1>3. Inv => RandomNeverRepeats
  BY DEF RandomNeverRepeats
<1> QED
  BY <1>1, <1>2, <1>3, PTL DEF RandomSpec

(* That the seed is as new as it must be, and that a call fails for a reason. *)

\* A source that does not fail gives enough before the loop ends: mbedtls_entropy_func().
LEMMA EntropyComes ==
  ASSUME NEW size \in Nat, NEW olen \in Gathers, NEW good \in Nat, good > EntropyMaxLoop
  PROVE  mbedtls_entropy_func(size, olen, good).ok
<1> DEFINE needed == GathersNeeded(size, olen)
           n == CHOOSE k \in needed : \A l \in needed : k <= l
<1>1. olen \in Nat /\ EntropyMaxLoop \in Nat /\ EntropyBlock \in Nat
      /\ (EntropyMaxLoop + 1) * olen >= EntropyBlock
  BY RandomAssumption
<1>2. (EntropyMaxLoop + 1) * olen \in Nat
  BY <1>1
<1>3. size + (EntropyMaxLoop + 1) * olen >= EntropyBlock
  BY <1>1, <1>2
<1>4. EntropyMaxLoop + 1 \in needed /\ needed \in SUBSET Nat
  BY <1>1, <1>3 DEF GathersNeeded
<1>5. \A k \in needed : k \in Nat /\ k <= EntropyMaxLoop + 1
  BY <1>1 DEF GathersNeeded
<1>6. mbedtls_entropy_func(size, olen, good).ok = (needed # {} /\ n <= good)
  BY DEF mbedtls_entropy_func
<1> HIDE DEF needed
<1>7. \E k \in needed : \A l \in needed : k <= l
  BY <1>4, LeastNumber
<1>8. n \in needed
  BY <1>7
<1> HIDE DEF n
<1>9. n <= good /\ needed # {}
  BY <1>1, <1>5, <1>8
<1> QED
  BY <1>6, <1>9

\* The requests since the last seed, counted one by one.
LEMMA CountedRequests ==
  ASSUME NEW list \in Lists
  PROVE  /\ RequestsSince(list) \in Nat
         /\ \A n \in Nat : RequestsSince(Append(list, <<"request", n>>)) = RequestsSince(list) + 1
         /\ \A d, a : <<"seed", d, a>> \in Entries
                        => RequestsSince(Append(list, <<"seed", d, a>>)) = 0
<1> DEFINE Since(l) == {i \in 1 .. Len(l) : \A j \in i .. Len(l) : l[j][1] = "request"}
<1>1. Len(list) \in Nat
  BY EntryKinds
<1>2. IsFiniteSet(Since(list)) /\ RequestsSince(list) = Cardinality(Since(list))
  <2>1. IsFiniteSet(1 .. Len(list))
    BY <1>1, FS_Interval
  <2> QED
    BY <2>1, FS_Subset DEF RequestsSince
<1>3. ASSUME NEW n \in Nat
      PROVE  RequestsSince(Append(list, <<"request", n>>)) = RequestsSince(list) + 1
  <2> DEFINE e == <<"request", n>>
             long == Append(list, e)
  <2>1. e \in Plain /\ e \in Entries /\ e[1] = "request"
    BY EntryKinds DEF Plain
  <2> HIDE DEF e
  <2>2. Len(long) = Len(list) + 1 /\ long[Len(list) + 1] = e
        /\ \A i \in 1 .. Len(list) : long[i] = list[i]
    BY <2>1, Appended
  <2> HIDE DEF long
  <2>3. Since(long) = Since(list) \cup {Len(list) + 1}
    <3>1. ASSUME NEW i \in Since(long), i # Len(list) + 1 PROVE i \in Since(list)
      BY <1>1, <2>2, <3>1
    <3>2. ASSUME NEW i \in Since(list) PROVE i \in Since(long)
      <4>1. i \in 1 .. Len(list) /\ \A j \in i .. Len(list) : list[j][1] = "request"
        OBVIOUS
      <4>2. ASSUME NEW j \in i .. Len(long) PROVE long[j][1] = "request"
        <5>1. CASE j = Len(list) + 1
          BY <2>1, <2>2, <5>1
        <5>2. CASE j # Len(list) + 1
          <6>1. j \in i .. Len(list) /\ j \in 1 .. Len(list)
            BY <1>1, <2>2, <4>1, <5>2
          <6> QED
            BY <2>2, <4>1, <6>1
        <5> QED
          BY <5>1, <5>2
      <4>3. i \in 1 .. Len(long)
        BY <1>1, <2>2, <4>1
      <4> QED
        BY <4>2, <4>3
    <3>3. Len(list) + 1 \in Since(long)
      BY <1>1, <2>1, <2>2
    <3> QED
      BY <3>1, <3>2, <3>3
  <2>4. Len(list) + 1 \notin Since(list)
    BY <1>1
  <2>5. Cardinality(Since(list) \cup {Len(list) + 1}) = Cardinality(Since(list)) + 1
    BY <1>2, <2>4, FS_AddElement
  <2> QED
    BY <1>2, <2>3, <2>5 DEF RequestsSince, long, e
<1>4. ASSUME NEW d, NEW a, <<"seed", d, a>> \in Entries
      PROVE  RequestsSince(Append(list, <<"seed", d, a>>)) = 0
  <2> DEFINE e == <<"seed", d, a>>
             long == Append(list, e)
  <2>1. e \in Entries /\ e[1] # "request"
    BY <1>4
  <2> HIDE DEF e
  <2>2. Len(long) = Len(list) + 1 /\ long[Len(list) + 1] = e
    BY <2>1, Appended
  <2> HIDE DEF long
  <2>3. \A i \in 1 .. Len(long) : Len(list) + 1 \in i .. Len(long)
    BY <1>1, <2>2
  <2>4. Since(long) = {}
    BY <2>1, <2>2, <2>3
  <2> QED
    BY <2>4, FS_EmptySet DEF RequestsSince, long, e
<1>5. RequestsSince(list) \in Nat
  BY <1>2, FS_CardinalityType
<1> QED
  BY <1>3, <1>4, <1>5

\* What a generator accounts for: its counter bounds the requests since its last seed,
\* and is their number unless a seed is due; one is due to a process that has not its
\* own generator, and to no other before the counter is at the end of the interval;
\* and the call in progress gave what it was asked for and does not have to give yet.
Sound(p, g) ==
    /\ RequestsSince(g.list) <= g.counter /\ g.counter <= ReseedInterval
    /\ ~g.due => g.counter = RequestsSince(g.list)
    /\ g.due => g.pid # p \/ g.counter >= ReseedInterval
    /\ g.ready /\ g.pid # p => g.due
    /\ g.due => g.ready
    /\ g.left > 0 => g.want = g.got + g.left
AllSound == \A p \in Pids : rproc[p].live => Sound(p, rproc[p])

\* A step that changes one generator.
LEMMA OneChanges ==
  ASSUME RandomTyped, AllSound, NEW p \in Pids, NEW after,
         rproc' = [rproc EXCEPT ![p] = after], after.live => Sound(p, after)
  PROVE  AllSound'
<1>1. rproc'[p] = after /\ \A q \in Pids \ {p} : rproc'[q] = rproc[q]
  BY DEF RandomTyped
<1> QED
  BY <1>1 DEF AllSound, Sound

\* A reseed of a generator that is accounted for.
LEMMA ReseedsSoundly ==
  ASSUME RandomTyped, NEW g \in Generators, NEW additional \in {<<>>} \cup (Pids \X Nat),
         NEW olen \in Gathers, NEW good \in Nat
  PROVE  LET r == mbedtls_ctr_drbg_reseed_internal(g, additional, olen, good) IN
         /\ Reseeding(g, additional, mbedtls_entropy_func(g.size, olen, good).ok, r)
         /\ r.ok => RequestsSince(r.rng.list) = 0
         /\ ~r.ok => good <= EntropyMaxLoop
<1> DEFINE r == mbedtls_ctr_drbg_reseed_internal(g, additional, olen, good)
<1>1. olen \in Nat /\ g.size \in Nat /\ g.list \in Lists
  BY RandomAssumption DEF Generators
<1>2. Reseeding(g, additional, mbedtls_entropy_func(g.size, olen, good).ok, r)
  BY <1>1, Reseeds
<1> HIDE DEF r
<1>3. ASSUME r.ok PROVE RequestsSince(r.rng.list) = 0
  <2>1. PICK d \in Drawings : r.rng.list = Append(g.list, <<"seed", d, additional>>)
    BY <1>2, <1>3 DEF Reseeding
  <2>2. <<"seed", d, additional>> \in Entries
    BY SeedKinds
  <2> QED
    BY <1>1, <2>1, <2>2, CountedRequests
<1>4. ASSUME ~r.ok PROVE good <= EntropyMaxLoop
  <2>1. ~(good > EntropyMaxLoop)
    BY <1>1, <1>2, <1>4, EntropyComes DEF Reseeding
  <2>2. EntropyMaxLoop \in Nat
    BY RandomAssumption
  <2> QED
    BY <2>1, <2>2
<1> QED
  BY <1>2, <1>3, <1>4 DEF r

\* A step that is not one of psa_generate_random() leaves nothing to be said of one.
LEMMA QuietIsCorrect ==
  ASSUME rout' = NoOutput
  PROVE  RandomCorrect'
  BY DEF NoOutput, RandomCorrect, RandomReseeded, RandomServed

\* psa_random_internal_seed() and psa_random_reseed().
LEMMA SeedKeepsSound ==
  ASSUME RandomTyped, AllSound, NEW p \in Pids, rproc[p].live, rproc[p].left = 0,
         NEW olen \in Gathers, NEW good \in 0 .. EntropyMaxLoop + 1,
         psa_random_internal_seed(p, olen, good) \/ psa_random_reseed(p, olen, good)
  PROVE  AllSound' /\ RandomCorrect'
<1> DEFINE g == rproc[p]
           r == mbedtls_ctr_drbg_reseed_internal(g, <<>>, olen, good)
<1>1. g \in Generators /\ Sound(p, g) /\ good \in Nat /\ olen \in Nat
  BY LiveHasList, RandomAssumption DEF AllSound
<1>2. <<>> \in {<<>>} \cup (Pids \X Nat)
  OBVIOUS
<1>3. /\ Reseeding(g, <<>>, mbedtls_entropy_func(g.size, olen, good).ok, r)
      /\ r.ok => RequestsSince(r.rng.list) = 0
  BY <1>1, <1>2, ReseedsSoundly
<1>4. RandomCorrect'
  BY QuietIsCorrect DEF psa_random_internal_seed, psa_random_reseed
<1>5. psa_random_internal_seed(p, olen, good) =>
        ~g.ready /\ rproc' = [rproc EXCEPT ![p] = [r.rng EXCEPT !.pid = p, !.ready = r.ok]]
  BY DEF psa_random_internal_seed
<1>6. psa_random_reseed(p, olen, good) =>
        g.ready /\ rproc' = [rproc EXCEPT ![p] = [r.rng EXCEPT !.due = @ \/ r.rng.pid # p]]
  BY DEF psa_random_reseed
<1> HIDE DEF r
<1>7. /\ r.ok \in BOOLEAN /\ r.rng \in Generators /\ r.rng.ready = g.ready /\ r.rng.left = 0
      /\ r.rng.pid = g.pid
      /\ r.ok => r.rng.counter = 0 /\ r.rng.due = FALSE /\ RequestsSince(r.rng.list) = 0
      /\ ~r.ok => r.rng.list = g.list /\ r.rng.counter = g.counter /\ r.rng.due = g.due
  <2>1. r.rng \in Generators => r.rng.due \in BOOLEAN
    BY DEF Generators
  <2> QED
    BY <1>3, <2>1 DEF Reseeding
<1>8. ReseedInterval \in Nat
  BY RandomAssumption
<1>9. ASSUME psa_random_internal_seed(p, olen, good) PROVE AllSound'
  <2> DEFINE after == [r.rng EXCEPT !.pid = p, !.ready = r.ok]
  <2>1. /\ after.list = r.rng.list /\ after.counter = r.rng.counter /\ after.due = r.rng.due
        /\ after.pid = p /\ after.ready = r.ok /\ after.left = 0
    BY <1>7 DEF Generators
  <2> HIDE DEF after
  <2>2. Sound(p, after)
    BY <1>1, <1>5, <1>7, <1>8, <1>9, <2>1 DEF Sound
  <2> QED
    BY <1>5, <1>9, <2>2, OneChanges DEF after
<1>10. ASSUME psa_random_reseed(p, olen, good) PROVE AllSound'
  <2> DEFINE after == [r.rng EXCEPT !.due = @ \/ r.rng.pid # p]
  <2>1. /\ after.list = r.rng.list /\ after.counter = r.rng.counter
        /\ after.due <=> r.rng.due \/ r.rng.pid # p
        /\ after.pid = r.rng.pid /\ after.ready = r.rng.ready /\ after.left = 0
    BY <1>7 DEF Generators
  <2> HIDE DEF after
  <2>2. Sound(p, after)
    <3>1. CASE r.ok
      BY <1>1, <1>6, <1>7, <1>8, <1>10, <2>1, <3>1 DEF Sound
    <3>2. CASE ~r.ok
      BY <1>1, <1>6, <1>7, <1>8, <1>10, <2>1, <3>2 DEF Sound
    <3> QED
      BY <3>1, <3>2
  <2> QED
    BY <1>6, <1>10, <2>2, OneChanges DEF after
<1> QED
  BY <1>4, <1>9, <1>10

\* psa_random_deplete(), the prediction resistance, a fork and an exit.
LEMMA OthersKeepSound ==
  ASSUME RandomTyped, AllSound, NEW p \in Pids, rproc[p].live, rproc[p].left = 0,
         \/ psa_random_deplete(p)
         \/ \E enabled \in BOOLEAN : psa_random_set_prediction_resistance(p, enabled)
         \/ \E q \in Pids : Fork(p, q)
         \/ Exit(p)
  PROVE  AllSound' /\ RandomCorrect'
<1>1. rproc[p] \in Generators /\ Sound(p, rproc[p]) /\ ReseedInterval \in Nat
      /\ RequestsSince(rproc[p].list) \in Nat /\ rproc[p].counter \in Nat
  <2>1. rproc[p] \in Generators /\ Sound(p, rproc[p])
    BY LiveHasList DEF AllSound
  <2>2. rproc[p].list \in Lists /\ rproc[p].counter \in Nat
    BY <2>1 DEF Generators
  <2> QED
    BY <2>1, <2>2, CountedRequests, RandomAssumption
<1>2. RandomCorrect'
  BY QuietIsCorrect
  DEF psa_random_deplete, psa_random_set_prediction_resistance, Fork, Exit
<1>3. ASSUME psa_random_deplete(p) PROVE AllSound'
  <2> DEFINE after == Deplete(rproc[p])
  <2>1. /\ after.list = rproc[p].list /\ after.counter = ReseedInterval /\ after.due = TRUE
        /\ after.pid = rproc[p].pid /\ after.ready = rproc[p].ready /\ after.left = 0
    BY <1>1 DEF Deplete, Generators
  <2>2. rproc[p].ready /\ rproc' = [rproc EXCEPT ![p] = after]
    BY <1>3 DEF psa_random_deplete
  <2> HIDE DEF after
  <2>3. Sound(p, after)
    BY <1>1, <2>1, <2>2 DEF Sound
  <2> QED
    BY <2>2, <2>3, OneChanges
<1>4. ASSUME NEW enabled \in BOOLEAN, psa_random_set_prediction_resistance(p, enabled)
      PROVE  AllSound'
  <2> DEFINE after == [rproc[p] EXCEPT !.resist = enabled]
  <2>1. /\ after.list = rproc[p].list /\ after.counter = rproc[p].counter
        /\ after.due = rproc[p].due /\ after.pid = rproc[p].pid
        /\ after.ready = rproc[p].ready /\ after.left = 0
    BY <1>1 DEF Generators
  <2>2. rproc' = [rproc EXCEPT ![p] = after]
    BY <1>4 DEF psa_random_set_prediction_resistance
  <2> HIDE DEF after
  <2>3. Sound(p, after)
    BY <1>1, <2>1 DEF Sound
  <2> QED
    BY <2>2, <2>3, OneChanges
<1>5. ASSUME NEW q \in Pids, Fork(p, q) PROVE AllSound'
  <2> DEFINE child == [rproc[p] EXCEPT !.due = TRUE]
  <2>1. /\ child.list = rproc[p].list /\ child.counter = rproc[p].counter /\ child.due = TRUE
        /\ child.pid = rproc[p].pid /\ child.ready = rproc[p].ready /\ child.left = 0
    BY <1>1 DEF Generators
  <2>2. rproc[p].ready /\ rproc[p].pid # q /\ rproc' = [rproc EXCEPT ![q] = child]
    BY <1>5 DEF Fork
  <2> HIDE DEF child
  <2>3. Sound(q, child)
    BY <1>1, <2>1, <2>2 DEF Sound
  <2> QED
    BY <2>2, <2>3, OneChanges
<1>6. ASSUME Exit(p) PROVE AllSound'
  <2>1. rproc' = [rproc EXCEPT ![p] = NoProcess] /\ ~NoProcess.live
    BY <1>6 DEF Exit, NoProcess
  <2> QED
    BY <2>1, OneChanges
<1> QED
  BY <1>2, <1>3, <1>4, <1>5, <1>6

\* When a request, or a call that fails before it makes one, is served well.
LEMMA JudgedWell ==
  ASSUME NEW g, NEW r, NEW after \in Generators, NEW works, rout' = Judged(g, r, after, works),
         \A list \in r.made :
           /\ RequestsSince(list) \in Nat
           /\ RequestsSince(list) < IF g.resist THEN 1 ELSE ReseedInterval
           /\ g.due => \E i \in Len(g.list) + 1 .. Len(list) : list[i][1] = "seed",
         r.ok /\ after.left = 0 => after.want = after.got,
         ~r.ok => ~works /\ (g.due \/ g.resist \/ RequestsSince(r.rng.list) >= ReseedInterval)
  PROVE  RandomCorrect'
<1>1. ~rout'.stale
  <2>1. ReseedInterval \in Nat
    BY RandomAssumption
  <2>2. rout'.stale = \E list \in r.made :
          \/ RequestsSince(list) >= IF g.resist THEN 1 ELSE ReseedInterval
          \/ g.due /\ ~\E i \in Len(g.list) + 1 .. Len(list) : list[i][1] = "seed"
    BY DEF Judged
  <2>3. \A list \in r.made :
          ~(RequestsSince(list) >= IF g.resist THEN 1 ELSE ReseedInterval)
    BY <2>1
  <2> QED
    BY <2>2, <2>3
<1>2. rout'.over /\ rout'.ok => rout'.missing = 0
  <2>1. after.want \in Nat /\ after.got \in Nat
    BY DEF Generators
  <2>2. rout'.over = (~r.ok \/ after.left = 0) /\ rout'.ok = r.ok
        /\ rout'.missing = after.want - after.got
    BY DEF Judged
  <2>3. ASSUME rout'.over, rout'.ok PROVE after.want = after.got
    BY <2>2, <2>3
  <2> QED
    BY <2>1, <2>2, <2>3
<1>3. ~rout'.ok => rout'.excused
  BY DEF Judged
<1> QED
  BY <1>1, <1>2, <1>3 DEF RandomCorrect, RandomReseeded, RandomServed

\* psa_generate_random() begins.
LEMMA GenerateKeepsSound ==
  ASSUME RandomTyped, AllSound, NEW p \in Pids, rproc[p].live, rproc[p].left = 0,
         NEW n \in RequestSizes, NEW olen \in Gathers, NEW good \in 0 .. EntropyMaxLoop + 1,
         psa_generate_random(p, n, olen, good)
  PROVE  AllSound' /\ RandomCorrect'
<1> DEFINE g == rproc[p]
           r == psa_random_internal_generate(g, p, olen, good)
           after == [r.rng EXCEPT !.want = n, !.left = IF r.ok THEN n ELSE 0, !.got = 0]
           s == mbedtls_ctr_drbg_reseed_internal(g, <<p, rworld.now>>, olen, good)
<1>1. g \in Generators /\ Sound(p, g) /\ ReseedInterval \in Nat /\ EntropyMaxLoop \in Nat
      /\ good \in Nat /\ olen \in Nat /\ n \in Nat /\ p \in Nat
  BY LiveHasList, RandomAssumption DEF AllSound
<1>2. /\ g.ready /\ rproc' = [rproc EXCEPT ![p] = after]
      /\ rout' = Judged(g, [ok |-> r.ok, made |-> {}, rng |-> r.rng], after,
                        good > EntropyMaxLoop)
  BY DEF psa_generate_random
<1>3. /\ Reseeding(g, <<p, rworld.now>>, mbedtls_entropy_func(g.size, olen, good).ok, s)
      /\ s.ok => RequestsSince(s.rng.list) = 0
      /\ ~s.ok => good <= EntropyMaxLoop
  <2>1. <<p, rworld.now>> \in {<<>>} \cup (Pids \X Nat)
    BY DEF RandomTyped
  <2> QED
    BY <1>1, <2>1, ReseedsSoundly
<1>4. r = IF p = g.pid THEN [ok |-> TRUE, rng |-> g]
          ELSE IF s.ok THEN [s EXCEPT !.rng.pid = p] ELSE s
  BY DEF psa_random_internal_generate, psa_random_internal_reseed_child, Personalize
<1>5. s = [ok |-> s.ok, rng |-> s.rng]
  BY DEF mbedtls_ctr_drbg_reseed_internal, Reseeded
<1> HIDE DEF s, r
<1>6. /\ r.ok \in BOOLEAN /\ r.rng \in Generators
      /\ Sound(p, [r.rng EXCEPT !.left = 0]) /\ (r.ok => r.rng.pid = p)
      /\ ~r.ok => good <= EntropyMaxLoop /\ g.due
  <2>1. CASE p = g.pid
    <3>1. r.ok = TRUE /\ r.rng = g
      BY <1>4, <2>1
    <3>2. [g EXCEPT !.left = 0] = g
      BY <1>1 DEF Generators
    <3> QED
      BY <1>1, <2>1, <3>1, <3>2
  <2>2. CASE p # g.pid /\ ~s.ok
    <3>1. r = s
      BY <1>4, <2>2
    <3>2. s.rng \in Generators /\ s.rng.list = g.list /\ s.rng.counter = g.counter
          /\ s.rng.due = g.due /\ s.rng.pid = g.pid /\ s.rng.ready = g.ready /\ s.rng.left = 0
      BY <1>3, <2>2 DEF Reseeding
    <3>3. [s.rng EXCEPT !.left = 0] = s.rng
      BY <3>2 DEF Generators
    <3>4. Sound(p, s.rng)
      BY <1>1, <3>2 DEF Sound
    <3>5. g.due
      BY <1>1, <1>2, <2>2 DEF Sound
    <3>6. r.ok = FALSE /\ good <= EntropyMaxLoop
      BY <1>3, <2>2, <3>1 DEF Reseeding
    <3>7. r.rng \in Generators /\ Sound(p, [r.rng EXCEPT !.left = 0])
      BY <3>1, <3>2, <3>3, <3>4
    <3> QED
      BY <3>5, <3>6, <3>7
  <2>3. CASE p # g.pid /\ s.ok
    <3>1. r.ok = TRUE /\ r.rng = [s.rng EXCEPT !.pid = p]
      BY <1>4, <1>5, <2>3
    <3>2. s.rng \in Generators /\ s.rng.counter = 0 /\ ~s.rng.due /\ s.rng.left = 0
      BY <1>3, <2>3 DEF Reseeding
    <3>3. r.rng \in Generators /\ r.rng.list = s.rng.list /\ r.rng.counter = 0
          /\ ~r.rng.due /\ r.rng.pid = p /\ r.rng.left = 0
      BY <1>1, <3>1, <3>2 DEF Generators
    <3>4. [r.rng EXCEPT !.left = 0] = r.rng
      BY <3>3 DEF Generators
    <3>5. Sound(p, r.rng)
      BY <1>1, <1>3, <2>3, <3>3 DEF Sound
    <3> QED
      BY <3>1, <3>3, <3>4, <3>5
  <2>4. s.ok \in BOOLEAN
    BY <1>3 DEF Reseeding
  <2> QED
    BY <2>1, <2>2, <2>3, <2>4
<1>7. /\ after \in Generators /\ after.want = n /\ after.got = 0
      /\ after.left = IF r.ok THEN n ELSE 0
      /\ after.list = r.rng.list /\ after.counter = r.rng.counter /\ after.due = r.rng.due
      /\ after.pid = r.rng.pid /\ after.ready = r.rng.ready
  BY <1>1, <1>6 DEF Generators
<1> HIDE DEF after
<1>8. Sound(p, after)
  <2> DEFINE idle == [r.rng EXCEPT !.left = 0]
  <2>1. /\ idle.list = r.rng.list /\ idle.counter = r.rng.counter /\ idle.due = r.rng.due
        /\ idle.pid = r.rng.pid /\ idle.ready = r.rng.ready
    BY <1>6 DEF Generators
  <2>2. Sound(p, idle)
    BY <1>6
  <2> HIDE DEF idle
  <2>3. after.left > 0 => after.want = after.got + after.left
    BY <1>1, <1>7
  <2> QED
    BY <1>7, <2>1, <2>2, <2>3 DEF Sound
<1>9. RandomCorrect'
  <2> DEFINE j == [ok |-> r.ok, made |-> {}, rng |-> r.rng]
  <2>1. j.made = {} /\ j.ok = r.ok /\ j.rng = r.rng
    OBVIOUS
  <2>2. j.ok /\ after.left = 0 => after.want = after.got
    BY <1>1, <1>7, <2>1
  <2>3. ~j.ok => ~(good > EntropyMaxLoop) /\ g.due
    BY <1>1, <1>6, <2>1
  <2>4. rout' = Judged(g, j, after, good > EntropyMaxLoop)
    BY <1>2
  <2> HIDE DEF j
  <2> QED
    BY <1>7, <2>1, <2>2, <2>3, <2>4, JudgedWell
<1> QED
  BY <1>2, <1>8, <1>9, OneChanges

\* A request: what it is served from, and what is left of the call.
LEMMA RequestKeepsSound ==
  ASSUME RandomInv, AllSound, NEW p \in Pids, rproc[p].live, rproc[p].left > 0,
         NEW olen \in Gathers, NEW good \in 0 .. EntropyMaxLoop + 1,
         NextRequest(p, olen, good)
  PROVE  AllSound' /\ RandomCorrect'
<1> DEFINE g == rproc[p]
           size == RequestSize(g.left)
           s == mbedtls_ctr_drbg_reseed_internal(g, <<>>, olen, good)
           r == mbedtls_ctr_drbg_random(g, size, olen, good)
           after == [r.rng EXCEPT !.left = IF r.ok THEN @ - size ELSE 0, !.got = @ + r.got]
           most == IF g.resist THEN 1 ELSE ReseedInterval
<1>1. /\ RandomTyped /\ g \in Generators /\ g.list \in Lists /\ Sound(p, g)
      /\ g.ready /\ g.pid = p
      /\ ReseedInterval \in Nat \ {0} /\ EntropyMaxLoop \in Nat /\ good \in Nat /\ olen \in Nat
  BY LiveHasList, RandomAssumption DEF AllSound, RandomInv, OnlyReadyOutput
<1>2. /\ g.left \in Nat /\ g.got \in Nat /\ g.want \in Nat /\ g.counter \in Nat
      /\ g.resist \in BOOLEAN /\ g.due \in BOOLEAN
      /\ size \in Nat /\ size <= g.left /\ RequestsSince(g.list) \in Nat
  <2>1. g.left \in Nat /\ g.got \in Nat /\ g.want \in Nat /\ g.counter \in Nat
        /\ g.resist \in BOOLEAN /\ g.due \in BOOLEAN
    BY <1>1 DEF Generators
  <2>2. MaxRequest \in Nat
    BY RandomAssumption
  <2>3. size \in Nat /\ size <= g.left
    BY <2>1, <2>2 DEF RequestSize
  <2> QED
    BY <1>1, <2>1, <2>3, CountedRequests
<1>3. rproc' = [rproc EXCEPT ![p] = after] /\ rout' = Judged(g, r, after, good > EntropyMaxLoop)
  BY DEF NextRequest
<1>4. <<>> \in {<<>>} \cup (Pids \X Nat)
  OBVIOUS
<1>5. /\ Reseeding(g, <<>>, mbedtls_entropy_func(g.size, olen, good).ok, s)
      /\ s.ok => RequestsSince(s.rng.list) = 0
      /\ ~s.ok => good <= EntropyMaxLoop
  BY <1>1, <1>4, ReseedsSoundly
<1> DEFINE q == IF ReseedNow(g) THEN s ELSE [ok |-> TRUE, rng |-> g]
<1>6. r = [ok |-> q.ok, made |-> IF q.ok THEN {q.rng.list} ELSE {},
           got |-> IF q.ok THEN size ELSE 0,
           rng |-> IF q.ok THEN Generate(q.rng, size) ELSE q.rng]
  BY DEF mbedtls_ctr_drbg_random
<1>7. ReseedNow(g) <=> g.resist \/ g.counter >= ReseedInterval
  BY DEF ReseedNow
<1> HIDE DEF s, r, size
<1>8. /\ q.ok \in BOOLEAN /\ q.rng \in Generators
      /\ q.rng.pid = g.pid /\ q.rng.ready = g.ready
      /\ q.rng.want = g.want /\ q.rng.left = g.left /\ q.rng.got = g.got
  <2>1. CASE ReseedNow(g)
    BY <1>5, <2>1 DEF Reseeding
  <2>2. CASE ~ReseedNow(g)
    BY <1>1, <2>2
  <2> QED
    BY <2>1, <2>2
<1>9. ASSUME q.ok
      PROVE  /\ q.rng.due = FALSE /\ q.rng.counter = RequestsSince(q.rng.list)
             /\ q.rng.counter < most /\ q.rng.counter < ReseedInterval
             /\ g.due => \E i \in Len(g.list) + 1 .. Len(q.rng.list) : q.rng.list[i][1] = "seed"
  <2>1. CASE ReseedNow(g)
    <3>1. q = s
      BY <2>1
    <3>2. s.ok
      BY <1>9, <3>1
    <3>3. s.rng.counter = 0 /\ s.rng.due \in BOOLEAN /\ ~s.rng.due /\ RequestsSince(s.rng.list) = 0
      BY <1>5, <3>2 DEF Reseeding, Generators
    <3>4. PICK d \in Drawings : s.rng.list = Append(g.list, <<"seed", d, <<>>>>)
      BY <1>5, <3>2 DEF Reseeding
    <3> DEFINE e == <<"seed", d, <<>>>>
    <3>5. e \in Entries /\ e[1] = "seed"
      BY <1>4, SeedKinds
    <3> HIDE DEF e
    <3>6. /\ Len(s.rng.list) = Len(g.list) + 1 /\ s.rng.list[Len(g.list) + 1] = e
          /\ Len(g.list) \in Nat
      <4>1. s.rng.list = Append(g.list, e)
        BY <3>4 DEF e
      <4> QED
        BY <1>1, <3>5, <4>1, Appended, EntryKinds
    <3>7. Len(g.list) + 1 \in Len(g.list) + 1 .. Len(s.rng.list)
          /\ s.rng.list[Len(g.list) + 1][1] = "seed"
      BY <3>5, <3>6
    <3>8. 0 < most /\ 0 < ReseedInterval
      BY <1>1
    <3> QED
      BY <3>1, <3>3, <3>7, <3>8
  <2>2. CASE ~ReseedNow(g)
    <3>1. q.rng = g
      BY <2>2
    <3>2. g.resist = FALSE /\ g.counter < ReseedInterval
      BY <1>1, <1>2, <1>7, <2>2
    <3>3. g.due = FALSE /\ g.counter = RequestsSince(g.list)
      BY <1>1, <1>2, <3>2 DEF Sound
    <3> QED
      BY <3>1, <3>2, <3>3
  <2> QED
    BY <2>1, <2>2
<1>10. ASSUME ~q.ok
       PROVE  /\ q.rng.list = g.list /\ q.rng.counter = g.counter /\ q.rng.due = g.due
              /\ ~(good > EntropyMaxLoop)
              /\ g.due \/ g.resist \/ RequestsSince(q.rng.list) >= ReseedInterval
  <2>1. ReseedNow(g) /\ q = s
    BY <1>10
  <2>2. s.rng.list = g.list /\ s.rng.counter = g.counter /\ s.rng.due = g.due
    BY <1>5, <1>10, <2>1 DEF Reseeding
  <2>3. ~(good > EntropyMaxLoop)
    BY <1>1, <1>5, <1>10, <2>1
  <2>4. g.due \/ g.resist \/ RequestsSince(g.list) >= ReseedInterval
    BY <1>1, <1>2, <1>7, <2>1 DEF Sound
  <2> QED
    BY <2>1, <2>2, <2>3, <2>4
<1> HIDE DEF q
<1>11. CASE q.ok
  <2> DEFINE e == <<"request", size>>
  <2>1. r.ok = TRUE /\ r.made = {q.rng.list} /\ r.got = size /\ r.rng = Generate(q.rng, size)
    BY <1>6, <1>11
  <2>2. PICK list \in Lists :
          /\ list = Append(q.rng.list, e)
          /\ RequestsSince(list) = q.rng.counter + 1
    <3>1. q.rng.list \in Lists /\ e \in Entries
      BY <1>2, <1>8, EntryKinds DEF Generators, Plain
    <3>2. Append(q.rng.list, e) \in Lists
      BY <3>1, Appended
    <3>3. RequestsSince(Append(q.rng.list, e)) = RequestsSince(q.rng.list) + 1
      BY <1>2, <3>1, CountedRequests
    <3> HIDE DEF e
    <3> QED
      BY <1>9, <1>11, <3>2, <3>3
  <2>3. PICK counter \in Nat : counter = q.rng.counter + 1
    <3>1. \A o \in Generators : o.counter + 1 \in Nat
      BY DEF Generators
    <3> QED
      BY <1>8, <3>1
  <2>4. PICK left \in Nat, got \in Nat : left = g.left - size /\ got = g.got + size
    BY <1>2
  <2>5. PICK h \in Generators : h = [q.rng EXCEPT !.list = list, !.counter = counter]
    BY <1>8 DEF Generators
  <2>6. /\ h.list = list /\ h.counter = counter /\ h.due = q.rng.due /\ h.pid = g.pid
        /\ h.ready = g.ready /\ h.want = g.want /\ h.left = g.left /\ h.got = g.got
    BY <1>8, <2>5 DEF Generators
  <2>7. r.rng = h
    BY <2>1, <2>2, <2>3, <2>5 DEF Generate
  <2>8. after = [h EXCEPT !.left = left, !.got = got]
    BY <2>1, <2>4, <2>6, <2>7
  <2> HIDE DEF after
  <2>9. /\ after \in Generators
        /\ after.list = h.list /\ after.counter = h.counter /\ after.due = h.due
        /\ after.pid = h.pid /\ after.ready = h.ready /\ after.want = h.want
        /\ after.left = left /\ after.got = got
    BY <2>5, <2>8 DEF Generators
  <2>10. g.want = got + left
    BY <1>1, <1>2, <2>4 DEF Sound
  <2>11. Sound(p, after)
    <3>1. /\ RequestsSince(after.list) = counter /\ after.counter = counter
          /\ counter <= ReseedInterval /\ after.due = FALSE /\ after.pid = p
      <4>1. q.rng.counter < ReseedInterval /\ q.rng.counter \in Nat /\ q.rng.due = FALSE
        <5>1. \A o \in Generators : o.counter \in Nat
          BY DEF Generators
        <5> QED
          BY <1>8, <1>9, <1>11, <5>1
      <4>2. counter <= ReseedInterval
        BY <1>1, <2>3, <4>1
      <4> QED
        BY <1>1, <2>2, <2>3, <2>6, <2>9, <4>1, <4>2
    <3>2. after.want = after.got + after.left
      BY <2>6, <2>9, <2>10
    <3> QED
      BY <3>1, <3>2 DEF Sound
  <2>12. RandomCorrect'
    <3>1. ASSUME NEW l \in r.made
          PROVE  /\ RequestsSince(l) \in Nat
                 /\ RequestsSince(l) < IF g.resist THEN 1 ELSE ReseedInterval
                 /\ g.due => \E i \in Len(g.list) + 1 .. Len(l) : l[i][1] = "seed"
      <4>1. l = q.rng.list /\ l \in Lists
        BY <1>8, <2>1, <3>1 DEF Generators
      <4> QED
        BY <1>9, <1>11, <4>1, CountedRequests
    <3>2. after.left = 0 => after.want = after.got
      BY <2>6, <2>9, <2>10
    <3> QED
      BY <1>3, <2>1, <2>9, <3>1, <3>2, JudgedWell
  <2> QED
    BY <1>1, <1>3, <2>11, <2>12, OneChanges
<1>12. CASE ~q.ok
  <2>1. ~r.ok /\ r.made = {} /\ r.got = 0 /\ r.rng = q.rng
    BY <1>6, <1>12
  <2>2. after = [q.rng EXCEPT !.left = 0, !.got = q.rng.got + 0]
    BY <2>1
  <2>3. q.rng.got + 0 = g.got
    BY <1>2, <1>8
  <2>4. after = [q.rng EXCEPT !.left = 0, !.got = g.got]
    BY <2>2, <2>3
  <2> HIDE DEF after
  <2>5. /\ after \in Generators /\ after.left = 0
        /\ after.list = q.rng.list /\ after.counter = q.rng.counter /\ after.due = q.rng.due
        /\ after.pid = g.pid /\ after.ready = g.ready
    BY <1>2, <1>8, <2>4 DEF Generators
  <2>6. Sound(p, after)
    BY <1>1, <1>10, <1>12, <2>5 DEF Sound
  <2>7. RandomCorrect'
    BY <1>3, <1>10, <1>12, <2>1, <2>5, JudgedWell
  <2> QED
    BY <1>1, <1>3, <2>6, <2>7, OneChanges
<1> QED
  BY <1>8, <1>11, <1>12

\* Whatever happens to the processes and to the entropy source, no output is drawn
\* from a generator that was due to be reseeded, and a call gives all the bytes it was
\* asked for or fails because a seed was due and the source did not work
\* (mbedtls_ctr_drbg_random_with_add(), psa_random_internal_generate()).
THEOREM RandomIsFreshAndServed == RandomSpec => []RandomCorrect
<1> DEFINE Inv == RandomInv /\ ~rout.repeated /\ AllSound /\ RandomCorrect
<1>1. RandomInit => Inv
  <2> SUFFICES ASSUME RandomInit PROVE Inv
    OBVIOUS
  <2>1. RequestsSince(<<>>) = 0
    BY FS_EmptySet DEF RequestsSince
  <2>2. Sound(1, NewProcess) /\ ~NoProcess.live
    BY <2>1, RandomAssumption DEF Sound, NewProcess, NoProcess
  <2>3. \A p \in Pids : rproc[p] = IF p = 1 THEN NewProcess ELSE NoProcess
    BY DEF RandomInit
  <2>4. AllSound
    BY <2>2, <2>3 DEF AllSound
  <2>5. RandomCorrect
    BY DEF RandomInit, NoOutput, RandomCorrect, RandomReseeded, RandomServed
  <2> QED
    BY <2>4, <2>5, RandomStarts
<1>2. Inv /\ [RandomNext]_randomVars => Inv'
  <2> SUFFICES ASSUME Inv, [RandomNext]_randomVars PROVE Inv'
    OBVIOUS
  <2>1. RandomInv' /\ ~rout'.repeated
    BY RandomGoesOn
  <2>2. RandomTyped
    BY DEF RandomInv
  <2>3. CASE UNCHANGED randomVars
    BY <2>1, <2>3
    DEF randomVars, AllSound, Sound, RandomCorrect, RandomReseeded, RandomServed
  <2>4. ASSUME NEW p \in Pids, rproc[p].live, rproc[p].left > 0, NEW olen \in Gathers,
               NEW good \in 0 .. EntropyMaxLoop + 1, NextRequest(p, olen, good)
        PROVE  AllSound' /\ RandomCorrect'
    BY <2>4, RequestKeepsSound
  <2>5. ASSUME NEW p \in Pids, rproc[p].live, rproc[p].left = 0, NEW olen \in Gathers,
               NEW good \in 0 .. EntropyMaxLoop + 1,
               psa_random_internal_seed(p, olen, good) \/ psa_random_reseed(p, olen, good)
        PROVE  AllSound' /\ RandomCorrect'
    BY <2>2, <2>5, SeedKeepsSound
  <2>6. ASSUME NEW p \in Pids, rproc[p].live, rproc[p].left = 0, NEW n \in RequestSizes,
               NEW olen \in Gathers, NEW good \in 0 .. EntropyMaxLoop + 1,
               psa_generate_random(p, n, olen, good)
        PROVE  AllSound' /\ RandomCorrect'
    BY <2>2, <2>6, GenerateKeepsSound
  <2>7. ASSUME NEW p \in Pids, rproc[p].live, rproc[p].left = 0,
               \/ psa_random_deplete(p)
               \/ \E enabled \in BOOLEAN : psa_random_set_prediction_resistance(p, enabled)
               \/ \E q \in Pids : Fork(p, q)
               \/ Exit(p)
        PROVE  AllSound' /\ RandomCorrect'
    BY <2>2, <2>7, OthersKeepSound
  <2> QED
    BY <2>1, <2>3, <2>4, <2>5, <2>6, <2>7 DEF RandomNext
<1> QED
  BY <1>1, <1>2, PTL DEF RandomSpec

-----------------------------------------------------------------------------
(* Key derivation.                                                         *)

\* Induction, over the numbers that are in a set.
LEMMA UpTo ==
  ASSUME NEW n \in Nat, NEW S, 0 \in S, \A k \in 1 .. n : k - 1 \in S => k \in S
  PROVE  \A k \in 0 .. n : k \in S
<1> DEFINE f == [k \in 0 .. n |-> IF k \in S THEN 1 ELSE 0]
           g == [k \in 0 .. n |-> 1]
<1>1. f[0] = g[0]
  OBVIOUS
<1>2. ASSUME NEW k \in 1 .. n, f[k - 1] = g[k - 1] PROVE f[k] = g[k]
  BY <1>2
<1>3. ASSUME NEW k \in 0 .. n, f[k] = g[k] PROVE k \in S
  BY <1>3
<1> HIDE DEF f, g
<1>4. \A k \in 0 .. n : f[k] = g[k]
  BY <1>1, <1>2, SameLoop
<1> QED
  BY <1>3, <1>4

\* The blocks of HKDF-Expand are defined one from the other (RFC 5869).
HkdfChain(prk, info, b, T) ==
    T = [i \in 1 .. b |->
           Hmac(prk, (IF i = 1 THEN <<>> ELSE <<T[i - 1]>>) \o <<info, Number(i)>>)]

LEMMA HkdfChainExists ==
  ASSUME NEW prk, NEW info, NEW b \in Nat
  PROVE  \E T : HkdfChain(prk, info, b, T)
<1> DEFINE S == {m \in Nat : \E T : HkdfChain(prk, info, m, T)}
<1>1. 0 \in S
  <2> DEFINE T == [i \in 1 .. 0 |-> 0]
  <2>1. HkdfChain(prk, info, 0, T)
    BY DEF HkdfChain
  <2> QED
    BY <2>1
<1>2. ASSUME NEW k \in 1 .. b, k - 1 \in S PROVE k \in S
  <2>1. PICK T : HkdfChain(prk, info, k - 1, T)
    BY <1>2
  <2> DEFINE Block(f, i) == Hmac(prk, (IF i = 1 THEN <<>> ELSE <<f[i - 1]>>) \o <<info, Number(i)>>)
             U == [i \in 1 .. k |-> Block(T, i)]
  <2>2. T = [i \in 1 .. k - 1 |-> Block(T, i)]
    BY <2>1 DEF HkdfChain
  <2>3. ASSUME NEW i \in 1 .. k PROVE Block(U, i) = Block(T, i)
    <3>1. CASE i = 1
      BY <3>1
    <3>2. CASE i # 1
      <4>1. i - 1 \in 1 .. k - 1 /\ i - 1 \in 1 .. k
        BY <3>2
      <4>2. U[i - 1] = T[i - 1]
        <5> HIDE DEF Block
        <5> QED
          BY <4>1, <2>2
      <4> QED
        BY <4>2
    <3> QED
      BY <3>1, <3>2
  <2>4. U = [i \in 1 .. k |-> Block(U, i)]
    <3> HIDE DEF Block
    <3>1. \A V : (\A i \in 1 .. k : Block(V, i) = Block(T, i)) =>
                   [i \in 1 .. k |-> Block(T, i)] = [i \in 1 .. k |-> Block(V, i)]
      OBVIOUS
    <3> HIDE DEF U
    <3>2. U = [i \in 1 .. k |-> Block(T, i)]
      BY DEF U
    <3> QED
      BY <2>3, <3>1, <3>2
  <2>5. HkdfChain(prk, info, k, U)
    <3> HIDE DEF U
    <3> QED
      BY <2>4 DEF HkdfChain
  <2> QED
    BY <2>5
<1> HIDE DEF S
<1>3. b \in S
  BY <1>1, <1>2, UpTo
<1> QED
  BY <1>3 DEF S

\* A block does not depend on how many are made.
LEMMA HkdfChainUnique ==
  ASSUME NEW prk, NEW info, NEW b \in Nat, NEW c \in Nat, b <= c,
         NEW T, HkdfChain(prk, info, b, T), NEW U, HkdfChain(prk, info, c, U)
  PROVE  \A i \in 1 .. b : T[i] = U[i]
<1> DEFINE Block(f, i) == Hmac(prk, (IF i = 1 THEN <<>> ELSE <<f[i - 1]>>) \o <<info, Number(i)>>)
           S == {m \in Nat : m = 0 \/ T[m] = U[m]}
<1>1. T = [i \in 1 .. b |-> Block(T, i)] /\ U = [i \in 1 .. c |-> Block(U, i)]
  BY DEF HkdfChain
<1>2. ASSUME NEW i \in 1 .. b PROVE T[i] = Block(T, i) /\ U[i] = Block(U, i)
  <2> HIDE DEF Block
  <2>1. i \in 1 .. c
    OBVIOUS
  <2>2. [j \in 1 .. b |-> Block(T, j)][i] = Block(T, i) /\ [j \in 1 .. c |-> Block(U, j)][i] = Block(U, i)
    BY <2>1
  <2> QED
    BY <1>1, <2>2, Zenon
<1>3. ASSUME NEW k \in 1 .. b, k - 1 \in S PROVE k \in S
  <2>1. Block(T, k) = Block(U, k)
    <3>1. k = 1 \/ T[k - 1] = U[k - 1]
      BY <1>3
    <3> QED
      BY <3>1
  <2> QED
    BY <1>2, <2>1
<1>4. 0 \in S
  OBVIOUS
<1> HIDE DEF S
<1>5. \A k \in 0 .. b : k \in S
  BY <1>3, <1>4, UpTo
<1> QED
  BY <1>5 DEF S

LEMMA HkdfReferenceIs ==
  ASSUME NEW prk, NEW info, NEW b \in Nat
  PROVE  \E T : /\ HkdfChain(prk, info, b, T)
                /\ HkdfReference(prk, info, b) = T[b]
<1> DEFINE T == CHOOSE T : HkdfChain(prk, info, b, T)
<1>1. HkdfChain(prk, info, b, T)
  BY HkdfChainExists
<1>2. HkdfReference(prk, info, b) = T[b]
  BY DEF HkdfReference, HkdfChain
<1> QED
  BY <1>1, <1>2

LEMMA HkdfNextBlock ==
  ASSUME NEW prk, NEW info, NEW b \in Nat
  PROVE  HkdfReference(prk, info, b + 1) =
           Hmac(prk, (IF b + 1 = 1 THEN <<>> ELSE <<HkdfReference(prk, info, b)>>)
                       \o <<info, Number(b + 1)>>)
<1>1. PICK T : HkdfChain(prk, info, b, T) /\ HkdfReference(prk, info, b) = T[b]
  BY HkdfReferenceIs
<1>2. PICK U : HkdfChain(prk, info, b + 1, U) /\ HkdfReference(prk, info, b + 1) = U[b + 1]
  BY HkdfReferenceIs
<1>3. \A i \in 1 .. b : T[i] = U[i]
  BY <1>1, <1>2, HkdfChainUnique
<1> DEFINE Block(f, i) == Hmac(prk, (IF i = 1 THEN <<>> ELSE <<f[i - 1]>>) \o <<info, Number(i)>>)
<1>4. U[b + 1] = Block(U, b + 1)
  <2>1. U = [i \in 1 .. b + 1 |-> Block(U, i)]
    BY <1>2 DEF HkdfChain
  <2> HIDE DEF Block
  <2> QED
    BY <2>1
<1>5. b + 1 # 1 => U[(b + 1) - 1] = T[b]
  BY <1>3
<1>6. Block(U, b + 1) = Hmac(prk, (IF b + 1 = 1 THEN <<>> ELSE <<T[b]>>) \o <<info, Number(b + 1)>>)
  BY <1>5
<1> QED
  BY <1>1, <1>2, <1>4, <1>6

\* The seeds of the blocks of the PRF, too (RFC 5246).
PrfChain(secret, label, seed, b, T) ==
    T = [i \in 1 .. b |->
           Hmac(secret, IF i = 1 THEN <<label, seed>> ELSE <<T[i - 1]>>)]

LEMMA PrfChainExists ==
  ASSUME NEW secret, NEW label, NEW seed, NEW b \in Nat
  PROVE  \E T : PrfChain(secret, label, seed, b, T)
<1> DEFINE S == {m \in Nat : \E T : PrfChain(secret, label, seed, m, T)}
<1>1. 0 \in S
  <2> DEFINE T == [i \in 1 .. 0 |-> 0]
  <2>1. PrfChain(secret, label, seed, 0, T)
    BY DEF PrfChain
  <2> QED
    BY <2>1
<1>2. ASSUME NEW k \in 1 .. b, k - 1 \in S PROVE k \in S
  <2>1. PICK T : PrfChain(secret, label, seed, k - 1, T)
    BY <1>2
  <2> DEFINE Block(f, i) == Hmac(secret, IF i = 1 THEN <<label, seed>> ELSE <<f[i - 1]>>)
             U == [i \in 1 .. k |-> Block(T, i)]
  <2>2. T = [i \in 1 .. k - 1 |-> Block(T, i)]
    BY <2>1 DEF PrfChain
  <2>3. ASSUME NEW i \in 1 .. k PROVE Block(U, i) = Block(T, i)
    <3>1. CASE i = 1
      BY <3>1
    <3>2. CASE i # 1
      <4>1. i - 1 \in 1 .. k - 1 /\ i - 1 \in 1 .. k
        BY <3>2
      <4>2. U[i - 1] = T[i - 1]
        <5> HIDE DEF Block
        <5> QED
          BY <4>1, <2>2
      <4> QED
        BY <4>2
    <3> QED
      BY <3>1, <3>2
  <2>4. U = [i \in 1 .. k |-> Block(U, i)]
    <3> HIDE DEF Block
    <3>1. \A V : (\A i \in 1 .. k : Block(V, i) = Block(T, i)) =>
                   [i \in 1 .. k |-> Block(T, i)] = [i \in 1 .. k |-> Block(V, i)]
      OBVIOUS
    <3> HIDE DEF U
    <3>2. U = [i \in 1 .. k |-> Block(T, i)]
      BY DEF U
    <3> QED
      BY <2>3, <3>1, <3>2
  <2>5. PrfChain(secret, label, seed, k, U)
    <3> HIDE DEF U
    <3> QED
      BY <2>4 DEF PrfChain
  <2> QED
    BY <2>5
<1> HIDE DEF S
<1>3. b \in S
  BY <1>1, <1>2, UpTo
<1> QED
  BY <1>3 DEF S

LEMMA PrfChainUnique ==
  ASSUME NEW secret, NEW label, NEW seed, NEW b \in Nat, NEW c \in Nat, b <= c,
         NEW T, PrfChain(secret, label, seed, b, T), NEW U, PrfChain(secret, label, seed, c, U)
  PROVE  \A i \in 1 .. b : T[i] = U[i]
<1> DEFINE Block(f, i) == Hmac(secret, IF i = 1 THEN <<label, seed>> ELSE <<f[i - 1]>>)
           S == {m \in Nat : m = 0 \/ T[m] = U[m]}
<1>1. T = [i \in 1 .. b |-> Block(T, i)] /\ U = [i \in 1 .. c |-> Block(U, i)]
  BY DEF PrfChain
<1>2. ASSUME NEW i \in 1 .. b PROVE T[i] = Block(T, i) /\ U[i] = Block(U, i)
  <2> HIDE DEF Block
  <2>1. i \in 1 .. c
    OBVIOUS
  <2>2. [j \in 1 .. b |-> Block(T, j)][i] = Block(T, i) /\ [j \in 1 .. c |-> Block(U, j)][i] = Block(U, i)
    BY <2>1
  <2> QED
    BY <1>1, <2>2, Zenon
<1>3. ASSUME NEW k \in 1 .. b, k - 1 \in S PROVE k \in S
  <2>1. Block(T, k) = Block(U, k)
    <3>1. k = 1 \/ T[k - 1] = U[k - 1]
      BY <1>3
    <3> QED
      BY <3>1
  <2> QED
    BY <1>2, <2>1
<1>4. 0 \in S
  OBVIOUS
<1> HIDE DEF S
<1>5. \A k \in 0 .. b : k \in S
  BY <1>3, <1>4, UpTo
<1> QED
  BY <1>5 DEF S

\* The seed of block b.
PrfSeed(secret, label, seed, b) == (CHOOSE T : PrfChain(secret, label, seed, b, T))[b]

LEMMA PrfReferenceIs ==
  ASSUME NEW secret, NEW label, NEW seed, NEW b
  PROVE  PrfReference(secret, label, seed, b) =
           Hmac(secret, <<PrfSeed(secret, label, seed, b), label, seed>>)
BY DEF PrfReference, PrfChain, PrfSeed

LEMMA PrfNextSeed ==
  ASSUME NEW secret, NEW label, NEW seed, NEW b \in Nat
  PROVE  PrfSeed(secret, label, seed, b + 1) =
           Hmac(secret, IF b + 1 = 1 THEN <<label, seed>>
                        ELSE <<PrfSeed(secret, label, seed, b)>>)
<1> DEFINE T == CHOOSE T : PrfChain(secret, label, seed, b, T)
           U == CHOOSE U : PrfChain(secret, label, seed, b + 1, U)
<1>1. PrfChain(secret, label, seed, b, T) /\ PrfChain(secret, label, seed, b + 1, U)
  BY PrfChainExists
<1>2. PrfSeed(secret, label, seed, b) = T[b] /\ PrfSeed(secret, label, seed, b + 1) = U[b + 1]
  BY DEF PrfSeed
<1> HIDE DEF T, U
<1>3. \A i \in 1 .. b : T[i] = U[i]
  BY <1>1, PrfChainUnique
<1> DEFINE Block(f, i) == Hmac(secret, IF i = 1 THEN <<label, seed>> ELSE <<f[i - 1]>>)
<1>4. U[b + 1] = Block(U, b + 1)
  <2>1. U = [i \in 1 .. b + 1 |-> Block(U, i)]
    BY <1>1 DEF PrfChain
  <2> HIDE DEF Block
  <2>2. [i \in 1 .. b + 1 |-> Block(U, i)][b + 1] = Block(U, b + 1)
    OBVIOUS
  <2> QED
    BY <2>1, <2>2, Zenon
<1>5. b + 1 # 1 => U[(b + 1) - 1] = T[b]
  BY <1>3
<1>6. Block(U, b + 1) = Hmac(secret, IF b + 1 = 1 THEN <<label, seed>> ELSE <<T[b]>>)
  BY <1>5
<1> QED
  BY <1>2, <1>4, <1>6

\* The states of a loop: r follows from the one before it.
KdfRound(alg, r) == IF r.status = "OK" THEN NextByte(alg, r) ELSE r
KdfLoop(alg, c, n, f) ==
    f = [k \in 0 .. n |-> IF k = 0 THEN Going(c) ELSE KdfRound(alg, f[k - 1])]

LEMMA KdfLoopExists ==
  ASSUME NEW alg, NEW c, NEW n \in Nat
  PROVE  \E f : KdfLoop(alg, c, n, f)
<1> DEFINE S == {m \in Nat : \E f : KdfLoop(alg, c, m, f)}
           At(f, k) == IF k = 0 THEN Going(c) ELSE KdfRound(alg, f[k - 1])
<1>1. 0 \in S
  <2> DEFINE f == [k \in 0 .. 0 |-> Going(c)]
  <2>1. KdfLoop(alg, c, 0, f)
    BY DEF KdfLoop
  <2> QED
    BY <2>1
<1>2. ASSUME NEW k \in 1 .. n, k - 1 \in S PROVE k \in S
  <2>1. PICK f : KdfLoop(alg, c, k - 1, f)
    BY <1>2
  <2> DEFINE g == [j \in 0 .. k |-> At(f, j)]
  <2>2. f = [j \in 0 .. k - 1 |-> At(f, j)]
    BY <2>1 DEF KdfLoop
  <2>3. ASSUME NEW j \in 0 .. k PROVE At(g, j) = At(f, j)
    <3>1. CASE j = 0
      BY <3>1
    <3>2. CASE j # 0
      <4>1. j - 1 \in 0 .. k - 1 /\ j - 1 \in 0 .. k
        BY <3>2
      <4>2. g[j - 1] = f[j - 1]
        <5> HIDE DEF At
        <5> QED
          BY <4>1, <2>2
      <4> QED
        BY <4>2
    <3> QED
      BY <3>1, <3>2
  <2>4. g = [j \in 0 .. k |-> At(g, j)]
    <3> HIDE DEF At
    <3>1. \A h : (\A j \in 0 .. k : At(h, j) = At(f, j)) =>
                   [j \in 0 .. k |-> At(f, j)] = [j \in 0 .. k |-> At(h, j)]
      OBVIOUS
    <3> HIDE DEF g
    <3>2. g = [j \in 0 .. k |-> At(f, j)]
      BY DEF g
    <3> QED
      BY <2>3, <3>1, <3>2
  <2>5. KdfLoop(alg, c, k, g)
    <3> HIDE DEF g
    <3> QED
      BY <2>4 DEF KdfLoop
  <2> QED
    BY <2>5
<1> HIDE DEF S
<1>3. n \in S
  BY <1>1, <1>2, UpTo
<1> QED
  BY <1>3 DEF S

IsKdfLoop(alg, c, n, f) ==
    /\ Loop(alg, c, n) = f[n]
    /\ f[0] = Going(c)
    /\ \A k \in 1 .. n : f[k] = KdfRound(alg, f[k - 1])

LEMMA KdfLoopIs == \A alg, c : \A n \in Nat : \E f : IsKdfLoop(alg, c, n, f)
<1> TAKE alg, c
<1> TAKE n \in Nat
<1> DEFINE f == CHOOSE f : KdfLoop(alg, c, n, f)
<1>1. KdfLoop(alg, c, n, f)
  BY KdfLoopExists
<1>2. Loop(alg, c, n) = f[n]
  BY DEF Loop, KdfLoop, KdfRound
<1> HIDE DEF f
<1> DEFINE At(k) == IF k = 0 THEN Going(c) ELSE KdfRound(alg, f[k - 1])
<1>3. f = [k \in 0 .. n |-> At(k)]
  BY <1>1 DEF KdfLoop
<1>4. ASSUME NEW k \in 0 .. n PROVE f[k] = At(k)
  <2> HIDE DEF At
  <2>1. [j \in 0 .. n |-> At(j)][k] = At(k)
    OBVIOUS
  <2> QED
    BY <1>3, <2>1, Zenon
<1>5. f[0] = Going(c)
  <2>1. 0 \in 0 .. n /\ At(0) = Going(c)
    OBVIOUS
  <2> QED
    BY <1>4, <2>1, Zenon
<1>6. ASSUME NEW k \in 1 .. n PROVE f[k] = KdfRound(alg, f[k - 1])
  <2>1. k \in 0 .. n /\ k # 0
    OBVIOUS
  <2>2. f[k] = At(k)
    BY <1>4, <2>1, Zenon
  <2>3. At(k) = KdfRound(alg, f[k - 1])
    BY <2>1
  <2> QED
    BY <2>2, <2>3, Zenon
<1> QED
  BY <1>2, <1>5, <1>6 DEF IsKdfLoop

\* The context of an operation: its fields, and its numbers.
KdfFields == {"state", "info", "info_set", "number", "pos", "block", "ai", "key", "hmac",
              "salt", "seed", "label", "other", "cost"}
KdfShape(a, c) ==
    /\ DOMAIN c = KdfFields
    /\ c.state \in KdfStates
    /\ c.pos \in 0 .. HashLength
    /\ c.number \in 0 .. IF a = "PBKDF2" THEN LastCount ELSE LastBlock

Once(in, step) == Len(in.steps[step]) = 1
Never(in, step) == in.steps[step] = <<>>
\* An input was given once and is field x of the context, or not at all.
OnceAs(in, step, x) == Once(in, step) /\ x = Given(in, step)

\* What the inputs accepted so far make of the context of HKDF.
HkdfKey(a, in) ==
    IF a = "HKDF_EXPAND" THEN Given(in, "SECRET")
    ELSE Hmac(Given(in, "SALT"), <<Given(in, "SECRET")>>)
HkdfHas(a, c, in) ==
    /\ c.state \in {"INIT", "STARTED", "KEYED", "OUTPUT"}
    /\ c.info_set => OnceAs(in, "INFO", c.info)
    /\ ~c.info_set => Never(in, "INFO")
    /\ a = "HKDF_EXTRACT" => ~c.info_set
    /\ a # "HKDF_EXPAND" => c.hmac = Given(in, "SALT")
    /\ c.state = "INIT" => Never(in, "SALT")
    /\ c.state = "STARTED" => Once(in, "SALT")
    /\ c.state \in {"INIT", "STARTED"} => Never(in, "SECRET")
    /\ c.state \in {"KEYED", "OUTPUT"} =>
         /\ Once(in, "SECRET") /\ c.key = HkdfKey(a, in)
         /\ a = "HKDF_EXTRACT" => Once(in, "SALT") /\ c.block = c.key /\ c.number = 0
    /\ c.state = "KEYED" =>
         c.number = 0 /\ c.pos = IF a = "HKDF_EXTRACT" THEN 0 ELSE HashLength

\* Of the PRF of TLS 1.2 and the key derivation of PSK suites.
PrfKey(a, in) ==
    IF a = "TLS12_PRF" THEN Given(in, "SECRET")
    ELSE LET other == Given(in, "OTHER_SECRET")
         IN  [left |-> IF other = None THEN Data("zeros") ELSE other,
              psk |-> Given(in, "SECRET")]
PrfHas(a, c, in) ==
    /\ c.state \in {"INIT", "SEED_SET", "OTHER_KEY_SET", "KEY_SET", "LABEL_SET", "OUTPUT"}
    /\ c.state = "INIT" => Never(in, "SEED")
    /\ c.state # "INIT" => OnceAs(in, "SEED", c.seed)
    /\ c.state \in {"INIT", "SEED_SET"} => Never(in, "OTHER_SECRET")
    /\ c.state = "OTHER_KEY_SET" => OnceAs(in, "OTHER_SECRET", c.other) /\ c.other # None
    /\ c.state \in {"INIT", "SEED_SET", "OTHER_KEY_SET"} => Never(in, "SECRET")
    /\ c.state \in {"KEY_SET", "LABEL_SET", "OUTPUT"} =>
         Once(in, "SECRET") /\ c.key = PrfKey(a, in)
    /\ c.state \in {"LABEL_SET", "OUTPUT"} => OnceAs(in, "LABEL", c.label)
    /\ c.state \notin {"LABEL_SET", "OUTPUT"} => Never(in, "LABEL")
    /\ c.state # "OUTPUT" => c.number = 0 /\ c.pos = 0

\* Of PBKDF2.
PbkdfHas(c, in) ==
    /\ c.state \in {"INIT", "INPUT_COST_SET", "SALT_SET", "PASSWORD_SET", "OUTPUT"}
    /\ c.state = "INIT" => Never(in, "COST")
    /\ c.state # "INIT" => Once(in, "COST") /\ c.cost = InputCost
    /\ c.salt = in.steps["SALT"]
    /\ c.state \in {"INIT", "INPUT_COST_SET"} => Never(in, "SALT")
    /\ c.state \notin {"INIT", "INPUT_COST_SET"} => ~Never(in, "SALT")
    /\ c.state \in {"PASSWORD_SET", "OUTPUT"} => OnceAs(in, "PASSWORD", c.key)
    /\ c.state \notin {"PASSWORD_SET", "OUTPUT"} => Never(in, "PASSWORD")
    /\ c.state # "OUTPUT" => c.number = 0

\* Of the key derivation of TLS 1.2 J-PAKE.
EcjpakeHas(c, in) == c.state = "INIT" /\ c.number = 0 /\ c.key = Given(in, "SECRET")

KdfHas(a, c, in) ==
    /\ a \in Hkdfs => HkdfHas(a, c, in)
    /\ a \in Prfs => PrfHas(a, c, in)
    /\ a = "PBKDF2" => PbkdfHas(c, in)
    /\ a = "TLS12_ECJPAKE_TO_PMS" => EcjpakeHas(c, in)

\* And where the context is in the stream, after the first d bytes of it.
HkdfAt(a, c, in, d) ==
    /\ c.pos > 0 /\ c.number * HashLength + c.pos = d + HashLength
    /\ c.number > 0 => c.block = Reference(a, in, c.number)
PrfAt(a, c, in, d) ==
    /\ c.pos < HashLength /\ c.number * HashLength = d + c.pos
    /\ c.number > 0 =>
         /\ c.block = Reference(a, in, c.number)
         /\ c.ai = PrfSeed(PrfKey(a, in), Given(in, "LABEL"), Given(in, "SEED"), c.number)
KdfAt(a, c, in, d) ==
    /\ a \in {"HKDF", "HKDF_EXPAND", "PBKDF2"} => HkdfAt(a, c, in, d)
    /\ a = "HKDF_EXTRACT" => c.pos = d
    /\ a \in Prfs => PrfAt(a, c, in, d)

\* Bytes d + 1 to d + n of the stream.
IsStream(out, a, in, d, n) ==
    /\ IsSeq(out) /\ Len(out) = n
    /\ \A i \in 1 .. n :
         out[i] = Byte(Reference(a, in, (d + i - 1) \div HashLength + 1), (d + i - 1) % HashLength)

\* A loop that began after d bytes and has given k more.
KdfGoing(a, r, in, d, k) ==
    /\ DOMAIN r = {"status", "ctx", "out"}
    /\ KdfShape(a, r.ctx) /\ r.ctx.state = "OUTPUT"
    /\ KdfHas(a, r.ctx, in) /\ KdfAt(a, r.ctx, in, d + k)
    /\ IsStream(r.out, a, in, d, k)

LEMMA KdfNumbers ==
  /\ HashLength \in Nat \ {0} /\ LastBlock \in Nat \ {0} /\ LastCount \in Nat \ {0}
  /\ MasterSecret \in Nat \ {0} /\ SizeMax \in Nat /\ MasterSecret <= LastBlock * HashLength
BY KdfAssumption

LEMMA StreamGrows ==
  ASSUME NEW out, NEW a, NEW in, NEW d \in Nat, NEW k \in Nat, IsStream(out, a, in, d, k),
         NEW x, x = Byte(Reference(a, in, (d + k) \div HashLength + 1), (d + k) % HashLength)
  PROVE  IsStream(Append(out, x), a, in, d, k + 1)
<1> DEFINE B(i) == Byte(Reference(a, in, (d + i - 1) \div HashLength + 1), (d + i - 1) % HashLength)
<1>1. IsSeq(out) /\ Len(out) = k /\ \A i \in 1 .. k : out[i] = B(i)
  BY DEF IsStream
<1>2. B(k + 1) = x
  <2>1. d + (k + 1) - 1 = d + k
    OBVIOUS
  <2> QED
    BY <2>1
<1> DEFINE S == {out[i] : i \in 1 .. k} \cup {x}
<1>3. out \in Seq(S) /\ x \in S
  BY <1>1, InSeq
<1> DEFINE more == Append(out, x)
<1>4. more \in Seq(S) /\ Len(more) = k + 1 /\ more[k + 1] = x
      /\ \A i \in 1 .. k : more[i] = out[i]
  <2> HIDE DEF S
  <2> QED
    BY <1>1, <1>3, AppendProperties
<1>5. IsSeq(more)
  <2> HIDE DEF S, more
  <2> QED
    BY <1>4, FromSeq
<1>6. ASSUME NEW i \in 1 .. k + 1 PROVE more[i] = B(i)
  <2>1. i \in 1 .. k \/ i = k + 1
    OBVIOUS
  <2> HIDE DEF B, more, S
  <2> QED
    BY <1>1, <1>2, <1>4, <2>1
<1> QED
  BY <1>4, <1>5, <1>6 DEF IsStream, more

\* Where byte m + 1 of the stream is, when m bytes end a block.
LEMMA AtBlock ==
  ASSUME NEW m \in Nat, NEW n \in Nat, n * HashLength = m
  PROVE  m \div HashLength + 1 = n + 1 /\ m % HashLength = 0
<1>1. m = n * HashLength + 0 /\ 0 < HashLength /\ HashLength \in Nat
  BY KdfNumbers
<1> QED
  BY <1>1, Divided

\* And when p bytes of block n were given.
LEMMA InBlock ==
  ASSUME NEW m \in Nat, NEW n \in Nat, NEW p \in 1 .. HashLength - 1,
         n * HashLength + p = m + HashLength
  PROVE  n > 0 /\ m \div HashLength + 1 = n /\ m % HashLength = p
<1>1. HashLength \in Nat \ {0}
  BY KdfNumbers
<1>2. n # 0
  <2> SUFFICES ASSUME n = 0 PROVE FALSE
    OBVIOUS
  <2>1. n * HashLength = 0
    BY <1>1
  <2> QED
    BY <1>1, <2>1
<1>3. n - 1 \in Nat /\ (n - 1) * HashLength = n * HashLength - HashLength
      /\ n * HashLength \in Nat
  BY <1>1, <1>2
<1>4. m = (n - 1) * HashLength + p
  BY <1>1, <1>3
<1>5. m \div HashLength = n - 1 /\ m % HashLength = p
  <2>1. p \in Nat /\ p < HashLength /\ HashLength \in Nat /\ HashLength > 0 /\ n - 1 \in Nat
    BY <1>1, <1>3
  <2> HIDE <1>3
  <2> QED
    BY <1>4, <2>1, Divided
<1> QED
  BY <1>2, <1>3, <1>5

LEMMA LastBlockLeft ==
  ASSUME NEW m \in Nat, NEW n \in Nat, NEW L \in Nat, n * HashLength = m,
         m + 1 <= L * HashLength
  PROVE  n < L
<1>1. HashLength \in Nat \ {0}
  BY KdfNumbers
<1> SUFFICES ASSUME L <= n PROVE FALSE
  OBVIOUS
<1>2. L * HashLength <= n * HashLength
  BY <1>1, Below
<1> QED
  BY <1>1, <1>2

\* An output changes no field that holds an input.
KdfSameInputs(c, e) ==
    /\ DOMAIN e = KdfFields
    /\ e.state = c.state /\ e.info = c.info /\ e.info_set = c.info_set /\ e.key = c.key
    /\ e.hmac = c.hmac /\ e.salt = c.salt /\ e.seed = c.seed /\ e.label = c.label
    /\ e.other = c.other /\ e.cost = c.cost

LEMMA KdfKeepsInputs ==
  ASSUME NEW a \in Kdfs, NEW c, NEW in, KdfHas(a, c, in), c.state = "OUTPUT",
         NEW e, KdfSameInputs(c, e),
         a = "HKDF_EXTRACT" => e.block = c.block /\ e.number = c.number
  PROVE  KdfHas(a, e, in)
<1>1. a \in Hkdfs => HkdfHas(a, e, in)
  BY DEF KdfHas, HkdfHas, KdfSameInputs, OnceAs
<1>2. a \in Prfs => PrfHas(a, e, in)
  BY DEF KdfHas, PrfHas, KdfSameInputs, OnceAs
<1>3. a = "PBKDF2" => PbkdfHas(e, in)
  BY DEF KdfHas, PbkdfHas, KdfSameInputs, OnceAs
<1>4. a = "TLS12_ECJPAKE_TO_PMS" => EcjpakeHas(e, in)
  BY DEF KdfHas, EcjpakeHas
<1> QED
  BY <1>1, <1>2, <1>3, <1>4 DEF KdfHas

LEMMA TakeIs ==
  ASSUME NEW r, DOMAIN r = {"status", "ctx", "out"}, NEW e, NEW i
  PROVE  LET s == Take(r, e, i)
         IN  /\ DOMAIN s = {"status", "ctx", "out"}
             /\ s.status = r.status /\ s.ctx = e /\ s.out = Append(r.out, Byte(e.block, i))
BY DEF Take

LEMMA HkdfReferences ==
  ASSUME NEW a \in {"HKDF", "HKDF_EXPAND"}, NEW in, NEW b
  PROVE  Reference(a, in, b) = HkdfReference(HkdfKey(a, in), Given(in, "INFO"), b)
BY DEF Reference, HkdfKey

LEMMA HkdfBlockIs ==
  ASSUME NEW c, DOMAIN c = KdfFields
  PROVE  LET b == HkdfBlock(c)
         IN  /\ KdfSameInputs(c, b) /\ b.pos = 0 /\ b.number = c.number + 1
             /\ b.block = Hmac(c.key, (IF b.number = 1 THEN <<>> ELSE <<c.block>>)
                                        \o <<c.info, Number(b.number)>>)
BY DEF KdfFields, KdfSameInputs, HkdfBlock

\* Before the next byte of HKDF, its block is there.
LEMMA HkdfBlockReady ==
  ASSUME NEW a \in {"HKDF", "HKDF_EXPAND"}, NEW c, NEW in, NEW m \in Nat,
         KdfShape(a, c), c.state = "OUTPUT", c.info_set, KdfHas(a, c, in), HkdfAt(a, c, in, m),
         m + 1 <= LastBlock * HashLength,
         NEW b, b = IF c.pos = HashLength THEN HkdfBlock(c) ELSE c
  PROVE  /\ KdfSameInputs(c, b)
         /\ b.pos \in 0 .. HashLength - 1 /\ b.number \in 1 .. LastBlock
         /\ b.number * HashLength + b.pos = m + HashLength
         /\ b.block = Reference(a, in, b.number)
         /\ b.number = m \div HashLength + 1 /\ b.pos = m % HashLength
         /\ ~(c.pos = HashLength /\ c.number = HkdfLast(a))
<1>1. HashLength \in Nat \ {0} /\ LastBlock \in Nat \ {0}
  BY KdfNumbers
<1>2. c.number \in 0 .. LastBlock /\ c.pos \in 1 .. HashLength /\ DOMAIN c = KdfFields
      /\ c.number * HashLength + c.pos = m + HashLength
      /\ (c.number > 0 => c.block = Reference(a, in, c.number))
  BY <1>1 DEF KdfShape, HkdfAt
<1>3. c.key = HkdfKey(a, in) /\ c.info = Given(in, "INFO")
  BY DEF KdfHas, HkdfHas, Hkdfs, OnceAs
<1>4. CASE c.pos = HashLength
  <2>1. c.number * HashLength = m
    <3>1. c.number * HashLength \in Nat
      BY <1>1, <1>2
    <3> QED
      BY <1>1, <1>2, <1>4, <3>1
  <2>2. c.number < LastBlock
    BY <1>1, <1>2, <2>1, LastBlockLeft
  <2>3. b = HkdfBlock(c)
    BY <1>4
  <2>4. /\ KdfSameInputs(c, b) /\ b.pos = 0 /\ b.number = c.number + 1
        /\ b.block = Hmac(c.key, (IF b.number = 1 THEN <<>> ELSE <<c.block>>)
                                   \o <<c.info, Number(b.number)>>)
    BY <1>2, <2>3, HkdfBlockIs
  <2>5. b.block = Reference(a, in, b.number)
    <3> DEFINE T(n) == HkdfReference(c.key, c.info, n)
    <3>1. T(c.number + 1) = Hmac(c.key, (IF c.number + 1 = 1 THEN <<>> ELSE <<T(c.number)>>)
                                          \o <<c.info, Number(c.number + 1)>>)
      BY <1>2, HkdfNextBlock
    <3>2. c.number + 1 # 1 => c.block = T(c.number)
      BY <1>2, <1>3, HkdfReferences
    <3>3. T(b.number) = Reference(a, in, b.number)
      BY <1>3, HkdfReferences
    <3> HIDE DEF T
    <3> QED
      BY <2>4, <3>1, <3>2, <3>3
  <2>6. b.number * HashLength + b.pos = m + HashLength
    <3>1. (c.number + 1) * HashLength = c.number * HashLength + HashLength
      BY <1>1, <1>2
    <3> QED
      BY <1>1, <2>1, <2>4, <3>1
  <2>7. m \div HashLength + 1 = c.number + 1 /\ m % HashLength = 0
    BY <1>2, <2>1, AtBlock
  <2>8. HkdfLast(a) = LastBlock
    BY DEF HkdfLast
  <2>9. b.pos \in 0 .. HashLength - 1 /\ b.number \in 1 .. LastBlock /\ c.number # LastBlock
    <3>1. c.number \in Nat /\ b.number = c.number + 1 /\ b.pos = 0
      BY <1>2, <2>4
    <3> QED
      BY <1>1, <2>2, <3>1
  <2> QED
    BY <2>4, <2>5, <2>6, <2>7, <2>8, <2>9, Zenon
<1>5. CASE c.pos # HashLength
  <2>1. c.pos \in 1 .. HashLength - 1
    BY <1>1, <1>2, <1>5
  <2>2. c.number > 0 /\ m \div HashLength + 1 = c.number /\ m % HashLength = c.pos
    BY <1>2, <2>1, InBlock
  <2>3. KdfSameInputs(c, b)
    BY <1>2, <1>5 DEF KdfSameInputs
  <2> QED
    BY <1>1, <1>2, <1>5, <2>1, <2>2, <2>3
<1> QED
  BY <1>4, <1>5

LEMMA HkdfGoes ==
  ASSUME NEW a \in {"HKDF", "HKDF_EXPAND"}, NEW r, NEW in, NEW d \in Nat, NEW k \in Nat,
         KdfGoing(a, r, in, d, k), r.status = "OK", r.ctx.info_set,
         d + k + 1 <= LastBlock * HashLength
  PROVE  LET s == NextByte(a, r)
         IN  KdfGoing(a, s, in, d, k + 1) /\ s.status = "OK" /\ s.ctx.info_set
<1> DEFINE c == r.ctx
           b == IF c.pos = HashLength THEN HkdfBlock(c) ELSE c
           e == [b EXCEPT !.pos = @ + 1]
           s == NextByte(a, r)
<1>1. /\ DOMAIN r = {"status", "ctx", "out"} /\ KdfShape(a, c) /\ c.state = "OUTPUT"
      /\ KdfHas(a, c, in) /\ HkdfAt(a, c, in, d + k) /\ IsStream(r.out, a, in, d, k)
  BY DEF KdfGoing, KdfAt
<1>2. HashLength \in Nat \ {0} /\ LastBlock \in Nat \ {0} /\ d + k \in Nat
  BY KdfNumbers
<1> HIDE DEF b
<1>3. /\ KdfSameInputs(c, b)
      /\ b.pos \in 0 .. HashLength - 1 /\ b.number \in 1 .. LastBlock
      /\ b.number * HashLength + b.pos = d + k + HashLength
      /\ b.block = Reference(a, in, b.number)
      /\ b.number = (d + k) \div HashLength + 1 /\ b.pos = (d + k) % HashLength
      /\ ~(c.pos = HashLength /\ c.number = HkdfLast(a))
  BY <1>1, <1>2, HkdfBlockReady DEF b
<1>4. s = Take(r, e, b.pos)
  <2>1. s = HkdfByte(a, r)
    <3>1. a \in Hkdfs /\ a \notin Prfs
      BY DEF Hkdfs, Prfs
    <3> QED
      BY <3>1 DEF NextByte
  <2> QED
    BY <1>3, <2>1 DEF HkdfByte, b
<1> HIDE DEF s
<1>5. KdfSameInputs(c, e) /\ e.pos = b.pos + 1 /\ e.number = b.number /\ e.block = b.block
  BY <1>3 DEF KdfSameInputs, KdfFields
<1> HIDE DEF e
<1>6. /\ DOMAIN s = {"status", "ctx", "out"} /\ s.status = "OK" /\ s.ctx = e
      /\ s.out = Append(r.out, Byte(b.block, b.pos))
  BY <1>1, <1>4, <1>5, TakeIs
<1>7. IsStream(s.out, a, in, d, k + 1)
  <2>1. Byte(b.block, b.pos) = Byte(Reference(a, in, (d + k) \div HashLength + 1), (d + k) % HashLength)
    BY <1>3
  <2> QED
    BY <1>1, <1>6, <2>1, StreamGrows
<1>8. HkdfAt(a, e, in, d + (k + 1))
  <2>1. e.pos > 0 /\ b.number * HashLength \in Nat
    BY <1>2, <1>3, <1>5
  <2>2. e.number * HashLength + e.pos = d + (k + 1) + HashLength
    BY <1>2, <1>3, <1>5, <2>1
  <2> QED
    BY <1>3, <1>5, <2>1, <2>2 DEF HkdfAt
<1>9. KdfShape(a, e)
  BY <1>1, <1>2, <1>3, <1>5 DEF KdfShape, KdfSameInputs
<1>10. KdfHas(a, e, in)
  <2>1. a \in Kdfs /\ a # "HKDF_EXTRACT"
    BY DEF Kdfs, Hkdfs
  <2> QED
    BY <1>1, <1>5, <2>1, KdfKeepsInputs
<1>11. e.state = "OUTPUT" /\ e.info_set
  BY <1>1, <1>5, Zenon DEF KdfSameInputs
<1>12. KdfAt(a, e, in, d + (k + 1))
  BY <1>8 DEF KdfAt, Prfs
<1> QED
  BY <1>6, <1>7, <1>9, <1>10, <1>11, <1>12, Zenon DEF KdfGoing, s

LEMMA PrfReferences ==
  ASSUME NEW a \in Prfs, NEW in, NEW b
  PROVE  Reference(a, in, b) = PrfReference(PrfKey(a, in), Given(in, "LABEL"), Given(in, "SEED"), b)
BY DEF Reference, PrfKey, Prfs

LEMMA PrfBlockIs ==
  ASSUME NEW c, DOMAIN c = KdfFields
  PROVE  LET b == psa_key_derivation_tls12_prf_generate_next_block(c)
         IN  /\ KdfSameInputs(c, b) /\ b.pos = HashLength /\ b.number = c.number + 1
             /\ b.ai = Hmac(c.key, IF b.number = 1 THEN <<c.label, c.seed>> ELSE <<c.ai>>)
             /\ b.block = Hmac(c.key, <<b.ai>> \o <<c.label, c.seed>>)
BY DEF KdfFields, KdfSameInputs, psa_key_derivation_tls12_prf_generate_next_block

LEMMA OneAndTwo == \A x, y, z : <<x>> \o <<y, z>> = <<x, y, z>>
<1> TAKE x, y, z
<1> DEFINE s == <<x>>
           t == <<y, z>>
           u == <<x, y, z>>
<1>1. u \in Seq({x, y, z}) /\ Len(u) = 3 /\ u[1] = x /\ u[2] = y /\ u[3] = z
  OBVIOUS
<1>2. IsSeq(s) /\ Len(s) = 1 /\ s[1] = x
  BY OneCell
<1>3. IsSeq(t) /\ Len(t) = 2 /\ t[1] = y /\ t[2] = z
  BY TwoCells
<1>4. IsSeq(u)
  BY <1>1, FromSeq
<1> HIDE DEF s, t, u
<1>5. /\ IsSeq(s \o t) /\ Len(s \o t) = Len(s) + Len(t)
      /\ \A i \in 1 .. Len(s) : (s \o t)[i] = s[i]
      /\ \A i \in 1 .. Len(t) : (s \o t)[Len(s) + i] = t[i]
  <2>1. IsJoin(s \o t, s, t)
    BY <1>2, <1>3, Joins
  <2> QED
    BY <2>1 DEF IsJoin
<1>6. (s \o t)[1] = x /\ (s \o t)[2] = y /\ (s \o t)[3] = z /\ Len(s \o t) = 3
  <2>1. 1 \in 1 .. Len(s) /\ 1 \in 1 .. Len(t) /\ 2 \in 1 .. Len(t)
    BY <1>2, <1>3
  <2>2. (s \o t)[1] = x
    BY <1>2, <1>5, <2>1
  <2>3. (s \o t)[1 + 1] = y /\ (s \o t)[1 + 2] = z
    BY <1>2, <1>3, <1>5, <2>1
  <2> QED
    BY <1>2, <1>3, <1>5, <2>2, <2>3
<1>7. \A i \in 1 .. 3 : (s \o t)[i] = u[i]
  <2>1. \A i \in 1 .. 3 : i = 1 \/ i = 2 \/ i = 3
    OBVIOUS
  <2> QED
    BY <1>1, <1>6, <2>1
<1>8. s \o t = u
  BY <1>1, <1>4, <1>5, <1>6, <1>7, SameSeq
<1> QED
  BY <1>8 DEF s, t, u

\* Before the next byte of the PRF, its block is there.
LEMMA PrfBlockReady ==
  ASSUME NEW a \in Prfs, NEW c, NEW in, NEW m \in Nat,
         KdfShape(a, c), c.state = "OUTPUT", KdfHas(a, c, in), PrfAt(a, c, in, m),
         ~(c.pos = 0 /\ c.number = LastBlock),
         NEW b, b = IF c.pos = 0 THEN psa_key_derivation_tls12_prf_generate_next_block(c) ELSE c
  PROVE  /\ KdfSameInputs(c, b)
         /\ b.pos \in 1 .. HashLength /\ b.number \in 1 .. LastBlock
         /\ b.number * HashLength = m + b.pos
         /\ b.block = Reference(a, in, b.number)
         /\ b.ai = PrfSeed(PrfKey(a, in), Given(in, "LABEL"), Given(in, "SEED"), b.number)
         /\ b.number = m \div HashLength + 1 /\ HashLength - b.pos = m % HashLength
<1>1. HashLength \in Nat \ {0} /\ LastBlock \in Nat \ {0}
  BY KdfNumbers
<1> DEFINE K == PrfKey(a, in)
           label == Given(in, "LABEL")
           seed == Given(in, "SEED")
           A(n) == PrfSeed(K, label, seed, n)
<1>2. c.number \in 0 .. LastBlock /\ c.pos \in 0 .. HashLength - 1 /\ DOMAIN c = KdfFields
      /\ c.number * HashLength = m + c.pos
      /\ (c.number > 0 => c.block = Reference(a, in, c.number) /\ c.ai = A(c.number))
  <2>1. a # "PBKDF2"
    BY DEF Prfs
  <2> QED
    BY <1>1, <2>1 DEF KdfShape, PrfAt
<1>3. c.key = K /\ c.label = label /\ c.seed = seed
  BY DEF KdfHas, PrfHas, OnceAs
<1>4. CASE c.pos = 0
  <2>1. c.number * HashLength = m
    BY <1>1, <1>2, <1>4
  <2>2. c.number < LastBlock
    BY <1>1, <1>2, <1>4
  <2>3. b = psa_key_derivation_tls12_prf_generate_next_block(c)
    BY <1>4
  <2>4. /\ KdfSameInputs(c, b) /\ b.pos = HashLength /\ b.number = c.number + 1
        /\ b.ai = Hmac(c.key, IF b.number = 1 THEN <<c.label, c.seed>> ELSE <<c.ai>>)
        /\ b.block = Hmac(c.key, <<b.ai>> \o <<c.label, c.seed>>)
    BY <1>2, <2>3, PrfBlockIs
  <2>5. b.ai = A(b.number)
    <3>1. A(c.number + 1) = Hmac(K, IF c.number + 1 = 1 THEN <<label, seed>> ELSE <<A(c.number)>>)
      BY <1>2, PrfNextSeed
    <3>2. c.number + 1 # 1 => c.ai = A(c.number)
      BY <1>2
    <3> HIDE DEF A, K, label, seed
    <3> QED
      BY <1>3, <2>4, <3>1, <3>2
  <2>6. b.block = Reference(a, in, b.number)
    <3>1. Reference(a, in, b.number) = Hmac(K, <<A(b.number), label, seed>>)
      BY PrfReferences, PrfReferenceIs
    <3> HIDE DEF A, K, label, seed
    <3>2. b.block = Hmac(K, <<A(b.number)>> \o <<label, seed>>)
      BY <1>3, <2>4, <2>5, Zenon
    <3> QED
      BY <3>1, <3>2, OneAndTwo, Zenon
  <2>7. b.number * HashLength = m + b.pos
    <3>1. (c.number + 1) * HashLength = c.number * HashLength + HashLength
      BY <1>1, <1>2
    <3> QED
      BY <1>1, <2>1, <2>4, <3>1
  <2>8. m \div HashLength + 1 = c.number + 1 /\ m % HashLength = 0
    BY <1>2, <2>1, AtBlock
  <2>9. b.pos \in 1 .. HashLength /\ b.number \in 1 .. LastBlock /\ HashLength - b.pos = 0
    <3>1. c.number \in Nat /\ b.number = c.number + 1 /\ b.pos = HashLength
      BY <1>2, <2>4
    <3> QED
      BY <1>1, <2>2, <3>1
  <2> QED
    BY <2>4, <2>5, <2>6, <2>7, <2>8, <2>9, Zenon
<1>5. CASE c.pos # 0
  <2> DEFINE p == HashLength - c.pos
  <2>1. p \in 1 .. HashLength - 1 /\ c.number \in Nat /\ c.pos = HashLength - p
        /\ c.pos \in 1 .. HashLength
    BY <1>1, <1>2, <1>5
  <2>2. c.number * HashLength + p = m + HashLength
    BY <1>1, <1>2, <2>1
  <2> HIDE DEF p
  <2>3. c.number > 0 /\ m \div HashLength + 1 = c.number /\ m % HashLength = p
    BY <2>1, <2>2, InBlock
  <2>4. b = c
    BY <1>5
  <2>5. KdfSameInputs(c, b)
    BY <1>2, <2>4 DEF KdfSameInputs
  <2>6. c.number \in 1 .. LastBlock
    BY <1>1, <1>2, <2>3
  <2>7. c.block = Reference(a, in, c.number) /\ c.ai = A(c.number)
    BY <1>2, <2>3
  <2>8. c.number * HashLength = m + c.pos
    BY <1>2
  <2>9. HashLength - c.pos = p
    BY DEF p
  <2> QED
    BY <2>1, <2>3, <2>4, <2>5, <2>6, <2>7, <2>8, <2>9, Zenon
<1> QED
  BY <1>4, <1>5

\* Another byte, unless the block counter has come to its end.
LEMMA PrfGoes ==
  ASSUME NEW a \in Prfs, NEW r, NEW in, NEW d \in Nat, NEW k \in Nat,
         KdfGoing(a, r, in, d, k), r.status = "OK"
  PROVE  LET s == NextByte(a, r)
         IN  /\ s.status = "OK" => KdfGoing(a, s, in, d, k + 1)
             /\ d + k + 1 <= LastBlock * HashLength => s.status = "OK"
<1> DEFINE c == r.ctx
           b == IF c.pos = 0 THEN psa_key_derivation_tls12_prf_generate_next_block(c) ELSE c
           e == [b EXCEPT !.pos = @ - 1]
           s == NextByte(a, r)
<1>1. /\ DOMAIN r = {"status", "ctx", "out"} /\ KdfShape(a, c) /\ c.state = "OUTPUT"
      /\ KdfHas(a, c, in) /\ PrfAt(a, c, in, d + k) /\ IsStream(r.out, a, in, d, k)
  BY DEF KdfGoing, KdfAt
<1>2. HashLength \in Nat \ {0} /\ LastBlock \in Nat \ {0} /\ d + k \in Nat
  BY KdfNumbers
<1>3. s = PrfByte(r)
  <2>1. a \in Prfs /\ a \notin Hkdfs
    BY DEF Hkdfs, Prfs
  <2> QED
    BY <2>1 DEF NextByte
<1> HIDE DEF b, s
<1>4. CASE c.pos = 0 /\ c.number = LastBlock
  <2>1. s.status # "OK"
    BY <1>3, <1>4 DEF PrfByte, Failed
  <2>2. ~(d + k + 1 <= LastBlock * HashLength)
    <3>1. c.number \in Nat /\ c.number * HashLength = d + k
      BY <1>1, <1>2, <1>4 DEF PrfAt
    <3>2. ~(c.number < LastBlock)
      BY <1>2, <1>4
    <3> QED
      BY <1>2, <3>1, <3>2, LastBlockLeft
  <2> QED
    BY <2>1, <2>2 DEF s
<1>5. CASE ~(c.pos = 0 /\ c.number = LastBlock)
  <2>1. /\ KdfSameInputs(c, b)
        /\ b.pos \in 1 .. HashLength /\ b.number \in 1 .. LastBlock
        /\ b.number * HashLength = d + k + b.pos
        /\ b.block = Reference(a, in, b.number)
        /\ b.ai = PrfSeed(PrfKey(a, in), Given(in, "LABEL"), Given(in, "SEED"), b.number)
        /\ b.number = (d + k) \div HashLength + 1 /\ HashLength - b.pos = (d + k) % HashLength
    BY <1>1, <1>2, <1>5, PrfBlockReady DEF b
  <2>2. s = Take(r, e, HashLength - b.pos)
    BY <1>3, <1>5 DEF PrfByte, b
  <2>3. KdfSameInputs(c, e) /\ e.pos = b.pos - 1 /\ e.number = b.number /\ e.block = b.block
        /\ e.ai = b.ai
    BY <2>1 DEF KdfSameInputs, KdfFields
  <2> HIDE DEF e
  <2>4. /\ DOMAIN s = {"status", "ctx", "out"} /\ s.status = "OK" /\ s.ctx = e
        /\ s.out = Append(r.out, Byte(b.block, HashLength - b.pos))
    BY <1>1, <2>2, <2>3, TakeIs
  <2>5. IsStream(s.out, a, in, d, k + 1)
    <3>1. Byte(b.block, HashLength - b.pos)
            = Byte(Reference(a, in, (d + k) \div HashLength + 1), (d + k) % HashLength)
      BY <2>1
    <3> QED
      BY <1>1, <2>4, <3>1, StreamGrows
  <2>6. PrfAt(a, e, in, d + (k + 1))
    <3>1. e.pos < HashLength /\ b.number * HashLength \in Nat
      BY <1>2, <2>1, <2>3
    <3>2. e.number * HashLength = d + (k + 1) + e.pos
      BY <1>2, <2>1, <2>3, <3>1
    <3> QED
      BY <2>1, <2>3, <3>1, <3>2 DEF PrfAt
  <2>7. KdfShape(a, e)
    <3>1. a # "PBKDF2"
      BY DEF Prfs
    <3> QED
      BY <1>1, <1>2, <2>1, <2>3, <3>1 DEF KdfShape, KdfSameInputs
  <2>8. KdfHas(a, e, in)
    <3>1. a \in Kdfs /\ a # "HKDF_EXTRACT"
      BY DEF Kdfs, Prfs
    <3> QED
      BY <1>1, <2>3, <3>1, KdfKeepsInputs
  <2>9. e.state = "OUTPUT"
    BY <1>1, <2>3, Zenon DEF KdfSameInputs
  <2>10. KdfAt(a, e, in, d + (k + 1))
    BY <2>6 DEF KdfAt, Prfs
  <2> QED
    BY <2>4, <2>5, <2>7, <2>8, <2>9, <2>10, Zenon DEF KdfGoing, s
<1> QED
  BY <1>4, <1>5 DEF s

\* The rounds of a block of PBKDF2 are defined one from the other, and so are the
\* terms U_1, U_2, ... of RFC 8018.
PbkdfTerm(key, message, U, i) == Hmac(key, IF i = 1 THEN message ELSE <<U[i - 1]>>)
PbkdfTerms(key, message, n, U) == U = [i \in 1 .. n |-> PbkdfTerm(key, message, U, i)]
PbkdfRound(key, message, f, i) ==
    IF i = 1 THEN [U_i |-> Hmac(key, message), sum |-> <<Hmac(key, message)>>]
    ELSE LET U_i == Hmac(key, <<f[i - 1].U_i>>)
         IN  [U_i |-> U_i, sum |-> Append(f[i - 1].sum, U_i)]
PbkdfChain(key, message, n, f) == f = [i \in 1 .. n |-> PbkdfRound(key, message, f, i)]

LEMMA PbkdfTermsExist ==
  ASSUME NEW key, NEW message, NEW n \in Nat
  PROVE  \E U : PbkdfTerms(key, message, n, U)
<1> DEFINE S == {m \in Nat : \E U : PbkdfTerms(key, message, m, U)}
<1>1. 0 \in S
  <2> DEFINE U == [i \in 1 .. 0 |-> 0]
  <2>1. PbkdfTerms(key, message, 0, U)
    BY DEF PbkdfTerms
  <2> QED
    BY <2>1
<1>2. ASSUME NEW k \in 1 .. n, k - 1 \in S PROVE k \in S
  <2>1. PICK T : PbkdfTerms(key, message, k - 1, T)
    BY <1>2
  <2> DEFINE Term(f, i) == PbkdfTerm(key, message, f, i)
             U == [i \in 1 .. k |-> Term(T, i)]
  <2>2. T = [i \in 1 .. k - 1 |-> Term(T, i)]
    BY <2>1 DEF PbkdfTerms
  <2>3. ASSUME NEW i \in 1 .. k PROVE Term(U, i) = Term(T, i)
    <3>1. CASE i = 1
      BY <3>1 DEF PbkdfTerm
    <3>2. CASE i # 1
      <4>1. i - 1 \in 1 .. k - 1 /\ i - 1 \in 1 .. k
        BY <3>2
      <4>2. U[i - 1] = T[i - 1]
        <5> HIDE DEF Term
        <5> QED
          BY <4>1, <2>2
      <4> QED
        BY <4>2 DEF PbkdfTerm
    <3> QED
      BY <3>1, <3>2
  <2>4. U = [i \in 1 .. k |-> Term(U, i)]
    <3> HIDE DEF Term
    <3>1. \A V : (\A i \in 1 .. k : Term(V, i) = Term(T, i)) =>
                   [i \in 1 .. k |-> Term(T, i)] = [i \in 1 .. k |-> Term(V, i)]
      OBVIOUS
    <3> HIDE DEF U
    <3>2. U = [i \in 1 .. k |-> Term(T, i)]
      BY DEF U
    <3> QED
      BY <2>3, <3>1, <3>2
  <2>5. PbkdfTerms(key, message, k, U)
    <3> HIDE DEF U
    <3> QED
      BY <2>4 DEF PbkdfTerms
  <2> QED
    BY <2>5
<1> HIDE DEF S
<1>3. n \in S
  BY <1>1, <1>2, UpTo
<1> QED
  BY <1>3 DEF S

\* What there is after round k.
PbkdfSum(U, k) == [U_i |-> U[k], sum |-> [i \in 1 .. k |-> U[i]]]
PbkdfBefore(U, f, k) == k # 1 => f[k - 1] = PbkdfSum(U, k - 1)

\* A round on the terms so far gives the terms with the next one.
LEMMA PbkdfRoundAdds ==
  ASSUME NEW key, NEW message, NEW n \in Nat, NEW U, PbkdfTerms(key, message, n, U),
         NEW f, NEW k \in 1 .. n,
         PbkdfBefore(U, f, k)
  PROVE  PbkdfRound(key, message, f, k) = PbkdfSum(U, k)
<1>1. U[k] = PbkdfTerm(key, message, U, k)
  <2> DEFINE Term(i) == PbkdfTerm(key, message, U, i)
  <2>1. U = [i \in 1 .. n |-> Term(i)]
    BY DEF PbkdfTerms
  <2> HIDE DEF Term
  <2>2. [i \in 1 .. n |-> Term(i)][k] = Term(k)
    OBVIOUS
  <2>3. U[k] = Term(k)
    BY <2>1, <2>2, Zenon
  <2> QED
    BY <2>3 DEF Term
<1>2. CASE k = 1
  <2>1. U[1] = Hmac(key, message)
    BY <1>1, <1>2 DEF PbkdfTerm
  <2>2. <<U[1]>> = [i \in 1 .. 1 |-> U[i]]
    OBVIOUS
  <2> QED
    BY <1>2, <2>1, <2>2 DEF PbkdfRound, PbkdfSum
<1>3. CASE k # 1
  <2> DEFINE s == [i \in 1 .. k - 1 |-> U[i]]
             x == U[k]
             T == {U[i] : i \in 1 .. k}
  <2>1. f[k - 1].U_i = U[k - 1] /\ f[k - 1].sum = s
    BY <1>3 DEF PbkdfSum, PbkdfBefore
  <2>2. Hmac(key, <<f[k - 1].U_i>>) = x
    BY <1>1, <1>3, <2>1 DEF PbkdfTerm
  <2>3. PbkdfRound(key, message, f, k) = [U_i |-> x, sum |-> Append(s, x)]
    BY <1>3, <2>1, <2>2 DEF PbkdfRound
  <2>4. s \in Seq(T) /\ Len(s) = k - 1 /\ x \in T
    OBVIOUS
  <2>5. Append(s, x) = [i \in 1 .. k |-> U[i]]
    <3>1. /\ Append(s, x) \in Seq(T) /\ Len(Append(s, x)) = k
          /\ \A i \in 1 .. k - 1 : Append(s, x)[i] = U[i]
          /\ Append(s, x)[k] = U[k]
      BY <2>4
    <3>2. [i \in 1 .. k |-> U[i]] \in Seq(T) /\ Len([i \in 1 .. k |-> U[i]]) = k
      OBVIOUS
    <3>3. \A i \in 1 .. k : i \in 1 .. k - 1 \/ i = k
      OBVIOUS
    <3> HIDE DEF s, x, T
    <3> QED
      BY <3>1, <3>2, <3>3, SeqEqual
  <2> QED
    BY <2>3, <2>5 DEF PbkdfSum
<1> QED
  BY <1>2, <1>3

\* The rounds add up the terms, in order.
LEMMA PbkdfRoundsAre ==
  ASSUME NEW key, NEW message, NEW n \in Nat \ {0}, NEW U, PbkdfTerms(key, message, n, U)
  PROVE  PbkdfRounds(key, message, n).sum = U
<1> DEFINE At(k) == PbkdfSum(U, k)
           g == [k \in 1 .. n |-> At(k)]
           f == CHOOSE f : PbkdfChain(key, message, n, f)
<1>0. n \in Nat
  OBVIOUS
<1>1. PbkdfChain(key, message, n, g)
  <2>1. ASSUME NEW k \in 1 .. n PROVE PbkdfRound(key, message, g, k) = At(k)
    <3>1. PbkdfBefore(U, g, k)
      <4>1. k # 1 => g[k - 1] = At(k - 1)
        <5> HIDE DEF At
        <5> QED
          OBVIOUS
      <4> HIDE DEF g
      <4> QED
        BY <4>1 DEF PbkdfBefore
    <3> HIDE DEF g
    <3> QED
      BY <1>0, <3>1, PbkdfRoundAdds
  <2> HIDE DEF At
  <2>2. \A h : (\A k \in 1 .. n : PbkdfRound(key, message, h, k) = At(k)) =>
            [k \in 1 .. n |-> PbkdfRound(key, message, h, k)] = [k \in 1 .. n |-> At(k)]
    OBVIOUS
  <2>3. [k \in 1 .. n |-> PbkdfRound(key, message, g, k)] = [k \in 1 .. n |-> At(k)]
    <3> HIDE DEF g
    <3> QED
      BY <2>1, <2>2
  <2> QED
    BY <2>3 DEF PbkdfChain
<1>2. PbkdfChain(key, message, n, f)
  <2> HIDE DEF g
  <2> QED
    BY <1>1
<1>3. PbkdfRounds(key, message, n) = f[n]
  BY DEF PbkdfRounds, PbkdfChain, PbkdfRound
<1> HIDE DEF f, g
<1>4. ASSUME NEW k \in 1 .. n PROVE f[k] = PbkdfRound(key, message, f, k)
  <2> DEFINE Round(i) == PbkdfRound(key, message, f, i)
  <2>1. f = [i \in 1 .. n |-> Round(i)]
    BY <1>2 DEF PbkdfChain
  <2> HIDE DEF Round
  <2>2. [i \in 1 .. n |-> Round(i)][k] = Round(k)
    OBVIOUS
  <2>3. f[k] = Round(k)
    BY <2>1, <2>2, Zenon
  <2> QED
    BY <2>3 DEF Round
<1> DEFINE S == {k \in 0 .. n : k = 0 \/ f[k] = At(k)}
<1>5. 0 \in S
  OBVIOUS
<1>6. ASSUME NEW k \in 1 .. n, k - 1 \in S PROVE k \in S
  <2>1. PbkdfBefore(U, f, k)
    <3>1. k # 1 => f[k - 1] = At(k - 1)
      <4> HIDE DEF At
      <4> QED
        BY <1>6
    <3> QED
      BY <3>1 DEF PbkdfBefore
  <2>2. PbkdfRound(key, message, f, k) = At(k)
    BY <1>0, <2>1, PbkdfRoundAdds
  <2>3. f[k] = At(k) /\ k \in 0 .. n
    <3>1. f[k] = PbkdfRound(key, message, f, k)
      BY <1>4
    <3> QED
      BY <2>2, <3>1
  <2> HIDE DEF At
  <2> QED
    BY <2>3
<1>7. n \in S
  <2> HIDE DEF S
  <2> QED
    BY <1>5, <1>6, UpTo
<1>8. f[n] = At(n)
  <2> HIDE DEF At
  <2> QED
    BY <1>7
<1>9. U = [i \in 1 .. n |-> U[i]]
  <2> DEFINE Term(i) == PbkdfTerm(key, message, U, i)
  <2>1. U = [i \in 1 .. n |-> Term(i)]
    BY DEF PbkdfTerms
  <2> HIDE DEF Term
  <2> QED
    BY <2>1
<1> QED
  BY <1>3, <1>8, <1>9 DEF PbkdfSum

\* A block of PBKDF2 is the one of RFC 8018.
LEMMA PbkdfBlockRight ==
  ASSUME NEW password, NEW salt, NEW n \in Nat \ {0}, NEW b
  PROVE  Xor(PbkdfRounds(password, Append(salt, Number(b)), n).sum)
            = PbkdfReference(password, salt, n, b)
<1> DEFINE message == Append(salt, Number(b))
           U == CHOOSE U : PbkdfTerms(password, message, n, U)
<1>1. PbkdfTerms(password, message, n, U)
  <2> HIDE DEF message
  <2> QED
    BY PbkdfTermsExist
<1>2. PbkdfReference(password, salt, n, b) = Xor(U)
  BY DEF PbkdfReference, PbkdfTerms, PbkdfTerm
<1> HIDE DEF U, message
<1> QED
  BY <1>1, <1>2, PbkdfRoundsAre DEF message

LEMMA PbkdfBlockIs ==
  ASSUME NEW c, DOMAIN c = KdfFields, c.number \in Nat, c.number < LastCount
  PROVE  LET b == psa_key_derivation_pbkdf2_generate_block(c)
         IN  /\ KdfSameInputs(c, b) /\ b.pos = 0 /\ b.number = c.number + 1
             /\ b.block = Xor(PbkdfRounds(c.key, Append(c.salt, Number(b.number)), c.cost).sum)
<1>1. (c.number + 1) % (LastCount + 1) = c.number + 1
  BY KdfNumbers
<1> QED
  BY <1>1 DEF KdfFields, KdfSameInputs, psa_key_derivation_pbkdf2_generate_block

\* Before the next byte of PBKDF2, its block is there.
LEMMA PbkdfBlockReady ==
  ASSUME NEW c, NEW in, NEW m \in Nat,
         KdfShape("PBKDF2", c), c.state = "OUTPUT", PbkdfHas(c, in), HkdfAt("PBKDF2", c, in, m),
         m + 1 <= LastCount * HashLength,
         NEW b, b = IF c.pos = HashLength THEN psa_key_derivation_pbkdf2_generate_block(c) ELSE c
  PROVE  /\ KdfSameInputs(c, b)
         /\ b.pos \in 0 .. HashLength - 1 /\ b.number \in 1 .. LastCount
         /\ b.number * HashLength + b.pos = m + HashLength
         /\ b.block = Reference("PBKDF2", in, b.number)
         /\ b.number = m \div HashLength + 1 /\ b.pos = m % HashLength
<1>1. HashLength \in Nat \ {0} /\ LastCount \in Nat \ {0}
  BY KdfNumbers
<1>2. c.number \in 0 .. LastCount /\ c.pos \in 1 .. HashLength /\ DOMAIN c = KdfFields
      /\ c.number * HashLength + c.pos = m + HashLength
      /\ (c.number > 0 => c.block = Reference("PBKDF2", in, c.number))
  BY <1>1 DEF KdfShape, HkdfAt
<1>3. c.key = Given(in, "PASSWORD") /\ c.salt = in.steps["SALT"] /\ c.cost = InputCost
      /\ InputCost \in Nat \ {0}
  BY KdfAssumption DEF PbkdfHas, OnceAs
<1>4. CASE c.pos = HashLength
  <2>1. c.number * HashLength = m
    <3>1. c.number * HashLength \in Nat
      BY <1>1, <1>2
    <3> QED
      BY <1>1, <1>2, <1>4, <3>1
  <2>2. c.number < LastCount
    BY <1>1, <1>2, <2>1, LastBlockLeft
  <2>3. b = psa_key_derivation_pbkdf2_generate_block(c)
    BY <1>4
  <2>4. /\ KdfSameInputs(c, b) /\ b.pos = 0 /\ b.number = c.number + 1
        /\ b.block = Xor(PbkdfRounds(c.key, Append(c.salt, Number(b.number)), c.cost).sum)
    BY <1>2, <2>2, <2>3, PbkdfBlockIs
  <2>5. b.block = Reference("PBKDF2", in, b.number)
    <3>1. Reference("PBKDF2", in, b.number) =
            PbkdfReference(Given(in, "PASSWORD"), in.steps["SALT"], InputCost, b.number)
      BY DEF Reference, Prfs
    <3>2. Xor(PbkdfRounds(c.key, Append(c.salt, Number(b.number)), c.cost).sum)
             = PbkdfReference(c.key, c.salt, c.cost, b.number)
      BY <1>1, <1>3, PbkdfBlockRight
    <3> QED
      BY <1>3, <2>4, <3>1, <3>2, Zenon
  <2>6. b.number * HashLength + b.pos = m + HashLength
    <3>1. (c.number + 1) * HashLength = c.number * HashLength + HashLength
      BY <1>1, <1>2
    <3> QED
      BY <1>1, <2>1, <2>4, <3>1
  <2>7. m \div HashLength + 1 = c.number + 1 /\ m % HashLength = 0
    BY <1>2, <2>1, AtBlock
  <2>8. b.pos \in 0 .. HashLength - 1 /\ b.number \in 1 .. LastCount
    <3>1. c.number \in Nat /\ b.number = c.number + 1 /\ b.pos = 0
      BY <1>2, <2>4
    <3> QED
      BY <1>1, <2>2, <3>1
  <2> QED
    BY <2>4, <2>5, <2>6, <2>7, <2>8, Zenon
<1>5. CASE c.pos # HashLength
  <2>1. c.pos \in 1 .. HashLength - 1
    BY <1>1, <1>2, <1>5
  <2>2. c.number > 0 /\ m \div HashLength + 1 = c.number /\ m % HashLength = c.pos
    BY <1>2, <2>1, InBlock
  <2>3. KdfSameInputs(c, b)
    BY <1>2, <1>5 DEF KdfSameInputs
  <2> QED
    BY <1>1, <1>2, <1>5, <2>1, <2>2, <2>3
<1> QED
  BY <1>4, <1>5

LEMMA PbkdfGoes ==
  ASSUME NEW r, NEW in, NEW d \in Nat, NEW k \in Nat,
         KdfGoing("PBKDF2", r, in, d, k), r.status = "OK",
         d + k + 1 <= LastCount * HashLength
  PROVE  LET s == NextByte("PBKDF2", r)
         IN  KdfGoing("PBKDF2", s, in, d, k + 1) /\ s.status = "OK"
<1> DEFINE c == r.ctx
           b == IF c.pos = HashLength THEN psa_key_derivation_pbkdf2_generate_block(c) ELSE c
           e == [b EXCEPT !.pos = @ + 1]
           s == NextByte("PBKDF2", r)
<1>1. /\ DOMAIN r = {"status", "ctx", "out"} /\ KdfShape("PBKDF2", c) /\ c.state = "OUTPUT"
      /\ KdfHas("PBKDF2", c, in) /\ HkdfAt("PBKDF2", c, in, d + k)
      /\ IsStream(r.out, "PBKDF2", in, d, k)
  BY DEF KdfGoing, KdfAt
<1>2. HashLength \in Nat \ {0} /\ LastCount \in Nat \ {0} /\ d + k \in Nat
  BY KdfNumbers
<1>3. PbkdfHas(c, in)
  BY <1>1 DEF KdfHas
<1> HIDE DEF b
<1>4. /\ KdfSameInputs(c, b)
      /\ b.pos \in 0 .. HashLength - 1 /\ b.number \in 1 .. LastCount
      /\ b.number * HashLength + b.pos = d + k + HashLength
      /\ b.block = Reference("PBKDF2", in, b.number)
      /\ b.number = (d + k) \div HashLength + 1 /\ b.pos = (d + k) % HashLength
  BY <1>1, <1>2, <1>3, PbkdfBlockReady DEF b
<1>5. s = Take(r, e, b.pos)
  <2>1. s = PbkdfByte(r)
    <3>1. "PBKDF2" \notin Hkdfs /\ "PBKDF2" \notin Prfs
      BY DEF Hkdfs, Prfs
    <3> QED
      BY <3>1 DEF NextByte
  <2> QED
    BY <2>1 DEF PbkdfByte, b
<1> HIDE DEF s
<1>6. KdfSameInputs(c, e) /\ e.pos = b.pos + 1 /\ e.number = b.number /\ e.block = b.block
  BY <1>4 DEF KdfSameInputs, KdfFields
<1> HIDE DEF e
<1>7. /\ DOMAIN s = {"status", "ctx", "out"} /\ s.status = "OK" /\ s.ctx = e
      /\ s.out = Append(r.out, Byte(b.block, b.pos))
  BY <1>1, <1>5, <1>6, TakeIs
<1>8. IsStream(s.out, "PBKDF2", in, d, k + 1)
  <2>1. Byte(b.block, b.pos)
          = Byte(Reference("PBKDF2", in, (d + k) \div HashLength + 1), (d + k) % HashLength)
    BY <1>4
  <2> QED
    BY <1>1, <1>7, <2>1, StreamGrows
<1>9. HkdfAt("PBKDF2", e, in, d + (k + 1))
  <2>1. e.pos > 0 /\ b.number * HashLength \in Nat
    BY <1>2, <1>4, <1>6
  <2>2. e.number * HashLength + e.pos = d + (k + 1) + HashLength
    BY <1>2, <1>4, <1>6, <2>1
  <2> QED
    BY <1>4, <1>6, <2>1, <2>2 DEF HkdfAt
<1>10. KdfShape("PBKDF2", e)
  BY <1>1, <1>2, <1>4, <1>6 DEF KdfShape, KdfSameInputs
<1>11. KdfHas("PBKDF2", e, in)
  <2>1. "PBKDF2" \in Kdfs
    BY DEF Kdfs
  <2> QED
    BY <1>1, <1>6, <2>1, KdfKeepsInputs
<1>12. e.state = "OUTPUT"
  BY <1>1, <1>6, Zenon DEF KdfSameInputs
<1>13. KdfAt("PBKDF2", e, in, d + (k + 1))
  BY <1>9 DEF KdfAt, Prfs
<1> QED
  BY <1>7, <1>8, <1>10, <1>11, <1>12, <1>13, Zenon DEF KdfGoing, s

\* HKDF-Extract has one block, made by its inputs.
LEMMA ExtractGoes ==
  ASSUME NEW r, NEW in, NEW d \in Nat, NEW k \in Nat,
         KdfGoing("HKDF_EXTRACT", r, in, d, k), r.status = "OK",
         d + k + 1 <= HashLength
  PROVE  LET s == NextByte("HKDF_EXTRACT", r)
         IN  KdfGoing("HKDF_EXTRACT", s, in, d, k + 1) /\ s.status = "OK"
<1> DEFINE a == "HKDF_EXTRACT"
           c == r.ctx
           e == [c EXCEPT !.pos = @ + 1]
           s == NextByte(a, r)
<1>1. /\ DOMAIN r = {"status", "ctx", "out"} /\ KdfShape(a, c) /\ c.state = "OUTPUT"
      /\ KdfHas(a, c, in) /\ c.pos = d + k /\ IsStream(r.out, a, in, d, k)
  BY DEF KdfGoing, KdfAt
<1>2. HashLength \in Nat \ {0} /\ LastBlock \in Nat \ {0} /\ d + k \in Nat
  BY KdfNumbers
<1>3. c.block = c.key /\ c.number = 0 /\ c.key = Hmac(Given(in, "SALT"), <<Given(in, "SECRET")>>)
  BY <1>1 DEF KdfHas, HkdfHas, Hkdfs, HkdfKey
<1>4. c.pos # HashLength /\ c.pos \in Nat
  BY <1>1, <1>2
<1>5. s = Take(r, e, c.pos)
  <2>1. s = HkdfByte(a, r)
    <3>1. a \in Hkdfs /\ a \notin Prfs
      BY DEF Hkdfs, Prfs
    <3> QED
      BY <3>1 DEF NextByte
  <2> QED
    BY <1>4, <2>1 DEF HkdfByte
<1> HIDE DEF s
<1>6. KdfSameInputs(c, e) /\ e.pos = c.pos + 1 /\ e.number = c.number /\ e.block = c.block
  BY <1>1, <1>4 DEF KdfShape, KdfSameInputs, KdfFields
<1> HIDE DEF e
<1>7. /\ DOMAIN s = {"status", "ctx", "out"} /\ s.status = "OK" /\ s.ctx = e
      /\ s.out = Append(r.out, Byte(c.block, c.pos))
  BY <1>1, <1>5, <1>6, TakeIs
<1>8. IsStream(s.out, a, in, d, k + 1)
  <2>1. (d + k) % HashLength = c.pos
    <3>1. d + k = 0 * HashLength + (d + k) /\ d + k < HashLength /\ HashLength > 0 /\ HashLength \in Nat
      BY <1>2
    <3> QED
      BY <1>1, <1>2, <3>1, Divided
  <2>2. Reference(a, in, (d + k) \div HashLength + 1) = c.block
    BY <1>3 DEF Reference
  <2> QED
    BY <1>1, <1>7, <2>1, <2>2, StreamGrows
<1>9. KdfShape(a, e)
  BY <1>1, <1>2, <1>3, <1>6 DEF KdfShape, KdfSameInputs
<1>10. KdfHas(a, e, in)
  <2>1. a \in Kdfs
    BY DEF Kdfs, Hkdfs
  <2> QED
    BY <1>1, <1>6, <2>1, KdfKeepsInputs
<1>11. e.state = "OUTPUT"
  BY <1>1, <1>6, Zenon DEF KdfSameInputs
<1>12. KdfAt(a, e, in, d + (k + 1))
  <2>1. e.pos = d + (k + 1)
    BY <1>1, <1>6
  <2> QED
    BY <2>1 DEF KdfAt, Prfs
<1> QED
  BY <1>7, <1>8, <1>9, <1>10, <1>11, <1>12, Zenon DEF KdfGoing, s

\* What the loops give: the bytes asked for, unless the PRF runs out of blocks.
KdfRoom(a, m) ==
    /\ a \in {"HKDF", "HKDF_EXPAND"} => m <= LastBlock * HashLength
    /\ a = "HKDF_EXTRACT" => m <= HashLength
    /\ a = "PBKDF2" => m <= LastCount * HashLength
HkdfInformed(a, c) == a \in {"HKDF", "HKDF_EXPAND"} => c.info_set

LEMMA NextByteGoes ==
  ASSUME NEW a \in Kdfs, a # "TLS12_ECJPAKE_TO_PMS",
         NEW r, NEW in, NEW d \in Nat, NEW k \in Nat,
         KdfGoing(a, r, in, d, k), r.status = "OK", HkdfInformed(a, r.ctx),
         KdfRoom(a, d + k + 1)
  PROVE  LET s == NextByte(a, r)
         IN  /\ s.status = "OK" => KdfGoing(a, s, in, d, k + 1) /\ HkdfInformed(a, s.ctx)
             /\ (a \in Prfs => d + k + 1 <= LastBlock * HashLength) => s.status = "OK"
<1>1. CASE a \in {"HKDF", "HKDF_EXPAND"}
  <2>1. r.ctx.info_set /\ d + k + 1 <= LastBlock * HashLength
    BY <1>1 DEF HkdfInformed, KdfRoom
  <2> QED
    BY <1>1, <2>1, HkdfGoes DEF HkdfInformed
<1>2. CASE a = "HKDF_EXTRACT"
  <2>1. d + k + 1 <= HashLength
    BY <1>2 DEF KdfRoom
  <2> QED
    BY <1>2, <2>1, ExtractGoes DEF HkdfInformed
<1>3. CASE a = "PBKDF2"
  <2>1. d + k + 1 <= LastCount * HashLength
    BY <1>3 DEF KdfRoom
  <2> QED
    BY <1>3, <2>1, PbkdfGoes DEF HkdfInformed
<1>4. CASE a \in Prfs
  <2>1. a \notin {"HKDF", "HKDF_EXPAND"}
    BY <1>4 DEF Prfs
  <2> QED
    BY <1>4, <2>1, PrfGoes DEF HkdfInformed
<1> QED
  BY <1>1, <1>2, <1>3, <1>4 DEF Kdfs, Hkdfs

LEMMA LoopGives ==
  ASSUME NEW a \in Kdfs, a # "TLS12_ECJPAKE_TO_PMS",
         NEW c, NEW in, NEW d \in Nat, NEW n \in Nat,
         KdfShape(a, c), c.state = "OUTPUT", KdfHas(a, c, in), KdfAt(a, c, in, d),
         HkdfInformed(a, c), KdfRoom(a, d + n)
  PROVE  LET s == Loop(a, c, n)
         IN  /\ s.status = "OK" => KdfGoing(a, s, in, d, n)
             /\ (a \in Prfs => d + n <= LastBlock * HashLength) => s.status = "OK"
<1>0. PICK f : IsKdfLoop(a, c, n, f)
  BY ONLY KdfLoopIs, n \in Nat
<1>1. /\ Loop(a, c, n) = f[n]
      /\ f[0] = Going(c)
      /\ \A k \in 1 .. n : f[k] = KdfRound(a, f[k - 1])
  BY <1>0 DEF IsKdfLoop
<1> DEFINE Good(k) ==
             /\ f[k].status = "OK" => KdfGoing(a, f[k], in, d, k) /\ HkdfInformed(a, f[k].ctx)
             /\ (a \in Prfs => d + k <= LastBlock * HashLength) => f[k].status = "OK"
           S == {k \in 0 .. n : Good(k)}
<1>2. 0 \in S
  <2>1. /\ DOMAIN f[0] = {"status", "ctx", "out"} /\ f[0].status = "OK" /\ f[0].ctx = c
        /\ f[0].out = <<>>
    BY <1>1 DEF Going
  <2>2. IsStream(<<>>, a, in, d, 0)
    BY NoCells DEF IsStream
  <2>3. d + 0 = d
    OBVIOUS
  <2> QED
    BY <2>1, <2>2, <2>3 DEF KdfGoing
<1>3. ASSUME NEW k \in 1 .. n, k - 1 \in S PROVE k \in S
  <2> DEFINE j == k - 1
             r == f[j]
             s == f[k]
  <2>1. j \in Nat /\ k = j + 1 /\ d + j + 1 = d + k /\ k \in 0 .. n
    OBVIOUS
  <2>2. Good(j)
    BY <1>3
  <2>3. s = KdfRound(a, r)
    BY <1>1
  <2>4. KdfRoom(a, d + k)
    <3>1. d + k <= d + n /\ d + n \in Nat /\ d + k \in Nat
      BY <2>1
    <3>2. LastBlock * HashLength \in Nat /\ HashLength \in Nat /\ LastCount * HashLength \in Nat
      BY KdfNumbers
    <3> QED
      BY <3>1, <3>2 DEF KdfRoom
  <2>5. d + k <= LastBlock * HashLength => d + j <= LastBlock * HashLength
    <3>1. LastBlock * HashLength \in Nat
      BY KdfNumbers
    <3> QED
      BY <2>1, <3>1
  <2>6. CASE r.status = "OK"
    <3>1. KdfGoing(a, r, in, d, j) /\ HkdfInformed(a, r.ctx)
      BY <2>2, <2>6
    <3>2. s = NextByte(a, r)
      BY <2>3, <2>6 DEF KdfRound
    <3> HIDE DEF r, s, j
    <3>3. /\ s.status = "OK" => KdfGoing(a, s, in, d, j + 1) /\ HkdfInformed(a, s.ctx)
          /\ (a \in Prfs => d + j + 1 <= LastBlock * HashLength) => s.status = "OK"
      BY <2>1, <2>4, <2>6, <3>1, <3>2, NextByteGoes
    <3>4. /\ s.status = "OK" => KdfGoing(a, s, in, d, k) /\ HkdfInformed(a, s.ctx)
          /\ (a \in Prfs => d + k <= LastBlock * HashLength) => s.status = "OK"
      BY <2>1, <3>3
    <3> QED
      BY <2>1, <3>4 DEF s
  <2>7. CASE r.status # "OK"
    <3>1. s = r
      BY <2>3, <2>7 DEF KdfRound
    <3>2. ~(a \in Prfs => d + j <= LastBlock * HashLength)
      BY <2>2, <2>7
    <3> HIDE DEF r, s, j
    <3>3. s.status # "OK" /\ ~(a \in Prfs => d + k <= LastBlock * HashLength)
      BY <2>5, <2>7, <3>1, <3>2
    <3> QED
      BY <2>1, <3>3 DEF s
  <2> QED
    BY <2>6, <2>7
<1> HIDE DEF S
<1>4. \A k \in 0 .. n : k \in S
  BY <1>2, <1>3, UpTo
<1>5. Good(n)
  BY <1>4 DEF S
<1> QED
  BY <1>1, <1>5

\* Where an operation is that may still give bytes.
KdfPlace(a, c, in, d) == IF c.state = "OUTPUT" THEN KdfAt(a, c, in, d) ELSE d = 0

LEMMA OpenedIs ==
  ASSUME NEW c, DOMAIN c = KdfFields
  PROVE  LET e == [c EXCEPT !.state = "OUTPUT"]
         IN  /\ DOMAIN e = KdfFields /\ e.state = "OUTPUT"
             /\ e.info = c.info /\ e.info_set = c.info_set /\ e.key = c.key
             /\ e.hmac = c.hmac /\ e.salt = c.salt /\ e.seed = c.seed /\ e.label = c.label
             /\ e.other = c.other /\ e.cost = c.cost
             /\ e.number = c.number /\ e.pos = c.pos /\ e.block = c.block /\ e.ai = c.ai
BY DEF KdfFields

LEMMA OpenedWithPosIs ==
  ASSUME NEW c, DOMAIN c = KdfFields, NEW p
  PROVE  LET e == [c EXCEPT !.pos = p, !.state = "OUTPUT"]
         IN  /\ DOMAIN e = KdfFields /\ e.state = "OUTPUT"
             /\ e.info = c.info /\ e.info_set = c.info_set /\ e.key = c.key
             /\ e.hmac = c.hmac /\ e.salt = c.salt /\ e.seed = c.seed /\ e.label = c.label
             /\ e.other = c.other /\ e.cost = c.cost
             /\ e.number = c.number /\ e.pos = p /\ e.block = c.block /\ e.ai = c.ai
BY DEF KdfFields

\* The first output of HKDF.
LEMMA HkdfOpens ==
  ASSUME NEW a \in Hkdfs, NEW c, NEW in, NEW d \in Nat,
         KdfShape(a, c), KdfHas(a, c, in), KdfPlace(a, c, in, d), HkdfReady(c, a)
  PROVE  LET e == [c EXCEPT !.state = "OUTPUT"]
         IN  /\ KdfShape(a, e) /\ e.state = "OUTPUT" /\ KdfHas(a, e, in)
             /\ KdfAt(a, e, in, d) /\ HkdfInformed(a, e) /\ Complete(a, in)
<1> DEFINE e == [c EXCEPT !.state = "OUTPUT"]
<1>1. HashLength \in Nat \ {0} /\ LastBlock \in Nat \ {0}
  BY KdfNumbers
<1>2. DOMAIN c = KdfFields
  BY DEF KdfShape
<1>3. /\ DOMAIN e = KdfFields /\ e.state = "OUTPUT"
      /\ e.info = c.info /\ e.info_set = c.info_set /\ e.key = c.key /\ e.hmac = c.hmac
      /\ e.number = c.number /\ e.pos = c.pos /\ e.block = c.block
  BY <1>2, OpenedIs
<1> HIDE DEF e
<1>4. HkdfHas(a, c, in) /\ a \notin Prfs /\ a # "PBKDF2" /\ a # "TLS12_ECJPAKE_TO_PMS"
  BY DEF KdfHas, Hkdfs, Prfs
<1>5. c.state \in {"KEYED", "OUTPUT"} /\ (c.info_set \/ a = "HKDF_EXTRACT")
  BY DEF HkdfReady
<1>6. HkdfHas(a, e, in)
  BY <1>3, <1>4, <1>5 DEF HkdfHas, OnceAs
<1>7. KdfHas(a, e, in)
  BY <1>4, <1>6 DEF KdfHas
<1>8. KdfShape(a, e)
  BY <1>3, <1>4 DEF KdfShape, KdfStates
<1>9. HkdfInformed(a, e)
  BY <1>3, <1>5 DEF HkdfInformed
<1>10. Complete(a, in)
  BY <1>4, <1>5 DEF HkdfHas, Hkdfs, Complete, Once, OnceAs
<1>11. KdfAt(a, e, in, d)
  <2>1. CASE a = "HKDF_EXTRACT"
    <3>1. e.pos = d
      BY <1>3, <1>4, <1>5, <2>1 DEF KdfPlace, KdfAt, HkdfHas
    <3> QED
      BY <1>4, <2>1, <3>1 DEF KdfAt
  <2>2. CASE a # "HKDF_EXTRACT" /\ c.state = "OUTPUT"
    <3>1. HkdfAt(a, c, in, d)
      BY <2>2 DEF KdfPlace, KdfAt, Hkdfs
    <3>2. HkdfAt(a, e, in, d)
      BY <1>3, <3>1 DEF HkdfAt
    <3> QED
      BY <1>4, <2>2, <3>2 DEF KdfAt
  <2>3. CASE a # "HKDF_EXTRACT" /\ c.state = "KEYED"
    <3>1. d = 0 /\ e.number = 0 /\ e.pos = HashLength
      BY <1>3, <1>4, <2>3 DEF KdfPlace, HkdfHas
    <3>2. HkdfAt(a, e, in, d)
      BY <1>1, <3>1 DEF HkdfAt
    <3> QED
      BY <1>4, <2>3, <3>2 DEF KdfAt
  <2> QED
    BY <1>5, <2>1, <2>2, <2>3
<1> QED
  BY <1>3, <1>7, <1>8, <1>9, <1>10, <1>11 DEF e

\* Of the PRF.
LEMMA PrfOpens ==
  ASSUME NEW a \in Prfs, NEW c, NEW in, NEW d \in Nat,
         KdfShape(a, c), KdfHas(a, c, in), KdfPlace(a, c, in, d),
         c.state \in {"LABEL_SET", "OUTPUT"}
  PROVE  LET e == [c EXCEPT !.state = "OUTPUT"]
         IN  /\ KdfShape(a, e) /\ e.state = "OUTPUT" /\ KdfHas(a, e, in)
             /\ KdfAt(a, e, in, d) /\ Complete(a, in)
<1> DEFINE e == [c EXCEPT !.state = "OUTPUT"]
<1>1. HashLength \in Nat \ {0} /\ LastBlock \in Nat \ {0}
  BY KdfNumbers
<1>2. DOMAIN c = KdfFields
  BY DEF KdfShape
<1>3. /\ DOMAIN e = KdfFields /\ e.state = "OUTPUT"
      /\ e.key = c.key /\ e.seed = c.seed /\ e.label = c.label /\ e.other = c.other
      /\ e.number = c.number /\ e.pos = c.pos /\ e.block = c.block /\ e.ai = c.ai
  BY <1>2, OpenedIs
<1> HIDE DEF e
<1>4. PrfHas(a, c, in) /\ a \notin Hkdfs /\ a # "PBKDF2" /\ a # "TLS12_ECJPAKE_TO_PMS"
  BY DEF KdfHas, Hkdfs, Prfs
<1>5. PrfHas(a, e, in)
  BY <1>3, <1>4 DEF PrfHas, OnceAs
<1>6. KdfHas(a, e, in)
  BY <1>4, <1>5 DEF KdfHas
<1>7. KdfShape(a, e)
  BY <1>3, <1>4 DEF KdfShape, KdfStates
<1>8. Complete(a, in)
  BY <1>4 DEF PrfHas, Prfs, Complete, Once, OnceAs
<1>9. PrfAt(a, e, in, d)
  <2>1. CASE c.state = "OUTPUT"
    BY <1>3, <2>1 DEF KdfPlace, KdfAt, PrfAt
  <2>2. CASE c.state = "LABEL_SET"
    <3>1. d = 0 /\ e.number = 0 /\ e.pos = 0
      BY <1>3, <1>4, <2>2 DEF KdfPlace, PrfHas
    <3> QED
      BY <1>1, <3>1 DEF PrfAt
  <2> QED
    BY <2>1, <2>2
<1>10. KdfAt(a, e, in, d)
  BY <1>4, <1>9 DEF KdfAt, Hkdfs
<1> QED
  BY <1>3, <1>6, <1>7, <1>8, <1>10 DEF e

\* Of PBKDF2.
LEMMA PbkdfOpens ==
  ASSUME NEW c, NEW in, NEW d \in Nat,
         KdfShape("PBKDF2", c), KdfHas("PBKDF2", c, in), KdfPlace("PBKDF2", c, in, d),
         c.state \in {"PASSWORD_SET", "OUTPUT"}
  PROVE  LET e == [c EXCEPT !.pos = IF c.state = "OUTPUT" THEN @ ELSE HashLength,
                            !.state = "OUTPUT"]
         IN  /\ KdfShape("PBKDF2", e) /\ e.state = "OUTPUT" /\ KdfHas("PBKDF2", e, in)
             /\ KdfAt("PBKDF2", e, in, d) /\ Complete("PBKDF2", in)
<1> DEFINE a == "PBKDF2"
           p == IF c.state = "OUTPUT" THEN c.pos ELSE HashLength
           e == [c EXCEPT !.pos = IF c.state = "OUTPUT" THEN @ ELSE HashLength,
                          !.state = "OUTPUT"]
<1>1. HashLength \in Nat \ {0} /\ LastCount \in Nat \ {0}
  BY KdfNumbers
<1>2. DOMAIN c = KdfFields
  BY DEF KdfShape
<1>3. e = [c EXCEPT !.pos = p, !.state = "OUTPUT"]
  BY <1>2 DEF KdfFields
<1> HIDE DEF e, p
<1>4. /\ DOMAIN e = KdfFields /\ e.state = "OUTPUT"
      /\ e.key = c.key /\ e.salt = c.salt /\ e.cost = c.cost
      /\ e.number = c.number /\ e.pos = p /\ e.block = c.block
  BY <1>2, <1>3, OpenedWithPosIs
<1>5. PbkdfHas(c, in) /\ a \notin Hkdfs /\ a \notin Prfs
  BY DEF KdfHas, Hkdfs, Prfs
<1>6. PbkdfHas(e, in)
  BY <1>4, <1>5 DEF PbkdfHas, OnceAs
<1>7. KdfHas(a, e, in)
  BY <1>5, <1>6 DEF KdfHas
<1>8. KdfShape(a, e)
  BY <1>1, <1>4, <1>5 DEF KdfShape, KdfStates, p
<1>9. Complete(a, in)
  BY <1>5 DEF PbkdfHas, Prfs, Complete, Once, OnceAs, Never
<1>10. HkdfAt(a, e, in, d)
  <2>1. CASE c.state = "OUTPUT"
    BY <1>4, <2>1 DEF KdfPlace, KdfAt, HkdfAt, p
  <2>2. CASE c.state # "OUTPUT"
    <3>1. d = 0 /\ e.number = 0 /\ e.pos = HashLength
      BY <1>4, <1>5, <2>2 DEF KdfPlace, PbkdfHas, p
    <3> QED
      BY <1>1, <3>1 DEF HkdfAt
  <2> QED
    BY <2>1, <2>2
<1>11. KdfAt(a, e, in, d)
  BY <1>5, <1>10 DEF KdfAt, Prfs
<1> QED
  BY <1>4, <1>7, <1>8, <1>9, <1>11 DEF e

\* Enough inputs, and room for what is asked for: then the read gives it.
KdfServes(a, in, d, n) ==
    /\ Complete(a, in)
    /\ a \in Prfs => d + n <= LastBlock * HashLength
    /\ a = "TLS12_ECJPAKE_TO_PMS" => n = HashLength

\* What a read of n bytes should come to.
KdfReadRight(a, in, d, n, r) ==
    /\ r.status = "OK" =>
         /\ Complete(a, in) /\ KdfShape(a, r.ctx) /\ KdfHas(a, r.ctx, in)
         /\ a # "TLS12_ECJPAKE_TO_PMS" => KdfPlace(a, r.ctx, in, d + n)
         /\ a = "TLS12_ECJPAKE_TO_PMS" => n = HashLength
         /\ IsStream(r.out, a, in, d, n)
    /\ KdfServes(a, in, d, n) => r.status = "OK"

\* One more read of n bytes, from an operation that can give them.
LEMMA KdfReadGives ==
  ASSUME NEW a \in Kdfs, NEW c, NEW in, NEW d \in Nat, NEW n \in Nat,
         KdfShape(a, c), KdfHas(a, c, in), KdfPlace(a, c, in, d), KdfRoom(a, d + n),
         NEW r, r = KdfRead(c, a, n)
  PROVE  KdfReadRight(a, in, d, n, r)
<1>1. ASSUME NEW e, r = Loop(a, e, n), a # "TLS12_ECJPAKE_TO_PMS",
             KdfShape(a, e), e.state = "OUTPUT", KdfHas(a, e, in), KdfAt(a, e, in, d),
             HkdfInformed(a, e), Complete(a, in)
      PROVE  KdfReadRight(a, in, d, n, r)
  <2> DEFINE s == Loop(a, e, n)
  <2>1. /\ s.status = "OK" => KdfGoing(a, s, in, d, n)
        /\ (a \in Prfs => d + n <= LastBlock * HashLength) => s.status = "OK"
    BY <1>1, LoopGives
  <2> HIDE DEF s
  <2>2. s.status = "OK" => /\ KdfShape(a, s.ctx) /\ KdfHas(a, s.ctx, in)
                            /\ KdfPlace(a, s.ctx, in, d + n) /\ IsStream(s.out, a, in, d, n)
    BY <2>1 DEF KdfGoing, KdfPlace
  <2>3. r = s
    BY <1>1 DEF s
  <2> QED
    BY <1>1, <2>1, <2>2, <2>3 DEF KdfServes, KdfReadRight
<1>2. CASE a \in Hkdfs
  <2>1. r = psa_key_derivation_hkdf_read(c, a, n)
    <3>1. a \notin Prfs /\ a # "PBKDF2"
      BY <1>2 DEF Hkdfs, Prfs
    <3> QED
      BY <1>2, <3>1 DEF KdfRead
  <2>2. CASE HkdfReady(c, a)
    <3> DEFINE e == [c EXCEPT !.state = "OUTPUT"]
    <3>1. /\ KdfShape(a, e) /\ e.state = "OUTPUT" /\ KdfHas(a, e, in)
          /\ KdfAt(a, e, in, d) /\ HkdfInformed(a, e) /\ Complete(a, in)
      BY <1>2, <2>2, HkdfOpens
    <3>2. r = Loop(a, e, n) /\ a # "TLS12_ECJPAKE_TO_PMS"
      BY <1>2, <2>1, <2>2 DEF psa_key_derivation_hkdf_read, Hkdfs
    <3> HIDE DEF e
    <3> QED
      BY <1>1, <3>1, <3>2
  <2>3. CASE ~HkdfReady(c, a)
    <3>1. r.status = "BAD_STATE"
      BY <2>1, <2>3 DEF psa_key_derivation_hkdf_read, Failed
    <3>2. ~Complete(a, in)
      <4>1. HkdfHas(a, c, in)
        BY <1>2 DEF KdfHas
      <4>2. CASE c.state \notin {"KEYED", "OUTPUT"}
        <5>1. Never(in, "SECRET")
          BY <4>1, <4>2 DEF HkdfHas
        <5>2. Len(in.steps["SECRET"]) = 0
          BY <5>1 DEF Never
        <5> QED
          BY <1>2, <5>2 DEF Complete, Hkdfs, Prfs
      <4>3. CASE ~c.info_set /\ a # "HKDF_EXTRACT"
        <5>1. Never(in, "INFO")
          BY <4>1, <4>3 DEF HkdfHas
        <5>2. Len(in.steps["INFO"]) = 0
          BY <5>1 DEF Never
        <5> QED
          BY <1>2, <4>3, <5>2 DEF Complete, Hkdfs, Prfs
      <4> QED
        BY <2>3, <4>2, <4>3 DEF HkdfReady
    <3> QED
      BY <3>1, <3>2 DEF KdfServes, KdfReadRight
  <2> QED
    BY <2>2, <2>3
<1>3. CASE a \in Prfs
  <2>1. r = psa_key_derivation_tls12_prf_read(c, a, n)
    <3>1. a \notin Hkdfs /\ a # "PBKDF2"
      BY <1>3 DEF Hkdfs, Prfs
    <3> QED
      BY <1>3, <3>1 DEF KdfRead
  <2>2. CASE c.state \in {"LABEL_SET", "OUTPUT"}
    <3> DEFINE e == [c EXCEPT !.state = "OUTPUT"]
    <3>1. /\ KdfShape(a, e) /\ e.state = "OUTPUT" /\ KdfHas(a, e, in)
          /\ KdfAt(a, e, in, d) /\ Complete(a, in)
      BY <1>3, <2>2, PrfOpens
    <3>2. r = Loop(a, e, n) /\ a # "TLS12_ECJPAKE_TO_PMS"
      BY <1>3, <2>1, <2>2 DEF psa_key_derivation_tls12_prf_read, Prfs
    <3>3. HkdfInformed(a, e)
      BY <1>3 DEF HkdfInformed, Prfs
    <3> HIDE DEF e
    <3> QED
      BY <1>1, <3>1, <3>2, <3>3
  <2>3. CASE c.state \notin {"LABEL_SET", "OUTPUT"}
    <3>1. r.status = "BAD_STATE"
      BY <2>1, <2>3 DEF psa_key_derivation_tls12_prf_read, Failed
    <3>2. ~Complete(a, in)
      <4>1. Never(in, "LABEL")
        BY <1>3, <2>3 DEF KdfHas, PrfHas
      <4>2. Len(in.steps["LABEL"]) = 0
        BY <4>1 DEF Never
      <4>3. a \in Prfs /\ a \notin {"HKDF", "HKDF_EXTRACT", "HKDF_EXPAND", "PBKDF2"}
        BY <1>3 DEF Prfs
      <4> QED
        BY <4>2, <4>3 DEF Complete
    <3> QED
      BY <3>1, <3>2 DEF KdfServes, KdfReadRight
  <2> QED
    BY <2>2, <2>3
<1>4. CASE a = "PBKDF2"
  <2>0. a \notin Hkdfs /\ a \notin Prfs
    BY <1>4 DEF Hkdfs, Prfs
  <2>1. r = psa_key_derivation_pbkdf2_read(c, n)
    BY <1>4, <2>0 DEF KdfRead
  <2>2. CASE c.state \in {"PASSWORD_SET", "OUTPUT"}
    <3> DEFINE e == [c EXCEPT !.pos = IF c.state = "OUTPUT" THEN @ ELSE HashLength,
                              !.state = "OUTPUT"]
    <3>1. /\ KdfShape(a, e) /\ e.state = "OUTPUT" /\ KdfHas(a, e, in)
          /\ KdfAt(a, e, in, d) /\ Complete(a, in)
      BY <1>4, <2>2, PbkdfOpens
    <3>2. r = Loop(a, e, n) /\ a # "TLS12_ECJPAKE_TO_PMS"
      BY <1>4, <2>1, <2>2 DEF psa_key_derivation_pbkdf2_read
    <3>3. HkdfInformed(a, e)
      BY <1>4 DEF HkdfInformed
    <3> HIDE DEF e
    <3> QED
      BY <1>1, <3>1, <3>2, <3>3
  <2>3. CASE c.state \notin {"PASSWORD_SET", "OUTPUT"}
    <3>1. r.status = "BAD_STATE"
      BY <2>1, <2>3 DEF psa_key_derivation_pbkdf2_read, Failed
    <3>2. ~Complete(a, in)
      <4>1. Never(in, "PASSWORD")
        BY <1>4, <2>3 DEF KdfHas, PbkdfHas
      <4>2. Len(in.steps["PASSWORD"]) = 0
        BY <4>1 DEF Never
      <4> QED
        BY <1>4, <2>0, <4>2 DEF Complete
    <3> QED
      BY <3>1, <3>2 DEF KdfServes, KdfReadRight
  <2> QED
    BY <2>2, <2>3
<1>5. CASE a = "TLS12_ECJPAKE_TO_PMS"
  <2>0. a \notin Hkdfs /\ a \notin Prfs /\ a # "PBKDF2"
    BY <1>5 DEF Hkdfs, Prfs
  <2>1. r = psa_key_derivation_tls12_ecjpake_to_pms_read(c, n)
    BY <2>0 DEF KdfRead
  <2>2. CASE n # HashLength
    <3>1. r.status = "INVALID_ARGUMENT"
      BY <2>1, <2>2 DEF psa_key_derivation_tls12_ecjpake_to_pms_read, Failed
    <3> QED
      BY <1>5, <2>2, <3>1 DEF KdfServes, KdfReadRight
  <2>3. CASE n = HashLength
    <3> DEFINE b == Hmac(None, <<c.key>>)
               out == [i \in 1 .. n |-> Byte(b, i - 1)]
    <3>1. r = [Going(c) EXCEPT !.out = out]
      BY <2>1, <2>3 DEF psa_key_derivation_tls12_ecjpake_to_pms_read
    <3> HIDE DEF out
    <3>2. r.status = "OK" /\ r.ctx = c /\ r.out = out
      BY <3>1 DEF Going
    <3>3. Complete(a, in)
      BY <1>5, <2>0 DEF Complete
    <3>4. d = 0
      <4>1. EcjpakeHas(c, in)
        BY <1>5 DEF KdfHas
      <4> QED
        BY <4>1 DEF EcjpakeHas, KdfPlace
    <3>5. \A m : Reference(a, in, m) = b
      <4>1. c.key = Given(in, "SECRET")
        BY <1>5 DEF KdfHas, EcjpakeHas
      <4> QED
        BY <1>5, <4>1 DEF Reference, Prfs
    <3>6. IsSeq(out) /\ Len(out) = n
      <4>1. DOMAIN out = 1 .. n /\ out = [i \in DOMAIN out |-> out[i]]
        BY DEF out
      <4> QED
        BY <4>1, SeqBy
    <3>7. ASSUME NEW i \in 1 .. n
          PROVE  out[i] = Byte(Reference(a, in, (d + i - 1) \div HashLength + 1),
                                 (d + i - 1) % HashLength)
      <4>1. i - 1 \in Nat /\ i - 1 < HashLength /\ HashLength \in Nat /\ HashLength > 0
        BY <2>3, KdfNumbers
      <4>2. i - 1 = 0 * HashLength + (i - 1)
        BY <4>1
      <4>3. (i - 1) % HashLength = i - 1
        BY <4>1, <4>2, Divided
      <4>4. d + i - 1 = i - 1
        BY <3>4
      <4>5. out[i] = Byte(b, i - 1)
        BY DEF out
      <4> QED
        BY <3>5, <4>3, <4>4, <4>5
    <3>8. IsStream(out, a, in, d, n)
      BY <3>6, <3>7 DEF IsStream
    <3> HIDE DEF b
    <3> QED
      BY <1>5, <2>3, <3>2, <3>3, <3>8 DEF KdfReadRight
  <2> QED
    BY <2>2, <2>3
<1> QED
  BY <1>2, <1>3, <1>4, <1>5 DEF Kdfs

-----------------------------------------------------------------------------
(* Inputs of key derivation.                                               *)

KdfData == {Data("bytes"), Data("key"), Data("agreed")}
KdfIns == [steps : [KdfSteps -> Seq(KdfData)], drawn : Nat, limit : Nat]

\* now is in with another input.
InputGiven(in, now, step, data) ==
    /\ \A x \in KdfSteps \ {step} : now.steps[x] = in.steps[x]
    /\ now.steps[step] = Append(in.steps[step], data)
    /\ Never(in, step) => Once(now, step)
    /\ ~Never(now, step) /\ Given(now, step) = data

LEMMA InputIsGiven ==
  ASSUME NEW in \in KdfIns, NEW step \in KdfSteps, NEW data \in KdfData,
         NEW now, now = [in EXCEPT !.steps[step] = Append(@, data)]
  PROVE  /\ now \in KdfIns /\ now.drawn = in.drawn /\ now.limit = in.limit
         /\ InputGiven(in, now, step, data)
<1> DEFINE s == in.steps[step]
           t == Append(s, data)
<1>1. in.steps \in [KdfSteps -> Seq(KdfData)] /\ s \in Seq(KdfData)
  BY DEF KdfIns
<1> HIDE DEF s
<1>2. t \in Seq(KdfData) /\ Len(t) = Len(s) + 1 /\ t[Len(s) + 1] = data /\ Len(s) \in Nat
  BY <1>1, AppendProperties
<1>3. t # <<>>
  BY <1>2
<1>4. Last(t) = data
  BY <1>2 DEF Last
<1>5. s = <<>> => Len(t) = 1
  BY <1>2
<1> HIDE DEF t
<1>6. /\ now \in KdfIns /\ now.drawn = in.drawn /\ now.limit = in.limit
      /\ now.steps = [in.steps EXCEPT ![step] = t]
  <2>1. now = [in EXCEPT !.steps = [in.steps EXCEPT ![step] = t]]
    BY DEF s, t, KdfIns
  <2>2. [in.steps EXCEPT ![step] = t] \in [KdfSteps -> Seq(KdfData)]
    BY <1>1, <1>2
  <2> QED
    BY <2>1, <2>2 DEF KdfIns
<1>7. now.steps[step] = t /\ \A x \in KdfSteps \ {step} : now.steps[x] = in.steps[x]
  BY <1>1, <1>6
<1> QED
  BY <1>3, <1>4, <1>5, <1>6, <1>7 DEF InputGiven, Never, Once, Given, s, t

\* The other inputs stay as they were.
LEMMA OthersGiven ==
  ASSUME NEW in, NEW now, NEW step, NEW data, InputGiven(in, now, step, data),
         NEW x \in KdfSteps \ {step}
  PROVE  /\ now.steps[x] = in.steps[x]
         /\ Never(now, x) = Never(in, x) /\ Once(now, x) = Once(in, x)
         /\ Given(now, x) = Given(in, x)
BY DEF InputGiven, Never, Once, Given

LEMMA AcceptIs ==
  ASSUME NEW c, NEW status, NEW after, NEW r, r = Accept(status, c, after), r.status = "OK"
  PROVE  status = "OK" /\ r.ctx = after
BY DEF Accept, Ok, Refuse

LEMMA RefuseIs ==
  ASSUME NEW c, NEW status, status # "OK" PROVE Refuse(c, status).status # "OK"
BY DEF Refuse

LEMMA FirstIs == \A x, y : First(x, y) = "OK" => x = "OK" /\ y = "OK"
BY DEF First

\* What an accepted input does to the context.
KdfTaken(a, c, in, now, step, e) ==
    /\ c.state # "OUTPUT" /\ e.state # "OUTPUT"
    /\ KdfShape(a, e) /\ KdfHas(a, e, now)

LEMMA SaltIs ==
  ASSUME NEW c, DOMAIN c = KdfFields, NEW data
  PROVE  LET e == [c EXCEPT !.state = "STARTED", !.hmac = data]
         IN  /\ DOMAIN e = KdfFields /\ e.state = "STARTED" /\ e.hmac = data
             /\ e.info = c.info /\ e.info_set = c.info_set
             /\ e.number = c.number /\ e.pos = c.pos
BY DEF KdfFields

LEMMA InfoIs ==
  ASSUME NEW c, DOMAIN c = KdfFields, NEW data
  PROVE  LET e == [c EXCEPT !.info = data, !.info_set = TRUE]
         IN  /\ DOMAIN e = KdfFields /\ e.state = c.state /\ e.hmac = c.hmac
             /\ e.info = data /\ e.info_set /\ e.key = c.key /\ e.block = c.block
             /\ e.number = c.number /\ e.pos = c.pos
BY DEF KdfFields

LEMMA KeyedIs ==
  ASSUME NEW c, DOMAIN c = KdfFields, NEW a, NEW prk
  PROVE  LET e == HkdfKeyed(c, a, prk)
         IN  /\ DOMAIN e = KdfFields /\ e.state = "KEYED" /\ e.hmac = c.hmac
             /\ e.info = c.info /\ e.info_set = c.info_set /\ e.key = prk
             /\ e.number = 0 /\ e.pos = (IF a = "HKDF_EXTRACT" THEN 0 ELSE HashLength)
             /\ a = "HKDF_EXTRACT" => e.block = prk
BY DEF KdfFields, HkdfKeyed

LEMMA HkdfTakes ==
  ASSUME NEW a \in Hkdfs, NEW c, KdfShape(a, c), NEW in, HkdfHas(a, c, in),
         NEW step \in KdfSteps, NEW data, NEW now, InputGiven(in, now, step, data), NEW fits,
         NEW r, r = psa_hkdf_input(c, a, step, data, fits), r.status = "OK"
  PROVE  /\ KdfTaken(a, c, in, now, step, r.ctx)
         /\ step \in {"SECRET", "PASSWORD"} => step = "SECRET" /\ Never(in, "SECRET")
<1> DEFINE e == r.ctx
<1>1. /\ DOMAIN c = KdfFields /\ c.pos \in 0 .. HashLength /\ c.number \in 0 .. LastBlock
      /\ a # "PBKDF2" /\ a \notin Prfs /\ a # "TLS12_ECJPAKE_TO_PMS"
  BY DEF KdfShape, Hkdfs, Prfs
<1>2. \A x \in {"INFO", "SALT", "SECRET"} : x \in KdfSteps
  BY DEF KdfSteps, ByteSteps
<1>3. \A x \in {"INFO", "SALT", "SECRET"} : x # step =>
        /\ Never(now, x) = Never(in, x) /\ Once(now, x) = Once(in, x)
        /\ Given(now, x) = Given(in, x)
  BY <1>2, OthersGiven
<1>4. /\ Never(in, step) => Once(now, step)
      /\ Given(now, step) = data
  BY DEF InputGiven
<1>5. ASSUME NEW f, DOMAIN f = KdfFields, f.state \in KdfStates, f.pos \in 0 .. HashLength,
             f.number \in 0 .. LastBlock, HkdfHas(a, f, now), c.state # "OUTPUT",
             f.state # "OUTPUT"
      PROVE  KdfTaken(a, c, in, now, step, f)
  <2>1. KdfShape(a, f)
    BY <1>1, <1>5 DEF KdfShape
  <2>2. KdfHas(a, f, now)
    BY <1>1, <1>5 DEF KdfHas
  <2> QED
    BY <1>5, <2>1, <2>2 DEF KdfTaken
<1>6. CASE step = "SALT"
  <2> DEFINE f == [c EXCEPT !.state = "STARTED", !.hmac = data]
             st == First(Check(a # "HKDF_EXPAND", "INVALID_ARGUMENT"),
                         Check(c.state = "INIT", "BAD_STATE"))
  <2>1. r = Accept(st, c, f)
    BY <1>6 DEF psa_hkdf_input
  <2> HIDE DEF f, st
  <2>2. st = "OK" /\ e = f
    BY <2>1, AcceptIs
  <2>3. a # "HKDF_EXPAND" /\ c.state = "INIT"
    BY <2>2 DEF st, First, Check
  <2>4. /\ DOMAIN f = KdfFields /\ f.state = "STARTED" /\ f.hmac = data
        /\ f.info = c.info /\ f.info_set = c.info_set
        /\ f.number = c.number /\ f.pos = c.pos
    BY <1>1, SaltIs DEF f
  <2>5. HkdfHas(a, f, now)
    BY <1>3, <1>4, <1>6, <2>3, <2>4 DEF HkdfHas, OnceAs
  <2>6. KdfTaken(a, c, in, now, step, f)
    BY <1>1, <1>5, <2>3, <2>4, <2>5 DEF KdfStates
  <2> QED
    BY <1>6, <2>2, <2>6
<1>7. CASE step = "SECRET"
  <2> DEFINE prk == IF a = "HKDF_EXPAND" THEN data ELSE Hmac(c.hmac, <<data>>)
             f == HkdfKeyed(c, a, prk)
  <2>1. e = f /\ c.state \in {"INIT", "STARTED"}
        /\ (a = "HKDF_EXTRACT" => c.state = "STARTED")
    <3>1. CASE a = "HKDF_EXPAND"
      <4> DEFINE st == First(Check(c.state = "INIT", "BAD_STATE"),
                             Check(fits, "INVALID_ARGUMENT"))
      <4>1. r = Accept(st, c, f)
        BY <1>7, <3>1 DEF psa_hkdf_input
      <4> HIDE DEF f, st
      <4>2. st = "OK" /\ e = f
        BY <4>1, AcceptIs
      <4>3. c.state = "INIT"
        BY <4>2 DEF st, First, Check
      <4> QED
        BY <3>1, <4>2, <4>3
    <3>2. CASE a # "HKDF_EXPAND"
      <4> DEFINE st == Check(c.state = "STARTED" \/ (c.state = "INIT" /\ a = "HKDF"), "BAD_STATE")
      <4>1. r = Accept(st, c, f)
        BY <1>7, <3>2 DEF psa_hkdf_input
      <4> HIDE DEF f, st
      <4>2. st = "OK" /\ e = f
        BY <4>1, AcceptIs
      <4>3. c.state = "STARTED" \/ (c.state = "INIT" /\ a = "HKDF")
        BY <4>2 DEF st, Check
      <4> QED
        BY <4>2, <4>3
    <3> QED
      BY <3>1, <3>2
  <2> HIDE DEF f, prk
  <2>2. /\ DOMAIN f = KdfFields /\ f.state = "KEYED" /\ f.hmac = c.hmac
        /\ f.info = c.info /\ f.info_set = c.info_set /\ f.key = prk
        /\ f.number = 0 /\ f.pos = (IF a = "HKDF_EXTRACT" THEN 0 ELSE HashLength)
        /\ a = "HKDF_EXTRACT" => f.block = prk
    BY <1>1, KeyedIs DEF f
  <2>3. prk = HkdfKey(a, now)
    BY <1>3, <1>4, <1>7 DEF prk, HkdfKey, HkdfHas
  <2>4. HkdfHas(a, f, now)
    BY <1>3, <1>4, <1>7, <2>1, <2>2, <2>3 DEF HkdfHas, OnceAs
  <2>5. f.pos \in 0 .. HashLength /\ f.number \in 0 .. LastBlock
    BY <2>2, KdfNumbers
  <2>6. KdfTaken(a, c, in, now, step, f)
    BY <1>5, <2>1, <2>2, <2>4, <2>5 DEF KdfStates
  <2>7. Never(in, "SECRET")
    BY <2>1 DEF HkdfHas
  <2> QED
    BY <1>7, <2>1, <2>6, <2>7
<1>8. CASE step = "INFO"
  <2> DEFINE f == [c EXCEPT !.info = data, !.info_set = TRUE]
             st == First(Check(a # "HKDF_EXTRACT", "INVALID_ARGUMENT"),
                         Check(/\ a = "HKDF_EXPAND" => c.state # "INIT"
                               /\ c.state # "OUTPUT"
                               /\ ~c.info_set, "BAD_STATE"))
  <2>1. r = Accept(st, c, f)
    BY <1>8 DEF psa_hkdf_input
  <2> HIDE DEF f, st
  <2>2. st = "OK" /\ e = f
    BY <2>1, AcceptIs
  <2>3. a # "HKDF_EXTRACT" /\ c.state # "OUTPUT" /\ ~c.info_set
    BY <2>2 DEF st, First, Check
  <2>4. /\ DOMAIN f = KdfFields /\ f.state = c.state /\ f.hmac = c.hmac
        /\ f.info = data /\ f.info_set /\ f.key = c.key /\ f.block = c.block
        /\ f.number = c.number /\ f.pos = c.pos
    BY <1>1, InfoIs DEF f
  <2>5. Never(in, "INFO")
    BY <2>3 DEF HkdfHas
  <2>6. HkdfKey(a, now) = HkdfKey(a, in)
    BY <1>3, <1>8 DEF HkdfKey
  <2>7. HkdfHas(a, f, now)
    BY <1>3, <1>4, <1>8, <2>3, <2>4, <2>5, <2>6 DEF HkdfHas, OnceAs
  <2>8. KdfTaken(a, c, in, now, step, f)
    <3>1. f.state \in KdfStates
      BY <2>4 DEF KdfShape
    <3> QED
      BY <1>1, <1>5, <2>3, <2>4, <2>7, <3>1
  <2> QED
    BY <1>8, <2>2, <2>8
<1>9. CASE step \notin {"SALT", "SECRET", "INFO"}
  <2>1. r = Refuse(c, "INVALID_ARGUMENT")
    BY <1>9 DEF psa_hkdf_input
  <2> QED
    BY <2>1, RefuseIs
<1> QED
  BY <1>6, <1>7, <1>8, <1>9

LEMMA SeedIs ==
  ASSUME NEW c, DOMAIN c = KdfFields, NEW s, NEW data
  PROVE  LET e == [c EXCEPT !.state = s, !.seed = data]
         IN  /\ DOMAIN e = KdfFields /\ e.state = s /\ e.seed = data
             /\ e.other = c.other /\ e.key = c.key /\ e.label = c.label
             /\ e.number = c.number /\ e.pos = c.pos
BY DEF KdfFields

LEMMA OtherIs ==
  ASSUME NEW c, DOMAIN c = KdfFields, NEW s, NEW data
  PROVE  LET e == [c EXCEPT !.state = s, !.other = data]
         IN  /\ DOMAIN e = KdfFields /\ e.state = s /\ e.seed = c.seed
             /\ e.other = data /\ e.key = c.key /\ e.label = c.label
             /\ e.number = c.number /\ e.pos = c.pos
BY DEF KdfFields

LEMMA SecretIs ==
  ASSUME NEW c, DOMAIN c = KdfFields, NEW s, NEW data
  PROVE  LET e == [c EXCEPT !.state = s, !.key = data]
         IN  /\ DOMAIN e = KdfFields /\ e.state = s /\ e.seed = c.seed
             /\ e.other = c.other /\ e.key = data /\ e.label = c.label
             /\ e.salt = c.salt /\ e.cost = c.cost
             /\ e.number = c.number /\ e.pos = c.pos
BY DEF KdfFields

LEMMA LabelIs ==
  ASSUME NEW c, DOMAIN c = KdfFields, NEW s, NEW data
  PROVE  LET e == [c EXCEPT !.state = s, !.label = data]
         IN  /\ DOMAIN e = KdfFields /\ e.state = s /\ e.seed = c.seed
             /\ e.other = c.other /\ e.key = c.key /\ e.label = data
             /\ e.number = c.number /\ e.pos = c.pos
BY DEF KdfFields

\* The data that a caller gives is something.
LEMMA DataIsSomething == \A data \in KdfData : data # None
<1>1. \A x, y : Data(x) = Data(y) => x = y
  BY DEF Data
<1> QED
  BY <1>1 DEF KdfData, None

\* The key that the PRF is keyed with, when the secret is accepted.
PrfSecret(a, c, data, fits) ==
    IF a = "TLS12_PRF" THEN psa_tls12_prf_set_key(c, data)
    ELSE psa_tls12_prf_psk_to_ms_set_key(c, data, fits)
PrfKeyed(c, key) == [c EXCEPT !.state = "KEY_SET", !.key = key]
LEMMA PrfSecretTaken ==
  ASSUME NEW a \in Prfs, NEW c, NEW in, PrfHas(a, c, in), NEW data, NEW now,
         InputGiven(in, now, "SECRET", data), NEW fits, NEW r, r.status = "OK",
         r = PrfSecret(a, c, data, fits)
  PROVE  /\ c.state \in {"SEED_SET", "OTHER_KEY_SET"}
         /\ r.ctx = PrfKeyed(c, PrfKey(a, now))
<1>1. ASSUME NEW secret, r = psa_tls12_prf_set_key(c, secret)
      PROVE  /\ c.state \in {"SEED_SET", "OTHER_KEY_SET"}
             /\ r.ctx = PrfKeyed(c, secret)
  <2> DEFINE f == [c EXCEPT !.state = "KEY_SET", !.key = secret]
             st == Check(c.state \in {"SEED_SET", "OTHER_KEY_SET"}, "BAD_STATE")
  <2>1. r = Accept(st, c, f)
    BY <1>1 DEF psa_tls12_prf_set_key
  <2> HIDE DEF f, st
  <2>2. st = "OK" /\ r.ctx = f
    BY <2>1, AcceptIs
  <2>3. c.state \in {"SEED_SET", "OTHER_KEY_SET"}
    BY <2>2 DEF st, Check
  <2> QED
    BY <2>2, <2>3 DEF f, PrfKeyed
<1>2. Given(now, "SECRET") = data
  BY DEF InputGiven
<1>3. CASE a = "TLS12_PRF"
  <2>1. r = psa_tls12_prf_set_key(c, data)
    BY <1>3 DEF PrfSecret
  <2>2. PrfKey(a, now) = data
    BY <1>2, <1>3 DEF PrfKey
  <2> QED
    BY <1>1, <2>1, <2>2
<1>4. CASE a # "TLS12_PRF"
  <2>1. r = psa_tls12_prf_psk_to_ms_set_key(c, data, fits)
    BY <1>4 DEF PrfSecret
  <2> DEFINE left == IF c.state = "OTHER_KEY_SET" THEN c.other ELSE Data("zeros")
             secret == [left |-> left, psk |-> data]
  <2>2. r = psa_tls12_prf_set_key(c, secret)
    <3>1. fits
      BY <2>1, RefuseIs DEF psa_tls12_prf_psk_to_ms_set_key
    <3> QED
      BY <2>1, <3>1 DEF psa_tls12_prf_psk_to_ms_set_key
  <2>3. c.state \in {"SEED_SET", "OTHER_KEY_SET"}
    <3> HIDE DEF secret
    <3> QED
      BY <1>1, <2>2
  <2>4. Given(now, "OTHER_SECRET") = Given(in, "OTHER_SECRET")
    <3>1. "OTHER_SECRET" \in KdfSteps \ {"SECRET"}
      BY DEF KdfSteps, ByteSteps
    <3> QED
      BY <3>1, OthersGiven
  <2>5. left = IF Given(now, "OTHER_SECRET") = None THEN Data("zeros") ELSE Given(now, "OTHER_SECRET")
    <3>1. CASE c.state = "OTHER_KEY_SET"
      <4>1. c.other = Given(now, "OTHER_SECRET")
        BY <2>4, <3>1 DEF PrfHas, OnceAs
      <4>2. c.other # None
        BY <3>1 DEF PrfHas
      <4> QED
        BY <3>1, <4>1, <4>2
    <3>2. CASE c.state = "SEED_SET"
      <4>1. Given(in, "OTHER_SECRET") = None
        BY <3>2 DEF PrfHas, Never, Given
      <4> QED
        BY <2>4, <3>2, <4>1
    <3> QED
      BY <2>3, <3>1, <3>2
  <2>6. PrfKey(a, now) = secret
    <3> HIDE DEF left
    <3>1. PrfKey(a, now) = [left |-> IF Given(now, "OTHER_SECRET") = None THEN Data("zeros")
                                     ELSE Given(now, "OTHER_SECRET"),
                            psk |-> Given(now, "SECRET")]
      BY <1>4 DEF PrfKey
    <3> QED
      BY <1>2, <2>5, <3>1, Zenon
  <2> HIDE DEF secret
  <2> QED
    BY <1>1, <2>2, <2>6
<1> QED
  BY <1>3, <1>4

LEMMA PrfTakes ==
  ASSUME NEW a \in Prfs, NEW c, KdfShape(a, c), NEW in, PrfHas(a, c, in),
         NEW step \in KdfSteps, NEW data \in KdfData, NEW now,
         InputGiven(in, now, step, data), NEW fits,
         NEW r, r.status = "OK",
         r = IF a = "TLS12_PRF" THEN psa_tls12_prf_input(c, step, data)
             ELSE psa_tls12_prf_psk_to_ms_input(c, step, data, fits)
  PROVE  /\ KdfTaken(a, c, in, now, step, r.ctx)
         /\ step \in {"SECRET", "PASSWORD"} => step = "SECRET" /\ Never(in, "SECRET")
<1> DEFINE e == r.ctx
           steps == {"SEED", "SECRET", "LABEL", "OTHER_SECRET"}
<1>1. /\ DOMAIN c = KdfFields /\ c.pos \in 0 .. HashLength /\ c.number \in 0 .. LastBlock
      /\ a # "PBKDF2" /\ a \notin Hkdfs /\ a # "TLS12_ECJPAKE_TO_PMS"
  BY DEF KdfShape, Hkdfs, Prfs
<1>2. \A x \in steps : x \in KdfSteps
  BY DEF KdfSteps, ByteSteps
<1>3. \A x \in steps : x # step =>
        /\ Never(now, x) = Never(in, x) /\ Once(now, x) = Once(in, x)
        /\ Given(now, x) = Given(in, x)
  BY <1>2, OthersGiven
<1>4. /\ Never(in, step) => Once(now, step)
      /\ Given(now, step) = data
  BY DEF InputGiven
<1>5. ASSUME NEW f, DOMAIN f = KdfFields, f.pos = c.pos, f.number = c.number, PrfHas(a, f, now),
             c.state # "OUTPUT", f.state # "OUTPUT"
      PROVE  KdfTaken(a, c, in, now, step, f)
  <2>1. KdfShape(a, f)
    BY <1>1, <1>5 DEF KdfShape, PrfHas, KdfStates
  <2>2. KdfHas(a, f, now)
    BY <1>1, <1>5 DEF KdfHas
  <2> QED
    BY <1>5, <2>1, <2>2 DEF KdfTaken
<1>6. CASE step = "SEED"
  <2> DEFINE f == [c EXCEPT !.state = "SEED_SET", !.seed = data]
             st == Check(c.state = "INIT", "BAD_STATE")
  <2>1. r = Accept(st, c, f)
    BY <1>6 DEF psa_tls12_prf_psk_to_ms_input, psa_tls12_prf_input
  <2> HIDE DEF f, st
  <2>2. st = "OK" /\ e = f
    BY <2>1, AcceptIs
  <2>3. c.state = "INIT"
    BY <2>2 DEF st, Check
  <2>4. /\ DOMAIN f = KdfFields /\ f.state = "SEED_SET" /\ f.seed = data
        /\ f.other = c.other /\ f.key = c.key /\ f.label = c.label
        /\ f.number = c.number /\ f.pos = c.pos
    BY <1>1, SeedIs DEF f
  <2>5. PrfHas(a, f, now)
    BY <1>3, <1>4, <1>6, <2>3, <2>4 DEF PrfHas, OnceAs
  <2>6. KdfTaken(a, c, in, now, step, f)
    BY <1>5, <2>3, <2>4, <2>5
  <2> QED
    BY <1>6, <2>2, <2>6
<1>7. CASE step = "OTHER_SECRET"
  <2> DEFINE f == [c EXCEPT !.state = "OTHER_KEY_SET", !.other = data]
             st == Check(c.state = "SEED_SET", "BAD_STATE")
  <2>1. CASE a = "TLS12_PRF"
    <3>1. r = Refuse(c, "INVALID_ARGUMENT")
      BY <1>7, <2>1 DEF psa_tls12_prf_input
    <3> QED
      BY <3>1, RefuseIs
  <2>2. CASE a # "TLS12_PRF"
    <3>1. r = Accept(st, c, f)
      BY <1>7, <2>2 DEF psa_tls12_prf_psk_to_ms_input
    <3> HIDE DEF f, st
    <3>2. st = "OK" /\ e = f
      BY <3>1, AcceptIs
    <3>3. c.state = "SEED_SET"
      BY <3>2 DEF st, Check
    <3>4. /\ DOMAIN f = KdfFields /\ f.state = "OTHER_KEY_SET" /\ f.seed = c.seed
          /\ f.other = data /\ f.key = c.key /\ f.label = c.label
          /\ f.number = c.number /\ f.pos = c.pos
      BY <1>1, OtherIs DEF f
    <3>5. PrfHas(a, f, now)
      BY <1>3, <1>4, <1>7, <3>3, <3>4, DataIsSomething DEF PrfHas, OnceAs
    <3>6. KdfTaken(a, c, in, now, step, f)
      BY <1>5, <3>3, <3>4, <3>5
    <3> QED
      BY <1>7, <3>2, <3>6
  <2> QED
    BY <2>1, <2>2
<1>8. CASE step = "SECRET"
  <2> DEFINE f == PrfKeyed(c, PrfKey(a, now))
  <2>1. r = PrfSecret(a, c, data, fits)
    BY <1>8 DEF psa_tls12_prf_psk_to_ms_input, psa_tls12_prf_input, PrfSecret
  <2>2. InputGiven(in, now, "SECRET", data)
    BY <1>8
  <2> HIDE DEF f
  <2>3. c.state \in {"SEED_SET", "OTHER_KEY_SET"} /\ e = f
    BY <2>1, <2>2, PrfSecretTaken DEF f
  <2>4. /\ DOMAIN f = KdfFields /\ f.state = "KEY_SET" /\ f.seed = c.seed
        /\ f.other = c.other /\ f.key = PrfKey(a, now) /\ f.label = c.label
        /\ f.number = c.number /\ f.pos = c.pos
    BY <1>1, SecretIs DEF f, PrfKeyed
  <2>5. PrfHas(a, f, now)
    BY <1>3, <1>4, <1>8, <2>3, <2>4 DEF PrfHas, OnceAs
  <2>6. KdfTaken(a, c, in, now, step, f)
    BY <1>5, <2>3, <2>4, <2>5
  <2>7. Never(in, "SECRET")
    BY <2>3 DEF PrfHas
  <2> QED
    BY <1>8, <2>3, <2>6, <2>7
<1>9. CASE step = "LABEL"
  <2> DEFINE f == [c EXCEPT !.state = "LABEL_SET", !.label = data]
             st == Check(c.state = "KEY_SET", "BAD_STATE")
  <2>1. r = Accept(st, c, f)
    BY <1>9 DEF psa_tls12_prf_psk_to_ms_input, psa_tls12_prf_input
  <2> HIDE DEF f, st
  <2>2. st = "OK" /\ e = f
    BY <2>1, AcceptIs
  <2>3. c.state = "KEY_SET"
    BY <2>2 DEF st, Check
  <2>4. /\ DOMAIN f = KdfFields /\ f.state = "LABEL_SET" /\ f.seed = c.seed
        /\ f.other = c.other /\ f.key = c.key /\ f.label = data
        /\ f.number = c.number /\ f.pos = c.pos
    BY <1>1, LabelIs DEF f
  <2>5. PrfKey(a, now) = PrfKey(a, in)
    BY <1>3, <1>9 DEF PrfKey
  <2>6. PrfHas(a, f, now)
    BY <1>3, <1>4, <1>9, <2>3, <2>4, <2>5 DEF PrfHas, OnceAs
  <2>7. KdfTaken(a, c, in, now, step, f)
    BY <1>5, <2>3, <2>4, <2>6
  <2> QED
    BY <1>9, <2>2, <2>7
<1>10. CASE step \notin steps
  <2>1. r = Refuse(c, "INVALID_ARGUMENT")
    BY <1>10 DEF psa_tls12_prf_psk_to_ms_input, psa_tls12_prf_input
  <2> QED
    BY <2>1, RefuseIs
<1> QED
  BY <1>6, <1>7, <1>8, <1>9, <1>10

LEMMA CostIs ==
  ASSUME NEW c, DOMAIN c = KdfFields
  PROVE  LET e == [c EXCEPT !.state = "INPUT_COST_SET", !.cost = InputCost]
         IN  /\ DOMAIN e = KdfFields /\ e.state = "INPUT_COST_SET" /\ e.cost = InputCost
             /\ e.salt = c.salt /\ e.key = c.key
             /\ e.number = c.number /\ e.pos = c.pos
BY DEF KdfFields

LEMMA SaltAddedIs ==
  ASSUME NEW c, DOMAIN c = KdfFields, NEW data
  PROVE  LET e == [c EXCEPT !.state = "SALT_SET", !.salt = Append(@, data)]
         IN  /\ DOMAIN e = KdfFields /\ e.state = "SALT_SET" /\ e.cost = c.cost
             /\ e.salt = Append(c.salt, data) /\ e.key = c.key
             /\ e.number = c.number /\ e.pos = c.pos
BY DEF KdfFields

\* cost is what an input of a number asks for; other inputs are bytes or keys.
LEMMA PbkdfTakes ==
  ASSUME NEW c, KdfShape("PBKDF2", c), NEW in, PbkdfHas(c, in),
         NEW step \in KdfSteps, NEW data, NEW now, InputGiven(in, now, step, data), NEW cost,
         NEW r, r.status = "OK",
         \/ r = psa_pbkdf2_set_input_cost(c, step, cost)
         \/ r = psa_pbkdf2_input(c, step, data)
  PROVE  /\ KdfTaken("PBKDF2", c, in, now, step, r.ctx)
         /\ step \in {"SECRET", "PASSWORD"} => step = "PASSWORD" /\ Never(in, "PASSWORD")
<1> DEFINE a == "PBKDF2"
           e == r.ctx
           steps == {"COST", "SALT", "PASSWORD"}
<1>1. /\ DOMAIN c = KdfFields /\ c.pos \in 0 .. HashLength /\ c.number \in 0 .. LastCount
      /\ a \notin Prfs /\ a \notin Hkdfs
  BY DEF KdfShape, Hkdfs, Prfs
<1>2. \A x \in steps : x \in KdfSteps
  BY DEF KdfSteps, ByteSteps
<1>3. \A x \in steps : x # step =>
        /\ Never(now, x) = Never(in, x) /\ Once(now, x) = Once(in, x)
        /\ Given(now, x) = Given(in, x) /\ now.steps[x] = in.steps[x]
  BY <1>2, OthersGiven
<1>4. /\ Never(in, step) => Once(now, step)
      /\ Given(now, step) = data /\ ~Never(now, step)
      /\ now.steps[step] = Append(in.steps[step], data)
  BY DEF InputGiven
<1>5. ASSUME NEW f, DOMAIN f = KdfFields, f.pos = c.pos, f.number = c.number, PbkdfHas(f, now),
             c.state # "OUTPUT", f.state # "OUTPUT"
      PROVE  KdfTaken(a, c, in, now, step, f)
  <2>1. KdfShape(a, f)
    BY <1>1, <1>5 DEF KdfShape, PbkdfHas, KdfStates
  <2>2. KdfHas(a, f, now)
    BY <1>1, <1>5 DEF KdfHas
  <2> QED
    BY <1>5, <2>1, <2>2 DEF KdfTaken
<1>6. CASE r = psa_pbkdf2_set_input_cost(c, step, cost)
  <2> DEFINE f == [c EXCEPT !.state = "INPUT_COST_SET", !.cost = InputCost]
             st == First4(Check(step = "COST", "INVALID_ARGUMENT"),
                          Check(c.state = "INIT", "BAD_STATE"),
                          Check(cost # "huge", "NOT_SUPPORTED"),
                          Check(cost # "zero", "INVALID_ARGUMENT"))
  <2>1. r = Accept(st, c, f)
    BY <1>6 DEF psa_pbkdf2_set_input_cost
  <2> HIDE DEF f, st
  <2>2. st = "OK" /\ e = f
    BY <2>1, AcceptIs
  <2>3. step = "COST" /\ c.state = "INIT"
    BY <2>2 DEF st, First4, First3, First, Check
  <2>4. /\ DOMAIN f = KdfFields /\ f.state = "INPUT_COST_SET" /\ f.cost = InputCost
        /\ f.salt = c.salt /\ f.key = c.key
        /\ f.number = c.number /\ f.pos = c.pos
    BY <1>1, CostIs DEF f
  <2>5. PbkdfHas(f, now)
    BY <1>3, <1>4, <2>3, <2>4 DEF PbkdfHas, OnceAs
  <2>6. KdfTaken(a, c, in, now, step, f)
    BY <1>5, <2>3, <2>4, <2>5
  <2> QED
    BY <2>2, <2>3, <2>6
<1>7. CASE r = psa_pbkdf2_input(c, step, data)
  <2>1. CASE step = "SALT"
    <3> DEFINE f == [c EXCEPT !.state = "SALT_SET", !.salt = Append(@, data)]
               st == Check(c.state \in {"INPUT_COST_SET", "SALT_SET"}, "BAD_STATE")
    <3>1. r = Accept(st, c, f)
      BY <1>7, <2>1 DEF psa_pbkdf2_input
    <3> HIDE DEF f, st
    <3>2. st = "OK" /\ e = f
      BY <3>1, AcceptIs
    <3>3. c.state \in {"INPUT_COST_SET", "SALT_SET"}
      BY <3>2 DEF st, Check
    <3>4. /\ DOMAIN f = KdfFields /\ f.state = "SALT_SET" /\ f.cost = c.cost
          /\ f.salt = Append(c.salt, data) /\ f.key = c.key
          /\ f.number = c.number /\ f.pos = c.pos
      BY <1>1, SaltAddedIs DEF f
    <3>5. f.salt = now.steps["SALT"]
      BY <1>4, <2>1, <3>4 DEF PbkdfHas
    <3>6. PbkdfHas(f, now)
      BY <1>3, <1>4, <2>1, <3>3, <3>4, <3>5 DEF PbkdfHas, OnceAs
    <3>7. KdfTaken(a, c, in, now, step, f)
      BY <1>5, <3>3, <3>4, <3>6
    <3> QED
      BY <2>1, <3>2, <3>7
  <2>2. CASE step = "PASSWORD"
    <3> DEFINE f == [c EXCEPT !.state = "PASSWORD_SET", !.key = data]
               st == Check(c.state = "SALT_SET", "BAD_STATE")
    <3>1. r = Accept(st, c, f)
      BY <1>7, <2>2 DEF psa_pbkdf2_input
    <3> HIDE DEF f, st
    <3>2. st = "OK" /\ e = f
      BY <3>1, AcceptIs
    <3>3. c.state = "SALT_SET"
      BY <3>2 DEF st, Check
    <3>4. /\ DOMAIN f = KdfFields /\ f.state = "PASSWORD_SET" /\ f.cost = c.cost
          /\ f.salt = c.salt /\ f.key = data
          /\ f.number = c.number /\ f.pos = c.pos
      BY <1>1, SecretIs DEF f
    <3>5. Never(in, "PASSWORD")
      BY <3>3 DEF PbkdfHas
    <3>6. PbkdfHas(f, now)
      BY <1>3, <1>4, <2>2, <3>3, <3>4, <3>5 DEF PbkdfHas, OnceAs
    <3>7. KdfTaken(a, c, in, now, step, f)
      BY <1>5, <3>3, <3>4, <3>6
    <3> QED
      BY <2>2, <3>2, <3>5, <3>7
  <2>3. CASE step \notin {"SALT", "PASSWORD"}
    <3>1. r = Refuse(c, "INVALID_ARGUMENT")
      BY <1>7, <2>3 DEF psa_pbkdf2_input
    <3> QED
      BY <3>1, RefuseIs
  <2> QED
    BY <2>1, <2>2, <2>3
<1> QED
  BY <1>6, <1>7

LEMMA EcjpakeTakes ==
  ASSUME NEW c, KdfShape("TLS12_ECJPAKE_TO_PMS", c), NEW in, EcjpakeHas(c, in),
         NEW step \in KdfSteps, NEW data, NEW now, InputGiven(in, now, step, data), NEW fits,
         NEW r, r.status = "OK", r = psa_tls12_ecjpake_to_pms_input(c, step, data, fits)
  PROVE  KdfTaken("TLS12_ECJPAKE_TO_PMS", c, in, now, step, r.ctx)
<1> DEFINE a == "TLS12_ECJPAKE_TO_PMS"
           f == [c EXCEPT !.key = data]
           st == Check(fits /\ step = "SECRET", "INVALID_ARGUMENT")
<1>1. DOMAIN c = KdfFields /\ a \notin Prfs /\ a \notin Hkdfs
  BY DEF KdfShape, Hkdfs, Prfs
<1>2. r = Accept(st, c, f)
  BY DEF psa_tls12_ecjpake_to_pms_input
<1> HIDE DEF st
<1>3. /\ DOMAIN f = KdfFields /\ f.state = c.state /\ f.pos = c.pos /\ f.number = c.number
      /\ f.key = data
  BY <1>1 DEF KdfFields
<1> HIDE DEF f
<1>4. st = "OK" /\ r.ctx = f
  BY <1>2, AcceptIs
<1>5. step = "SECRET"
  BY <1>4 DEF st, Check
<1>6. Given(now, "SECRET") = data
  BY <1>5 DEF InputGiven
<1>7. EcjpakeHas(f, now)
  BY <1>3, <1>6 DEF EcjpakeHas
<1>8. KdfHas(a, f, now)
  BY <1>1, <1>7 DEF KdfHas
<1>9. KdfShape(a, f)
  BY <1>3 DEF KdfShape
<1>10. c.state # "OUTPUT" /\ f.state # "OUTPUT"
  BY <1>3 DEF EcjpakeHas
<1> QED
  BY <1>4, <1>8, <1>9, <1>10 DEF KdfTaken

\* The input that the output is a secret because of.
SecretStep(a) == IF a = "PBKDF2" THEN "PASSWORD" ELSE "SECRET"

\* Whatever the algorithm, an accepted input keeps the context in line with the inputs.
LEMMA InputTaken ==
  ASSUME NEW a \in Kdfs, NEW c, KdfShape(a, c), NEW in, KdfHas(a, c, in),
         NEW step \in KdfSteps, NEW data \in KdfData, NEW now,
         InputGiven(in, now, step, data), NEW fits, NEW cost,
         NEW r, r.status = "OK",
         \/ r = KdfInput(c, a, step, data, fits)
         \/ a = "PBKDF2" /\ r = psa_pbkdf2_set_input_cost(c, step, cost)
  PROVE  /\ KdfTaken(a, c, in, now, step, r.ctx)
         /\ step \in {"SECRET", "PASSWORD"} /\ a # "TLS12_ECJPAKE_TO_PMS" =>
              step = SecretStep(a) /\ Never(in, step)
<1>1. CASE a \in Hkdfs
  <2>1. HkdfHas(a, c, in) /\ a \notin Prfs /\ a # "PBKDF2"
    BY <1>1 DEF KdfHas, Hkdfs, Prfs
  <2>2. r = psa_hkdf_input(c, a, step, data, fits)
    <3>1. a # "TLS12_PRF" /\ a # "TLS12_PSK_TO_MS"
      BY <2>1 DEF Prfs
    <3> QED
      BY <1>1, <2>1, <3>1 DEF KdfInput
  <2>3. /\ KdfTaken(a, c, in, now, step, r.ctx)
        /\ step \in {"SECRET", "PASSWORD"} => step = "SECRET" /\ Never(in, "SECRET")
    BY <1>1, <2>1, <2>2, HkdfTakes
  <2> QED
    BY <2>1, <2>3 DEF SecretStep
<1>2. CASE a \in Prfs
  <2>1. PrfHas(a, c, in) /\ a \notin Hkdfs /\ a # "PBKDF2"
    BY <1>2 DEF KdfHas, Hkdfs, Prfs
  <2>2. r = IF a = "TLS12_PRF" THEN psa_tls12_prf_input(c, step, data)
            ELSE psa_tls12_prf_psk_to_ms_input(c, step, data, fits)
    <3>1. a = "TLS12_PRF" \/ a = "TLS12_PSK_TO_MS"
      BY <1>2 DEF Prfs
    <3> QED
      BY <2>1, <3>1 DEF KdfInput
  <2>3. /\ KdfTaken(a, c, in, now, step, r.ctx)
        /\ step \in {"SECRET", "PASSWORD"} => step = "SECRET" /\ Never(in, "SECRET")
    BY <1>2, <2>1, <2>2, PrfTakes
  <2> QED
    BY <2>1, <2>3 DEF SecretStep
<1>3. CASE a = "PBKDF2"
  <2>1. PbkdfHas(c, in) /\ a \notin Hkdfs /\ a \notin Prfs
    BY <1>3 DEF KdfHas, Hkdfs, Prfs
  <2>2. \/ r = psa_pbkdf2_set_input_cost(c, step, cost)
        \/ r = psa_pbkdf2_input(c, step, data)
    BY <1>3, <2>1 DEF KdfInput
  <2>3. /\ KdfTaken(a, c, in, now, step, r.ctx)
        /\ step \in {"SECRET", "PASSWORD"} => step = "PASSWORD" /\ Never(in, "PASSWORD")
    BY <1>3, <2>1, <2>2, PbkdfTakes
  <2> QED
    BY <1>3, <2>3 DEF SecretStep
<1>4. CASE a = "TLS12_ECJPAKE_TO_PMS"
  <2>1. EcjpakeHas(c, in) /\ a \notin Hkdfs /\ a \notin Prfs
    BY <1>4 DEF KdfHas, Hkdfs, Prfs
  <2>2. r = psa_tls12_ecjpake_to_pms_input(c, step, data, fits)
    BY <1>4, <2>1 DEF KdfInput
  <2> QED
    BY <1>4, <2>1, <2>2, EcjpakeTakes
<1> QED
  BY <1>1, <1>2, <1>3, <1>4 DEF Kdfs

-----------------------------------------------------------------------------
(* The invariant of key derivation.                                        *)

\* The operation, its context and its inputs agree.  What was drawn and what can
\* be drawn never exceed what could be, and as long as something can be drawn the
\* context is at the place in the stream that the bytes drawn say.
KdfSound(o, c, in) ==
    /\ o \in [alg : Kdfs \cup {"NONE"}, agreement : BOOLEAN, capacity : Nat,
              can_output_key : BOOLEAN]
    /\ in \in KdfIns
    /\ o.alg = "NONE" => o = NoKdf /\ c = NoCtx
    /\ o.alg # "NONE" =>
         /\ KdfShape(o.alg, c) /\ KdfHas(o.alg, c, in)
         /\ o.capacity > 0 => KdfPlace(o.alg, c, in, in.drawn)
         /\ in.limit <= psa_key_derivation_set_maximum_capacity(o.alg)
    /\ in.drawn + o.capacity <= in.limit
    /\ o.can_output_key /\ o.alg # "TLS12_ECJPAKE_TO_PMS" =>
         /\ ~Never(in, SecretStep(o.alg))
         /\ Given(in, SecretStep(o.alg)) \in {Data("key"), Data("agreed")}

\* The bytes just given are the last ones drawn.
KdfGives(a, in, out) ==
    /\ IsSeq(out) /\ Len(out) <= in.drawn
    /\ out # <<>> => Complete(a, in)
    /\ IsStream(out, a, in, in.drawn - Len(out), Len(out))

KdfInv == KdfSound(kop, kctx, kin) /\ KdfGives(kop.alg, kin, kout)

LEMMA GivesNothing ==
  ASSUME NEW a, NEW in \in KdfIns PROVE KdfGives(a, in, <<>>)
<1>1. in.drawn \in Nat /\ in.drawn - 0 = in.drawn
  BY DEF KdfIns
<1> QED
  BY <1>1, NoCells DEF KdfGives, IsStream

LEMMA CapacityType ==
  \A a \in Kdfs : psa_key_derivation_set_maximum_capacity(a) \in Nat
<1> TAKE a \in Kdfs
<1>1. /\ LastBlock * HashLength \in Nat /\ HashLength \in Nat /\ SizeMax \in Nat
      /\ MasterSecret \in Nat /\ LastCount * HashLength \in Nat
  BY KdfNumbers
<1> QED
  BY <1>1 DEF psa_key_derivation_set_maximum_capacity

LEMMA RoomIs ==
  ASSUME NEW a \in Kdfs, NEW m \in Nat, m <= psa_key_derivation_set_maximum_capacity(a)
  PROVE  /\ KdfRoom(a, m)
         /\ a = "TLS12_PSK_TO_MS" => m <= LastBlock * HashLength
         /\ a = "TLS12_ECJPAKE_TO_PMS" => m <= HashLength
<1>1. /\ LastBlock * HashLength \in Nat /\ HashLength \in Nat
      /\ MasterSecret \in Nat /\ MasterSecret <= LastBlock * HashLength
  BY KdfNumbers
<1>2. a = "TLS12_PSK_TO_MS" => m <= MasterSecret
  BY DEF psa_key_derivation_set_maximum_capacity
<1>3. a = "TLS12_ECJPAKE_TO_PMS" => m <= HashLength
  BY DEF psa_key_derivation_set_maximum_capacity
<1>4. KdfRoom(a, m)
  BY DEF psa_key_derivation_set_maximum_capacity, KdfRoom
<1> QED
  BY <1>1, <1>2, <1>3, <1>4

\* KdfCorrect follows.
LEMMA KdfInvImpliesCorrect == KdfInv => KdfCorrect
<1> SUFFICES ASSUME KdfInv PROVE KdfCorrect
  OBVIOUS
<1>1. KdfSound(kop, kctx, kin) /\ KdfGives(kop.alg, kin, kout)
  BY DEF KdfInv
<1>2. kop.alg \in Kdfs \cup {"NONE"} /\ kop.capacity \in Nat
      /\ kin.drawn \in Nat /\ kin.limit \in Nat
  BY <1>1 DEF KdfSound, KdfIns
<1>3. KdfTypeOK
  <2>1. CASE kop.alg = "NONE"
    <3>1. kctx = NoCtx
      BY <1>1, <2>1 DEF KdfSound
    <3>2. kctx.state = "INIT" /\ kctx.pos = 0 /\ kctx.number = 0
      BY <3>1 DEF NoCtx
    <3>3. kctx.pos \in 0 .. HashLength /\ kctx.number \in 0 .. LastBlock
      BY <3>2, KdfNumbers
    <3> QED
      BY <1>1, <2>1, <3>2, <3>3 DEF KdfTypeOK, KdfSound, KdfStates
  <2>2. CASE kop.alg # "NONE"
    BY <1>1, <2>2 DEF KdfTypeOK, KdfSound, KdfShape
  <2> QED
    BY <2>1, <2>2
<1>4. KdfStreamExact
  BY <1>1 DEF KdfStreamExact, KdfGives, IsStream
<1>5. KdfInputsFirst
  BY <1>1 DEF KdfInputsFirst, KdfGives
<1>6. KdfWithinCapacity
  BY <1>1 DEF KdfWithinCapacity, KdfSound
<1>7. KdfCapacityServed
  <2> SUFFICES ASSUME NEW n \in 1 .. kop.capacity, Complete(kop.alg, kin),
                      kop.alg = "TLS12_PRF" => kin.drawn + n <= LastBlock * HashLength,
                      kop.alg = "TLS12_ECJPAKE_TO_PMS" => n = HashLength
               PROVE  KdfRead(kctx, kop.alg, n).status = "OK"
    BY DEF KdfCapacityServed
  <2> DEFINE a == kop.alg
             d == kin.drawn
             r == KdfRead(kctx, a, n)
  <2>1. a # "NONE" /\ kop.capacity > 0 /\ n \in Nat /\ d + n \in Nat
    BY <1>1, <1>2 DEF KdfSound, NoKdf
  <2>2. a \in Kdfs
    BY <1>2, <2>1
  <2>3. KdfShape(a, kctx) /\ KdfHas(a, kctx, kin) /\ KdfPlace(a, kctx, kin, d)
        /\ d + kop.capacity <= kin.limit
        /\ kin.limit <= psa_key_derivation_set_maximum_capacity(a)
    BY <1>1, <2>1 DEF KdfSound
  <2>4. d + n <= psa_key_derivation_set_maximum_capacity(a)
    BY <1>2, <2>2, <2>3, CapacityType
  <2>5. KdfRoom(a, d + n) /\ (a = "TLS12_PSK_TO_MS" => d + n <= LastBlock * HashLength)
    BY <2>1, <2>2, <2>4, RoomIs
  <2>6. KdfReadRight(a, kin, d, n, r)
    BY <1>2, <2>1, <2>2, <2>3, <2>5, KdfReadGives
  <2>7. KdfServes(a, kin, d, n)
    BY <2>5 DEF KdfServes, Prfs
  <2> HIDE DEF r
  <2>8. r.status = "OK"
    BY <2>6, <2>7 DEF KdfReadRight
  <2> QED
    BY <2>8 DEF r
<1>8. KdfKeyFromKey
  BY <1>1 DEF KdfKeyFromKey, KdfSound, SecretStep
<1> QED
  BY <1>3, <1>4, <1>5, <1>6, <1>7, <1>8 DEF KdfCorrect

\* Everything that is said of the inputs is about their steps.
LEMMA SameSteps ==
  ASSUME NEW a \in Kdfs, NEW in, NEW now, now.steps = in.steps
  PROVE  /\ \A x : Given(now, x) = Given(in, x) /\ Never(now, x) = Never(in, x)
         /\ Complete(a, now) = Complete(a, in)
         /\ \A b : Reference(a, now, b) = Reference(a, in, b)
         /\ \A c : KdfHas(a, c, in) => KdfHas(a, c, now)
         /\ \A c : \A d : KdfPlace(a, c, in, d) => KdfPlace(a, c, now, d)
         /\ \A out, d, n : IsStream(out, a, in, d, n) => IsStream(out, a, now, d, n)
<1>1. \A x : Given(now, x) = Given(in, x) /\ Never(now, x) = Never(in, x)
             /\ Once(now, x) = Once(in, x)
  BY DEF Given, Never, Once
<1>2. Complete(a, now) = Complete(a, in)
  BY DEF Complete
<1>3. ASSUME NEW b PROVE Reference(a, now, b) = Reference(a, in, b)
  BY <1>1 DEF Reference
<1>4. ASSUME NEW c, KdfHas(a, c, in) PROVE KdfHas(a, c, now)
  <2>1. HkdfKey(a, now) = HkdfKey(a, in) /\ PrfKey(a, now) = PrfKey(a, in)
    BY <1>1 DEF HkdfKey, PrfKey
  <2>2. \A x, y : OnceAs(now, x, y) = OnceAs(in, x, y)
    BY <1>1 DEF OnceAs
  <2>3. a \in Hkdfs => HkdfHas(a, c, now)
    BY <1>1, <1>4, <2>1, <2>2 DEF KdfHas, HkdfHas
  <2>4. a \in Prfs => PrfHas(a, c, now)
    BY <1>1, <1>4, <2>1, <2>2 DEF KdfHas, PrfHas
  <2>5. a = "PBKDF2" => PbkdfHas(c, now)
    BY <1>1, <1>4, <2>2 DEF KdfHas, PbkdfHas
  <2>6. a = "TLS12_ECJPAKE_TO_PMS" => EcjpakeHas(c, now)
    BY <1>1, <1>4 DEF KdfHas, EcjpakeHas
  <2> QED
    BY <2>3, <2>4, <2>5, <2>6 DEF KdfHas
<1>5. ASSUME NEW c, NEW d, KdfPlace(a, c, in, d) PROVE KdfPlace(a, c, now, d)
  <2>1. PrfKey(a, now) = PrfKey(a, in)
    BY <1>1 DEF PrfKey
  <2>2. HkdfAt(a, c, in, d) => HkdfAt(a, c, now, d)
    BY <1>3 DEF HkdfAt
  <2>3. PrfAt(a, c, in, d) => PrfAt(a, c, now, d)
    BY <1>1, <1>3, <2>1 DEF PrfAt
  <2> QED
    BY <1>5, <2>2, <2>3 DEF KdfPlace, KdfAt
<1>6. ASSUME NEW out, NEW d, NEW n, IsStream(out, a, in, d, n) PROVE IsStream(out, a, now, d, n)
  BY <1>3, <1>6 DEF IsStream
<1> QED
  BY <1>1, <1>2, <1>3, <1>4, <1>5, <1>6

\* An operation that was just set up, or that lost its context.
LEMMA FreshKdf ==
  ASSUME NEW a \in Kdfs, NEW in \in KdfIns, in.steps = NoInput.steps
  PROVE  KdfShape(a, NoCtx) /\ KdfHas(a, NoCtx, in) /\ NoCtx.state # "OUTPUT"
<1>1. DOMAIN NoCtx = KdfFields
  BY DEF NoCtx, KdfFields
<1>2. /\ NoCtx.state = "INIT" /\ NoCtx.pos = 0 /\ NoCtx.number = 0 /\ ~NoCtx.info_set
      /\ NoCtx.key = None /\ NoCtx.hmac = None /\ NoCtx.salt = <<>>
  BY DEF NoCtx
<1>3. \A x \in KdfSteps : in.steps[x] = <<>>
  BY DEF NoInput
<1>4. \A x \in KdfSteps : Never(in, x) /\ Given(in, x) = None
  BY <1>3 DEF Never, Given
<1>5. \A x \in {"SECRET", "OTHER_SECRET", "PASSWORD", "LABEL", "SALT", "INFO", "SEED", "COST"} :
        x \in KdfSteps
  BY DEF KdfSteps, ByteSteps
<1>6. KdfShape(a, NoCtx)
  BY <1>1, <1>2, KdfNumbers DEF KdfShape, KdfStates
<1>7. HkdfHas(a, NoCtx, in)
  BY <1>2, <1>4, <1>5 DEF HkdfHas
<1>8. PrfHas(a, NoCtx, in)
  BY <1>2, <1>4, <1>5 DEF PrfHas
<1>9. PbkdfHas(NoCtx, in)
  BY <1>2, <1>3, <1>4, <1>5 DEF PbkdfHas
<1>10. EcjpakeHas(NoCtx, in)
  BY <1>2, <1>4, <1>5 DEF EcjpakeHas
<1> QED
  BY <1>2, <1>6, <1>7, <1>8, <1>9, <1>10 DEF KdfHas

LEMMA NoInputType == NoInput \in KdfIns /\ NoInput.drawn = 0 /\ NoInput.limit = 0
<1>1. <<>> \in Seq(KdfData)
  OBVIOUS
<1> QED
  BY <1>1 DEF NoInput, KdfIns

\* An operation not in use.
LEMMA NoKdfSound == KdfSound(NoKdf, NoCtx, NoInput)
BY NoInputType DEF KdfSound, NoKdf

\* An input that is accepted keeps the operation sound.
LEMMA AcceptedSound ==
  ASSUME NEW o, NEW c, NEW in, KdfSound(o, c, in), o.alg # "NONE",
         NEW step \in KdfSteps, NEW data \in KdfData, NEW fits, NEW cost, NEW r, r.status = "OK",
         \/ r = KdfInput(c, o.alg, step, data, fits)
         \/ o.alg = "PBKDF2" /\ r = psa_pbkdf2_set_input_cost(c, step, cost),
         NEW now, now = [in EXCEPT !.steps[step] = Append(@, data)],
         NEW p \in [alg : Kdfs \cup {"NONE"}, agreement : BOOLEAN, capacity : Nat,
                    can_output_key : BOOLEAN],
         p.alg = o.alg, p.capacity = o.capacity,
         p.can_output_key => \/ o.can_output_key
                             \/ /\ step \in {"SECRET", "PASSWORD"}
                                /\ data \in {Data("key"), Data("agreed")}
  PROVE  KdfSound(p, r.ctx, now)
<1> DEFINE a == o.alg
<1>1. /\ a \in Kdfs /\ in \in KdfIns /\ KdfShape(a, c) /\ KdfHas(a, c, in)
      /\ o.capacity > 0 => KdfPlace(a, c, in, in.drawn)
      /\ in.limit <= psa_key_derivation_set_maximum_capacity(a)
      /\ in.drawn + o.capacity <= in.limit
      /\ o.can_output_key /\ a # "TLS12_ECJPAKE_TO_PMS" =>
           /\ ~Never(in, SecretStep(a))
           /\ Given(in, SecretStep(a)) \in {Data("key"), Data("agreed")}
  BY DEF KdfSound
<1>2. /\ now \in KdfIns /\ now.drawn = in.drawn /\ now.limit = in.limit
      /\ InputGiven(in, now, step, data)
  BY <1>1, InputIsGiven
<1>3. /\ KdfTaken(a, c, in, now, step, r.ctx)
      /\ step \in {"SECRET", "PASSWORD"} /\ a # "TLS12_ECJPAKE_TO_PMS" =>
           step = SecretStep(a) /\ Never(in, step)
  <2> HIDE DEF a
  <2>1. a \in Kdfs /\ KdfShape(a, c) /\ KdfHas(a, c, in) /\ InputGiven(in, now, step, data)
    BY <1>1, <1>2
  <2>2. \/ r = KdfInput(c, a, step, data, fits)
        \/ a = "PBKDF2" /\ r = psa_pbkdf2_set_input_cost(c, step, cost)
    BY DEF a
  <2> QED
    BY ONLY <2>1, <2>2, r.status = "OK", step \in KdfSteps, data \in KdfData, InputTaken
<1>4. KdfShape(a, r.ctx) /\ KdfHas(a, r.ctx, now) /\ c.state # "OUTPUT" /\ r.ctx.state # "OUTPUT"
  BY <1>3 DEF KdfTaken
<1>5. o.capacity > 0 => KdfPlace(a, r.ctx, now, now.drawn)
  BY <1>1, <1>2, <1>4 DEF KdfPlace
<1>6. ASSUME p.can_output_key, a # "TLS12_ECJPAKE_TO_PMS"
      PROVE  /\ ~Never(now, SecretStep(a))
             /\ Given(now, SecretStep(a)) \in {Data("key"), Data("agreed")}
  <2>1. SecretStep(a) \in KdfSteps /\ SecretStep(a) \in {"SECRET", "PASSWORD"}
    BY DEF SecretStep, KdfSteps, ByteSteps
  <2>2. CASE step = SecretStep(a)
    <3>1. step \in {"SECRET", "PASSWORD"}
      BY <2>1, <2>2
    <3>2. Never(in, step)
      BY <1>3, <1>6, <3>1
    <3>3. ~o.can_output_key
      BY <1>1, <1>6, <2>2, <3>2
    <3>4. data \in {Data("key"), Data("agreed")}
      BY <1>6, <3>3
    <3>5. ~Never(now, step) /\ Given(now, step) = data
      BY <1>2 DEF InputGiven
    <3> QED
      BY <2>2, <3>4, <3>5
  <2>3. CASE step # SecretStep(a)
    <3>1. step \notin {"SECRET", "PASSWORD"}
      BY <1>3, <1>6, <2>3
    <3>2. o.can_output_key
      BY <1>6, <3>1
    <3>3. SecretStep(a) \in KdfSteps \ {step}
      BY <2>1, <2>3
    <3>4. Never(now, SecretStep(a)) = Never(in, SecretStep(a))
          /\ Given(now, SecretStep(a)) = Given(in, SecretStep(a))
      BY <1>2, <3>3, OthersGiven
    <3> QED
      BY <1>1, <1>6, <3>2, <3>4
  <2> QED
    BY <2>2, <2>3
<1>7. p.alg # "NONE"
  OBVIOUS
<1> QED
  BY <1>1, <1>2, <1>4, <1>5, <1>6, <1>7 DEF KdfSound

\* The inputs: one is accepted, or the operation is aborted.
LEMMA InputsKeep ==
  ASSUME KdfInv, NEW step \in KdfSteps, NEW data \in KdfData, NEW fits, NEW cost, NEW memory,
         NEW p \in [alg : Kdfs \cup {"NONE"}, agreement : BOOLEAN, capacity : Nat,
                    can_output_key : BOOLEAN],
         p.alg = kop.alg, p.capacity = kop.capacity,
         p.can_output_key => \/ kop.can_output_key
                             \/ /\ step \in {"SECRET", "PASSWORD"}
                                /\ data \in {Data("key"), Data("agreed")},
         NEW r,
         r.status = "OK" =>
           /\ kop.alg # "NONE"
           /\ \/ r = KdfInput(kctx, kop.alg, step, data, fits)
              \/ kop.alg = "PBKDF2" /\ r = psa_pbkdf2_set_input_cost(kctx, step, cost),
         Input(p, step, data, r, memory)
  PROVE  KdfInv'
<1>1. KdfSound(kop, kctx, kin)
  BY DEF KdfInv
<1> DEFINE now == [kin EXCEPT !.steps[step] = Append(@, data)]
<1>2. CASE First(r.status, memory) = "OK"
  <2>1. r.status = "OK"
    BY <1>2, FirstIs
  <2>2. KdfSound(p, r.ctx, now)
    BY <1>1, <2>1, AcceptedSound
  <2>3. kop' = p /\ kctx' = r.ctx /\ kin' = now /\ kout' = <<>>
    BY <1>2 DEF Input
  <2> HIDE DEF now
  <2>4. KdfSound(kop', kctx', kin')
    BY <2>2, <2>3
  <2>5. kin' \in KdfIns
    BY <2>4 DEF KdfSound
  <2>6. KdfGives(kop'.alg, kin', kout')
    BY <2>3, <2>5, GivesNothing
  <2> QED
    BY <2>4, <2>6 DEF KdfInv
<1>3. CASE First(r.status, memory) # "OK"
  <2>1. kop' = NoKdf /\ kctx' = NoCtx /\ kin' = NoInput /\ kout' = <<>>
    BY <1>3 DEF Input, psa_key_derivation_abort
  <2>2. KdfSound(kop', kctx', kin')
    BY <2>1, NoKdfSound
  <2>3. KdfGives(kop'.alg, kin', kout')
    BY <2>1, NoInputType, GivesNothing
  <2> QED
    BY <2>2, <2>3 DEF KdfInv
<1> QED
  BY <1>2, <1>3

\* A call that is refused gives nothing and changes nothing.
LEMMA RefusesKeep == ASSUME KdfInv, NEW status, KdfRefuses(status) PROVE KdfInv'
<1>1. kop' = kop /\ kctx' = kctx /\ kin' = kin /\ kout' = <<>>
  BY DEF KdfRefuses
<1>2. KdfSound(kop, kctx, kin) /\ kin \in KdfIns
  BY DEF KdfInv, KdfSound
<1>3. KdfGives(kop.alg, kin, <<>>)
  BY <1>2, GivesNothing
<1> QED
  BY <1>1, <1>2, <1>3 DEF KdfInv

\* An input of data whose type the step allows.
LEMMA InternalKeeps ==
  ASSUME KdfInv, NEW step \in KdfSteps, NEW data \in KdfData, NEW type, NEW fits, NEW memory,
         NEW p \in [alg : Kdfs \cup {"NONE"}, agreement : BOOLEAN, capacity : Nat,
                    can_output_key : BOOLEAN],
         p.alg = kop.alg, p.capacity = kop.capacity,
         p.can_output_key => \/ kop.can_output_key
                             \/ /\ step \in {"SECRET", "PASSWORD"}
                                /\ data \in {Data("key"), Data("agreed")},
         psa_key_derivation_input_internal(p, step, type, data, fits, memory)
  PROVE  KdfInv'
<1> DEFINE st == First(Check(p.alg # "NONE", "BAD_STATE"),
                       Check(psa_key_derivation_check_input_type(step, type),
                             "INVALID_ARGUMENT"))
           r == IF st = "OK" THEN KdfInput(kctx, p.alg, step, data, fits)
                ELSE Refuse(kctx, st)
<1>1. Input(p, step, data, r, memory)
  BY DEF psa_key_derivation_input_internal
<1>2. st = "OK" => p.alg # "NONE"
  BY FirstIs DEF Check
<1>3. r.status = "OK" => st = "OK"
  BY RefuseIs
<1>4. r.status = "OK" => kop.alg # "NONE" /\ r = KdfInput(kctx, kop.alg, step, data, fits)
  BY <1>2, <1>3
<1> HIDE DEF r
<1> QED
  BY <1>1, <1>4, InputsKeep

\* The record after the permission to derive a key may have been given.
LEMMA PermittedIs ==
  ASSUME KdfInv, NEW b \in BOOLEAN
  PROVE  LET p == [kop EXCEPT !.can_output_key = @ \/ b]
         IN  /\ p \in [alg : Kdfs \cup {"NONE"}, agreement : BOOLEAN, capacity : Nat,
                       can_output_key : BOOLEAN]
             /\ p.alg = kop.alg /\ p.capacity = kop.capacity
             /\ p.can_output_key => kop.can_output_key \/ b
<1>1. kop \in [alg : Kdfs \cup {"NONE"}, agreement : BOOLEAN, capacity : Nat,
               can_output_key : BOOLEAN]
  BY DEF KdfInv, KdfSound
<1> QED
  BY <1>1

LEMMA InputBytesKeeps ==
  ASSUME KdfInv, NEW step \in KdfSteps, NEW fits, psa_key_derivation_input_bytes(step, fits)
  PROVE  KdfInv'
<1>1. CASE KdfRefuses("INSUFFICIENT_MEMORY")
  BY <1>1, RefusesKeep
<1>2. ASSUME NEW memory \in Memory,
             psa_key_derivation_input_internal(kop, step, "NONE", Data("bytes"), fits, memory)
      PROVE  KdfInv'
  <2>1. kop \in [alg : Kdfs \cup {"NONE"}, agreement : BOOLEAN, capacity : Nat,
                 can_output_key : BOOLEAN]
    BY DEF KdfInv, KdfSound
  <2>2. Data("bytes") \in KdfData
    BY DEF KdfData
  <2> QED
    BY <1>2, <2>1, <2>2, InternalKeeps
<1> QED
  BY <1>1, <1>2 DEF psa_key_derivation_input_bytes

LEMMA InputKeyKeeps ==
  ASSUME KdfInv, NEW step \in KdfSteps, NEW type, NEW fits,
         psa_key_derivation_input_key(step, type, fits)
  PROVE  KdfInv'
<1> DEFINE b == step \in {"SECRET", "PASSWORD"}
           p == [kop EXCEPT !.can_output_key = @ \/ b]
<1>1. /\ p \in [alg : Kdfs \cup {"NONE"}, agreement : BOOLEAN, capacity : Nat,
                can_output_key : BOOLEAN]
      /\ p.alg = kop.alg /\ p.capacity = kop.capacity
      /\ p.can_output_key => kop.can_output_key \/ b
  BY PermittedIs
<1>2. kop \in [alg : Kdfs \cup {"NONE"}, agreement : BOOLEAN, capacity : Nat,
               can_output_key : BOOLEAN]
  BY DEF KdfInv, KdfSound
<1>3. Data("key") \in KdfData
  BY DEF KdfData
<1>4. PICK found \in {"OK", "NOT_PERMITTED"}, memory \in Memory :
        IF found # "OK" THEN Input(kop, step, Data("key"), Refuse(kctx, found), "OK")
        ELSE psa_key_derivation_input_internal(p, step, type, Data("key"), fits, memory)
  BY DEF psa_key_derivation_input_key
<1> HIDE DEF p
<1>5. CASE found # "OK"
  <2>1. Refuse(kctx, found).status # "OK"
    BY <1>5, RefuseIs
  <2>2. Input(kop, step, Data("key"), Refuse(kctx, found), "OK")
    BY <1>4, <1>5
  <2> QED
    BY <1>2, <1>3, <2>1, <2>2, InputsKeep
<1>6. CASE found = "OK"
  <2>1. psa_key_derivation_input_internal(p, step, type, Data("key"), fits, memory)
    BY <1>4, <1>6
  <2> QED
    BY <1>1, <1>3, <2>1, InternalKeeps
<1> QED
  BY <1>5, <1>6

LEMMA AgreementKeeps ==
  ASSUME KdfInv, NEW step \in KdfSteps, NEW fits, psa_key_derivation_key_agreement(step, fits)
  PROVE  KdfInv'
<1> DEFINE b == step = "SECRET"
           p == [kop EXCEPT !.can_output_key = @ \/ b]
<1>1. /\ p \in [alg : Kdfs \cup {"NONE"}, agreement : BOOLEAN, capacity : Nat,
                can_output_key : BOOLEAN]
      /\ p.alg = kop.alg /\ p.capacity = kop.capacity
      /\ p.can_output_key => kop.can_output_key \/ b
  BY PermittedIs
<1>2. Data("agreed") \in KdfData
  BY DEF KdfData
<1>3. PICK found \in {"OK", "NOT_PERMITTED"},
           agreed \in {"OK", "INVALID_ARGUMENT", "INSUFFICIENT_MEMORY"} :
        \/ KdfRefuses("INVALID_ARGUMENT")
        \/ KdfRefuses(found)
        \/ psa_key_derivation_input_internal(p, step, "DERIVE", Data("agreed"), fits, agreed)
  BY DEF psa_key_derivation_key_agreement
<1> HIDE DEF p
<1>4. CASE KdfRefuses("INVALID_ARGUMENT") \/ KdfRefuses(found)
  BY <1>4, RefusesKeep
<1>5. CASE psa_key_derivation_input_internal(p, step, "DERIVE", Data("agreed"), fits, agreed)
  BY <1>1, <1>2, <1>5, InternalKeeps
<1> QED
  BY <1>3, <1>4, <1>5

LEMMA InputIntegerKeeps ==
  ASSUME KdfInv, NEW step \in KdfSteps, NEW cost, psa_key_derivation_input_integer(step, cost)
  PROVE  KdfInv'
<1> DEFINE st == First(Check(kop.alg # "NONE", "BAD_STATE"),
                       Check(kop.alg = "PBKDF2", "INVALID_ARGUMENT"))
           r == IF st = "OK" THEN psa_pbkdf2_set_input_cost(kctx, step, cost)
                ELSE Refuse(kctx, st)
<1>1. Input(kop, step, Data("bytes"), r, "OK")
  BY DEF psa_key_derivation_input_integer
<1>2. st = "OK" => kop.alg = "PBKDF2"
  BY FirstIs DEF Check
<1>3. r.status = "OK" => st = "OK"
  BY RefuseIs
<1>4. r.status = "OK" => /\ kop.alg # "NONE" /\ kop.alg = "PBKDF2"
                         /\ r = psa_pbkdf2_set_input_cost(kctx, step, cost)
  BY <1>2, <1>3
<1> HIDE DEF r
<1>5. kop \in [alg : Kdfs \cup {"NONE"}, agreement : BOOLEAN, capacity : Nat,
               can_output_key : BOOLEAN]
  BY DEF KdfInv, KdfSound
<1>6. Data("bytes") \in KdfData
  BY DEF KdfData
<1> QED
  BY <1>1, <1>4, <1>5, <1>6, InputsKeep

\* A state of the operation in the middle of a call that gives output.
KdfDrawn(d) ==
    /\ DOMAIN d = {"status", "out", "ctx", "op", "in"}
    /\ KdfSound(d.op, d.ctx, d.in)
    /\ d.status = "OK" => KdfGives(d.op.alg, d.in, d.out)

\* Bytes that were wanted and could be given.
LEMMA OutputSound ==
  ASSUME NEW o, NEW c, NEW in, KdfSound(o, c, in), o.alg # "NONE",
         NEW n \in Nat, n <= o.capacity, o.capacity > 0,
         NEW r, r = KdfRead(c, o.alg, n), r.status = "OK",
         NEW p, p = [o EXCEPT !.capacity = Spend(@, n)],
         NEW now, now = [in EXCEPT !.drawn = @ + n]
  PROVE  KdfSound(p, r.ctx, now) /\ KdfGives(p.alg, now, r.out)
<1> DEFINE a == o.alg
           d == in.drawn
<1>1. /\ a \in Kdfs /\ in \in KdfIns /\ KdfShape(a, c) /\ KdfHas(a, c, in)
      /\ KdfPlace(a, c, in, d)
      /\ in.limit <= psa_key_derivation_set_maximum_capacity(a)
      /\ d + o.capacity <= in.limit
      /\ o \in [alg : Kdfs \cup {"NONE"}, agreement : BOOLEAN, capacity : Nat,
                can_output_key : BOOLEAN]
  BY DEF KdfSound
<1>2. d \in Nat /\ in.limit \in Nat /\ o.capacity \in Nat
  BY <1>1 DEF KdfIns
<1>3. /\ now \in KdfIns /\ now.drawn = d + n /\ now.limit = in.limit /\ now.steps = in.steps
  BY <1>1, <1>2 DEF KdfIns
<1>4. /\ p \in [alg : Kdfs \cup {"NONE"}, agreement : BOOLEAN, capacity : Nat,
                can_output_key : BOOLEAN]
      /\ p.alg = a /\ p.capacity = o.capacity - n /\ p.can_output_key = o.can_output_key
  BY <1>1, <1>2 DEF Spend
<1>5. d + n \in Nat /\ d + n <= psa_key_derivation_set_maximum_capacity(a)
  BY <1>1, <1>2, CapacityType
<1>6. KdfRoom(a, d + n)
  BY <1>1, <1>5, RoomIs
<1>7. KdfReadRight(a, in, d, n, r)
  BY <1>1, <1>2, <1>6, KdfReadGives
<1>8. /\ Complete(a, in) /\ KdfShape(a, r.ctx) /\ KdfHas(a, r.ctx, in)
      /\ a # "TLS12_ECJPAKE_TO_PMS" => KdfPlace(a, r.ctx, in, d + n)
      /\ a = "TLS12_ECJPAKE_TO_PMS" => n = HashLength
      /\ IsStream(r.out, a, in, d, n)
  BY <1>7 DEF KdfReadRight
<1>9. /\ \A x : Given(now, x) = Given(in, x) /\ Never(now, x) = Never(in, x)
      /\ Complete(a, now) = Complete(a, in)
      /\ \A e : KdfHas(a, e, in) => KdfHas(a, e, now)
      /\ \A e : \A k : KdfPlace(a, e, in, k) => KdfPlace(a, e, now, k)
      /\ \A out, k, m : IsStream(out, a, in, k, m) => IsStream(out, a, now, k, m)
  <2>1. a \in Kdfs /\ now.steps = in.steps
    BY <1>1, <1>3
  <2> HIDE DEF a
  <2> QED
    BY ONLY <2>1, SameSteps
<1>10. IsStream(r.out, a, now, d, n) /\ Len(r.out) = n /\ IsSeq(r.out) /\ Complete(a, now)
       /\ KdfHas(a, r.ctx, now)
  <2>1. IsStream(r.out, a, now, d, n)
    BY <1>8, <1>9
  <2>2. Len(r.out) = n /\ IsSeq(r.out)
    BY <2>1 DEF IsStream
  <2> QED
    BY <1>8, <1>9, <2>1, <2>2
<1>11. KdfGives(a, now, r.out)
  <2>1. d + n - n = d
    BY <1>2
  <2> QED
    BY <1>2, <1>3, <1>10, <2>1 DEF KdfGives
<1>12. p.capacity > 0 => KdfPlace(a, r.ctx, now, d + n)
  <2>1. CASE a # "TLS12_ECJPAKE_TO_PMS"
    BY <1>8, <1>9, <2>1
  <2>2. CASE a = "TLS12_ECJPAKE_TO_PMS"
    <3>1. psa_key_derivation_set_maximum_capacity(a) = HashLength
      BY <2>2 DEF psa_key_derivation_set_maximum_capacity
    <3>2. n = HashLength /\ HashLength \in Nat
      BY <1>8, <2>2, KdfNumbers
    <3> QED
      BY <1>1, <1>2, <1>4, <3>1, <3>2
  <2> QED
    BY <2>1, <2>2
<1>13. now.drawn + p.capacity <= now.limit
  BY <1>1, <1>2, <1>3, <1>4
<1>14. p.can_output_key /\ a # "TLS12_ECJPAKE_TO_PMS" =>
         /\ ~Never(now, SecretStep(a))
         /\ Given(now, SecretStep(a)) \in {Data("key"), Data("agreed")}
  BY <1>4, <1>9 DEF KdfSound
<1> QED
  BY <1>1, <1>3, <1>4, <1>8, <1>10, <1>11, <1>12, <1>13, <1>14 DEF KdfSound

\* An operation whose output failed has no context left and nothing to give.
LEMMA WipedSound ==
  ASSUME NEW o, NEW c, NEW in, KdfSound(o, c, in), o.alg # "NONE"
  PROVE  KdfSound(WipeKeepingAlg(o), NoCtx,
                  [NoInput EXCEPT !.drawn = in.drawn, !.limit = in.drawn])
<1> DEFINE p == WipeKeepingAlg(o)
           now == [NoInput EXCEPT !.drawn = in.drawn, !.limit = in.drawn]
           a == o.alg
<1>1. /\ a \in Kdfs /\ in \in KdfIns /\ o.agreement \in BOOLEAN /\ o.capacity \in Nat
      /\ in.limit <= psa_key_derivation_set_maximum_capacity(a)
      /\ in.drawn + o.capacity <= in.limit
  BY DEF KdfSound
<1>2. in.drawn \in Nat /\ in.limit \in Nat
  BY <1>1 DEF KdfIns
<1>3. now \in KdfIns /\ now.steps = NoInput.steps /\ now.drawn = in.drawn /\ now.limit = in.drawn
  BY <1>2, NoInputType DEF KdfIns
<1>4. /\ p \in [alg : Kdfs \cup {"NONE"}, agreement : BOOLEAN, capacity : Nat,
                can_output_key : BOOLEAN]
      /\ p.alg = a /\ p.capacity = 0 /\ ~p.can_output_key
  BY <1>1 DEF WipeKeepingAlg, psa_key_derivation_abort, NoKdf
<1>5. KdfShape(a, NoCtx) /\ KdfHas(a, NoCtx, now)
  <2> HIDE DEF a, now
  <2> QED
    BY <1>1, <1>3, FreshKdf
<1>6. in.drawn <= psa_key_derivation_set_maximum_capacity(a)
  BY <1>1, <1>2, CapacityType
<1> HIDE DEF p, now
<1>7. KdfSound(p, NoCtx, now)
  BY <1>1, <1>2, <1>3, <1>4, <1>5, <1>6 DEF KdfSound
<1> QED
  BY <1>7 DEF p, now

\* psa_key_derivation_output_bytes(), whatever its outcome.
LEMMA OutputKeeps ==
  ASSUME NEW d, KdfDrawn(d), NEW n \in Nat, NEW memory,
         NEW e, e = psa_key_derivation_output_bytes(d, n, memory)
  PROVE  KdfDrawn(e)
<1> DEFINE early == First(Check(d.op.alg # "NONE", "BAD_STATE"),
                          Check(n # 0 \/ d.op.capacity # 0, "INSUFFICIENT_DATA"))
           r == KdfRead(d.ctx, d.op.alg, n)
           st == First3(IF n = 0 THEN "OK" ELSE memory,
                        Check(n <= d.op.capacity, "INSUFFICIENT_DATA"), r.status)
<1>1. /\ DOMAIN d = {"status", "out", "ctx", "op", "in"} /\ KdfSound(d.op, d.ctx, d.in)
      /\ d.op.capacity \in Nat
  BY DEF KdfDrawn, KdfSound
<1>2. early = "OK" => d.op.alg # "NONE" /\ (n # 0 \/ d.op.capacity # 0)
  BY FirstIs DEF Check
<1>3. st = "OK" => n <= d.op.capacity /\ r.status = "OK"
  <2>1. st = First(IF n = 0 THEN "OK" ELSE memory,
                   First(Check(n <= d.op.capacity, "INSUFFICIENT_DATA"), r.status))
    BY DEF First3
  <2> HIDE DEF r, st
  <2>2. st = "OK" => Check(n <= d.op.capacity, "INSUFFICIENT_DATA") = "OK" /\ r.status = "OK"
    BY <2>1, FirstIs
  <2> QED
    BY <2>2 DEF Check
<1>4. \/ early # "OK" /\ e = [d EXCEPT !.status = early, !.out = <<>>]
      \/ /\ early = "OK" /\ st = "OK"
         /\ e = [status |-> "OK", out |-> r.out, ctx |-> r.ctx,
                 op |-> [d.op EXCEPT !.capacity = Spend(@, n)],
                 in |-> [d.in EXCEPT !.drawn = @ + n]]
      \/ /\ early = "OK" /\ st # "OK"
         /\ e = [status |-> st, out |-> <<>>, ctx |-> NoCtx, op |-> WipeKeepingAlg(d.op),
                 in |-> [NoInput EXCEPT !.drawn = d.in.drawn, !.limit = d.in.drawn]]
  BY DEF psa_key_derivation_output_bytes
<1> HIDE DEF early, st, r
<1>5. CASE early # "OK" /\ e = [d EXCEPT !.status = early, !.out = <<>>]
  <2>1. /\ DOMAIN e = {"status", "out", "ctx", "op", "in"}
        /\ e.status = early /\ e.op = d.op /\ e.ctx = d.ctx /\ e.in = d.in
    BY <1>1, <1>5
  <2> QED
    BY <1>1, <1>5, <2>1 DEF KdfDrawn
<1>6. CASE /\ early = "OK" /\ st = "OK"
           /\ e = [status |-> "OK", out |-> r.out, ctx |-> r.ctx,
                   op |-> [d.op EXCEPT !.capacity = Spend(@, n)],
                   in |-> [d.in EXCEPT !.drawn = @ + n]]
  <2>1. d.op.alg # "NONE" /\ n <= d.op.capacity /\ d.op.capacity > 0 /\ r.status = "OK"
    BY <1>1, <1>2, <1>3, <1>6
  <2> DEFINE p == [d.op EXCEPT !.capacity = Spend(@, n)]
             now == [d.in EXCEPT !.drawn = @ + n]
  <2>2. KdfSound(p, r.ctx, now) /\ KdfGives(p.alg, now, r.out)
    BY <1>1, <2>1, OutputSound DEF r
  <2>3. e = [status |-> "OK", out |-> r.out, ctx |-> r.ctx, op |-> p, in |-> now]
    BY <1>6
  <2> HIDE DEF p, now
  <2> QED
    BY <2>2, <2>3 DEF KdfDrawn
<1>7. CASE /\ early = "OK" /\ st # "OK"
           /\ e = [status |-> st, out |-> <<>>, ctx |-> NoCtx, op |-> WipeKeepingAlg(d.op),
                   in |-> [NoInput EXCEPT !.drawn = d.in.drawn, !.limit = d.in.drawn]]
  <2> DEFINE now == [NoInput EXCEPT !.drawn = d.in.drawn, !.limit = d.in.drawn]
  <2>1. KdfSound(WipeKeepingAlg(d.op), NoCtx, now)
    BY <1>1, <1>2, <1>7, WipedSound
  <2>2. e = [status |-> st, out |-> <<>>, ctx |-> NoCtx, op |-> WipeKeepingAlg(d.op),
             in |-> now]
    BY <1>7
  <2> HIDE DEF now
  <2> QED
    BY <1>7, <2>1, <2>2 DEF KdfDrawn
<1> QED
  BY <1>4, <1>5, <1>6, <1>7

\* The candidates for a key on a curve are drawn one after the other.
TryOnce(n, memory, d) ==
    IF d.status = "OK" THEN psa_key_derivation_output_bytes(d, n, memory) ELSE d
TriesLoop(n, memory, tries, f) ==
    f = [k \in 0 .. tries |-> IF k = 0 THEN Now ELSE TryOnce(n, memory, f[k - 1])]

LEMMA TriesExist ==
  ASSUME NEW n, NEW memory, NEW tries \in Nat
  PROVE  \E f : TriesLoop(n, memory, tries, f)
<1> DEFINE S == {m \in Nat : \E f : TriesLoop(n, memory, m, f)}
           At(f, k) == IF k = 0 THEN Now ELSE TryOnce(n, memory, f[k - 1])
<1>1. 0 \in S
  <2> DEFINE f == [k \in 0 .. 0 |-> Now]
  <2>1. TriesLoop(n, memory, 0, f)
    BY DEF TriesLoop
  <2> QED
    BY <2>1
<1>2. ASSUME NEW k \in 1 .. tries, k - 1 \in S PROVE k \in S
  <2>1. PICK f : TriesLoop(n, memory, k - 1, f)
    BY <1>2
  <2> DEFINE g == [j \in 0 .. k |-> At(f, j)]
  <2>2. f = [j \in 0 .. k - 1 |-> At(f, j)]
    BY <2>1 DEF TriesLoop
  <2>3. ASSUME NEW j \in 0 .. k PROVE At(g, j) = At(f, j)
    <3>1. CASE j = 0
      BY <3>1
    <3>2. CASE j # 0
      <4>1. j - 1 \in 0 .. k - 1 /\ j - 1 \in 0 .. k
        BY <3>2
      <4>2. g[j - 1] = f[j - 1]
        <5> HIDE DEF At
        <5> QED
          BY <4>1, <2>2
      <4> QED
        BY <4>2
    <3> QED
      BY <3>1, <3>2
  <2>4. g = [j \in 0 .. k |-> At(g, j)]
    <3> HIDE DEF At
    <3>1. \A h : (\A j \in 0 .. k : At(h, j) = At(f, j)) =>
                   [j \in 0 .. k |-> At(f, j)] = [j \in 0 .. k |-> At(h, j)]
      OBVIOUS
    <3> HIDE DEF g
    <3>2. g = [j \in 0 .. k |-> At(f, j)]
      BY DEF g
    <3> QED
      BY <2>3, <3>1, <3>2
  <2>5. TriesLoop(n, memory, k, g)
    <3> HIDE DEF g
    <3> QED
      BY <2>4 DEF TriesLoop
  <2> QED
    BY <2>5
<1> HIDE DEF S
<1>3. tries \in S
  BY <1>1, <1>2, UpTo
<1> QED
  BY <1>3 DEF S

LEMMA CandidatesIs ==
  ASSUME NEW n, NEW memory, NEW tries \in Nat
  PROVE  \E f : /\ Candidates(n, tries, memory) = f[tries]
                /\ f[0] = Now
                /\ \A k \in 1 .. tries : f[k] = TryOnce(n, memory, f[k - 1])
<1> DEFINE f == CHOOSE f : TriesLoop(n, memory, tries, f)
<1>1. TriesLoop(n, memory, tries, f)
  BY TriesExist
<1>2. Candidates(n, tries, memory) = f[tries]
  BY DEF Candidates, TriesLoop, TryOnce
<1> HIDE DEF f
<1> DEFINE At(k) == IF k = 0 THEN Now ELSE TryOnce(n, memory, f[k - 1])
<1>3. f = [k \in 0 .. tries |-> At(k)]
  BY <1>1 DEF TriesLoop
<1>4. ASSUME NEW k \in 0 .. tries PROVE f[k] = At(k)
  <2> HIDE DEF At
  <2>1. [j \in 0 .. tries |-> At(j)][k] = At(k)
    OBVIOUS
  <2> QED
    BY <1>3, <2>1, Zenon
<1>5. f[0] = Now
  <2>1. 0 \in 0 .. tries /\ At(0) = Now
    OBVIOUS
  <2> QED
    BY <1>4, <2>1, Zenon
<1>6. ASSUME NEW k \in 1 .. tries PROVE f[k] = TryOnce(n, memory, f[k - 1])
  <2>1. k \in 0 .. tries /\ k # 0
    OBVIOUS
  <2>2. f[k] = At(k)
    BY <1>4, <2>1, Zenon
  <2>3. At(k) = TryOnce(n, memory, f[k - 1])
    BY <2>1
  <2> QED
    BY <2>2, <2>3, Zenon
<1> QED
  BY <1>2, <1>5, <1>6

LEMMA CandidatesKeep ==
  ASSUME KdfDrawn(Now), NEW n \in Nat, NEW memory, NEW tries \in Nat
  PROVE  KdfDrawn(Candidates(n, tries, memory))
<1>1. PICK f : /\ Candidates(n, tries, memory) = f[tries]
               /\ f[0] = Now
               /\ \A k \in 1 .. tries : f[k] = TryOnce(n, memory, f[k - 1])
  BY CandidatesIs
<1> DEFINE S == {k \in 0 .. tries : KdfDrawn(f[k])}
<1>2. 0 \in S
  BY <1>1
<1>3. ASSUME NEW k \in 1 .. tries, k - 1 \in S PROVE k \in S
  <2>1. KdfDrawn(f[k - 1]) /\ k \in 0 .. tries
    BY <1>3
  <2>2. f[k] = TryOnce(n, memory, f[k - 1])
    BY <1>1
  <2>3. CASE f[k - 1].status = "OK"
    <3>1. f[k] = psa_key_derivation_output_bytes(f[k - 1], n, memory)
      BY <2>2, <2>3 DEF TryOnce
    <3>2. KdfDrawn(f[k])
      BY <2>1, <3>1, OutputKeeps
    <3> QED
      BY <2>1, <3>2
  <2>4. CASE f[k - 1].status # "OK"
    <3>1. f[k] = f[k - 1]
      BY <2>2, <2>4 DEF TryOnce
    <3> QED
      BY <2>1, <3>1
  <2> QED
    BY <2>3, <2>4
<1> HIDE DEF S
<1>4. tries \in S
  BY <1>2, <1>3, UpTo
<1>5. KdfDrawn(f[tries])
  BY <1>4 DEF S
<1> QED
  BY <1>1, <1>5

LEMMA NowDrawn == KdfInv => KdfDrawn(Now)
<1> SUFFICES ASSUME KdfInv PROVE KdfDrawn(Now)
  OBVIOUS
<1>1. KdfSound(kop, kctx, kin) /\ kin \in KdfIns
  BY DEF KdfInv, KdfSound
<1>2. KdfGives(kop.alg, kin, <<>>)
  BY <1>1, GivesNothing
<1> QED
  BY <1>1, <1>2 DEF KdfDrawn, Now

LEMMA DrawKeeps ==
  ASSUME NEW d, KdfDrawn(d), NEW status, Draw(d, status) PROVE KdfInv'
<1>1. kop' = d.op /\ kctx' = d.ctx /\ kin' = d.in
      /\ kout' = IF First(d.status, status) = "OK" THEN d.out ELSE <<>>
  BY DEF Draw
<1>2. KdfSound(d.op, d.ctx, d.in) /\ d.in \in KdfIns
  BY DEF KdfDrawn, KdfSound
<1>3. KdfSound(kop', kctx', kin')
  BY <1>1, <1>2
<1>4. KdfGives(kop'.alg, kin', kout')
  <2>1. CASE First(d.status, status) = "OK"
    <3>1. d.status = "OK"
      BY <2>1, FirstIs
    <3>2. KdfGives(d.op.alg, d.in, d.out) /\ kout' = d.out
      BY <1>1, <2>1, <3>1 DEF KdfDrawn
    <3> QED
      BY <1>1, <3>2
  <2>2. CASE First(d.status, status) # "OK"
    <3>1. kout' = <<>>
      BY <1>1, <2>2
    <3>2. KdfGives(d.op.alg, d.in, <<>>)
      BY <1>2, GivesNothing
    <3> QED
      BY <1>1, <3>1, <3>2
  <2> QED
    BY <2>1, <2>2
<1> QED
  BY <1>3, <1>4 DEF KdfInv

LEMMA OutputBytesKeeps == ASSUME KdfInv, NEW n \in Nat, KdfOutputBytes(n) PROVE KdfInv'
<1>1. PICK memory \in Memory : Draw(psa_key_derivation_output_bytes(Now, n, memory), "OK")
  BY DEF KdfOutputBytes
<1> DEFINE d == psa_key_derivation_output_bytes(Now, n, memory)
<1>2. KdfDrawn(d)
  BY NowDrawn, OutputKeeps
<1>3. Draw(d, "OK")
  BY <1>1
<1> HIDE DEF d
<1> QED
  BY <1>2, <1>3, DrawKeeps

LEMMA OutputKeyKeeps ==
  ASSUME KdfInv, NEW n \in Nat, NEW tries \in Nat, KdfOutputKey(n, tries) PROVE KdfInv'
<1>1. PICK before \in {"OK", "INVALID_ARGUMENT", "INSUFFICIENT_MEMORY"},
           memory \in Memory, after \in Memory :
        LET status == First3(Check(kop.alg # "NONE", "BAD_STATE"),
                              Check(kop.can_output_key, "NOT_PERMITTED"), before)
        IN  IF status # "OK" THEN KdfRefuses(status)
            ELSE Draw(Candidates(n, tries, memory), after)
  BY DEF KdfOutputKey
<1> DEFINE st == First3(Check(kop.alg # "NONE", "BAD_STATE"),
                        Check(kop.can_output_key, "NOT_PERMITTED"), before)
           d == Candidates(n, tries, memory)
<1>2. KdfDrawn(d)
  BY NowDrawn, CandidatesKeep
<1>3. KdfRefuses(st) \/ Draw(d, after)
  BY <1>1
<1> HIDE DEF d, st
<1> QED
  BY <1>2, <1>3, DrawKeeps, RefusesKeep

LEMMA SetupKeeps ==
  ASSUME KdfInv, NEW alg \in Kdfs, NEW agreement \in BOOLEAN,
         psa_key_derivation_setup(alg, agreement)
  PROVE  KdfInv'
<1> DEFINE capacity == psa_key_derivation_set_maximum_capacity(alg)
<1>1. PICK supported \in {"OK", "NOT_SUPPORTED", "INVALID_ARGUMENT"} :
        LET status == First3(Check(kop.alg = "NONE", "BAD_STATE"), supported,
                              Check(agreement => alg # "TLS12_ECJPAKE_TO_PMS",
                                    "INVALID_ARGUMENT"))
        IN  IF status # "OK" THEN KdfRefuses(status)
            ELSE /\ kop' = [kop EXCEPT !.alg = alg, !.agreement = agreement,
                                       !.capacity = capacity]
                 /\ kctx' = NoCtx
                 /\ kin' = [NoInput EXCEPT !.limit = capacity]
                 /\ kout' = <<>>
  BY DEF psa_key_derivation_setup
<1> DEFINE status == First3(Check(kop.alg = "NONE", "BAD_STATE"), supported,
                            Check(agreement => alg # "TLS12_ECJPAKE_TO_PMS",
                                  "INVALID_ARGUMENT"))
<1>2. CASE status # "OK"
  <2>1. KdfRefuses(status)
    BY <1>1, <1>2
  <2> HIDE DEF status
  <2> QED
    BY <2>1, RefusesKeep
<1>3. CASE status = "OK"
  <2>1. kop.alg = "NONE"
    BY <1>3, FirstIs DEF First3, Check
  <2>2. /\ kop' = [kop EXCEPT !.alg = alg, !.agreement = agreement, !.capacity = capacity]
        /\ kctx' = NoCtx /\ kin' = [NoInput EXCEPT !.limit = capacity] /\ kout' = <<>>
    BY <1>1, <1>3
  <2>3. kop = NoKdf
    BY <2>1 DEF KdfInv, KdfSound
  <2>4. capacity \in Nat
    BY CapacityType
  <2> HIDE DEF capacity
  <2>5. /\ kop' \in [alg : Kdfs \cup {"NONE"}, agreement : BOOLEAN, capacity : Nat,
                      can_output_key : BOOLEAN]
        /\ kop'.alg = alg /\ kop'.capacity = capacity /\ ~kop'.can_output_key
    BY <2>2, <2>3, <2>4 DEF NoKdf
  <2>6. kin' \in KdfIns /\ kin'.steps = NoInput.steps /\ kin'.drawn = 0 /\ kin'.limit = capacity
    BY <2>2, <2>4, NoInputType DEF KdfIns
  <2>7. KdfShape(alg, kctx') /\ KdfHas(alg, kctx', kin') /\ kctx'.state # "OUTPUT"
    BY <2>2, <2>6, FreshKdf
  <2>8. KdfPlace(alg, kctx', kin', kin'.drawn)
    BY <2>6, <2>7 DEF KdfPlace
  <2>9. alg # "NONE" /\ kin'.limit <= psa_key_derivation_set_maximum_capacity(alg)
    BY <2>4, <2>6 DEF Kdfs, Hkdfs, Prfs, capacity
  <2>10. KdfSound(kop', kctx', kin')
    BY <2>4, <2>5, <2>6, <2>7, <2>8, <2>9 DEF KdfSound
  <2>11. KdfGives(kop'.alg, kin', kout')
    BY <2>2, <2>6, GivesNothing
  <2> QED
    BY <2>10, <2>11 DEF KdfInv
<1> QED
  BY <1>2, <1>3

LEMMA KdfAbortKeeps == KdfAbort => KdfInv'
<1> SUFFICES ASSUME KdfAbort PROVE KdfInv'
  OBVIOUS
<1>1. kop' = NoKdf /\ kctx' = NoCtx /\ kin' = NoInput /\ kout' = <<>>
  BY DEF KdfAbort, psa_key_derivation_abort
<1>2. KdfSound(kop', kctx', kin')
  BY <1>1, NoKdfSound
<1>3. KdfGives(kop'.alg, kin', kout')
  BY <1>1, NoInputType, GivesNothing
<1> QED
  BY <1>2, <1>3 DEF KdfInv

LEMMA SetCapacityKeeps ==
  ASSUME KdfInv, NEW capacity \in Nat, psa_key_derivation_set_capacity(capacity)
  PROVE  KdfInv'
<1> DEFINE status == First(Check(kop.alg # "NONE", "BAD_STATE"),
                           Check(capacity <= kop.capacity, "INVALID_ARGUMENT"))
<1>1. CASE status # "OK"
  <2>1. KdfRefuses(status)
    BY <1>1 DEF psa_key_derivation_set_capacity
  <2> HIDE DEF status
  <2> QED
    BY <2>1, RefusesKeep
<1>2. CASE status = "OK"
  <2>1. kop.alg # "NONE" /\ capacity <= kop.capacity
    BY <1>2, FirstIs DEF Check
  <2>2. /\ kop' = [kop EXCEPT !.capacity = capacity]
        /\ kin' = [kin EXCEPT !.limit = kin.drawn + capacity]
        /\ kout' = <<>> /\ kctx' = kctx
    BY <1>2 DEF psa_key_derivation_set_capacity
  <2> DEFINE a == kop.alg
  <2>3. /\ a \in Kdfs /\ kin \in KdfIns /\ KdfShape(a, kctx) /\ KdfHas(a, kctx, kin)
        /\ kop.capacity > 0 => KdfPlace(a, kctx, kin, kin.drawn)
        /\ kin.limit <= psa_key_derivation_set_maximum_capacity(a)
        /\ kin.drawn + kop.capacity <= kin.limit
        /\ kop \in [alg : Kdfs \cup {"NONE"}, agreement : BOOLEAN, capacity : Nat,
                     can_output_key : BOOLEAN]
        /\ kop.can_output_key /\ a # "TLS12_ECJPAKE_TO_PMS" =>
              /\ ~Never(kin, SecretStep(a))
              /\ Given(kin, SecretStep(a)) \in {Data("key"), Data("agreed")}
    BY <2>1 DEF KdfInv, KdfSound
  <2>4. kin.drawn \in Nat /\ kin.limit \in Nat /\ kop.capacity \in Nat
    BY <2>3 DEF KdfIns
  <2>5. /\ kin' \in KdfIns /\ kin'.drawn = kin.drawn /\ kin'.limit = kin.drawn + capacity
        /\ kin'.steps = kin.steps
    BY <2>2, <2>3, <2>4 DEF KdfIns
  <2>6. /\ kop' \in [alg : Kdfs \cup {"NONE"}, agreement : BOOLEAN, capacity : Nat,
                      can_output_key : BOOLEAN]
        /\ kop'.alg = a /\ kop'.capacity = capacity
        /\ kop'.can_output_key = kop.can_output_key
    BY <2>2, <2>3
  <2>7. /\ \A x : Given(kin', x) = Given(kin, x) /\ Never(kin', x) = Never(kin, x)
        /\ \A e : KdfHas(a, e, kin) => KdfHas(a, e, kin')
        /\ \A e : \A k : KdfPlace(a, e, kin, k) => KdfPlace(a, e, kin', k)
    BY <2>3, <2>5, SameSteps
  <2>8. kin'.limit <= psa_key_derivation_set_maximum_capacity(a)
    BY <2>1, <2>3, <2>4, <2>5, CapacityType
  <2>9. kop'.capacity > 0 => KdfPlace(a, kctx', kin', kin'.drawn)
    BY <2>1, <2>2, <2>3, <2>4, <2>5, <2>6, <2>7
  <2>10. kin'.drawn + kop'.capacity <= kin'.limit
    BY <2>4, <2>5, <2>6
  <2>11. /\ KdfShape(a, kctx') /\ KdfHas(a, kctx', kin')
    BY <2>2, <2>3, <2>7
  <2>12. a # "NONE"
    BY <2>1
  <2>13. kop'.can_output_key /\ a # "TLS12_ECJPAKE_TO_PMS" =>
              /\ ~Never(kin', SecretStep(a))
              /\ Given(kin', SecretStep(a)) \in {Data("key"), Data("agreed")}
    BY <2>3, <2>6, <2>7
  <2> HIDE DEF a
  <2>14. KdfSound(kop', kctx', kin')
    BY <2>5, <2>6, <2>8, <2>9, <2>10, <2>11, <2>12, <2>13 DEF KdfSound
  <2>15. KdfGives(kop'.alg, kin', kout')
    BY <2>2, <2>5, GivesNothing
  <2> QED
    BY <2>14, <2>15 DEF KdfInv
<1> QED
  BY <1>1, <1>2

LEMMA KdfInvInit == KdfInit => KdfInv
<1> SUFFICES ASSUME KdfInit PROVE KdfInv
  OBVIOUS
<1>1. KdfSound(kop, kctx, kin)
  BY NoKdfSound DEF KdfInit
<1>2. KdfGives(kop.alg, kin, kout)
  BY NoInputType, GivesNothing DEF KdfInit
<1> QED
  BY <1>1, <1>2 DEF KdfInv

LEMMA KdfInvStep == KdfInv /\ [KdfNext]_kdfVars => KdfInv'
<1> SUFFICES ASSUME KdfInv, [KdfNext]_kdfVars PROVE KdfInv'
  OBVIOUS
<1>1. ASSUME NEW alg \in Kdfs, NEW agreement \in BOOLEAN,
             psa_key_derivation_setup(alg, agreement)
      PROVE  KdfInv'
  BY <1>1, SetupKeeps
<1>2. CASE KdfAbort
  BY <1>2, KdfAbortKeeps
<1>3. ASSUME NEW capacity \in 0 .. SizeMax, psa_key_derivation_set_capacity(capacity)
      PROVE  KdfInv'
  <2>1. capacity \in Nat
    OBVIOUS
  <2> QED
    BY <1>3, <2>1, SetCapacityKeeps
<1>4. ASSUME NEW step \in KdfSteps, NEW fits,
             \/ psa_key_derivation_input_bytes(step, fits)
             \/ \E type \in KeyTypes : psa_key_derivation_input_key(step, type, fits)
             \/ psa_key_derivation_key_agreement(step, fits)
      PROVE  KdfInv'
  BY <1>4, InputBytesKeeps, InputKeyKeeps, AgreementKeeps
<1>5. ASSUME NEW step \in {"COST", "SALT"}, NEW cost,
             psa_key_derivation_input_integer(step, cost)
      PROVE  KdfInv'
  <2>1. step \in KdfSteps
    BY DEF KdfSteps, ByteSteps
  <2> QED
    BY <1>5, <2>1, InputIntegerKeeps
<1>6. ASSUME NEW n \in 0 .. MaxDraw, KdfOutputBytes(n) PROVE KdfInv'
  <2>1. n \in Nat
    OBVIOUS
  <2> QED
    BY <1>6, <2>1, OutputBytesKeeps
<1>7. ASSUME NEW n \in 1 .. MaxDraw, NEW tries \in 1 .. MaxTries, KdfOutputKey(n, tries)
      PROVE  KdfInv'
  <2>1. n \in Nat /\ tries \in Nat
    OBVIOUS
  <2> QED
    BY <1>7, <2>1, OutputKeyKeeps
<1>8. CASE UNCHANGED kdfVars
  <2>1. kop' = kop /\ kctx' = kctx /\ kin' = kin /\ kout' = kout
    BY <1>8 DEF kdfVars
  <2> QED
    BY <2>1 DEF KdfInv
<1> QED
  BY <1>1, <1>2, <1>3, <1>4, <1>5, <1>6, <1>7, <1>8 DEF KdfNext

\* Whatever calls of psa_key_derivation_*() are made on an operation, in whatever
\* order and with whatever failures, the bytes that it gives are the next ones of
\* the stream that the standard of its algorithm defines for its inputs, never
\* before the inputs are there and never beyond the capacity; a request within
\* the capacity is served; and a key is only derived from the secret of a key.
THEOREM KdfGivesItsStream == KdfSpec => []KdfCorrect
<1>1. KdfInit => KdfInv
  BY KdfInvInit
<1>2. KdfInv /\ [KdfNext]_kdfVars => KdfInv'
  BY KdfInvStep
<1>3. KdfInv => KdfCorrect
  BY KdfInvImpliesCorrect
<1> QED
  BY <1>1, <1>2, <1>3, PTL DEF KdfSpec

=============================================================================

----------------------------- MODULE LoopsProof -----------------------------
(***************************************************************************)
(* Loops that are calculated in one step of a specification: how they      *)
(* unfold, and what follows for the components that are made of them:      *)
(* interruptible operations, and the allocator on a static buffer, whose   *)
(* loops go along lists in memory.                                         *)
(***************************************************************************)
EXTENDS Interruptible, BufferAlloc, SequenceTheorems, FiniteSetTheorems,
        WellFoundedInduction, TLAPS

-----------------------------------------------------------------------------
(* Numbers, and functions defined by recursion on them.                    *)

\* A set of numbers has a least one.
LEMMA LeastNumber ==
  ASSUME NEW T \in SUBSET Nat, T # {}
  PROVE  \E x \in T : \A y \in T : x <= y
<1>1. IsWellFoundedOn(OpToRel(<, Nat), Nat)
  BY NatLessThanWellFounded
<1>2. PICK x \in T : \A y \in T : ~(<<y, x>> \in OpToRel(<, Nat))
  BY <1>1, WFMin
<1>3. ASSUME NEW y \in T, y < x PROVE <<y, x>> \in OpToRel(<, Nat)
  BY <1>3 DEF OpToRel
<1>4. \A y \in T : ~(y < x)
  BY <1>2, <1>3
<1> QED
  BY <1>4

\* Induction, over the numbers that are in a set.
LEMMA Induction ==
  ASSUME NEW S, 0 \in S, \A n \in Nat : n \in S => n + 1 \in S
  PROVE  Nat \subseteq S
<1> SUFFICES ASSUME NEW m \in Nat, m \notin S PROVE FALSE
  OBVIOUS
<1> DEFINE T == {n \in Nat : n \notin S}
<1>1. PICK x \in T : \A y \in T : x <= y
  BY LeastNumber
<1>2. x # 0 /\ x - 1 \in Nat /\ x - 1 \in S
  BY <1>1
<1> QED
  BY <1>2

\* g does the first n rounds of a loop that starts with a; F is a round.
Rounds(V, a, F, n) ==
    {g \in [0 .. n -> V] : g[0] = a /\ \A k \in Nat : k < n => g[k + 1] = F[<<k, g[k]>>]}

\* f is the loop with states in V that starts with a and whose round is F.
Loop(V, a, F, f) ==
    f \in [Nat -> V] /\ f[0] = a /\ \A n \in Nat : f[n + 1] = F[<<n, f[n]>>]

\* There is one.
LEMMA Recursion ==
  ASSUME NEW V, NEW a \in V, NEW F \in [Nat \X V -> V]
  PROVE  \E f : Loop(V, a, F, f)
<1> DEFINE S == {n \in Nat : \E g : Rounds(V, a, F, n) = {g}}
<1>1. 0 \in S
  <2> DEFINE h == [k \in 0 .. 0 |-> a]
  <2>1. h \in Rounds(V, a, F, 0)
    BY DEF Rounds
  <2>2. ASSUME NEW g \in Rounds(V, a, F, 0) PROVE g = h
    <3>1. g \in [0 .. 0 -> V] /\ g[0] = a
      BY DEF Rounds
    <3>2. \A k \in 0 .. 0 : g[k] = h[k]
      BY <3>1
    <3> QED
      BY <3>1, <3>2
  <2> HIDE DEF h
  <2>3. Rounds(V, a, F, 0) = {h}
    BY <2>1, <2>2
  <2> QED
    BY <2>3
<1>2. ASSUME NEW n \in Nat, n \in S PROVE n + 1 \in S
  <2>1. PICK g : Rounds(V, a, F, n) = {g}
    BY <1>2
  <2>2. g \in [0 .. n -> V] /\ g[0] = a /\ \A k \in Nat : k < n => g[k + 1] = F[<<k, g[k]>>]
    BY <2>1 DEF Rounds
  <2>3. g[n] \in V /\ F[<<n, g[n]>>] \in V
    BY <2>2
  <2> DEFINE h == [k \in 0 .. n + 1 |-> IF k = n + 1 THEN F[<<n, g[n]>>] ELSE g[k]]
  <2>4. h \in [0 .. n + 1 -> V] /\ h[0] = a
    BY <2>2, <2>3
  <2>5. h[n + 1] = F[<<n, h[n]>>]
    <3>1. h[n + 1] = F[<<n, g[n]>>] /\ h[n] = g[n]
      OBVIOUS
    <3> QED
      BY <3>1
  <2>6. ASSUME NEW k \in Nat, k < n + 1 PROVE h[k + 1] = F[<<k, h[k]>>]
    <3>1. ASSUME k < n PROVE h[k + 1] = F[<<k, h[k]>>]
      <4>1. h[k + 1] = g[k + 1] /\ h[k] = g[k]
        BY <3>1
      <4> QED
        BY <2>2, <3>1, <4>1
    <3>2. k < n \/ k = n
      BY <2>6
    <3> QED
      BY <2>5, <3>1, <3>2
  <2>7. h \in Rounds(V, a, F, n + 1)
    <3> HIDE DEF h
    <3> QED
      BY <2>4, <2>6 DEF Rounds
  <2>8. ASSUME NEW i \in Rounds(V, a, F, n + 1) PROVE i = h
    <3> DEFINE j == [k \in 0 .. n |-> i[k]]
    <3>1. i \in [0 .. n + 1 -> V] /\ i[0] = a
          /\ \A k \in Nat : k < n + 1 => i[k + 1] = F[<<k, i[k]>>]
      BY DEF Rounds
    <3>2. j \in [0 .. n -> V] /\ j[0] = a
      BY <3>1
    <3>3. ASSUME NEW k \in Nat, k < n PROVE j[k + 1] = F[<<k, j[k]>>]
      <4>1. j[k + 1] = i[k + 1] /\ j[k] = i[k] /\ k < n + 1
        BY <3>3
      <4> QED
        BY <3>1, <4>1
    <3>4. \A k \in 0 .. n : j[k] = i[k]
      OBVIOUS
    <3>5. j = g
      <4> HIDE DEF j
      <4> QED
        BY <2>1, <3>2, <3>3 DEF Rounds
    <3>6. \A k \in 0 .. n : i[k] = g[k]
      <4> HIDE DEF j
      <4> QED
        BY <3>4, <3>5
    <3>7. i[n + 1] = F[<<n, i[n]>>] /\ i[n] = g[n]
      BY <3>1, <3>6
    <3>8. \A k \in 0 .. n + 1 : i[k] = h[k]
      BY <3>6, <3>7
    <3> HIDE DEF h
    <3> QED
      BY <2>4, <3>1, <3>8
  <2> HIDE DEF h
  <2>9. Rounds(V, a, F, n + 1) = {h}
    BY <2>7, <2>8
  <2> QED
    BY <2>9
<1>3. \A n \in Nat : \E g : Rounds(V, a, F, n) = {g}
  <2>1. Nat \subseteq S
    <3> HIDE DEF S
    <3> QED
      BY <1>1, <1>2, Induction
  <2> QED
    BY <2>1
<1> DEFINE done(n) == CHOOSE g : Rounds(V, a, F, n) = {g}
           f == [n \in Nat |-> done(n)[n]]
<1>4. ASSUME NEW n \in Nat PROVE Rounds(V, a, F, n) = {done(n)}
  BY <1>3
<1>5. ASSUME NEW n \in Nat
      PROVE  /\ done(n) \in [0 .. n -> V] /\ done(n)[0] = a
             /\ \A k \in Nat : k < n => done(n)[k + 1] = F[<<k, done(n)[k]>>]
  <2> HIDE DEF done
  <2>1. done(n) \in Rounds(V, a, F, n)
    BY <1>4
  <2> QED
    BY <2>1 DEF Rounds
<1>6. \A n \in Nat : f[n] = done(n)[n]
  OBVIOUS
<1>7. \A n \in Nat : f[n] \in V
  <2> HIDE DEF done, f
  <2> QED
    BY <1>5, <1>6
<1>8. f[0] = a
  <2> HIDE DEF done, f
  <2> QED
    BY <1>5, <1>6
<1>9. ASSUME NEW n \in Nat PROVE f[n + 1] = F[<<n, f[n]>>]
  <2> HIDE DEF f, done
  <2> DEFINE j == [k \in 0 .. n |-> done(n + 1)[k]]
  <2>0. n + 1 \in Nat
    OBVIOUS
  <2>1. /\ done(n + 1) \in [0 .. n + 1 -> V] /\ done(n + 1)[0] = a
        /\ \A k \in Nat : k < n + 1 => done(n + 1)[k + 1] = F[<<k, done(n + 1)[k]>>]
    BY <1>5, <2>0
  <2>2. j \in [0 .. n -> V] /\ j[0] = a /\ \A k \in 0 .. n : j[k] = done(n + 1)[k]
    BY <2>1
  <2> HIDE DEF j
  <2>3. ASSUME NEW k \in Nat, k < n PROVE j[k + 1] = F[<<k, j[k]>>]
    <3>1. j[k + 1] = done(n + 1)[k + 1] /\ j[k] = done(n + 1)[k] /\ k < n + 1
      BY <2>2, <2>3
    <3> QED
      BY <2>1, <3>1
  <2>4. j = done(n)
    BY <1>4, <2>2, <2>3 DEF Rounds
  <2>5. done(n)[n] = done(n + 1)[n]
    BY <2>2, <2>4
  <2>6. done(n + 1)[n + 1] = F[<<n, done(n + 1)[n]>>]
    BY <2>1
  <2>7. f[n + 1] = done(n + 1)[n + 1] /\ f[n] = done(n)[n]
    BY <1>6, <2>0
  <2> QED
    BY <2>5, <2>6, <2>7
<1>10. f \in [Nat -> V]
  <2> HIDE DEF done
  <2> QED
    BY <1>7
<1> HIDE DEF f
<1> QED
  BY <1>8, <1>9, <1>10 DEF Loop


\* A function on the numbers up to n is a sequence of length n.
LEMMA SeqFrom ==
  ASSUME NEW S, NEW n \in Nat, NEW f \in [1 .. n -> S]
  PROVE  f \in Seq(S) /\ Len(f) = n
<1>1. f \in Seq(S)
  BY SeqDef
<1>2. Len(f) \in Nat /\ DOMAIN f = 1 .. Len(f)
  BY <1>1, LenProperties
<1>3. 1 .. n = 1 .. Len(f)
  BY <1>2
<1>4. Len(f) = n
  BY <1>2, <1>3
<1> QED
  BY <1>1, <1>4

\* A sequence of one element.
LEMMA OneElement ==
  ASSUME NEW S, NEW e \in S
  PROVE  <<e>> \in Seq(S) /\ Len(<<e>>) = 1 /\ <<e>>[1] = e
  OBVIOUS

-----------------------------------------------------------------------------
(* Interruptible: the program of a computation.                            *)

\* The names of all steps.
Names == {"chk", "dbl", "norm_dbl", "add", "norm_add", "comb", "final", "modn", "prepare",
          "ma_add", "ma_norm"}
Outers == {"init", "mul", "modn", "muladd", "done"}
Products == {"none", "pre_dbl", "pre_norm_dbl", "pre_add", "pre_norm_add", "comb_core",
             "final_norm"}
Contexts == [outer : Outers, ma : {"mul1", "mul2", "add", "norm"}, rsm : Products,
             i : Int, table : BOOLEAN]
StepTypes == [name : Names, cost : Int, rs : Contexts]
CallStates == [rs : Contexts, steps : Seq(Names), ops_done : Int, stopped : BOOLEAN]

\* The sizes of the comb method. A table has at least one entry to compute.
LEMMA Sizes ==
  /\ Doubles \in Nat /\ Doubles >= 1 /\ Digits \in Nat /\ Digits >= 1
  /\ TableSize \in Int
  /\ {OpsChk, OpsDbl, OpsAdd, OpsInv} \subseteq Nat
  /\ Scales \subseteq Nat
  /\ Window \in Nat
<1>1. Window \in Nat /\ Window > 1 /\ Digits \in Nat /\ Digits >= 1
  BY IopAssumption
<1>2. Window - 1 \in Nat /\ Window - 1 >= 1
  BY <1>1
<1>3. \A m, n \in Nat : m >= 1 /\ n >= 1 => m * n \in Nat /\ m * n >= 1
  OBVIOUS
<1>4. Doubles \in Nat /\ Doubles >= 1
  BY <1>1, <1>2, <1>3 DEF Doubles
<1>5. TableSize \in Int
  BY <1>1 DEF TableSize
<1> QED
  BY <1>1, <1>4, <1>5, IopAssumption

LEMMA PriceType == \A name : Price(name) \in Int
<1>1. (TableSize - 1) * OpsAdd \in Int /\ OpsInv + 6 * (TableSize - 1) - 2 \in Int
      /\ OpsInv + 6 * (Window - 1) - 2 \in Int /\ OpsDbl + OpsAdd \in Int
      /\ OpsInv + 4 \in Int /\ OpsChk + OpsInv + 2 \in Int
      /\ OpsChk \in Int /\ OpsDbl \in Int /\ OpsAdd \in Int /\ OpsInv \in Int
  BY Sizes
<1> QED
  BY <1>1 DEF Price

\* n times the same step: the first of them and the others.
LEMMA TimesIs ==
  ASSUME NEW S, NEW n \in Nat, NEW name \in S
  PROVE  /\ Times(n, name) \in Seq(S) /\ Len(Times(n, name)) = n
         /\ \A k \in 1 .. n : Times(n, name)[k] = name
  BY SeqFrom DEF Times
LEMMA TimesFirst ==
  ASSUME NEW S, NEW n \in Nat, n >= 1, NEW name \in S
  PROVE  Times(n, name) = <<name>> \o Times(n - 1, name)
<1>1. n - 1 \in Nat
  OBVIOUS
<1>2. <<name>> \in Seq(S) /\ Len(<<name>>) = 1 /\ <<name>>[1] = name
  BY OneElement
<1>3. Times(n - 1, name) \in Seq(S) /\ Len(Times(n - 1, name)) = n - 1
      /\ \A k \in 1 .. n - 1 : Times(n - 1, name)[k] = name
  BY <1>1, TimesIs
<1>4. Times(n, name) \in Seq(S) /\ Len(Times(n, name)) = n
      /\ \A k \in 1 .. n : Times(n, name)[k] = name
  BY TimesIs
<1> DEFINE one == <<name>>
           others == Times(n - 1, name)
           both == one \o others
<1> HIDE DEF one, others
<1>5. one \in Seq(S) /\ others \in Seq(S) /\ Len(one) = 1 /\ Len(others) = n - 1
      /\ one[1] = name /\ \A k \in 1 .. n - 1 : others[k] = name
  BY <1>2, <1>3 DEF one, others
<1>6. both \in Seq(S) /\ Len(both) = Len(one) + Len(others)
      /\ \A k \in 1 .. Len(one) + Len(others) : both[k] = IF k <= Len(one) THEN one[k]
                                              ELSE others[k - Len(one)]
  BY <1>5, ConcatProperties
<1> HIDE DEF both
<1>7. Len(both) = n
  BY <1>5, <1>6
<1>8. ASSUME NEW k \in 1 .. n PROVE both[k] = name
  <2>1. k \in 1 .. Len(one) + Len(others)
    BY <1>5
  <2>2. both[k] = IF k <= 1 THEN one[k] ELSE others[k - 1]
    BY <1>5, <1>6, <2>1
  <2>3. k = 1 \/ k - 1 \in 1 .. n - 1
    OBVIOUS
  <2> QED
    BY <1>5, <2>2, <2>3
<1>9. both = Times(n, name)
  BY <1>4, <1>6, <1>7, <1>8, SeqEqual
<1> QED
  BY <1>9 DEF both, one, others
LEMMA TimesNone == ASSUME NEW name PROVE Times(0, name) = <<>>
  BY DEF Times

\* What is still to do, from a context on.
TableRest == <<"norm_dbl">> \o (<<"add">> \o <<"norm_add">>)
Combs(n) == Times(n, "comb") \o <<"final">>
RestOfProduct(rs, generator) ==
    CASE rs.rsm = "none" -> Product(generator /\ rs.table)
      [] rs.rsm = "pre_dbl" -> Times(Doubles - rs.i, "dbl") \o (TableRest \o Combs(Digits))
      [] rs.rsm = "pre_norm_dbl" -> TableRest \o Combs(Digits)
      [] rs.rsm = "pre_add" -> (<<"add">> \o <<"norm_add">>) \o Combs(Digits)
      [] rs.rsm = "pre_norm_add" -> <<"norm_add">> \o Combs(Digits)
      [] rs.rsm = "comb_core" -> Combs(rs.i)
      [] OTHER -> <<"final">>
Ending == <<"ma_add">> \o <<"ma_norm">>
RestOfSum(rs) ==
    CASE rs.ma = "mul1" -> RestOfProduct(rs, TRUE) \o (Product(FALSE) \o Ending)
      [] rs.ma = "mul2" -> RestOfProduct(rs, FALSE) \o Ending
      [] rs.ma = "add" -> Ending
      [] OTHER -> <<"ma_norm">>
RestOfSignature(rs) ==
    IF rs.outer = "modn" THEN <<"modn">> ELSE RestOfProduct(rs, TRUE) \o <<"modn">>
RestOfVerification(rs) ==
    IF rs.outer = "init"
    THEN <<"prepare">> \o (Product(rs.table) \o (Product(FALSE) \o Ending))
    ELSE RestOfSum(rs)
RestOf(kind, rs) ==
    IF rs.outer = "done" THEN <<>>
    ELSE CASE kind = "sign" -> RestOfSignature(rs)
           [] kind = "verify" -> RestOfVerification(rs)
           [] OTHER -> RestOfProduct(rs, kind = "export")

\* Where a context can be.
Placed(rs) ==
    /\ rs \in Contexts
    /\ rs.rsm = "pre_dbl" => rs.i \in 0 .. Doubles - 1
    /\ rs.rsm = "comb_core" => rs.i \in 1 .. Digits
PlacedIn(kind, rs) ==
    /\ Placed(rs)
    /\ kind = "verify" /\ rs.outer = "init" => rs.rsm = "none" /\ rs.ma = "mul1"

\* The step s is the first of the rest; what follows is the rest after it.
FirstOf(rest, s, after) ==
    s.name \in Names /\ s.cost = Price(s.name) /\ rest = <<s.name>> \o after


\* Sequences of steps.
LEMMA Assoc ==
  ASSUME NEW s \in Seq(Names), NEW t \in Seq(Names), NEW u \in Seq(Names)
  PROVE  (s \o t) \o u = s \o (t \o u)
  BY ConcatAssociative
LEMMA JoinType ==
  ASSUME NEW s \in Seq(Names), NEW t \in Seq(Names)
  PROVE  s \o t \in Seq(Names)
  BY ConcatProperties
LEMMA Units ==
  /\ <<"chk">> \in Seq(Names) /\ <<"norm_dbl">> \in Seq(Names) /\ <<"add">> \in Seq(Names)
  /\ <<"norm_add">> \in Seq(Names) /\ <<"final">> \in Seq(Names)
  /\ <<"modn">> \in Seq(Names) /\ <<"prepare">> \in Seq(Names)
  /\ <<"ma_add">> \in Seq(Names) /\ <<"ma_norm">> \in Seq(Names)
<1>1. {"chk", "norm_dbl", "add", "norm_add", "final", "modn", "prepare", "ma_add", "ma_norm"}
        \subseteq Names
  BY DEF Names
<1>2. \A name \in Names : <<name>> \in Seq(Names)
  BY OneElement
<1> QED
  BY <1>1, <1>2
LEMMA NothingMore == ASSUME NEW s \in Seq(Names) PROVE s \o <<>> = s /\ <<>> \o s = s
  BY ConcatEmptySeq
LEMMA DoublesType == ASSUME NEW n \in Nat PROVE Times(n, "dbl") \in Seq(Names)
<1>1. "dbl" \in Names
  BY DEF Names
<1> QED
  BY <1>1, TimesIs
LEMMA CombsType == ASSUME NEW n \in Nat PROVE Combs(n) \in Seq(Names)
<1>1. "comb" \in Names
  BY DEF Names
<1>2. Times(n, "comb") \in Seq(Names)
  BY <1>1, TimesIs
<1> QED
  BY <1>2, Units, JoinType DEF Combs
LEMMA TableType == TableRest \in Seq(Names) /\ (<<"add">> \o <<"norm_add">>) \in Seq(Names)
  BY Units, JoinType DEF TableRest
LEMMA TableIs == <<"norm_dbl", "add", "norm_add">> = TableRest
  BY DEF TableRest

\* A product, cut behind its first step.
LEMMA ProductWithTable == Product(TRUE) = <<"chk">> \o Combs(Digits)
<1> DEFINE c == Times(Digits, "comb")
<1>1. c \in Seq(Names)
  <2>1. "comb" \in Names /\ Digits \in Nat
    BY Sizes DEF Names
  <2> QED
    BY <2>1, TimesIs
<1>2. Product(TRUE) = ((<<"chk">> \o <<>>) \o c) \o <<"final">>
  BY DEF Product
<1>3. <<"chk">> \o <<>> = <<"chk">>
  BY Units, NothingMore
<1> HIDE DEF c
<1>4. (<<"chk">> \o c) \o <<"final">> = <<"chk">> \o (c \o <<"final">>)
  BY <1>1, Units, Assoc
<1> QED
  BY <1>2, <1>3, <1>4 DEF Combs, c
LEMMA ProductWithoutTable ==
  Product(FALSE) = <<"chk">> \o (Times(Doubles, "dbl") \o (TableRest \o Combs(Digits)))
<1> DEFINE d == Times(Doubles, "dbl")
           c == Times(Digits, "comb")
<1>1. d \in Seq(Names) /\ c \in Seq(Names)
  <2>1. "comb" \in Names /\ Digits \in Nat /\ Doubles \in Nat
    BY Sizes DEF Names
  <2> QED
    BY <2>1, TimesIs, DoublesType
<1>2. Product(FALSE) = ((<<"chk">> \o (d \o TableRest)) \o c) \o <<"final">>
  BY TableIs DEF Product
<1> HIDE DEF d, c
<1>3. d \o TableRest \in Seq(Names) /\ c \o <<"final">> \in Seq(Names)
  BY <1>1, TableType, Units, JoinType
<1>4. ((<<"chk">> \o (d \o TableRest)) \o c) \o <<"final">>
        = (<<"chk">> \o (d \o TableRest)) \o (c \o <<"final">>)
  <2>1. <<"chk">> \o (d \o TableRest) \in Seq(Names)
    BY <1>3, Units, JoinType
  <2> QED
    BY <1>1, <2>1, Units, Assoc
<1>5. @ = <<"chk">> \o ((d \o TableRest) \o (c \o <<"final">>))
  BY <1>3, Units, Assoc
<1>6. (d \o TableRest) \o (c \o <<"final">>) = d \o (TableRest \o (c \o <<"final">>))
  BY <1>1, <1>3, TableType, Assoc
<1> QED
  BY <1>2, <1>4, <1>5, <1>6 DEF Combs, d, c
LEMMA ProductType == \A table \in BOOLEAN : Product(table) \in Seq(Names)
<1>1. Combs(Digits) \in Seq(Names) /\ Times(Doubles, "dbl") \in Seq(Names)
  BY Sizes, CombsType, DoublesType
<1>2. TableRest \o Combs(Digits) \in Seq(Names)
  BY <1>1, TableType, JoinType
<1>3. Times(Doubles, "dbl") \o (TableRest \o Combs(Digits)) \in Seq(Names)
  BY <1>1, <1>2, JoinType
<1>4. Product(TRUE) \in Seq(Names)
  BY <1>1, Units, JoinType, ProductWithTable
<1>5. Product(FALSE) \in Seq(Names)
  BY <1>3, Units, JoinType, ProductWithoutTable
<1> QED
  BY <1>4, <1>5

LEMMA RestTypes ==
  ASSUME NEW rs, Placed(rs), NEW generator \in BOOLEAN
  PROVE  RestOfProduct(rs, generator) \in Seq(Names)
<1>1. rs.rsm \in Products /\ (generator /\ rs.table) \in BOOLEAN
  BY DEF Placed, Contexts
<1>2. Combs(Digits) \in Seq(Names)
  BY Sizes, CombsType
<1>3. ASSUME rs.rsm = "pre_dbl" PROVE Times(Doubles - rs.i, "dbl") \in Seq(Names)
  <2>1. Doubles - rs.i \in Nat
    BY <1>3, Sizes DEF Placed
  <2> QED
    BY <2>1, DoublesType
<1>4. ASSUME rs.rsm = "comb_core" PROVE Combs(rs.i) \in Seq(Names)
  <2>1. rs.i \in Nat
    BY <1>4, Sizes DEF Placed
  <2> QED
    BY <2>1, CombsType
<1>5. TableRest \o Combs(Digits) \in Seq(Names)
      /\ (<<"add">> \o <<"norm_add">>) \o Combs(Digits) \in Seq(Names)
      /\ <<"norm_add">> \o Combs(Digits) \in Seq(Names)
  BY <1>2, TableType, Units, JoinType
<1>6. ASSUME rs.rsm = "pre_dbl"
      PROVE  Times(Doubles - rs.i, "dbl") \o (TableRest \o Combs(Digits)) \in Seq(Names)
  BY <1>3, <1>5, <1>6, JoinType
<1>7. Product(generator /\ rs.table) \in Seq(Names)
  BY <1>1, ProductType
<1> QED
  BY <1>1, <1>4, <1>5, <1>6, <1>7, Units DEF RestOfProduct, Products

\* n > 0 steps of a kind: one, and the others.
LEMMA FirstDouble ==
  ASSUME NEW n \in Nat, n >= 1, NEW rest \in Seq(Names)
  PROVE  Times(n, "dbl") \o rest = <<"dbl">> \o (Times(n - 1, "dbl") \o rest)
<1>1. "dbl" \in Names /\ n - 1 \in Nat
  BY DEF Names
<1>2. <<"dbl">> \in Seq(Names) /\ Times(n - 1, "dbl") \in Seq(Names)
  BY <1>1, OneElement, DoublesType
<1>3. Times(n, "dbl") = <<"dbl">> \o Times(n - 1, "dbl")
  BY <1>1, TimesFirst
<1> DEFINE d == <<"dbl">>
           o == Times(n - 1, "dbl")
<1> HIDE DEF d, o
<1>4. (d \o o) \o rest = d \o (o \o rest)
  BY <1>2, Assoc DEF d, o
<1> QED
  BY <1>3, <1>4 DEF d, o
LEMMA FirstComb ==
  ASSUME NEW n \in Nat, n >= 1
  PROVE  Combs(n) = <<"comb">> \o Combs(n - 1)
<1>1. "comb" \in Names /\ n - 1 \in Nat
  BY DEF Names
<1>2. <<"comb">> \in Seq(Names) /\ Times(n - 1, "comb") \in Seq(Names)
  BY <1>1, OneElement, TimesIs
<1>3. Times(n, "comb") = <<"comb">> \o Times(n - 1, "comb")
  BY <1>1, TimesFirst
<1> QED
  BY <1>2, <1>3, Units, Assoc DEF Combs
LEMMA NoComb == Combs(0) = <<"final">> /\ \A rest \in Seq(Names) : Times(0, "dbl") \o rest = rest
<1>1. Times(0, "comb") = <<>> /\ Times(0, "dbl") = <<>>
  BY TimesNone
<1> QED
  BY <1>1, Units, NothingMore DEF Combs

\* ecp_precompute_comb(): one step of making the table.
LEMMA StepOfTable ==
  ASSUME NEW rs, Placed(rs), NEW generator \in BOOLEAN,
         rs.rsm \in {"pre_dbl", "pre_norm_dbl", "pre_add", "pre_norm_add"},
         NEW s, s = ecp_precompute_comb(rs, generator)
  PROVE  /\ FirstOf(RestOfProduct(rs, generator), s, RestOfProduct(s.rs, generator))
         /\ Placed(s.rs) /\ s.rs.rsm # "none" /\ s.rs.outer = rs.outer /\ s.rs.ma = rs.ma
<1> DEFINE X == TableRest \o Combs(Digits)
           F(r) == RestOfProduct(r, generator)
<1>1. rs \in Contexts /\ Combs(Digits) \in Seq(Names) /\ X \in Seq(Names)
  BY Sizes, CombsType, TableType, JoinType DEF Placed
<1>2. CASE rs.rsm = "pre_dbl"
  <2>1. rs.i \in 0 .. Doubles - 1 /\ Doubles \in Nat
    BY <1>2, Sizes DEF Placed
  <2>2. Doubles - rs.i \in Nat /\ Doubles - rs.i >= 1
    BY <2>1
  <2>3. F(rs) = <<"dbl">> \o (Times((Doubles - rs.i) - 1, "dbl") \o X)
    <3>1. F(rs) = Times(Doubles - rs.i, "dbl") \o X
      BY <1>2 DEF RestOfProduct
    <3> QED
      BY <1>1, <2>2, <3>1, FirstDouble
  <2>4. s.name = "dbl" /\ s.cost = OpsDbl
    BY <1>2 DEF ecp_precompute_comb, Step
  <2>5. "dbl" \in Names /\ Price("dbl") = OpsDbl
    BY DEF Names, Price
  <2>6. ASSUME rs.i + 1 < Doubles
        PROVE  s.rs = [rs EXCEPT !.i = @ + 1]
    BY <1>2, <2>6 DEF ecp_precompute_comb, Step
  <2>7. ASSUME ~(rs.i + 1 < Doubles)
        PROVE  s.rs = [rs EXCEPT !.rsm = "pre_norm_dbl"]
    BY <1>2, <2>7 DEF ecp_precompute_comb, Step
  <2>8. ASSUME rs.i + 1 < Doubles
        PROVE  /\ F(s.rs) = Times((Doubles - rs.i) - 1, "dbl") \o X
               /\ Placed(s.rs) /\ s.rs.rsm = "pre_dbl" /\ s.rs.outer = rs.outer
               /\ s.rs.ma = rs.ma
    <3>1. s.rs \in Contexts /\ s.rs.rsm = "pre_dbl" /\ s.rs.i = rs.i + 1
          /\ s.rs.outer = rs.outer /\ s.rs.ma = rs.ma
      BY <1>1, <1>2, <2>1, <2>6, <2>8 DEF Contexts
    <3>2. Doubles - s.rs.i = (Doubles - rs.i) - 1 /\ s.rs.i \in 0 .. Doubles - 1
      BY <2>1, <2>8, <3>1
    <3>3. F(s.rs) = Times(Doubles - s.rs.i, "dbl") \o X
      BY <3>1 DEF RestOfProduct
    <3> QED
      BY <3>1, <3>2, <3>3 DEF Placed
  <2>9. ASSUME ~(rs.i + 1 < Doubles)
        PROVE  /\ F(s.rs) = Times((Doubles - rs.i) - 1, "dbl") \o X
               /\ Placed(s.rs) /\ s.rs.rsm = "pre_norm_dbl" /\ s.rs.outer = rs.outer
               /\ s.rs.ma = rs.ma
    <3>1. s.rs \in Contexts /\ s.rs.rsm = "pre_norm_dbl"
          /\ s.rs.outer = rs.outer /\ s.rs.ma = rs.ma
      BY <1>1, <2>7, <2>9 DEF Contexts, Products
    <3>2. (Doubles - rs.i) - 1 = 0
      BY <2>1, <2>9
    <3>3. F(s.rs) = X
      BY <3>1 DEF RestOfProduct
    <3>4. Times(0, "dbl") \o X = X
      BY <1>1, NoComb
    <3> QED
      BY <3>1, <3>2, <3>3, <3>4 DEF Placed
  <2> HIDE DEF X, F
  <2>10. /\ F(s.rs) = Times((Doubles - rs.i) - 1, "dbl") \o X
         /\ Placed(s.rs) /\ s.rs.rsm # "none" /\ s.rs.outer = rs.outer /\ s.rs.ma = rs.ma
    BY <2>8, <2>9
  <2>11. FirstOf(F(rs), s, F(s.rs))
    BY <2>3, <2>4, <2>5, <2>10 DEF FirstOf
  <2> QED
    BY <2>10, <2>11 DEF F
<1>3. ASSUME NEW name, NEW next \in Products \ {"none", "pre_dbl", "comb_core"},
             NEW cost, s = Step(name, cost, [rs EXCEPT !.rsm = next]),
             name \in Names, cost = Price(name), F(rs) = <<name>> \o F(s.rs)
      PROVE  /\ FirstOf(F(rs), s, F(s.rs))
             /\ Placed(s.rs) /\ s.rs.rsm # "none" /\ s.rs.outer = rs.outer
             /\ s.rs.ma = rs.ma
  <2>1. s.name = name /\ s.cost = cost /\ s.rs = [rs EXCEPT !.rsm = next]
    BY <1>3 DEF Step
  <2>2. s.rs \in Contexts /\ s.rs.rsm = next /\ s.rs.outer = rs.outer /\ s.rs.ma = rs.ma
    BY <1>1, <2>1 DEF Contexts
  <2>3. Placed(s.rs) /\ s.rs.rsm # "none"
    BY <2>2 DEF Placed
  <2> HIDE DEF F
  <2> QED
    BY <1>3, <2>1, <2>2, <2>3 DEF FirstOf
<1>4. CASE rs.rsm = "pre_norm_dbl"
  <2>1. s = Step("norm_dbl", OpsInv + 6 * (Window - 1) - 2, [rs EXCEPT !.rsm = "pre_add"])
    BY <1>4 DEF ecp_precompute_comb
  <2>2. s.rs.rsm = "pre_add"
    BY <1>1, <2>1 DEF Step, Contexts
  <2>3. F(rs) = TableRest \o Combs(Digits)
        /\ F(s.rs) = (<<"add">> \o <<"norm_add">>) \o Combs(Digits)
    BY <1>4, <2>2 DEF RestOfProduct
  <2>4. F(rs) = <<"norm_dbl">> \o F(s.rs)
    BY <1>1, <2>3, Units, TableType, Assoc DEF TableRest
  <2>5. "norm_dbl" \in Names /\ Price("norm_dbl") = OpsInv + 6 * (Window - 1) - 2
        /\ "pre_add" \in Products \ {"none", "pre_dbl", "comb_core"}
    BY DEF Names, Price, Products
  <2> QED
    BY <1>3, <2>1, <2>4, <2>5
<1>5. CASE rs.rsm = "pre_add"
  <2>1. s = Step("add", (TableSize - 1) * OpsAdd, [rs EXCEPT !.rsm = "pre_norm_add"])
    BY <1>5 DEF ecp_precompute_comb
  <2>2. s.rs.rsm = "pre_norm_add"
    BY <1>1, <2>1 DEF Step, Contexts
  <2>3. F(rs) = (<<"add">> \o <<"norm_add">>) \o Combs(Digits)
        /\ F(s.rs) = <<"norm_add">> \o Combs(Digits)
    BY <1>5, <2>2 DEF RestOfProduct
  <2>4. F(rs) = <<"add">> \o F(s.rs)
    BY <1>1, <2>3, Units, Assoc
  <2>5. "add" \in Names /\ Price("add") = (TableSize - 1) * OpsAdd
        /\ "pre_norm_add" \in Products \ {"none", "pre_dbl", "comb_core"}
    BY DEF Names, Price, Products
  <2> QED
    BY <1>3, <2>1, <2>4, <2>5
<1>6. CASE rs.rsm = "pre_norm_add"
  <2>1. /\ s.name = "norm_add" /\ s.cost = OpsInv + 6 * (TableSize - 1) - 2
        /\ s.rs = [rs EXCEPT !.rsm = "comb_core", !.i = Digits, !.table = @ \/ generator]
    BY <1>6 DEF ecp_precompute_comb, Step
  <2>2. s.rs \in Contexts /\ s.rs.rsm = "comb_core" /\ s.rs.i = Digits
        /\ s.rs.outer = rs.outer /\ s.rs.ma = rs.ma
    <3>1. "comb_core" \in Products /\ Digits \in Int /\ (rs.table \/ generator) \in BOOLEAN
      BY Sizes DEF Products
    <3> QED
      BY <1>1, <2>1, <3>1 DEF Contexts
  <2>3. Placed(s.rs) /\ s.rs.rsm # "none"
    BY <2>2, Sizes DEF Placed
  <2>4. F(rs) = <<"norm_add">> \o Combs(Digits) /\ F(s.rs) = Combs(Digits)
    BY <1>6, <2>2 DEF RestOfProduct
  <2>5. "norm_add" \in Names /\ Price("norm_add") = OpsInv + 6 * (TableSize - 1) - 2
    BY DEF Names, Price
  <2> HIDE DEF F
  <2>6. FirstOf(F(rs), s, F(s.rs))
    BY <2>1, <2>4, <2>5 DEF FirstOf
  <2> QED
    BY <2>2, <2>3, <2>6 DEF F
<1> QED
  BY <1>2, <1>4, <1>5, <1>6

LEMMA LastDigit == ASSUME NEW n \in 1 .. Digits, ~(n > 1) PROVE n - 1 = 0
  BY Sizes

\* ecp_mul_restartable_internal(): one step of a product that goes on.
LEMMA StepOfProduct ==
  ASSUME NEW rs, Placed(rs), NEW generator \in BOOLEAN, rs.rsm # "final_norm",
         NEW s, s = ecp_mul_restartable_internal(rs, generator)
  PROVE  /\ FirstOf(RestOfProduct(rs, generator), s, RestOfProduct(s.rs, generator))
         /\ Placed(s.rs) /\ s.rs.rsm # "none" /\ s.rs.outer = rs.outer /\ s.rs.ma = rs.ma
<1> DEFINE F(r) == RestOfProduct(r, generator)
<1>1. rs \in Contexts /\ Combs(Digits) \in Seq(Names) /\ rs.rsm \in Products
      /\ rs.table \in BOOLEAN
  BY Sizes, CombsType DEF Placed, Contexts
<1>2. CASE rs.rsm \in {"pre_dbl", "pre_norm_dbl", "pre_add", "pre_norm_add"}
  <2>1. s = ecp_precompute_comb(rs, generator)
    BY <1>2 DEF ecp_mul_restartable_internal, ecp_mul_comb
  <2> QED
    BY <1>2, <2>1, StepOfTable
<1>3. CASE rs.rsm = "none"
  <2>1. s = Step("chk", OpsChk,
              IF generator /\ rs.table THEN [rs EXCEPT !.rsm = "comb_core", !.i = Digits]
              ELSE [rs EXCEPT !.rsm = "pre_dbl", !.i = 0])
    BY <1>3 DEF ecp_mul_restartable_internal
  <2>2. F(rs) = Product(generator /\ rs.table)
    BY <1>3 DEF RestOfProduct
  <2>3. ASSUME generator /\ rs.table
        PROVE  /\ F(rs) = <<"chk">> \o F(s.rs)
               /\ Placed(s.rs) /\ s.rs.rsm # "none" /\ s.rs.outer = rs.outer
               /\ s.rs.ma = rs.ma
    <3>1. s.rs = [rs EXCEPT !.rsm = "comb_core", !.i = Digits]
      BY <2>1, <2>3 DEF Step
    <3>2. s.rs \in Contexts /\ s.rs.rsm = "comb_core" /\ s.rs.i = Digits
          /\ s.rs.outer = rs.outer /\ s.rs.ma = rs.ma
      <4>1. "comb_core" \in Products /\ Digits \in Int
        BY Sizes DEF Products
      <4> QED
        BY <1>1, <3>1, <4>1 DEF Contexts
    <3>3. Placed(s.rs)
      BY <3>2, Sizes DEF Placed
    <3>4. F(s.rs) = Combs(Digits)
      BY <3>2 DEF RestOfProduct
    <3>5. (generator /\ rs.table) = TRUE
      BY <2>3
    <3> QED
      BY <2>2, <3>2, <3>3, <3>4, <3>5, ProductWithTable
  <2>4. ASSUME ~(generator /\ rs.table)
        PROVE  /\ F(rs) = <<"chk">> \o F(s.rs)
               /\ Placed(s.rs) /\ s.rs.rsm # "none" /\ s.rs.outer = rs.outer
               /\ s.rs.ma = rs.ma
    <3>1. s.rs = [rs EXCEPT !.rsm = "pre_dbl", !.i = 0]
      BY <2>1, <2>4 DEF Step
    <3>2. s.rs \in Contexts /\ s.rs.rsm = "pre_dbl" /\ s.rs.i = 0
          /\ s.rs.outer = rs.outer /\ s.rs.ma = rs.ma
      <4>1. "pre_dbl" \in Products /\ 0 \in Int
        BY DEF Products
      <4> DEFINE none == 0
                 r == [rs EXCEPT !.rsm = "pre_dbl", !.i = none]
      <4>2. s.rs = r /\ none \in Int /\ none = 0
        BY <3>1
      <4> HIDE DEF none
      <4>3. r \in Contexts /\ r.rsm = "pre_dbl" /\ r.i = none
            /\ r.outer = rs.outer /\ r.ma = rs.ma
        BY <1>1, <4>1, <4>2 DEF Contexts
      <4> QED
        BY <4>2, <4>3
    <3>3. Placed(s.rs)
      BY <3>2, Sizes DEF Placed
    <3>4. s.rs.i = 0 /\ Doubles - 0 = Doubles
      BY <3>2, Sizes
    <3>5. F(s.rs) = Times(Doubles, "dbl") \o (TableRest \o Combs(Digits))
      BY <3>2, <3>4 DEF RestOfProduct
    <3>6. (generator /\ rs.table) = FALSE
      BY <1>1, <2>4
    <3> QED
      BY <2>2, <3>2, <3>3, <3>5, <3>6, ProductWithoutTable
  <2>5. s.name = "chk" /\ s.cost = OpsChk
    BY <2>1 DEF Step
  <2>6. "chk" \in Names /\ Price("chk") = OpsChk
    BY DEF Names, Price
  <2> HIDE DEF F
  <2>7. /\ F(rs) = <<"chk">> \o F(s.rs)
        /\ Placed(s.rs) /\ s.rs.rsm # "none" /\ s.rs.outer = rs.outer /\ s.rs.ma = rs.ma
    BY <2>3, <2>4
  <2>8. FirstOf(F(rs), s, F(s.rs))
    BY <2>5, <2>6, <2>7 DEF FirstOf
  <2> QED
    BY <2>7, <2>8 DEF F
<1>4. CASE rs.rsm = "comb_core"
  <2>1. rs.i \in 1 .. Digits /\ rs.i \in Nat /\ rs.i >= 1
    BY <1>4, Sizes DEF Placed
  <2>2. s = Step("comb", OpsDbl + OpsAdd,
                 IF rs.i > 1 THEN [rs EXCEPT !.i = @ - 1] ELSE [rs EXCEPT !.rsm = "final_norm"])
    BY <1>4 DEF ecp_mul_restartable_internal, ecp_mul_comb, ecp_mul_comb_after_precomp,
                ecp_mul_comb_core
  <2>3. F(rs) = <<"comb">> \o Combs(rs.i - 1)
    <3>1. F(rs) = Combs(rs.i)
      BY <1>4 DEF RestOfProduct
    <3> QED
      BY <2>1, <3>1, FirstComb
  <2>4. ASSUME rs.i > 1
        PROVE  /\ F(s.rs) = Combs(rs.i - 1)
               /\ Placed(s.rs) /\ s.rs.rsm # "none" /\ s.rs.outer = rs.outer
               /\ s.rs.ma = rs.ma
    <3>1. s.rs = [rs EXCEPT !.i = @ - 1]
      BY <2>2, <2>4 DEF Step
    <3>2. s.rs \in Contexts /\ s.rs.rsm = "comb_core" /\ s.rs.i = rs.i - 1
          /\ s.rs.outer = rs.outer /\ s.rs.ma = rs.ma
      BY <1>1, <1>4, <2>1, <3>1 DEF Contexts
    <3>3. s.rs.i \in 1 .. Digits
      BY <2>1, <2>4, <3>2, Sizes
    <3>4. F(s.rs) = Combs(rs.i - 1)
      BY <3>2 DEF RestOfProduct
    <3> QED
      BY <3>2, <3>3, <3>4 DEF Placed
  <2>5. ASSUME ~(rs.i > 1)
        PROVE  /\ F(s.rs) = Combs(rs.i - 1)
               /\ Placed(s.rs) /\ s.rs.rsm # "none" /\ s.rs.outer = rs.outer
               /\ s.rs.ma = rs.ma
    <3>1. s.rs = [rs EXCEPT !.rsm = "final_norm"]
      BY <2>2, <2>5 DEF Step
    <3>2. s.rs \in Contexts /\ s.rs.rsm = "final_norm" 
          /\ s.rs.outer = rs.outer /\ s.rs.ma = rs.ma
      BY <1>1, <3>1 DEF Contexts, Products
    <3>3. rs.i - 1 = 0
      BY <2>1, <2>5, LastDigit
    <3>4. F(s.rs) = <<"final">>
      BY <3>2 DEF RestOfProduct
    <3>5. Combs(rs.i - 1) = <<"final">>
      BY <3>3, NoComb
    <3> QED
      BY <3>2, <3>4, <3>5 DEF Placed
  <2>6. s.name = "comb" /\ s.cost = OpsDbl + OpsAdd
    BY <2>2 DEF Step
  <2>7. "comb" \in Names /\ Price("comb") = OpsDbl + OpsAdd
    BY DEF Names, Price
  <2> HIDE DEF F
  <2>8. /\ F(s.rs) = Combs(rs.i - 1)
        /\ Placed(s.rs) /\ s.rs.rsm # "none" /\ s.rs.outer = rs.outer /\ s.rs.ma = rs.ma
    BY <2>4, <2>5
  <2>9. FirstOf(F(rs), s, F(s.rs))
    BY <2>3, <2>6, <2>7, <2>8 DEF FirstOf
  <2> QED
    BY <2>8, <2>9 DEF F
<1> QED
  BY <1>1, <1>2, <1>3, <1>4 DEF Products

\* The last step of a product.
LEMMA LastOfProduct ==
  ASSUME NEW rs, Placed(rs), NEW generator \in BOOLEAN, rs.rsm = "final_norm",
         NEW s, s = ecp_mul_restartable_internal(rs, generator)
  PROVE  /\ s.name = "final" /\ s.name \in Names /\ s.cost = Price("final")
         /\ RestOfProduct(rs, generator) = <<"final">>
         /\ Placed(s.rs) /\ s.rs.rsm = "none" /\ s.rs.outer = rs.outer /\ s.rs.ma = rs.ma
<1>1. s = Step("final", OpsInv, [rs EXCEPT !.rsm = "none"])
  BY DEF ecp_mul_restartable_internal, ecp_mul_comb, ecp_mul_comb_after_precomp
<1>2. s.name = "final" /\ s.cost = OpsInv /\ s.rs = [rs EXCEPT !.rsm = "none"]
  BY <1>1 DEF Step
<1>3. s.rs \in Contexts /\ s.rs.rsm = "none" /\ s.rs.outer = rs.outer /\ s.rs.ma = rs.ma
  BY <1>2 DEF Placed, Contexts, Products
<1>4. "final" \in Names /\ Price("final") = OpsInv
  BY DEF Names, Price
<1>5. RestOfProduct(rs, generator) = <<"final">>
  BY DEF RestOfProduct
<1>6. Placed(s.rs)
  BY <1>3 DEF Placed
<1> QED
  BY <1>2, <1>3, <1>4, <1>5, <1>6

\* What a step of a product returns, and that the outer phases do not matter to it.
LEMMA ProductIsStep ==
  ASSUME NEW rs, NEW generator, NEW s, s = ecp_mul_restartable_internal(rs, generator)
  PROVE  s = Step(s.name, s.cost, s.rs)
<1>1. \A name, cost, r : Step(name, cost, r) = Step(Step(name, cost, r).name,
                                Step(name, cost, r).cost, Step(name, cost, r).rs)
  BY DEF Step
<1>2. ASSUME NEW name, NEW cost, NEW r, s = Step(name, cost, r) PROVE s = Step(s.name, s.cost, s.rs)
  BY <1>1, <1>2
<1>3. CASE rs.rsm = "none"
  BY <1>2, <1>3 DEF ecp_mul_restartable_internal
<1>4. CASE rs.rsm = "final_norm"
  BY <1>2, <1>4 DEF ecp_mul_restartable_internal, ecp_mul_comb, ecp_mul_comb_after_precomp
<1>5. CASE rs.rsm = "comb_core"
  BY <1>2, <1>5 DEF ecp_mul_restartable_internal, ecp_mul_comb, ecp_mul_comb_after_precomp,
                    ecp_mul_comb_core
<1>6. CASE rs.rsm \notin {"none", "final_norm", "comb_core"}
  <2>1. s = ecp_precompute_comb(rs, generator)
    BY <1>6 DEF ecp_mul_restartable_internal, ecp_mul_comb
  <2>2. CASE rs.rsm = "pre_dbl"
    BY <1>2, <2>1, <2>2 DEF ecp_precompute_comb
  <2>3. CASE rs.rsm = "pre_norm_dbl"
    BY <1>2, <2>1, <2>3 DEF ecp_precompute_comb
  <2>4. CASE rs.rsm = "pre_add"
    BY <1>2, <2>1, <2>4 DEF ecp_precompute_comb
  <2>5. CASE rs.rsm \notin {"pre_dbl", "pre_norm_dbl", "pre_add"}
    BY <1>2, <2>1, <2>5 DEF ecp_precompute_comb
  <2> QED
    BY <2>2, <2>3, <2>4, <2>5
<1> QED
  BY <1>3, <1>4, <1>5, <1>6
LEMMA PhasesOutside ==
  ASSUME NEW rs, Placed(rs), NEW r \in Contexts,
         r.rsm = rs.rsm, r.i = rs.i, r.table = rs.table, NEW generator \in BOOLEAN
  PROVE  Placed(r) /\ RestOfProduct(r, generator) = RestOfProduct(rs, generator)
<1>1. Placed(r)
  BY DEF Placed
<1>2. RestOfProduct(r, generator) = RestOfProduct(rs, generator)
  BY DEF RestOfProduct
<1> QED
  BY <1>1, <1>2

\* A step of a part of a computation is a step of the whole.
LEMMA ThenMore ==
  ASSUME NEW s, NEW first \in Seq(Names), NEW after \in Seq(Names), NEW more \in Seq(Names),
         FirstOf(first, s, after)
  PROVE  FirstOf(first \o more, s, after \o more)
<1> DEFINE one == <<s.name>>
<1>1. one \in Seq(Names) /\ first = one \o after
  BY OneElement DEF FirstOf
<1> HIDE DEF one
<1>2. first \o more = one \o (after \o more)
  BY <1>1, Assoc
<1> QED
  BY <1>2 DEF FirstOf, one
LEMMA AloneIsLast ==
  ASSUME NEW s, s.name \in Names, s.cost = Price(s.name), NEW rest, rest = <<s.name>>
  PROVE  FirstOf(rest, s, <<>>)
<1>1. <<s.name>> \in Seq(Names)
  BY OneElement
<1> DEFINE one == <<s.name>>
<1> HIDE DEF one
<1>2. one = one \o <<>>
  BY <1>1, NothingMore DEF one
<1> QED
  BY <1>2 DEF FirstOf, one

\* Signatures.
LEMMA StepOfSignature ==
  ASSUME NEW rs, PlacedIn("sign", rs), rs.outer # "done",
         NEW s, s = mbedtls_ecdsa_sign_restartable(rs)
  PROVE  FirstOf(RestOf("sign", rs), s, RestOf("sign", s.rs)) /\ PlacedIn("sign", s.rs)
<1>1. Placed(rs) /\ rs \in Contexts /\ "modn" \in Outers /\ "mul" \in Outers
      /\ "done" \in Outers
  BY DEF PlacedIn, Placed, Outers
<1>2. CASE rs.outer = "modn"
  <2>1. s.name = "modn" /\ s.cost = OpsInv + 4 /\ s.rs = [rs EXCEPT !.outer = "done"]
    BY <1>2 DEF mbedtls_ecdsa_sign_restartable, Step
  <2>2. s.rs \in Contexts /\ s.rs.outer = "done" /\ s.rs.rsm = rs.rsm /\ s.rs.i = rs.i
        /\ s.rs.table = rs.table
    BY <1>1, <2>1 DEF Contexts
  <2>3. PlacedIn("sign", s.rs)
    BY <1>1, <2>2, PhasesOutside DEF PlacedIn
  <2>4. s.name \in Names /\ s.cost = Price(s.name)
    BY <2>1 DEF Names, Price
  <2>5. RestOf("sign", rs) = <<s.name>> /\ RestOf("sign", s.rs) = <<>>
    BY <1>2, <2>1, <2>2 DEF RestOf, RestOfSignature
  <2> QED
    BY <2>3, <2>4, <2>5, AloneIsLast
<1>3. CASE rs.outer # "modn"
  <2> DEFINE p == ecp_mul_restartable_internal(rs, TRUE)
             next == IF rs.rsm = "final_norm" THEN "modn" ELSE "mul"
  <2>1. s = [p EXCEPT !.rs.outer = next]
    BY <1>3 DEF mbedtls_ecdsa_sign_restartable
  <2>2. p = Step(p.name, p.cost, p.rs)
    BY ProductIsStep
  <2>3. RestOf("sign", rs) = RestOfProduct(rs, TRUE) \o <<"modn">>
    BY <1>3 DEF RestOf, RestOfSignature
  <2>4. RestOfProduct(rs, TRUE) \in Seq(Names)
    BY <1>1, RestTypes
  <2>5. CASE rs.rsm = "final_norm"
    <3>1. /\ p.name = "final" /\ p.name \in Names /\ p.cost = Price("final")
          /\ RestOfProduct(rs, TRUE) = <<"final">> /\ Placed(p.rs)
      BY <1>1, <2>5, LastOfProduct
    <3> HIDE DEF p
    <3>2. s.name = p.name /\ s.cost = p.cost /\ s.rs = [p.rs EXCEPT !.outer = "modn"]
      BY <2>1, <2>2, <2>5 DEF Step
    <3>3. s.rs \in Contexts /\ s.rs.outer = "modn" /\ s.rs.rsm = p.rs.rsm /\ s.rs.i = p.rs.i
          /\ s.rs.table = p.rs.table
      BY <1>1, <3>1, <3>2 DEF Placed, Contexts
    <3>4. PlacedIn("sign", s.rs)
      BY <3>1, <3>3, PhasesOutside DEF PlacedIn
    <3>5. RestOf("sign", s.rs) = <<"modn">>
      BY <3>3 DEF RestOf, RestOfSignature
    <3> QED
      BY <2>3, <3>1, <3>2, <3>4, <3>5 DEF FirstOf
  <2>6. CASE rs.rsm # "final_norm"
    <3>1. /\ FirstOf(RestOfProduct(rs, TRUE), p, RestOfProduct(p.rs, TRUE))
          /\ Placed(p.rs)
      BY <1>1, <2>6, StepOfProduct
    <3>2. RestOfProduct(p.rs, TRUE) \in Seq(Names)
      BY <3>1, RestTypes
    <3> HIDE DEF p
    <3>3. s.name = p.name /\ s.cost = p.cost /\ s.rs = [p.rs EXCEPT !.outer = "mul"]
      BY <2>1, <2>2, <2>6 DEF Step
    <3>4. s.rs \in Contexts /\ s.rs.outer = "mul" /\ s.rs.rsm = p.rs.rsm /\ s.rs.i = p.rs.i
          /\ s.rs.table = p.rs.table
      BY <1>1, <3>1, <3>3 DEF Placed, Contexts
    <3>5. PlacedIn("sign", s.rs) /\ RestOfProduct(s.rs, TRUE) = RestOfProduct(p.rs, TRUE)
      BY <3>1, <3>4, PhasesOutside DEF PlacedIn
    <3>6. RestOf("sign", s.rs) = RestOfProduct(p.rs, TRUE) \o <<"modn">>
      BY <3>4, <3>5 DEF RestOf, RestOfSignature
    <3>7. FirstOf(RestOf("sign", rs), p, RestOf("sign", s.rs))
      BY <2>3, <2>4, <3>1, <3>2, <3>6, Units, ThenMore
    <3> QED
      BY <3>3, <3>5, <3>7 DEF FirstOf
  <2> QED
    BY <2>5, <2>6
<1> QED
  BY <1>2, <1>3

\* Products alone.
LEMMA StepOfProductAlone ==
  ASSUME NEW kind \in {"export", "agree"}, NEW rs, PlacedIn(kind, rs), rs.outer # "done",
         NEW s, s = product_step(rs, kind = "export")
  PROVE  FirstOf(RestOf(kind, rs), s, RestOf(kind, s.rs)) /\ PlacedIn(kind, s.rs)
<1> DEFINE g == kind = "export"
           p == ecp_mul_restartable_internal(rs, g)
<1>1. Placed(rs) /\ rs \in Contexts /\ "done" \in Outers /\ g \in BOOLEAN
  BY DEF PlacedIn, Placed, Outers
<1> HIDE DEF g
<1>2. s = [p EXCEPT !.rs.outer = IF rs.rsm = "final_norm" THEN "done" ELSE @]
  BY DEF product_step, g
<1>3. p = Step(p.name, p.cost, p.rs)
  BY ProductIsStep
<1>4. RestOf(kind, rs) = RestOfProduct(rs, g)
  BY DEF RestOf, g
<1>5. CASE rs.rsm = "final_norm"
  <2>1. /\ p.name = "final" /\ p.name \in Names /\ p.cost = Price("final")
        /\ RestOfProduct(rs, g) = <<"final">> /\ Placed(p.rs)
    <3>1. p = ecp_mul_restartable_internal(rs, g)
      OBVIOUS
    <3> HIDE DEF p
    <3>2. /\ p.name = "final" /\ p.name \in Names /\ p.cost = Price("final")
          /\ RestOfProduct(rs, g) = <<"final">>
          /\ Placed(p.rs) /\ p.rs.rsm = "none" /\ p.rs.outer = rs.outer /\ p.rs.ma = rs.ma
      BY <1>1, <1>5, <3>1, LastOfProduct
    <3> QED
      BY <3>2
  <2> HIDE DEF p
  <2>2. s.name = p.name /\ s.cost = p.cost /\ s.rs = [p.rs EXCEPT !.outer = "done"]
    BY <1>2, <1>3, <1>5 DEF Step
  <2>3. s.rs \in Contexts /\ s.rs.outer = "done" /\ s.rs.rsm = p.rs.rsm /\ s.rs.i = p.rs.i
        /\ s.rs.table = p.rs.table
    BY <1>1, <2>1, <2>2 DEF Placed, Contexts
  <2>4. PlacedIn(kind, s.rs)
    BY <2>1, <2>3, PhasesOutside DEF PlacedIn
  <2>5. RestOf(kind, s.rs) = <<>> /\ RestOf(kind, rs) = <<s.name>>
    BY <1>4, <2>1, <2>2, <2>3 DEF RestOf
  <2> QED
    BY <2>1, <2>2, <2>4, <2>5, AloneIsLast
<1>6. CASE rs.rsm # "final_norm"
  <2>1. /\ FirstOf(RestOfProduct(rs, g), p, RestOfProduct(p.rs, g))
        /\ Placed(p.rs) /\ p.rs.outer = rs.outer
    BY <1>1, <1>6, StepOfProduct
  <2> HIDE DEF p
  <2>2. s.name = p.name /\ s.cost = p.cost /\ s.rs = [p.rs EXCEPT !.outer = p.rs.outer]
    BY <1>2, <1>3, <1>6 DEF Step
  <2>3. s.rs = p.rs
    BY <2>1, <2>2 DEF Placed, Contexts
  <2>4. PlacedIn(kind, s.rs) /\ RestOf(kind, s.rs) = RestOfProduct(p.rs, g)
    BY <2>1, <2>3 DEF PlacedIn, RestOf, g
  <2> QED
    BY <1>4, <2>1, <2>2, <2>4 DEF FirstOf
<1> QED
  BY <1>5, <1>6

\* Verifications: two products and a sum.
LEMMA EndingType ==
  /\ Ending \in Seq(Names) /\ (Product(FALSE) \o Ending) \in Seq(Names)
  /\ \A table \in BOOLEAN : Product(table) \o (Product(FALSE) \o Ending) \in Seq(Names)
<1>1. Ending \in Seq(Names)
  BY Units, JoinType DEF Ending
<1>2. \A table \in BOOLEAN : Product(table) \in Seq(Names)
  BY ProductType
<1>3. Product(FALSE) \in Seq(Names)
  BY <1>2
<1>4. (Product(FALSE) \o Ending) \in Seq(Names)
  BY <1>1, <1>3, JoinType
<1>5. ASSUME NEW table \in BOOLEAN
      PROVE  Product(table) \o (Product(FALSE) \o Ending) \in Seq(Names)
  <2>1. Product(table) \in Seq(Names)
    BY <1>2
  <2> QED
    BY <1>4, <2>1, JoinType
<1> QED
  BY <1>1, <1>4, <1>5
LEMMA StepOfSum ==
  ASSUME NEW rs, Placed(rs), rs.outer \notin {"init", "done"},
         NEW s, s = mbedtls_ecp_muladd_restartable(rs)
  PROVE  FirstOf(RestOf("verify", rs), s, RestOf("verify", s.rs)) /\ PlacedIn("verify", s.rs)
<1> DEFINE g == rs.ma = "mul1"
           p == ecp_mul_restartable_internal(rs, g)
           over == rs.rsm = "final_norm"
           more == IF rs.ma = "mul1" THEN Product(FALSE) \o Ending ELSE Ending
<1>1. rs \in Contexts /\ "done" \in Outers /\ g \in BOOLEAN
      /\ rs.ma \in {"mul1", "mul2", "add", "norm"}
  BY DEF Placed, Outers, Contexts
<1>2. s = CASE rs.ma = "mul1" -> IF over THEN [p EXCEPT !.rs.ma = "mul2"] ELSE p
            [] rs.ma = "mul2" -> IF over THEN [p EXCEPT !.rs.ma = "add"] ELSE p
            [] rs.ma = "add" -> Step("ma_add", OpsAdd, [rs EXCEPT !.ma = "norm"])
            [] OTHER -> Step("ma_norm", OpsInv, [rs EXCEPT !.outer = "done"])
  BY DEF mbedtls_ecp_muladd_restartable
<1>3. p = Step(p.name, p.cost, p.rs)
  BY ProductIsStep
<1>4. RestOf("verify", rs) = RestOfSum(rs)
  BY DEF RestOf, RestOfVerification
<1>5. CASE rs.ma = "add"
  <2>1. s.name = "ma_add" /\ s.cost = OpsAdd /\ s.rs = [rs EXCEPT !.ma = "norm"]
    BY <1>2, <1>5 DEF Step
  <2>2. s.rs \in Contexts /\ s.rs.ma = "norm" /\ s.rs.outer = rs.outer /\ s.rs.rsm = rs.rsm
        /\ s.rs.i = rs.i
    BY <1>1, <2>1 DEF Contexts
  <2>3. PlacedIn("verify", s.rs)
    BY <2>2 DEF PlacedIn, Placed
  <2>4. RestOf("verify", rs) = <<"ma_add">> \o <<"ma_norm">>
        /\ RestOf("verify", s.rs) = <<"ma_norm">>
    BY <1>4, <1>5, <2>2 DEF RestOf, RestOfVerification, RestOfSum, Ending
  <2>5. "ma_add" \in Names /\ Price("ma_add") = OpsAdd
    BY DEF Names, Price
  <2> QED
    BY <2>1, <2>3, <2>4, <2>5 DEF FirstOf
<1>6. CASE rs.ma = "norm"
  <2>1. s.name = "ma_norm" /\ s.cost = OpsInv /\ s.rs = [rs EXCEPT !.outer = "done"]
    BY <1>2, <1>6 DEF Step
  <2>2. s.rs \in Contexts /\ s.rs.outer = "done" /\ s.rs.rsm = rs.rsm /\ s.rs.i = rs.i
    BY <1>1, <2>1 DEF Contexts
  <2>3. PlacedIn("verify", s.rs)
    BY <2>2 DEF PlacedIn, Placed
  <2>4. RestOf("verify", rs) = <<s.name>> /\ RestOf("verify", s.rs) = <<>>
    BY <1>4, <1>6, <2>1, <2>2 DEF RestOf, RestOfSum
  <2>5. s.name \in Names /\ s.cost = Price(s.name)
    BY <2>1 DEF Names, Price
  <2> QED
    BY <2>3, <2>4, <2>5, AloneIsLast
<1>7. ASSUME rs.ma \in {"mul1", "mul2"}
      PROVE  /\ RestOf("verify", rs) = RestOfProduct(rs, g) \o more
             /\ more \in Seq(Names)
  <2>1. CASE rs.ma = "mul1"
    BY <1>4, <2>1, EndingType DEF RestOfSum
  <2>2. CASE rs.ma = "mul2"
    BY <1>4, <2>2, EndingType DEF RestOfSum
  <2> QED
    BY <1>7, <2>1, <2>2
<1>8. ASSUME rs.ma \in {"mul1", "mul2"}, ~over
      PROVE  FirstOf(RestOf("verify", rs), s, RestOf("verify", s.rs)) /\ PlacedIn("verify", s.rs)
  <2>1. s = p
    BY <1>2, <1>8
  <2>2. /\ FirstOf(RestOfProduct(rs, g), p, RestOfProduct(p.rs, g))
        /\ Placed(p.rs) /\ p.rs.outer = rs.outer /\ p.rs.ma = rs.ma
    <3> HIDE DEF g
    <3> QED
      BY <1>1, <1>8, StepOfProduct
  <2>3. RestOfProduct(rs, g) \in Seq(Names) /\ RestOfProduct(p.rs, g) \in Seq(Names)
    <3> HIDE DEF g, p
    <3> QED
      BY <1>1, <2>2, RestTypes
  <2>4. PlacedIn("verify", s.rs)
    <3> HIDE DEF p
    <3> QED
      BY <2>1, <2>2 DEF PlacedIn
  <2>5. RestOf("verify", s.rs) = RestOfProduct(p.rs, g) \o more
    <3> HIDE DEF p
    <3>1. s.rs.ma = rs.ma /\ s.rs.outer \notin {"init", "done"}
      BY <2>1, <2>2
    <3>2. RestOf("verify", s.rs) = RestOfSum(s.rs)
      BY <3>1 DEF RestOf, RestOfVerification
    <3>3. CASE rs.ma = "mul1"
      BY <2>1, <3>1, <3>2, <3>3 DEF RestOfSum
    <3>4. CASE rs.ma = "mul2"
      BY <2>1, <3>1, <3>2, <3>4 DEF RestOfSum
    <3> QED
      BY <1>8, <3>3, <3>4
  <2> HIDE DEF g, p, more
  <2>6. FirstOf(RestOf("verify", rs), p, RestOf("verify", s.rs))
    BY <1>7, <1>8, <2>2, <2>3, <2>5, ThenMore
  <2> QED
    BY <2>1, <2>4, <2>6
<1>9. ASSUME rs.ma \in {"mul1", "mul2"}, over
      PROVE  FirstOf(RestOf("verify", rs), s, RestOf("verify", s.rs)) /\ PlacedIn("verify", s.rs)
  <2> DEFINE next == IF rs.ma = "mul1" THEN "mul2" ELSE "add"
  <2>1. s = [p EXCEPT !.rs.ma = next]
    BY <1>2, <1>9
  <2>2. /\ p.name = "final" /\ p.name \in Names /\ p.cost = Price("final")
        /\ RestOfProduct(rs, g) = <<"final">>
        /\ Placed(p.rs) /\ p.rs.rsm = "none" /\ p.rs.outer = rs.outer /\ p.rs.ma = rs.ma
    <3>1. p = ecp_mul_restartable_internal(rs, g)
      OBVIOUS
    <3> HIDE DEF g, p
    <3> QED
      BY <1>1, <1>9, <3>1, LastOfProduct
  <2> HIDE DEF p
  <2>3. s.name = p.name /\ s.cost = p.cost /\ s.rs = [p.rs EXCEPT !.ma = next]
    BY <1>3, <2>1 DEF Step
  <2>4. s.rs \in Contexts /\ s.rs.ma = next /\ s.rs.outer = rs.outer /\ s.rs.rsm = "none"
    BY <2>2, <2>3 DEF Placed, Contexts
  <2>5. PlacedIn("verify", s.rs)
    BY <2>4 DEF PlacedIn, Placed
  <2>6. RestOf("verify", s.rs) = more
    <3>1. RestOf("verify", s.rs) = RestOfSum(s.rs)
      BY <2>4 DEF RestOf, RestOfVerification
    <3>2. RestOfProduct(s.rs, FALSE) = Product(FALSE)
      BY <2>4 DEF RestOfProduct
    <3>3. CASE rs.ma = "mul1"
      BY <2>4, <3>1, <3>2, <3>3 DEF RestOfSum
    <3>4. CASE rs.ma = "mul2"
      BY <2>4, <3>1, <3>4 DEF RestOfSum
    <3> QED
      BY <1>9, <3>3, <3>4
  <2> HIDE DEF g, more
  <2>7. RestOf("verify", rs) = <<"final">> \o more
    BY <1>7, <1>9, <2>2
  <2> QED
    BY <2>2, <2>3, <2>5, <2>6, <2>7 DEF FirstOf
<1> QED
  BY <1>1, <1>5, <1>6, <1>8, <1>9
LEMMA StepOfVerification ==
  ASSUME NEW rs, PlacedIn("verify", rs), rs.outer # "done",
         NEW s, s = mbedtls_ecdsa_verify_restartable(rs)
  PROVE  FirstOf(RestOf("verify", rs), s, RestOf("verify", s.rs)) /\ PlacedIn("verify", s.rs)
<1>1. Placed(rs) /\ rs \in Contexts
  BY DEF PlacedIn, Placed
<1>2. CASE rs.outer # "init"
  BY <1>1, <1>2, StepOfSum DEF mbedtls_ecdsa_verify_restartable
<1>3. CASE rs.outer = "init"
  <2>1. s.name = "prepare" /\ s.cost = OpsChk + OpsInv + 2
        /\ s.rs = [rs EXCEPT !.outer = "muladd"]
    BY <1>3 DEF mbedtls_ecdsa_verify_restartable, Step
  <2>2. rs.rsm = "none" /\ rs.ma = "mul1" /\ "muladd" \in Outers
    BY <1>3 DEF PlacedIn, Outers
  <2>3. s.rs \in Contexts /\ s.rs.outer = "muladd" /\ s.rs.rsm = "none" /\ s.rs.ma = "mul1"
        /\ s.rs.table = rs.table /\ rs.table \in BOOLEAN
    BY <1>1, <2>1, <2>2 DEF Contexts
  <2>4. PlacedIn("verify", s.rs)
    BY <2>3 DEF PlacedIn, Placed
  <2>5. RestOf("verify", rs) = <<"prepare">> \o (Product(rs.table) \o (Product(FALSE) \o Ending))
    BY <1>3 DEF RestOf, RestOfVerification
  <2>6. RestOf("verify", s.rs) = Product(rs.table) \o (Product(FALSE) \o Ending)
    <3>1. RestOf("verify", s.rs) = RestOfProduct(s.rs, TRUE) \o (Product(FALSE) \o Ending)
      BY <2>3 DEF RestOf, RestOfVerification, RestOfSum
    <3>2. RestOfProduct(s.rs, TRUE) = Product(TRUE /\ rs.table)
      BY <2>3 DEF RestOfProduct
    <3>3. (TRUE /\ rs.table) = rs.table
      BY <2>3
    <3> QED
      BY <3>1, <3>2, <3>3
  <2>7. "prepare" \in Names /\ Price("prepare") = OpsChk + OpsInv + 2
    BY DEF Names, Price
  <2> QED
    BY <2>1, <2>4, <2>5, <2>6, <2>7 DEF FirstOf
<1> QED
  BY <1>2, <1>3

\* Every kind of computation.
Computing == IopKinds \ {"generate"}
LEMMA StepOfComputation ==
  ASSUME NEW kind \in Computing, NEW rs, PlacedIn(kind, rs), rs.outer # "done",
         NEW s, s = NextStep(kind, rs)
  PROVE  FirstOf(RestOf(kind, rs), s, RestOf(kind, s.rs)) /\ PlacedIn(kind, s.rs)
<1>1. CASE kind = "sign"
  BY <1>1, StepOfSignature DEF NextStep
<1>2. CASE kind = "verify"
  BY <1>2, StepOfVerification DEF NextStep
<1>3. CASE kind \in {"export", "agree"}
  <2>1. s = product_step(rs, kind = "export")
    BY <1>3 DEF NextStep
  <2> QED
    BY <1>3, <2>1, StepOfProductAlone
<1> QED
  BY <1>1, <1>2, <1>3 DEF Computing, IopKinds
LEMMA RestTyped ==
  ASSUME NEW kind \in Computing, NEW rs, PlacedIn(kind, rs)
  PROVE  RestOf(kind, rs) \in Seq(Names)
<1>1. Placed(rs) /\ rs.table \in BOOLEAN
  BY DEF PlacedIn, Placed, Contexts
<1>2. \A generator \in BOOLEAN : RestOfProduct(rs, generator) \in Seq(Names)
  BY <1>1, RestTypes
<1>3. <<>> \in Seq(Names)
  OBVIOUS
<1>4. RestOfProduct(rs, TRUE) \in Seq(Names) /\ RestOfProduct(rs, FALSE) \in Seq(Names)
      /\ RestOfProduct(rs, kind = "export") \in Seq(Names)
  BY <1>2
<1>5. RestOfSignature(rs) \in Seq(Names)
  BY <1>4, Units, JoinType DEF RestOfSignature
<1>6. RestOfSum(rs) \in Seq(Names)
  BY <1>4, Units, EndingType, JoinType DEF RestOfSum
<1>7. RestOfVerification(rs) \in Seq(Names)
  BY <1>1, <1>6, Units, EndingType, JoinType DEF RestOfVerification
<1> QED
  BY <1>3, <1>4, <1>5, <1>7 DEF RestOf

\* Where a computation starts.
LEMMA RestAtStart ==
  ASSUME NEW kind \in Computing, NEW table \in BOOLEAN, NEW rs \in Contexts,
         rs.outer = "init", rs.ma = "mul1", rs.rsm = "none", rs.table = table,
         kind = "agree" => ~table
  PROVE  PlacedIn(kind, rs) /\ RestOf(kind, rs) = Computation(kind, table)
<1>1. PlacedIn(kind, rs)
  BY DEF PlacedIn, Placed
<1>2. RestOfProduct(rs, TRUE) = Product(table)
  <2>1. RestOfProduct(rs, TRUE) = Product(TRUE /\ rs.table)
    BY DEF RestOfProduct
  <2>2. (TRUE /\ rs.table) = table
    OBVIOUS
  <2> QED
    BY <2>1, <2>2
<1>3. CASE kind = "sign"
  BY <1>1, <1>2, <1>3 DEF RestOf, RestOfSignature, Computation
<1>4. CASE kind = "verify"
  <2>1. RestOf(kind, rs) = <<"prepare">> \o (Product(table) \o (Product(FALSE) \o Ending))
    BY <1>4 DEF RestOf, RestOfVerification
  <2>2. Computation(kind, table) = ((<<"prepare">> \o Product(table)) \o Product(FALSE)) \o Ending
    <3>1. <<"ma_add", "ma_norm">> = Ending
      BY DEF Ending
    <3> QED
      BY <1>4, <3>1 DEF Computation
  <2>3. Product(table) \in Seq(Names) /\ Product(FALSE) \in Seq(Names)
    BY ProductType
  <2> DEFINE a == <<"prepare">>
             b == Product(table)
             c == Product(FALSE)
             d == Ending
             ab == a \o b
             cd == c \o d
  <2>4. a \in Seq(Names) /\ b \in Seq(Names) /\ c \in Seq(Names) /\ d \in Seq(Names)
    BY <2>3, EndingType, Units
  <2> HIDE DEF a, b, c, d
  <2>5. ab \in Seq(Names) /\ cd \in Seq(Names)
    BY <2>4, JoinType
  <2>6. (a \o b) \o cd = a \o (b \o cd)
    <3>1. cd \in Seq(Names)
      BY <2>5
    <3> HIDE DEF cd
    <3> QED
      BY <2>4, <3>1, Assoc
  <2>7. (ab \o c) \o d = ab \o (c \o d)
    <3> HIDE DEF ab
    <3> QED
      BY <2>4, <2>5, Assoc
  <2>8. Computation(kind, table) = (ab \o c) \o d
    BY <2>2 DEF a, b, c, d
  <2>9. RestOf(kind, rs) = a \o (b \o cd)
    BY <2>1 DEF a, b, c, d
  <2> QED
    BY <1>1, <2>6, <2>7, <2>8, <2>9
<1>5. CASE kind = "export"
  <2>1. RestOf(kind, rs) = RestOfProduct(rs, TRUE)
    <3>1. (kind = "export") = TRUE
      BY <1>5
    <3> QED
      BY <1>5, <3>1 DEF RestOf
  <2> QED
    BY <1>1, <1>2, <1>5, <2>1 DEF Computation
<1>6. CASE kind = "agree"
  <2>1. RestOf(kind, rs) = Product((kind = "export") /\ rs.table)
    BY <1>6 DEF RestOf, RestOfProduct
  <2>2. ((kind = "export") /\ rs.table) = table
    BY <1>6
  <2> QED
    BY <1>1, <1>6, <2>1, <2>2 DEF Computation
<1> QED
  BY <1>3, <1>4, <1>5, <1>6 DEF Computing, IopKinds

-----------------------------------------------------------------------------
(* Interruptible: prices.                                                  *)

\* The price of steps is the sum of their prices.
LEMMA TotalUnfolds ==
  ASSUME NEW steps, NEW scale \in Int
  PROVE  \E f \in [Nat -> Int] :
           /\ f[0] = 0 /\ \A n \in Nat : f[n + 1] = f[n] + Price(steps[n + 1]) * scale
           /\ Total(steps, scale) = f[Len(steps)]
<1> DEFINE body(f) == [n \in Nat |-> IF n = 0 THEN 0 ELSE f[n - 1] + Price(steps[n]) * scale]
           F == [x \in Nat \X Int |-> x[2] + Price(steps[x[1] + 1]) * scale]
<1>1. F \in [Nat \X Int -> Int]
  <2>1. ASSUME NEW x \in Nat \X Int PROVE x[2] + Price(steps[x[1] + 1]) * scale \in Int
    <3>1. x[2] \in Int /\ Price(steps[x[1] + 1]) \in Int
      BY PriceType
    <3> QED
      BY <3>1
  <2> QED
    BY <2>1
<1>2. PICK f \in [Nat -> Int] : f[0] = 0 /\ \A n \in Nat : f[n + 1] = F[<<n, f[n]>>]
  <2> HIDE DEF F
  <2>1. 0 \in Int
    OBVIOUS
  <2>2. \E f : Loop(Int, 0, F, f)
    BY <1>1, <2>1, Recursion, Zenon
  <2> QED
    BY <2>2 DEF Loop
<1>3. f = body(f)
  <2>1. ASSUME NEW n \in Nat PROVE f[n] = IF n = 0 THEN 0 ELSE f[n - 1] + Price(steps[n]) * scale
    <3>1. CASE n = 0
      BY <1>2, <3>1
    <3>2. CASE n # 0
      <4>1. n - 1 \in Nat /\ (n - 1) + 1 = n
        BY <3>2
      <4>2. f[n] = F[<<n - 1, f[n - 1]>>]
        BY <1>2, <4>1
      <4>3. <<n - 1, f[n - 1]>> \in Nat \X Int
        BY <4>1
      <4>4. F[<<n - 1, f[n - 1]>>] = f[n - 1] + Price(steps[(n - 1) + 1]) * scale
        BY <4>3
      <4> QED
        BY <3>2, <4>1, <4>2, <4>4
    <3> QED
      BY <3>1, <3>2
  <2> QED
    BY <2>1
<1> DEFINE g == CHOOSE g : g = body(g)
<1>4. g = body(g)
  BY <1>3
<1>5. Total(steps, scale) = g[Len(steps)]
  BY DEF Total
<1> HIDE DEF g, F
<1>6. g[0] = 0 /\ \A n \in Nat : n + 1 \in Nat
      /\ g[n + 1] = g[n] + Price(steps[n + 1]) * scale
  <2>1. \A n \in Nat : g[n] = IF n = 0 THEN 0 ELSE g[n - 1] + Price(steps[n]) * scale
    BY <1>4
  <2>2. \A n \in Nat : n + 1 \in Nat /\ n + 1 # 0 /\ (n + 1) - 1 = n
    OBVIOUS
  <2> HIDE DEF body
  <2> QED
    BY <2>1, <2>2
<1>7. g \in [Nat -> Int]
  <2> DEFINE S == {n \in Nat : g[n] \in Int}
  <2>1. 0 \in S
    BY <1>6
  <2>2. ASSUME NEW n \in Nat, n \in S PROVE n + 1 \in S
    <3>1. Price(steps[n + 1]) \in Int /\ g[n] \in Int
      BY <2>2, PriceType
    <3> QED
      BY <1>6, <3>1
  <2>3. Nat \subseteq S
    <3> HIDE DEF S
    <3> QED
      BY <2>1, <2>2, Induction
  <2> QED
    BY <1>4, <2>3
<1> QED
  BY <1>5, <1>6, <1>7
LEMMA NothingIsFree == \A scale \in Int : Total(<<>>, scale) = 0
<1> SUFFICES ASSUME NEW scale \in Int PROVE Total(<<>>, scale) = 0
  OBVIOUS
<1>1. PICK f \in [Nat -> Int] : f[0] = 0 /\ Total(<<>>, scale) = f[Len(<<>>)]
  BY TotalUnfolds
<1>2. Len(<<>>) = 0
  OBVIOUS
<1> QED
  BY <1>1, <1>2
LEMMA TotalAppends ==
  ASSUME NEW steps \in Seq(Names), NEW name \in Names, NEW scale \in Int
  PROVE  Total(steps, scale) \in Int
         /\ Total(Append(steps, name), scale) = Total(steps, scale) + Price(name) * scale
<1> DEFINE longer == Append(steps, name)
           n == Len(steps)
<1>1. n \in Nat /\ longer \in Seq(Names) /\ Len(longer) = n + 1 /\ longer[n + 1] = name
      /\ \A k \in 1 .. n : longer[k] = steps[k]
  BY AppendProperties
<1>2. PICK f \in [Nat -> Int] :
           /\ f[0] = 0 /\ \A k \in Nat : f[k + 1] = f[k] + Price(steps[k + 1]) * scale
           /\ Total(steps, scale) = f[Len(steps)]
  BY TotalUnfolds
<1> HIDE DEF longer
<1>3. PICK g \in [Nat -> Int] :
           /\ g[0] = 0 /\ \A k \in Nat : g[k + 1] = g[k] + Price(longer[k + 1]) * scale
           /\ Total(longer, scale) = g[Len(longer)]
  BY TotalUnfolds
<1> HIDE DEF n
<1> DEFINE S == {k \in Nat : k <= n => f[k] = g[k]}
<1>4. 0 \in S
  BY <1>2, <1>3
<1>5. ASSUME NEW k \in Nat, k \in S PROVE k + 1 \in S
  <2> SUFFICES ASSUME k + 1 <= n PROVE f[k + 1] = g[k + 1]
    OBVIOUS
  <2>1. k <= n /\ k + 1 \in 1 .. n
    BY <1>1
  <2>2. f[k] = g[k] /\ longer[k + 1] = steps[k + 1]
    BY <1>1, <1>5, <2>1
  <2> QED
    BY <1>2, <1>3, <2>2
<1>6. Nat \subseteq S
  <2> HIDE DEF S
  <2> QED
    BY <1>4, <1>5, Induction
<1>7. f[n] = g[n]
  BY <1>1, <1>6
<1>8. g[n + 1] = g[n] + Price(name) * scale
  BY <1>1, <1>3
<1> QED
  BY <1>1, <1>2, <1>3, <1>7, <1>8 DEF longer, n

-----------------------------------------------------------------------------
(* Interruptible: a call.                                                  *)

\* The states a call on ctx can be in: what was done, and what is left to do,
\* make the same computation, and what was done is paid for.
CallsOn(kind, ctx) ==
    {c \in CallStates :
        /\ PlacedIn(kind, c.rs)
        /\ c.steps \o RestOf(kind, c.rs) = ctx.steps \o RestOf(kind, ctx.rs)
        /\ Total(c.steps, ctx.scale) = Total(ctx.steps, ctx.scale) + c.ops_done}
Continued(kind, ctx) == PlacedIn(kind, ctx.rs) /\ ctx.steps \in Seq(Names) /\ ctx.scale \in Int

\* TakeStep: one more step, or none.
LEMMA TakeKeeps ==
  ASSUME NEW kind \in Computing, NEW ctx, Continued(kind, ctx),
         NEW c \in CallsOn(kind, ctx), NEW max_ops,
         NEW d, d = TakeNext(c, NextStep(kind, c.rs), ctx.scale, max_ops)
  PROVE  /\ d \in CallsOn(kind, ctx)
         /\ \/ d.rs = c.rs /\ d.steps = c.steps
            \/ c.rs.outer # "done" /\ Len(d.steps) = Len(c.steps) + 1
         /\ c.ops_done = 0 /\ ~c.stopped /\ c.rs.outer # "done"
              => Len(d.steps) = Len(c.steps) + 1
<1> DEFINE s == NextStep(kind, c.rs)
           cost == s.cost * ctx.scale
           stops == \/ c.rs.outer = "done" \/ c.stopped
                    \/ ~mbedtls_ecp_check_budget(cost, c.ops_done, max_ops)
<1>1. d = IF stops THEN [c EXCEPT !.stopped = TRUE]
          ELSE [c EXCEPT !.rs = s.rs, !.ops_done = @ + cost, !.steps = Append(@, s.name)]
  BY DEF TakeNext, TakeStep
<1>2. /\ c \in CallStates /\ PlacedIn(kind, c.rs)
      /\ c.steps \o RestOf(kind, c.rs) = ctx.steps \o RestOf(kind, ctx.rs)
      /\ Total(c.steps, ctx.scale) = Total(ctx.steps, ctx.scale) + c.ops_done
      /\ c.steps \in Seq(Names) /\ c.ops_done \in Int /\ c.stopped \in BOOLEAN
      /\ ctx.scale \in Int
  BY DEF CallsOn, CallStates, Continued
<1>3. CASE stops
  <2>1. d = [c EXCEPT !.stopped = TRUE]
    BY <1>1, <1>3
  <2>2. d \in CallStates /\ d.rs = c.rs /\ d.steps = c.steps /\ d.ops_done = c.ops_done
    BY <1>2, <2>1 DEF CallStates
  <2>3. d \in CallsOn(kind, ctx)
    BY <1>2, <2>2 DEF CallsOn
  <2>4. ~(c.ops_done = 0 /\ ~c.stopped /\ c.rs.outer # "done")
    BY <1>3 DEF mbedtls_ecp_check_budget
  <2> QED
    BY <2>2, <2>3, <2>4
<1>4. CASE ~stops
  <2>1. FirstOf(RestOf(kind, c.rs), s, RestOf(kind, s.rs)) /\ PlacedIn(kind, s.rs)
    BY <1>2, <1>4, StepOfComputation
  <2> HIDE DEF s
  <2>2. d = [c EXCEPT !.rs = s.rs, !.ops_done = @ + cost, !.steps = Append(@, s.name)]
    BY <1>1, <1>4
  <2>3. /\ s.name \in Names /\ s.cost = Price(s.name)
        /\ RestOf(kind, c.rs) = <<s.name>> \o RestOf(kind, s.rs)
        /\ s.rs \in Contexts
    BY <2>1 DEF FirstOf, PlacedIn, Placed
  <2>4. cost = Price(s.name) * ctx.scale /\ cost \in Int
    <3>1. Price(s.name) \in Int
      BY PriceType
    <3> QED
      BY <1>2, <2>3, <3>1
  <2>5. Append(c.steps, s.name) \in Seq(Names)
        /\ Len(Append(c.steps, s.name)) = Len(c.steps) + 1
        /\ Append(c.steps, s.name) = c.steps \o <<s.name>>
    BY <1>2, <2>3, AppendProperties, AppendIsConcat
  <2> DEFINE longer == Append(c.steps, s.name)
  <2> HIDE DEF cost, longer
  <2>6. d = [c EXCEPT !.rs = s.rs, !.ops_done = @ + cost, !.steps = longer]
        /\ longer \in Seq(Names)
    BY <2>2, <2>5 DEF longer
  <2>7. d \in CallStates /\ d.rs = s.rs /\ d.steps = longer /\ d.ops_done = c.ops_done + cost
    <3>1. c.ops_done + cost \in Int
      BY <1>2, <2>4
    <3> QED
      BY <1>2, <2>3, <2>6, <3>1 DEF CallStates
  <2>8. Total(longer, ctx.scale) = Total(ctx.steps, ctx.scale) + d.ops_done
    <3>1. Total(longer, ctx.scale) = Total(c.steps, ctx.scale) + cost
      BY <1>2, <2>3, <2>4, TotalAppends DEF longer
    <3>2. Total(ctx.steps, ctx.scale) \in Int
      <4>1. ctx.steps \in Seq(Names) /\ "chk" \in Names
        BY DEF Continued, Names
      <4> QED
        BY <1>2, <4>1, TotalAppends
    <3> QED
      BY <1>2, <2>4, <2>7, <3>1, <3>2
  <2>9. longer \o RestOf(kind, s.rs) = ctx.steps \o RestOf(kind, ctx.rs)
    <3> DEFINE one == <<s.name>>
               rest == RestOf(kind, s.rs)
    <3>1. one \in Seq(Names) /\ rest \in Seq(Names)
      BY <2>1, <2>3, OneElement, RestTyped
    <3>2. longer = c.steps \o one /\ RestOf(kind, c.rs) = one \o rest
      BY <2>3, <2>5 DEF longer
    <3> HIDE DEF one, rest
    <3>3. (c.steps \o one) \o rest = c.steps \o (one \o rest)
      BY <1>2, <3>1, Assoc
    <3> QED
      BY <1>2, <3>2, <3>3 DEF rest
  <2>10. d \in CallsOn(kind, ctx)
    BY <2>1, <2>7, <2>8, <2>9 DEF CallsOn
  <2>11. Len(d.steps) = Len(c.steps) + 1
    BY <2>5, <2>7 DEF longer
  <2> QED
    BY <1>4, <2>10, <2>11
<1> QED
  BY <1>3, <1>4

\* Run: a call ends the computation or takes a step of it.
LEMMA RunKeeps ==
  ASSUME NEW kind \in Computing, NEW ctx, Continued(kind, ctx), NEW max_ops,
         NEW run, run = Run(kind, ctx, max_ops)
  PROVE  /\ run \in CallsOn(kind, ctx)
         /\ run.rs.outer = "done" \/ Len(run.steps) > Len(ctx.steps)
<1> DEFINE V == CallsOn(kind, ctx)
           next(c) == TakeNext(c, NextStep(kind, c.rs), ctx.scale, max_ops)
           body(f) == [n \in Nat |-> IF n = 0 THEN Called(ctx)
                                   ELSE LET c == f[n - 1] IN next(c)]
           F == [x \in Nat \X V |-> next(x[2])]
           start == Called(ctx)
<1>1. /\ start \in V /\ start.rs = ctx.rs /\ start.steps = ctx.steps
      /\ start.ops_done = 0 /\ start.stopped = FALSE
  <2>1. ctx.rs \in Contexts /\ ctx.steps \in Seq(Names) /\ ctx.scale \in Int
        /\ PlacedIn(kind, ctx.rs)
    BY DEF Continued, PlacedIn, Placed
  <2>2. start \in CallStates /\ start.rs = ctx.rs /\ start.steps = ctx.steps
        /\ start.ops_done = 0 /\ start.stopped = FALSE
    BY <2>1 DEF Called, CallStates
  <2>3. Total(ctx.steps, ctx.scale) \in Int
    <3>1. "chk" \in Names
      BY DEF Names
    <3> QED
      BY <2>1, <3>1, TotalAppends
  <2>4. Total(ctx.steps, ctx.scale) = Total(ctx.steps, ctx.scale) + 0
    BY <2>3
  <2> HIDE DEF start
  <2>5. start \in V
    BY <2>1, <2>2, <2>4 DEF CallsOn
  <2> QED
    BY <2>2, <2>5
<1>2. ASSUME NEW c \in V
      PROVE  /\ next(c) \in V
             /\ \/ next(c).rs = c.rs /\ next(c).steps = c.steps
                \/ c.rs.outer # "done" /\ Len(next(c).steps) = Len(c.steps) + 1
             /\ c.ops_done = 0 /\ ~c.stopped /\ c.rs.outer # "done"
                  => Len(next(c).steps) = Len(c.steps) + 1
  BY TakeKeeps
<1>3. F \in [Nat \X V -> V]
  <2> HIDE DEF V, next
  <2>1. ASSUME NEW x \in Nat \X V PROVE next(x[2]) \in V
    BY <1>2
  <2> QED
    BY <2>1
<1> HIDE DEF V, next
<1>4. \A x \in Nat, c \in V : F[<<x, c>>] = next(c)
  OBVIOUS
<1>5. PICK f : Loop(V, start, F, f)
  <2> HIDE DEF F, start
  <2> QED
    BY <1>1, <1>3, Recursion, Zenon
<1>6. f \in [Nat -> V] /\ f[0] = start /\ \A n \in Nat : f[n + 1] = next(f[n])
  <2> HIDE DEF F
  <2> QED
    BY <1>4, <1>5 DEF Loop
<1>7. f = body(f)
  <2>1. ASSUME NEW n \in Nat PROVE f[n] = IF n = 0 THEN start ELSE next(f[n - 1])
    <3>1. CASE n = 0
      BY <1>6, <3>1
    <3>2. CASE n # 0
      <4>1. n - 1 \in Nat /\ (n - 1) + 1 = n
        BY <3>2
      <4> QED
        BY <1>6, <3>2, <4>1
    <3> QED
      BY <3>1, <3>2
  <2> QED
    BY <1>6, <2>1
<1> DEFINE g == CHOOSE g : g = body(g)
<1>8. g = body(g)
  BY <1>7
<1>9. run = g[LongestComputation]
  BY DEF Run, next
<1> HIDE DEF g, F, start
<1>10. g[0] = start /\ \A n \in Nat : g[n + 1] = next(g[n])
  <2>1. \A n \in Nat : g[n] = IF n = 0 THEN start ELSE next(g[n - 1])
    BY <1>8 DEF start
  <2>2. \A n \in Nat : n + 1 \in Nat /\ n + 1 # 0 /\ (n + 1) - 1 = n
    OBVIOUS
  <2> HIDE DEF body
  <2> QED
    BY <2>1, <2>2
<1> HIDE DEF body
<1>11. \A n \in Nat : g[n] \in V
  <2> DEFINE S == {n \in Nat : g[n] \in V}
  <2>1. 0 \in S
    BY <1>1, <1>10
  <2>2. ASSUME NEW n \in Nat, n \in S PROVE n + 1 \in S
    BY <1>2, <1>10, <2>2
  <2>3. Nat \subseteq S
    <3> HIDE DEF S
    <3> QED
      BY <2>1, <2>2, Induction
  <2> QED
    BY <2>3
<1> DEFINE Ahead(c) == c.rs.outer = "done" \/ Len(c.steps) > Len(ctx.steps)
<1>12. \A c \in V : Len(c.steps) \in Nat
  <2>1. \A c \in V : c.steps \in Seq(Names)
    BY DEF V, CallsOn, CallStates
  <2> QED
    BY <2>1, LenProperties
<1>13. Len(ctx.steps) \in Nat
  BY <1>1, <1>12
<1>14. \A n \in Nat : Ahead(g[n + 1])
  <2> DEFINE S == {n \in Nat : Ahead(g[n + 1])}
  <2>1. 0 \in S
    <3>1. g[0] = start /\ g[0 + 1] = next(start) /\ next(start) \in V
      BY <1>1, <1>2, <1>10
    <3>2. \/ next(start).rs = start.rs /\ next(start).steps = start.steps
          \/ Len(next(start).steps) = Len(start.steps) + 1
      BY <1>1, <1>2
    <3>3. start.rs.outer # "done" => Len(next(start).steps) = Len(start.steps) + 1
      BY <1>1, <1>2
    <3>4. Ahead(next(start))
      BY <1>1, <1>13, <3>2, <3>3
    <3> HIDE DEF Ahead
    <3> QED
      BY <3>1, <3>4
  <2>2. ASSUME NEW n \in Nat, n \in S PROVE n + 1 \in S
    <3>0. n + 1 \in Nat
      OBVIOUS
    <3>1. g[n + 1] \in V /\ g[(n + 1) + 1] = next(g[n + 1])
      BY <1>10, <1>11, <3>0
    <3>2. Ahead(g[n + 1])
      BY <2>2
    <3> DEFINE c == g[n + 1]
    <3> HIDE DEF c
    <3>3. Len(c.steps) \in Nat
      BY <1>12, <3>1 DEF c
    <3>4. \/ next(c).rs = c.rs /\ next(c).steps = c.steps
          \/ c.rs.outer # "done" /\ Len(next(c).steps) = Len(c.steps) + 1
      BY <1>2, <3>1 DEF c
    <3>5. Ahead(c)
      BY <3>2 DEF c
    <3>6. Ahead(next(c))
      <4> DEFINE d == next(c)
      <4>1. \/ d.rs = c.rs /\ d.steps = c.steps
            \/ c.rs.outer # "done" /\ Len(d.steps) = Len(c.steps) + 1
        BY <3>4
      <4> HIDE DEF d
      <4>2. CASE d.rs = c.rs /\ d.steps = c.steps
        BY <3>5, <4>2 DEF d
      <4>3. CASE c.rs.outer # "done" /\ Len(d.steps) = Len(c.steps) + 1
        BY <1>13, <3>3, <3>5, <4>3 DEF d
      <4> QED
        BY <4>1, <4>2, <4>3
    <3> HIDE DEF Ahead
    <3>7. Ahead(g[(n + 1) + 1])
      BY <3>1, <3>6 DEF c
    <3> QED
      BY <3>0, <3>7
  <2>3. Nat \subseteq S
    <3> HIDE DEF S
    <3> QED
      BY <2>1, <2>2, Induction
  <2> HIDE DEF Ahead
  <2> QED
    BY <2>3
<1>15. LongestComputation \in Nat /\ LongestComputation - 1 \in Nat
       /\ (LongestComputation - 1) + 1 = LongestComputation
  BY Sizes DEF LongestComputation
<1>16. run \in V /\ Ahead(run)
  <2> HIDE DEF Ahead
  <2> QED
    BY <1>9, <1>11, <1>14, <1>15
<1> QED
  BY <1>16 DEF V

-----------------------------------------------------------------------------
(* Interruptible: the operations.                                          *)

IopContexts == [key : {TRUE}, scale : Scales, start : BOOLEAN, steps : Seq(Names),
                num_ops : Int, rs : Contexts]
Extra(kind) == IF kind = "agree" THEN OpsChk ELSE 0
Paid(kind, ctx) == ctx.num_ops = Extra(kind) + Total(ctx.steps, ctx.scale)
Results(kind, start) == {Computation(kind, start)} \cup (IF kind = "export" THEN {<<>>} ELSE {})

\* An operation in use: it was paid for what was done, and what was done and what
\* is left make the computation.
GoesOn(kind, ctx) ==
    /\ ctx \in IopContexts /\ Paid(kind, ctx)
    /\ kind = "generate" => ctx.steps = <<>>
    /\ kind # "generate" => /\ PlacedIn(kind, ctx.rs)
                            /\ ctx.steps \o RestOf(kind, ctx.rs) \in Results(kind, ctx.start)
Ended(kind, ctx) ==
    /\ ctx.steps \in Results(kind, ctx.start)
    /\ kind # "generate" => Paid(kind, ctx)

\* What an operation in error may hold.
NotBegun(kind, ctx) == kind \in UnlockErrorsKept /\ ctx.steps = <<>>

IopInv ==
    /\ iop \in [kind : IopKinds, id : BOOLEAN, error_occurred : BOOLEAN, num_ops : Int]
    /\ iop.id => GoesOn(iop.kind, ictx) /\ iop.num_ops = ictx.num_ops
    /\ iop.id /\ iop.error_occurred => NotBegun(iop.kind, ictx)
    /\ ~iop.id => ictx = NotStarted
    /\ idone # NoResult => idone.kind = iop.kind /\ Ended(iop.kind, idone)

\* The setups.
LEMMA StartedIs ==
  ASSUME NEW scale \in Scales, NEW table \in BOOLEAN
  PROVE  /\ Started(scale, table) \in IopContexts
         /\ Started(scale, table).steps = <<>> /\ Started(scale, table).num_ops = 0
         /\ Started(scale, table).start = table /\ Started(scale, table).scale = scale
         /\ Started(scale, table).rs.outer = "init" /\ Started(scale, table).rs.ma = "mul1"
         /\ Started(scale, table).rs.rsm = "none" /\ Started(scale, table).rs.table = table
<1> DEFINE nothing == <<>>
           zero == 0
           rs == [outer |-> "init", ma |-> "mul1", rsm |-> "none", i |-> zero, table |-> table]
           ctx == [key |-> TRUE, scale |-> scale, start |-> table, steps |-> nothing,
                   num_ops |-> zero, rs |-> rs]
<1>1. nothing \in Seq(Names) /\ zero \in Int
  OBVIOUS
<1>2. Started(scale, table) = ctx
  BY DEF Started
<1> HIDE DEF nothing, zero
<1>3. rs \in Contexts
  BY <1>1 DEF Contexts, Outers, Products
<1>4. rs.outer = "init" /\ rs.ma = "mul1" /\ rs.rsm = "none" /\ rs.table = table
  OBVIOUS
<1> HIDE DEF rs
<1>5. ctx \in IopContexts
  BY <1>1, <1>3 DEF IopContexts
<1>6. ctx.rs = rs /\ ctx.steps = nothing /\ ctx.num_ops = zero /\ ctx.start = table
      /\ ctx.scale = scale
  OBVIOUS
<1> QED
  BY <1>2, <1>4, <1>5, <1>6 DEF nothing, zero
LEMMA StartGoes ==
  ASSUME NEW kind \in IopKinds \ {"agree"}, NEW scale \in Scales, NEW table \in BOOLEAN
  PROVE  GoesOn(kind, Started(scale, table))
<1> DEFINE ctx == Started(scale, table)
<1>1. /\ ctx \in IopContexts /\ ctx.steps = <<>> /\ ctx.num_ops = 0 /\ ctx.start = table
      /\ ctx.scale = scale /\ ctx.rs.outer = "init" /\ ctx.rs.ma = "mul1"
      /\ ctx.rs.rsm = "none" /\ ctx.rs.table = table
  BY StartedIs
<1> HIDE DEF ctx
<1>2. scale \in Int /\ Extra(kind) = 0
  BY Sizes DEF Extra
<1>3. Paid(kind, ctx)
  BY <1>1, <1>2, NothingIsFree DEF Paid
<1>4. ASSUME kind # "generate"
      PROVE  /\ PlacedIn(kind, ctx.rs)
             /\ ctx.steps \o RestOf(kind, ctx.rs) \in Results(kind, ctx.start)
  <2>1. kind \in Computing /\ ctx.rs \in Contexts /\ kind # "agree"
    BY <1>1, <1>4 DEF Computing, IopContexts
  <2>2. PlacedIn(kind, ctx.rs) /\ RestOf(kind, ctx.rs) = Computation(kind, table)
    BY <1>1, <2>1, RestAtStart
  <2>3. RestOf(kind, ctx.rs) \in Seq(Names)
    BY <2>1, <2>2, RestTyped
  <2>4. <<>> \o RestOf(kind, ctx.rs) = RestOf(kind, ctx.rs)
    BY <2>3, NothingMore
  <2> QED
    BY <1>1, <2>2, <2>4 DEF Results
<1> QED
  BY <1>1, <1>3, <1>4 DEF GoesOn, ctx
LEMMA PublicGoes ==
  ASSUME NEW scale \in Scales, NEW table \in BOOLEAN, NEW public \in BOOLEAN
  PROVE  GoesOn("export", mbedtls_psa_ecp_export_public_key_iop_setup(scale, table, public))
<1> DEFINE ctx == Started(scale, table)
           next == mbedtls_psa_ecp_export_public_key_iop_setup(scale, table, public)
<1>1. next = [ctx EXCEPT !.rs.outer = IF public THEN "done" ELSE @]
  BY DEF mbedtls_psa_ecp_export_public_key_iop_setup
<1>2. /\ ctx \in IopContexts /\ ctx.steps = <<>> /\ ctx.num_ops = 0 /\ ctx.start = table
      /\ ctx.scale = scale /\ ctx.rs.rsm = "none"
  BY StartedIs
<1>3. GoesOn("export", ctx)
  BY StartGoes DEF IopKinds
<1> HIDE DEF ctx, next
<1>4. CASE ~public
  <2>1. next = ctx
    BY <1>1, <1>2, <1>4 DEF IopContexts, Contexts
  <2> QED
    BY <1>3, <2>1 DEF next
<1>5. CASE public
  <2> DEFINE rs == [ctx.rs EXCEPT !.outer = "done"]
  <2>1. next = [ctx EXCEPT !.rs = rs]
    BY <1>1, <1>2, <1>5 DEF IopContexts, Contexts
  <2>2. rs \in Contexts /\ rs.outer = "done" /\ rs.rsm = "none"
    BY <1>2 DEF IopContexts, Contexts, Outers
  <2> HIDE DEF rs
  <2>3. next \in IopContexts /\ next.steps = <<>> /\ next.num_ops = 0 /\ next.scale = scale
        /\ next.rs = rs
    BY <1>2, <2>1, <2>2 DEF IopContexts
  <2>4. Paid("export", next)
    <3>1. scale \in Int /\ Extra("export") = 0
      BY Sizes DEF Extra
    <3> QED
      BY <2>3, <3>1, NothingIsFree DEF Paid
  <2>5. PlacedIn("export", rs) /\ RestOf("export", rs) = <<>>
    BY <2>2 DEF PlacedIn, Placed, RestOf
  <2>6. <<>> \o <<>> = <<>>
    <3>1. <<>> \in Seq(Names)
      OBVIOUS
    <3> QED
      BY <3>1, NothingMore
  <2>7. next.steps \o RestOf("export", next.rs) \in Results("export", next.start)
    BY <2>3, <2>5, <2>6 DEF Results
  <2>8. GoesOn("export", next)
    BY <2>3, <2>4, <2>5, <2>7 DEF GoesOn
  <2> QED
    BY <2>8 DEF next
<1> QED
  BY <1>4, <1>5
LEMMA AgreementGoes ==
  ASSUME NEW scale \in Scales
  PROVE  GoesOn("agree", mbedtls_psa_key_agreement_iop_setup(scale))
<1> DEFINE ctx == Started(scale, FALSE)
           next == mbedtls_psa_key_agreement_iop_setup(scale)
<1>1. next = [ctx EXCEPT !.num_ops = OpsChk]
  BY DEF mbedtls_psa_key_agreement_iop_setup
<1>2. /\ ctx \in IopContexts /\ ctx.steps = <<>> /\ ctx.start = FALSE
      /\ ctx.scale = scale /\ ctx.rs.outer = "init" /\ ctx.rs.ma = "mul1"
      /\ ctx.rs.rsm = "none" /\ ctx.rs.table = FALSE
  BY StartedIs
<1> HIDE DEF ctx, next
<1>3. OpsChk \in Int /\ scale \in Int
  BY Sizes
<1>4. /\ next \in IopContexts /\ next.steps = <<>> /\ next.start = FALSE /\ next.rs = ctx.rs
      /\ next.scale = scale /\ next.num_ops = OpsChk
  BY <1>1, <1>2, <1>3 DEF IopContexts
<1>5. Paid("agree", next)
  BY <1>3, <1>4, NothingIsFree DEF Paid, Extra
<1>6. PlacedIn("agree", ctx.rs) /\ RestOf("agree", ctx.rs) = Computation("agree", FALSE)
      /\ "agree" \in Computing
  <2>1. ctx.rs \in Contexts /\ "agree" \in Computing
    BY <1>2 DEF IopContexts, Computing, IopKinds
  <2> QED
    BY <1>2, <2>1, RestAtStart
<1>7. <<>> \o RestOf("agree", ctx.rs) = RestOf("agree", ctx.rs)
  <2>1. RestOf("agree", ctx.rs) \in Seq(Names)
    BY <1>6, RestTyped
  <2> QED
    BY <2>1, NothingMore
<1>8. next.steps \o RestOf("agree", next.rs) \in Results("agree", next.start)
  BY <1>4, <1>6, <1>7 DEF Results
<1>9. GoesOn("agree", next)
  BY <1>4, <1>5, <1>6, <1>8 DEF GoesOn
<1> QED
  BY <1>9 DEF next
LEMMA AgreementNotBegun ==
  ASSUME NEW scale \in Scales
  PROVE  NotBegun("agree", mbedtls_psa_key_agreement_iop_setup(scale))
<1> DEFINE ctx == Started(scale, FALSE)
<1>1. ctx \in IopContexts /\ ctx.steps = <<>>
  BY StartedIs
<1> HIDE DEF ctx
<1>2. [ctx EXCEPT !.num_ops = OpsChk].steps = <<>>
  BY <1>1 DEF IopContexts
<1> QED
  BY <1>2 DEF NotBegun, UnlockErrorsKept, mbedtls_psa_key_agreement_iop_setup, ctx

\* Contexts and their fields.
LEMMA ContextFields ==
  ASSUME NEW ctx \in IopContexts
  PROVE  ctx.scale \in Int /\ ctx.steps \in Seq(Names) /\ ctx.num_ops \in Int /\ ctx.key = TRUE
<1>1. ctx.scale \in Scales /\ ctx.steps \in Seq(Names) /\ ctx.num_ops \in Int
      /\ ctx.key \in {TRUE}
  BY DEF IopContexts
<1>2. \A scale \in Scales : scale \in Int
  BY Sizes
<1> QED
  BY <1>1, <1>2

\* A call that continues an operation: it goes on, or it has the result; and it has
\* the result, or it is further.
LEMMA CompletesKeeps ==
  ASSUME NEW kind \in Computing, NEW ctx, GoesOn(kind, ctx),
         NEW r, r = Completes(kind, ctx)
  PROVE  /\ r.status \in {"OK", "INCOMPLETE"}
         /\ GoesOn(kind, r.ctx)
         /\ r.status = "OK" => Ended(kind, r.ctx)
         /\ r.status = "OK" \/ Len(r.ctx.steps) > Len(ctx.steps)
<1> DEFINE max_ops == mbedtls_psa_interruptible_set_max_ops(imax)
           run == Run(kind, ctx, max_ops)
           done == ctx.num_ops + run.ops_done
<1>1. kind # "generate" /\ ctx \in IopContexts /\ Paid(kind, ctx) /\ PlacedIn(kind, ctx.rs)
      /\ ctx.steps \o RestOf(kind, ctx.rs) \in Results(kind, ctx.start)
  BY DEF GoesOn, Computing
<1>2. ctx.scale \in Int /\ ctx.steps \in Seq(Names) /\ ctx.num_ops \in Int
  BY <1>1, ContextFields
<1>3. Continued(kind, ctx)
  BY <1>1, <1>2 DEF Continued
<1> HIDE DEF max_ops
<1>4. run \in CallsOn(kind, ctx) /\ (run.rs.outer = "done" \/ Len(run.steps) > Len(ctx.steps))
  BY <1>3, RunKeeps
<1>5. r = [status |-> IF run.rs.outer = "done" THEN "OK" ELSE "INCOMPLETE",
           ctx |-> [ctx EXCEPT !.rs = run.rs, !.steps = run.steps, !.num_ops = done]]
  BY DEF Completes, AfterRun, NumOps, max_ops
<1> HIDE DEF run
<1>6. /\ run.rs \in Contexts /\ run.steps \in Seq(Names) /\ run.ops_done \in Int
      /\ PlacedIn(kind, run.rs)
      /\ run.steps \o RestOf(kind, run.rs) = ctx.steps \o RestOf(kind, ctx.rs)
      /\ Total(run.steps, ctx.scale) = Total(ctx.steps, ctx.scale) + run.ops_done
  BY <1>4 DEF CallsOn, CallStates
<1>7. done \in Int
  BY <1>2, <1>6
<1>8. done = Extra(kind) + Total(run.steps, ctx.scale)
  <2>1. Total(ctx.steps, ctx.scale) \in Int
    <3>1. "chk" \in Names
      BY DEF Names
    <3> QED
      BY <1>2, <3>1, TotalAppends
  <2>2. Extra(kind) \in Int
    BY Sizes DEF Extra
  <2> QED
    BY <1>1, <1>6, <2>1, <2>2 DEF Paid
<1> HIDE DEF done
<1>9. /\ r.ctx \in IopContexts /\ r.ctx.rs = run.rs /\ r.ctx.steps = run.steps
      /\ r.ctx.num_ops = done /\ r.ctx.start = ctx.start /\ r.ctx.scale = ctx.scale
  <2> DEFINE rs == run.rs
             steps == run.steps
             after == [ctx EXCEPT !.rs = rs, !.steps = steps, !.num_ops = done]
  <2>1. r.ctx = after
    BY <1>5
  <2>2. rs \in Contexts /\ steps \in Seq(Names)
    BY <1>6
  <2> HIDE DEF rs, steps
  <2>3. /\ after \in IopContexts /\ after.rs = rs /\ after.steps = steps
        /\ after.num_ops = done /\ after.start = ctx.start /\ after.scale = ctx.scale
    <3>1. ctx \in IopContexts
      BY <1>1
    <3> QED
      BY <1>7, <2>2, <3>1 DEF IopContexts
  <2> QED
    BY <2>1, <2>3 DEF rs, steps
<1>10. r.status = IF run.rs.outer = "done" THEN "OK" ELSE "INCOMPLETE"
  BY <1>5
<1>11. Paid(kind, r.ctx)
  BY <1>8, <1>9 DEF Paid
<1>12. GoesOn(kind, r.ctx)
  BY <1>1, <1>6, <1>9, <1>11 DEF GoesOn
<1>13. ASSUME r.status = "OK" PROVE Ended(kind, r.ctx)
  <2>1. RestOf(kind, run.rs) = <<>>
    BY <1>10, <1>13 DEF RestOf
  <2>2. run.steps \o <<>> = run.steps
    BY <1>6, NothingMore
  <2>3. r.ctx.steps \in Results(kind, r.ctx.start)
    BY <1>1, <1>6, <1>9, <2>1, <2>2
  <2> QED
    BY <1>11, <2>3 DEF Ended
<1> QED
  BY <1>4, <1>9, <1>10, <1>12, <1>13

-----------------------------------------------------------------------------
(* Interruptible: the invariant.                                           *)

Operations == [kind : IopKinds, id : BOOLEAN, error_occurred : BOOLEAN, num_ops : Int]

LEMMA IopFailedKeeps ==
  ASSUME IopInv, NEW num_ops \in Int, IopFailed(num_ops) PROVE IopInv'
<1>1. iop' = [iop EXCEPT !.id = FALSE, !.error_occurred = TRUE, !.num_ops = num_ops]
      /\ ictx' = NotStarted /\ idone' = NoResult
  BY DEF IopFailed
<1>2. iop' \in Operations /\ iop'.id = FALSE
  BY <1>1 DEF IopInv, Operations
<1> QED
  BY <1>1, <1>2 DEF IopInv, Operations
LEMMA IopRefusedKeeps ==
  ASSUME IopInv, IopRefused PROVE IopInv'
  BY DEF IopInv, IopRefused, GoesOn, Paid
LEMMA IopStartsKeeps ==
  ASSUME IopInv, Fresh, NEW ctx, GoesOn(iop.kind, ctx), IopStarts(ctx) PROVE IopInv'
<1>1. iop' = [iop EXCEPT !.id = TRUE, !.num_ops = ctx.num_ops]
      /\ ictx' = ctx /\ idone' = NoResult
  BY DEF IopStarts
<1>2. ctx.num_ops \in Int
  <2>1. ctx \in IopContexts
    BY DEF GoesOn
  <2> QED
    BY <2>1, ContextFields
<1>3. iop' \in Operations /\ iop'.id = TRUE /\ iop'.kind = iop.kind /\ ~iop'.error_occurred
      /\ iop'.num_ops = ctx.num_ops
  BY <1>1, <1>2 DEF IopInv, Operations, Fresh
<1>4. GoesOn(iop'.kind, ictx')
  BY <1>1, <1>3
<1>5. iop'.id => GoesOn(iop'.kind, ictx') /\ iop'.num_ops = ictx'.num_ops
  BY <1>1, <1>3, <1>4
<1> QED
  BY <1>1, <1>3, <1>5 DEF IopInv, Operations, GoesOn, Paid
LEMMA IopStartsInErrorKeeps ==
  ASSUME IopInv, NEW ctx, GoesOn(iop.kind, ctx), NotBegun(iop.kind, ctx), IopStartsInError(ctx)
  PROVE  IopInv'
<1>1. iop' = [iop EXCEPT !.id = TRUE, !.error_occurred = TRUE, !.num_ops = ctx.num_ops]
      /\ ictx' = ctx /\ idone' = NoResult
  BY DEF IopStartsInError
<1>2. ctx.num_ops \in Int
  <2>1. ctx \in IopContexts
    BY DEF GoesOn
  <2> QED
    BY <2>1, ContextFields
<1>3. iop' \in Operations /\ iop'.id = TRUE /\ iop'.kind = iop.kind /\ iop'.num_ops = ctx.num_ops
  BY <1>1, <1>2 DEF IopInv, Operations
<1>4. GoesOn(iop'.kind, ictx') /\ NotBegun(iop'.kind, ictx') /\ iop'.num_ops = ictx'.num_ops
  BY <1>1, <1>3
<1> QED
  BY <1>1, <1>3, <1>4 DEF IopInv, Operations, GoesOn, Paid

\* A call ends: the operation goes on, or it is over.
LEMMA IopEndsKeeps ==
  ASSUME IopInv, NEW status, NEW ctx, NEW error \in BOOLEAN, IopEnds(status, ctx, error),
         ctx.num_ops \in Int,
         status = "INCOMPLETE" => ~error /\ GoesOn(iop.kind, ctx),
         status = "OK" => Ended(iop.kind, ctx)
  PROVE  IopInv'
<1> DEFINE result == [kind |-> iop.kind, steps |-> ctx.steps, start |-> ctx.start,
                      scale |-> ctx.scale, num_ops |-> ctx.num_ops]
<1>1. /\ iop' = [iop EXCEPT !.id = (status = "INCOMPLETE"), !.num_ops = ctx.num_ops,
                            !.error_occurred = error]
      /\ ictx' = IF status = "INCOMPLETE" THEN ctx ELSE NotStarted
      /\ idone' = IF status # "OK" THEN NoResult ELSE result
  BY DEF IopEnds
<1>2. iop' \in Operations /\ iop'.id = (status = "INCOMPLETE") /\ iop'.kind = iop.kind
      /\ iop'.error_occurred = error /\ iop'.num_ops = ctx.num_ops
  BY <1>1 DEF IopInv, Operations
<1>3. idone' # NoResult => idone'.kind = iop'.kind /\ Ended(iop'.kind, idone')
  <2>1. CASE status = "OK"
    <3>1. idone' = result /\ Ended(iop.kind, ctx)
      BY <1>1, <2>1
    <3>2. /\ idone'.kind = iop.kind /\ idone'.steps = ctx.steps /\ idone'.start = ctx.start
          /\ idone'.scale = ctx.scale /\ idone'.num_ops = ctx.num_ops
      BY <3>1
    <3>3. Ended(iop.kind, idone')
      BY <3>1, <3>2 DEF Ended, Paid
    <3> QED
      BY <1>2, <3>2, <3>3
  <2>2. CASE status # "OK"
    BY <1>1, <2>2
  <2> QED
    BY <2>1, <2>2
<1>4. iop'.id => /\ ~iop'.error_occurred /\ GoesOn(iop'.kind, ictx')
                 /\ iop'.num_ops = ictx'.num_ops
  <2> SUFFICES ASSUME iop'.id
               PROVE  ~iop'.error_occurred /\ GoesOn(iop'.kind, ictx')
                      /\ iop'.num_ops = ictx'.num_ops
    OBVIOUS
  <2>1. status = "INCOMPLETE"
    BY <1>2
  <2>2. ictx' = ctx
    BY <1>1, <2>1
  <2> QED
    BY <1>2, <2>1, <2>2
<1>5. ~iop'.id => ictx' = NotStarted
  BY <1>1, <1>2
<1> QED
  BY <1>2, <1>3, <1>4, <1>5 DEF IopInv, Operations, Ended, GoesOn, Paid
LEMMA FinallyKeeps ==
  ASSUME IopInv, Usable, iop.kind \in Computing, NEW error,
         error \notin {"OK", "INCOMPLETE"}, Finally(Completes(iop.kind, ictx), error)
  PROVE  IopInv'
<1> DEFINE r == Completes(iop.kind, ictx)
<1>1. GoesOn(iop.kind, ictx)
  BY DEF IopInv, Usable
<1>2. /\ r.status \in {"OK", "INCOMPLETE"} /\ GoesOn(iop.kind, r.ctx)
      /\ r.status = "OK" => Ended(iop.kind, r.ctx)
  BY <1>1, CompletesKeeps
<1> HIDE DEF r
<1>3. r.ctx.num_ops \in Int
  <2>1. r.ctx \in IopContexts
    BY <1>2 DEF GoesOn
  <2> QED
    BY <2>1, ContextFields
<1>4. Finally(r, error)
  BY DEF r
<1>5. CASE r.status = "INCOMPLETE"
  <2>1. IopEnds(r.status, r.ctx, FALSE)
    BY <1>4, <1>5 DEF Finally
  <2> QED
    BY <1>2, <1>3, <1>5, <2>1, IopEndsKeeps
<1>6. CASE r.status = "OK" /\ IopEnds("OK", r.ctx, FALSE)
  BY <1>2, <1>3, <1>6, IopEndsKeeps
<1>7. CASE r.status = "OK" /\ IopEnds(error, r.ctx, TRUE)
  BY <1>3, <1>7, IopEndsKeeps
<1> QED
  BY <1>2, <1>4, <1>5, <1>6, <1>7 DEF Finally

\* Setups.
LEMMA IopSetupKeeps ==
  ASSUME IopInv, NEW kind, NEW contexts, NEW counts, counts \subseteq {0, iop.num_ops},
         \A ctx \in contexts : GoesOn(kind, ctx),
         \A ctx \in contexts : kind \in UnlockErrorsKept => NotBegun(kind, ctx),
         IopSetup(kind, contexts, counts)
  PROVE  IopInv'
<1>1. iop.kind = kind /\ iop.num_ops \in Int
  BY DEF IopSetup, IopInv
<1>2. CASE IopRefused
  BY <1>2, IopRefusedKeeps
<1>3. ASSUME Fresh, NEW ctx \in contexts, IopStarts(ctx) PROVE IopInv'
  <2>1. GoesOn(iop.kind, ctx)
    BY <1>1
  <2> QED
    BY <1>3, <2>1, IopStartsKeeps
<1>4. ASSUME NEW num_ops \in counts, IopFailed(num_ops) PROVE IopInv'
  <2>1. num_ops \in Int
    BY <1>1
  <2> QED
    BY <1>4, <2>1, IopFailedKeeps
<1>5. ASSUME kind \in UnlockErrorsKept, NEW ctx \in contexts, IopStartsInError(ctx) PROVE IopInv'
  <2>1. GoesOn(iop.kind, ctx) /\ NotBegun(iop.kind, ctx)
    BY <1>1, <1>5
  <2> QED
    BY <1>5, <2>1, IopStartsInErrorKeeps
<1> QED
  BY <1>2, <1>3, <1>4, <1>5 DEF IopSetup
LEMMA IopSetupsKeep ==
  ASSUME IopInv,
         psa_sign_hash_start \/ psa_verify_hash_start \/ psa_export_public_key_iop_setup
         \/ psa_key_agreement_iop_setup \/ psa_generate_key_iop_setup
  PROVE  IopInv'
<1> DEFINE all == {Started(scale, table) : scale \in Scales, table \in BOOLEAN}
<1>1. \A kind \in IopKinds \ {"agree"} : \A ctx \in all : GoesOn(kind, ctx)
  BY StartGoes
<1>0. \A kind \in UnlockErrorsKept : \A ctx \in all : NotBegun(kind, ctx)
  BY StartedIs DEF NotBegun
<1>2. CASE psa_sign_hash_start
  <2>1. /\ \A ctx \in all : GoesOn("sign", ctx)
        /\ \A ctx \in all : "sign" \in UnlockErrorsKept => NotBegun("sign", ctx)
    BY <1>0, <1>1 DEF IopKinds
  <2>2. IopSetup("sign", all, {0, iop.num_ops})
    BY <1>2 DEF psa_sign_hash_start, mbedtls_psa_sign_hash_start
  <2> HIDE DEF all
  <2> QED
    BY <2>1, <2>2, IopSetupKeeps
<1>3. CASE psa_verify_hash_start
  <2>1. /\ \A ctx \in all : GoesOn("verify", ctx)
        /\ \A ctx \in all : "verify" \in UnlockErrorsKept => NotBegun("verify", ctx)
    BY <1>0, <1>1 DEF IopKinds
  <2>2. IopSetup("verify", all, {0, iop.num_ops})
    BY <1>3 DEF psa_verify_hash_start, mbedtls_psa_verify_hash_start
  <2> HIDE DEF all
  <2> QED
    BY <2>1, <2>2, IopSetupKeeps
<1>4. CASE psa_export_public_key_iop_setup
  <2> DEFINE C == {mbedtls_psa_ecp_export_public_key_iop_setup(scale, table, public) :
                     scale \in Scales, table \in BOOLEAN, public \in BOOLEAN}
  <2>1. \A ctx \in C : GoesOn("export", ctx)
    BY PublicGoes
  <2>0. "export" \notin UnlockErrorsKept
    BY DEF UnlockErrorsKept
  <2>2. IopSetup("export", C, {0})
    BY <1>4 DEF psa_export_public_key_iop_setup
  <2> HIDE DEF C
  <2> QED
    BY <2>0, <2>1, <2>2, IopSetupKeeps
<1>5. CASE psa_key_agreement_iop_setup
  <2> DEFINE C == {mbedtls_psa_key_agreement_iop_setup(scale) : scale \in Scales}
  <2>1. \A ctx \in C : GoesOn("agree", ctx)
    BY AgreementGoes
  <2>0. \A ctx \in C : NotBegun("agree", ctx)
    BY AgreementNotBegun
  <2>2. IopSetup("agree", C, {0, iop.num_ops})
    BY <1>5 DEF psa_key_agreement_iop_setup
  <2> HIDE DEF C
  <2> QED
    BY <2>0, <2>1, <2>2, IopSetupKeeps
<1>6. CASE psa_generate_key_iop_setup
  <2>1. iop.kind = "generate" /\ iop.num_ops \in Int /\ 0 \in Int
    BY <1>6 DEF psa_generate_key_iop_setup, IopInv
  <2>2. ASSUME Fresh, NEW scale \in Scales, NEW table \in BOOLEAN,
               IopStarts(mbedtls_psa_ecp_generate_key_iop_setup(scale, table))
        PROVE  IopInv'
    <3>1. GoesOn("generate", Started(scale, table))
      BY StartGoes DEF IopKinds
    <3>2. IopStarts(Started(scale, table))
      BY <2>2 DEF mbedtls_psa_ecp_generate_key_iop_setup
    <3> QED
      BY <2>1, <2>2, <3>1, <3>2, IopStartsKeeps
  <2>3. CASE IopFailed(iop.num_ops)
    BY <2>1, <2>3, IopFailedKeeps
  <2>4. CASE IopFailed(0)
    BY <2>1, <2>4, IopFailedKeeps
  <2> QED
    BY <1>6, <2>2, <2>3, <2>4 DEF psa_generate_key_iop_setup
<1> QED
  BY <1>2, <1>3, <1>4, <1>5, <1>6

\* Calls that continue.
LEMMA IopCompletesKeep ==
  ASSUME IopInv,
         psa_sign_hash_complete \/ psa_verify_hash_complete
         \/ psa_export_public_key_iop_complete \/ psa_key_agreement_iop_complete
         \/ psa_generate_key_iop_complete
  PROVE  IopInv'
<1>1. iop.num_ops \in Int
  BY DEF IopInv
<1>2. IopFailed(iop.num_ops) => IopInv'
  BY <1>1, IopFailedKeeps
<1>3. IopRefused => IopInv'
  BY IopRefusedKeeps
<1>4. CASE psa_sign_hash_complete
  <2>1. iop.kind = "sign" /\ iop.kind \in Computing
    BY <1>4 DEF psa_sign_hash_complete, Computing, IopKinds
  <2>2. CASE Usable /\ Finally(mbedtls_psa_sign_hash_complete(ictx), "INSUFFICIENT_MEMORY")
    <3>1. Finally(Completes(iop.kind, ictx), "INSUFFICIENT_MEMORY")
      BY <2>1, <2>2 DEF mbedtls_psa_sign_hash_complete
    <3> QED
      BY <2>1, <2>2, <3>1, FinallyKeeps
  <2> QED
    BY <1>2, <1>4, <2>2 DEF psa_sign_hash_complete
<1>5. CASE psa_verify_hash_complete
  <2>1. iop.kind = "verify" /\ iop.kind \in Computing
    BY <1>5 DEF psa_verify_hash_complete, Computing, IopKinds
  <2>2. CASE Usable /\ Finally(mbedtls_psa_verify_hash_complete(ictx), "INVALID_SIGNATURE")
    <3>1. Finally(Completes(iop.kind, ictx), "INVALID_SIGNATURE")
      BY <2>1, <2>2 DEF mbedtls_psa_verify_hash_complete
    <3> QED
      BY <2>1, <2>2, <3>1, FinallyKeeps
  <2> QED
    BY <1>2, <1>5, <2>2 DEF psa_verify_hash_complete
<1>6. CASE psa_export_public_key_iop_complete
  <2>1. iop.kind = "export" /\ iop.kind \in Computing
    BY <1>6 DEF psa_export_public_key_iop_complete, Computing, IopKinds
  <2>2. CASE Usable /\ Finally(mbedtls_psa_ecp_export_public_key_iop_complete(ictx),
                               "BUFFER_TOO_SMALL")
    <3>1. Finally(Completes(iop.kind, ictx), "BUFFER_TOO_SMALL")
      BY <2>1, <2>2 DEF mbedtls_psa_ecp_export_public_key_iop_complete
    <3> QED
      BY <2>1, <2>2, <3>1, FinallyKeeps
  <2> QED
    BY <1>3, <1>6, <2>2 DEF psa_export_public_key_iop_complete
<1>7. CASE psa_key_agreement_iop_complete
  <2>1. iop.kind = "agree" /\ iop.kind \in Computing
    BY <1>7 DEF psa_key_agreement_iop_complete, Computing, IopKinds
  <2> DEFINE r == Completes(iop.kind, ictx)
  <2>2. ASSUME Usable,
               NEW status \in IF r.status = "OK" THEN {"OK", "NOT_PERMITTED"} ELSE {r.status},
               IopEnds(status, r.ctx, status # "INCOMPLETE")
        PROVE  IopInv'
    <3>1. GoesOn(iop.kind, ictx)
      BY <2>2 DEF IopInv, Usable
    <3>2. /\ r.status \in {"OK", "INCOMPLETE"} /\ GoesOn(iop.kind, r.ctx)
          /\ r.status = "OK" => Ended(iop.kind, r.ctx)
      BY <2>1, <3>1, CompletesKeeps
    <3> HIDE DEF r
    <3>3. r.ctx.num_ops \in Int
      <4>1. r.ctx \in IopContexts
        BY <3>2 DEF GoesOn
      <4> QED
        BY <4>1, ContextFields
    <3>4. status = "OK" => Ended(iop.kind, r.ctx)
      BY <2>2, <3>2
    <3> DEFINE error == status # "INCOMPLETE"
    <3>5. error \in BOOLEAN /\ (status = "INCOMPLETE" => ~error)
      OBVIOUS
    <3>6. IopEnds(status, r.ctx, error)
      BY <2>2
    <3> HIDE DEF error
    <3> QED
      BY <3>2, <3>3, <3>4, <3>5, <3>6, IopEndsKeeps
  <2>3. mbedtls_psa_key_agreement_iop_complete(ictx) = r
    BY <2>1 DEF mbedtls_psa_key_agreement_iop_complete
  <2> HIDE DEF r
  <2> QED
    BY <1>3, <1>7, <2>2, <2>3 DEF psa_key_agreement_iop_complete
<1>8. CASE psa_generate_key_iop_complete
  <2>1. iop.kind = "generate"
    BY <1>8 DEF psa_generate_key_iop_complete
  <2> DEFINE ctx == [ictx EXCEPT !.num_ops = 1]
  <2>2. CASE Usable /\ Finally(mbedtls_psa_ecp_generate_key_iop_complete(ictx), "NOT_PERMITTED")
    <3>1. GoesOn(iop.kind, ictx)
      BY <2>2 DEF IopInv, Usable
    <3>2. ictx \in IopContexts /\ ictx.steps = <<>>
      BY <2>1, <3>1 DEF GoesOn
    <3>3. ctx.num_ops = 1 /\ ctx.steps = <<>>
      BY <3>2 DEF IopContexts
    <3>4. IopEnds("OK", ctx, FALSE) \/ IopEnds("NOT_PERMITTED", ctx, TRUE)
      BY <2>2 DEF Finally, mbedtls_psa_ecp_generate_key_iop_complete
    <3> HIDE DEF ctx
    <3>5. Ended(iop.kind, ctx) /\ ctx.num_ops \in Int
      BY <2>1, <3>3 DEF Ended, Results, Computation
    <3>6. CASE IopEnds("OK", ctx, FALSE)
      BY <3>5, <3>6, IopEndsKeeps
    <3>7. CASE IopEnds("NOT_PERMITTED", ctx, TRUE)
      BY <3>5, <3>7, IopEndsKeeps
    <3> QED
      BY <3>4, <3>6, <3>7
  <2> QED
    BY <1>2, <1>3, <1>8, <2>2 DEF psa_generate_key_iop_complete
<1> QED
  BY <1>4, <1>5, <1>6, <1>7, <1>8

\* Aborts, and the limit.
LEMMA IopAbortsKeep ==
  ASSUME IopInv, NEW kind, IopAbort(kind)
  PROVE  IopInv'
<1>1. iop' = [iop EXCEPT !.id = FALSE, !.error_occurred = FALSE, !.num_ops = 0]
      /\ ictx' = NotStarted /\ idone' = NoResult
  BY DEF IopAbort
<1>2. iop' \in Operations /\ iop'.id = FALSE
  <2> DEFINE zero == 0
  <2>1. iop' = [iop EXCEPT !.id = FALSE, !.error_occurred = FALSE, !.num_ops = zero]
        /\ zero \in Int
    BY <1>1
  <2> HIDE DEF zero
  <2> QED
    BY <2>1 DEF IopInv, Operations
<1> QED
  BY <1>1, <1>2 DEF IopInv, Operations

\* The invariant is inductive.
LEMMA IopInvInductive ==
  /\ IopInit => IopInv
  /\ IopInv /\ [IopNext]_iopVars => IopInv'
<1>1. ASSUME IopInit PROVE IopInv
  <2> DEFINE zero == 0
  <2>1. iop \in [kind : IopKinds, id : {FALSE}, error_occurred : {FALSE}, num_ops : {zero}]
        /\ ictx = NotStarted /\ idone = NoResult
    BY <1>1, Zenon DEF IopInit
  <2>0. zero \in Int
    OBVIOUS
  <2> HIDE DEF zero
  <2>2. iop \in Operations /\ iop.id = FALSE
    BY <2>0, <2>1 DEF Operations
  <2> QED
    BY <2>1, <2>2 DEF IopInv, Operations
<1>2. ASSUME IopInv, IopNext PROVE IopInv'
  <2>1. CASE psa_sign_hash_abort \/ psa_verify_hash_abort \/ psa_export_public_key_iop_abort
             \/ psa_key_agreement_iop_abort \/ psa_generate_key_iop_abort
    <3>1. PICK kind \in IopKinds : IopAbort(kind)
      BY <2>1 DEF psa_sign_hash_abort, psa_verify_hash_abort, psa_export_public_key_iop_abort,
                  psa_key_agreement_iop_abort, psa_generate_key_iop_abort, IopKinds
    <3> QED
      BY <1>2, <3>1, IopAbortsKeep
  <2>2. CASE psa_interruptible_set_max_ops
    BY <1>2, <2>2 DEF psa_interruptible_set_max_ops, IopInv, GoesOn, Paid
  <2> QED
    BY <1>2, <2>1, <2>2, IopSetupsKeep, IopCompletesKeep DEF IopNext
<1>3. ASSUME IopInv, UNCHANGED iopVars PROVE IopInv'
  BY <1>3 DEF iopVars, IopInv, GoesOn, Paid, Ended
<1> QED
  BY <1>1, <1>2, <1>3

\* The steps that were taken are the first of the computation.
LEMMA TakenFirst ==
  ASSUME NEW s \in Seq(Names), NEW rest \in Seq(Names)
  PROVE  IsPrefix(s, s \o rest)
<1>1. s \o rest \in Seq(Names) /\ Len(s \o rest) = Len(s) + Len(rest)
      /\ Len(s) \in Nat /\ Len(rest) \in Nat
      /\ \A k \in 1 .. Len(s) : (s \o rest)[k] = s[k]
  BY ConcatProperties
<1> DEFINE t == s \o rest
<1> HIDE DEF t
<1>2. t \in Seq(Names) /\ Len(s) <= Len(t) /\ Len(t) \in Nat /\ \A k \in 1 .. Len(s) : t[k] = s[k]
  BY <1>1 DEF t
<1>3. SubSeq(s, 1, Len(s)) = SubSeq(t, 1, Len(s))
  <2>1. \A k \in 1 .. Len(s) : s[1 + k - 1] = t[1 + k - 1]
    BY <1>2
  <2> QED
    BY <1>1, <1>2, <2>1 DEF SubSeq
<1> QED
  BY <1>2, <1>3 DEF IsPrefix, t
LEMMA IopInvIsCorrect == IopInv => IopCorrect
<1> SUFFICES ASSUME IopInv PROVE IopCorrect
  OBVIOUS
<1>1. IopTypeOK
  <2>1. CASE iop.id
    <3>1. ictx \in IopContexts
      BY <2>1 DEF IopInv, GoesOn
    <3>2. ictx.key = TRUE
      BY <3>1, ContextFields
    <3> QED
      BY <2>1, <3>2 DEF IopInv, IopTypeOK, NotBegun
  <2>2. CASE ~iop.id
    BY <2>2 DEF IopInv, IopTypeOK, NotStarted
  <2> QED
    BY <2>1, <2>2
<1>2. ASSUME iop.id PROVE IsPrefix(ictx.steps, Computation(iop.kind, ictx.start))
  <2>1. GoesOn(iop.kind, ictx) /\ iop.kind \in IopKinds
    BY <1>2 DEF IopInv
  <2>2. ictx \in IopContexts /\ ictx.steps \in Seq(Names) /\ ictx.start \in BOOLEAN
    <3>1. ictx \in IopContexts
      BY <2>1 DEF GoesOn
    <3> QED
      BY <3>1 DEF IopContexts
  <2>3. CASE iop.kind = "generate"
    <3>1. ictx.steps = <<>> /\ Computation(iop.kind, ictx.start) = <<>>
      BY <2>1, <2>3 DEF GoesOn, Computation
    <3>2. <<>> \in Seq(Names)
      OBVIOUS
    <3>3. <<>> \o <<>> = <<>>
      BY <3>2, NothingMore
    <3>4. IsPrefix(<<>>, <<>> \o <<>>)
      BY <3>2, TakenFirst
    <3> QED
      BY <3>1, <3>3, <3>4
  <2>4. CASE iop.kind # "generate"
    <3> DEFINE rest == RestOf(iop.kind, ictx.rs)
               whole == Computation(iop.kind, ictx.start)
    <3>1. iop.kind \in Computing /\ PlacedIn(iop.kind, ictx.rs)
          /\ ictx.steps \o rest \in Results(iop.kind, ictx.start)
      BY <2>1, <2>4 DEF GoesOn, Computing
    <3>2. rest \in Seq(Names)
      BY <3>1, RestTyped
    <3> HIDE DEF rest, whole
    <3>3. CASE ictx.steps \o rest = whole
      BY <2>2, <3>2, <3>3, TakenFirst DEF whole
    <3>4. CASE ictx.steps \o rest = <<>> /\ iop.kind = "export"
      <4>1. ictx.steps = <<>>
        <5>1. Len(ictx.steps) + Len(rest) = 0
          BY <2>2, <3>2, <3>4, ConcatProperties
        <5> QED
          BY <2>2, <3>2, <5>1, EmptySeq
      <4>2. whole \in Seq(Names)
        BY <2>2, <3>4, ProductType DEF whole, Computation
      <4>3. <<>> \o whole = whole
        BY <4>2, NothingMore
      <4>4. <<>> \in Seq(Names)
        OBVIOUS
      <4>5. IsPrefix(<<>>, <<>> \o whole)
        BY <4>2, <4>4, TakenFirst
      <4> QED
        BY <4>1, <4>3, <4>5 DEF whole
    <3> QED
      BY <3>1, <3>3, <3>4 DEF Results, whole
  <2> QED
    BY <2>3, <2>4
<1>3. IopExact
  BY <1>2 DEF IopInv, IopExact, Ended, Results
<1>4. IopOpsExact
  BY DEF IopInv, IopOpsExact, GoesOn, Ended, Paid, Extra
<1> QED
  BY <1>1, <1>3, <1>4 DEF IopCorrect
LEMMA IopInvMakesProgress == IopInv => IopProgress
<1> SUFFICES ASSUME IopInv, Usable, iop.kind # "generate"
             PROVE  LET r == Completes(iop.kind, ictx)
                    IN  r.status = "OK" \/ Len(r.ctx.steps) > Len(ictx.steps)
  BY DEF IopProgress
<1>1. GoesOn(iop.kind, ictx) /\ iop.kind \in Computing
  BY DEF IopInv, Usable, Computing
<1> QED
  BY <1>1, CompletesKeeps

\* For every curve, window and sequence of limits: wherever the budget interrupts
\* it and with whatever budget it goes on, a computation ends with the steps of the
\* uninterrupted one, each once and in order, and reports their price. An operation
\* in error holds a context only if its key slot could not be given back when it was
\* set up, and then none of its steps was taken.
THEOREM InterruptionsChangeNothing == IopSpec => []IopCorrect
<1>1. IopInv => IopCorrect
  BY IopInvIsCorrect
<1> QED
  BY <1>1, IopInvInductive, PTL DEF IopSpec

\* In every state of an operation and for every limit, zero included, the next call
\* ends the computation or takes a step of it.
THEOREM EveryCallMakesProgress == IopSpec => []IopProgress
<1>1. IopInv => IopProgress
  BY IopInvMakesProgress
<1> QED
  BY <1>1, IopInvInductive, PTL DEF IopSpec

-----------------------------------------------------------------------------
(* BufferAlloc: the fields of a heap, and the functions that set them.     *)

Headers == [size : Nat, alloc : Nat, prev : Nat, next : Nat, prev_free : Nat, next_free : Nat]
HeapType(h) ==
    /\ h \in [len : Nat, first : Nat, first_free : Nat, hdr : [DOMAIN h.hdr -> Headers]]
    /\ DOMAIN h.hdr \subseteq Nat \ {NULL}

\* The links of the list of free blocks: its head is the link of NULL.
NextFree(h, b) == IF b = NULL THEN h.first_free ELSE h.hdr[b].next_free
PrevFree(h, b) == h.hdr[b].prev_free

\* h and g have the same blocks, in the same order, and the same of them are free.
SameChain(h, g) ==
    /\ g.len = h.len /\ g.first = h.first /\ DOMAIN g.hdr = DOMAIN h.hdr
    /\ \A b \in DOMAIN h.hdr :
         /\ g.hdr[b].size = h.hdr[b].size /\ g.hdr[b].alloc = h.hdr[b].alloc
         /\ g.hdr[b].prev = h.hdr[b].prev /\ g.hdr[b].next = h.hdr[b].next
\* They have the same links of free blocks, as far as blocks of S are concerned.
SameLinks(h, g, S) ==
    /\ g.first_free = h.first_free
    /\ \A b \in S : /\ g.hdr[b].next_free = h.hdr[b].next_free
                    /\ g.hdr[b].prev_free = h.hdr[b].prev_free

\* A heap with another header in one place.
LEMMA NewHeader ==
  ASSUME NEW h, HeapType(h), NEW p \in DOMAIN h.hdr, NEW e \in Headers,
         NEW g, g = [h EXCEPT !.hdr = [h.hdr EXCEPT ![p] = e]]
  PROVE  /\ HeapType(g) /\ DOMAIN g.hdr = DOMAIN h.hdr
         /\ g.len = h.len /\ g.first = h.first /\ g.first_free = h.first_free
         /\ g.hdr[p] = e /\ \A b \in DOMAIN h.hdr : b # p => g.hdr[b] = h.hdr[b]
<1> DEFINE D == DOMAIN h.hdr
           H == [h.hdr EXCEPT ![p] = e]
<1>1. h \in [len : Nat, first : Nat, first_free : Nat, hdr : [D -> Headers]] /\ D \subseteq Nat \ {NULL}
  BY DEF HeapType
<1>2. h.hdr \in [D -> Headers] /\ h.len \in Nat /\ h.first \in Nat /\ h.first_free \in Nat
  <2> HIDE DEF D
  <2> QED
    BY <1>1
<1>3. H \in [D -> Headers] /\ DOMAIN H = D /\ H[p] = e /\ \A b \in D : b # p => H[b] = h.hdr[b]
  <2> HIDE DEF D
  <2> QED
    BY <1>2, p \in D
<1>4. g = [h EXCEPT !.hdr = H]
  OBVIOUS
<1> HIDE DEF D, H
<1>5. g \in [len : Nat, first : Nat, first_free : Nat, hdr : [D -> Headers]]
      /\ g.hdr = H /\ g.len = h.len /\ g.first = h.first /\ g.first_free = h.first_free
  BY <1>1, <1>3, <1>4
<1> QED
  BY <1>1, <1>3, <1>5 DEF HeapType, D

\* g is h after an assignment to a link.
PrevFreeSet(h, g, p, v) ==
    /\ HeapType(g) /\ SameChain(h, g) /\ g.first_free = h.first_free
    /\ \A b \in DOMAIN h.hdr :
         /\ g.hdr[b].next_free = h.hdr[b].next_free
         /\ g.hdr[b].prev_free = IF b = p THEN v ELSE h.hdr[b].prev_free
PrevSet(h, g, p, v) ==
    /\ HeapType(g) /\ SameLinks(h, g, DOMAIN h.hdr) /\ DOMAIN g.hdr = DOMAIN h.hdr
    /\ g.len = h.len /\ g.first = h.first
    /\ \A b \in DOMAIN h.hdr :
         /\ g.hdr[b].size = h.hdr[b].size /\ g.hdr[b].alloc = h.hdr[b].alloc
         /\ g.hdr[b].next = h.hdr[b].next
         /\ g.hdr[b].prev = IF b = p THEN v ELSE h.hdr[b].prev

LEMMA SetPrevFree ==
  ASSUME NEW h, HeapType(h), NEW p \in DOMAIN h.hdr \cup {NULL}, NEW v \in Nat,
         NEW g, g = SetHdr(h, p, "prev_free", v)
  PROVE  PrevFreeSet(h, g, p, v)
<1>1. ASSUME p = NULL PROVE g = h /\ \A b \in DOMAIN h.hdr : b # p
  BY <1>1 DEF SetHdr, HeapType
<1>2. ASSUME p # NULL PROVE PrevFreeSet(h, g, p, v)
  <2> DEFINE e == [h.hdr[p] EXCEPT !["prev_free"] = v]
  <2>1. p \in DOMAIN h.hdr /\ h.hdr[p] \in Headers
    BY <1>2 DEF HeapType
  <2>2. e \in Headers /\ e.prev_free = v /\ e.next_free = h.hdr[p].next_free /\ e.size = h.hdr[p].size
        /\ e.alloc = h.hdr[p].alloc /\ e.prev = h.hdr[p].prev /\ e.next = h.hdr[p].next
    BY <2>1 DEF Headers
  <2>3. g = [h EXCEPT !.hdr = [h.hdr EXCEPT ![p] = e]]
    BY <1>2 DEF SetHdr
  <2> HIDE DEF e
  <2>4. /\ HeapType(g) /\ DOMAIN g.hdr = DOMAIN h.hdr
        /\ g.len = h.len /\ g.first = h.first /\ g.first_free = h.first_free
        /\ g.hdr[p] = e /\ \A b \in DOMAIN h.hdr : b # p => g.hdr[b] = h.hdr[b]
    BY <2>1, <2>2, <2>3, NewHeader
  <2> QED
    BY <2>2, <2>4 DEF SameChain, PrevFreeSet
<1>3. SameChain(h, h)
  BY DEF SameChain
<1> QED
  BY <1>1, <1>2, <1>3 DEF PrevFreeSet

LEMMA SetPrev ==
  ASSUME NEW h, HeapType(h), NEW p \in DOMAIN h.hdr \cup {NULL}, NEW v \in Nat,
         NEW g, g = SetHdr(h, p, "prev", v)
  PROVE  PrevSet(h, g, p, v)
<1>1. ASSUME p = NULL PROVE g = h /\ \A b \in DOMAIN h.hdr : b # p
  BY <1>1 DEF SetHdr, HeapType
<1>2. ASSUME p # NULL PROVE PrevSet(h, g, p, v)
  <2> DEFINE e == [h.hdr[p] EXCEPT !["prev"] = v]
  <2>1. p \in DOMAIN h.hdr /\ h.hdr[p] \in Headers
    BY <1>2 DEF HeapType
  <2>2. e \in Headers /\ e.prev = v /\ e.next = h.hdr[p].next /\ e.size = h.hdr[p].size
        /\ e.alloc = h.hdr[p].alloc /\ e.prev_free = h.hdr[p].prev_free
        /\ e.next_free = h.hdr[p].next_free
    BY <2>1 DEF Headers
  <2>3. g = [h EXCEPT !.hdr = [h.hdr EXCEPT ![p] = e]]
    BY <1>2 DEF SetHdr
  <2> HIDE DEF e
  <2>4. /\ HeapType(g) /\ DOMAIN g.hdr = DOMAIN h.hdr
        /\ g.len = h.len /\ g.first = h.first /\ g.first_free = h.first_free
        /\ g.hdr[p] = e /\ \A b \in DOMAIN h.hdr : b # p => g.hdr[b] = h.hdr[b]
    BY <2>1, <2>2, <2>3, NewHeader
  <2> QED
    BY <2>2, <2>4 DEF SameLinks, PrevSet
<1>3. SameLinks(h, h, DOMAIN h.hdr)
  BY DEF SameLinks
<1> QED
  BY <1>1, <1>2, <1>3 DEF PrevSet

LEMMA SetNext ==
  ASSUME NEW h, HeapType(h), NEW p \in DOMAIN h.hdr \cup {NULL}, NEW v \in Nat,
         NEW g, g = SetNextFree(h, p, v)
  PROVE  /\ HeapType(g) /\ SameChain(h, g)
         /\ \A b \in DOMAIN h.hdr : PrevFree(g, b) = PrevFree(h, b)
         /\ \A b \in DOMAIN h.hdr \cup {NULL} :
              NextFree(g, b) = IF b = p THEN v ELSE NextFree(h, b)
<1>1. CASE p = NULL
  <2>1. g = [h EXCEPT !.first_free = v]
    BY <1>1 DEF SetNextFree
  <2>2. HeapType(g) /\ g.hdr = h.hdr /\ g.len = h.len /\ g.first = h.first /\ g.first_free = v
    BY <2>1 DEF HeapType
  <2> QED
    BY <1>1, <2>2 DEF SameChain, PrevFree, NextFree
<1>2. CASE p # NULL
  <2> DEFINE e == [h.hdr[p] EXCEPT !.next_free = v]
  <2>1. p \in DOMAIN h.hdr /\ h.hdr[p] \in Headers
    BY <1>2 DEF HeapType
  <2>2. e \in Headers /\ e.next_free = v /\ e.prev_free = h.hdr[p].prev_free /\ e.size = h.hdr[p].size
        /\ e.alloc = h.hdr[p].alloc /\ e.prev = h.hdr[p].prev /\ e.next = h.hdr[p].next
    BY <2>1 DEF Headers
  <2>3. g = [h EXCEPT !.hdr = [h.hdr EXCEPT ![p] = e]]
    BY <1>2 DEF SetNextFree
  <2> HIDE DEF e
  <2>4. /\ HeapType(g) /\ DOMAIN g.hdr = DOMAIN h.hdr
        /\ g.len = h.len /\ g.first = h.first /\ g.first_free = h.first_free
        /\ g.hdr[p] = e /\ \A b \in DOMAIN h.hdr : b # p => g.hdr[b] = h.hdr[b]
    BY <2>1, <2>2, <2>3, NewHeader
  <2>5. NULL \notin DOMAIN h.hdr
    BY DEF HeapType
  <2> QED
    BY <1>2, <2>2, <2>4, <2>5 DEF SameChain, PrevFree, NextFree
<1> QED
  BY <1>1, <1>2

-----------------------------------------------------------------------------
(* Lists with links both ways. The ranks say that following the links      *)
(* comes to an end.                                                        *)

Linked(h, S) ==
    /\ \A b \in S \cup {NULL} :
         /\ NextFree(h, b) \in S \cup {NULL}
         /\ NextFree(h, b) # NULL => PrevFree(h, NextFree(h, b)) = b
    /\ \A b \in S : /\ PrevFree(h, b) \in S \cup {NULL}
                    /\ NextFree(h, PrevFree(h, b)) = b
Ranked(h, S, most, rank) ==
    /\ most \in Nat /\ rank \in [S -> Nat]
    /\ \A b \in S : /\ rank[b] <= most
                    /\ NextFree(h, b) # NULL => rank[NextFree(h, b)] < rank[b]
Listed(h, S) ==
    /\ NULL \notin S /\ Linked(h, S)
    /\ \E most, rank : Ranked(h, S, most, rank)

LEMMA SameList ==
  ASSUME NEW h, NEW g, NEW S, Listed(h, S),
         \A b \in S \cup {NULL} : NextFree(g, b) = NextFree(h, b),
         \A b \in S : PrevFree(g, b) = PrevFree(h, b)
  PROVE  Listed(g, S)
<1>1. PICK most, rank : Ranked(h, S, most, rank)
  BY DEF Listed
<1>2. NULL \notin S /\ Linked(h, S)
  BY DEF Listed
<1>3. Linked(g, S)
  BY <1>2 DEF Linked
<1>4. Ranked(g, S, most, rank)
  BY <1>1 DEF Ranked
<1> QED
  BY <1>2, <1>3, <1>4 DEF Listed

\* c leaves the list: its neighbours become neighbours.
LEMMA TakenOut ==
  ASSUME NEW h, NEW g, NEW S, Listed(h, S), NEW c \in S,
         \A b \in (S \ {c}) \cup {NULL} :
           NextFree(g, b) = IF b = PrevFree(h, c) THEN NextFree(h, c) ELSE NextFree(h, b),
         \A b \in S \ {c} :
           PrevFree(g, b) = IF b = NextFree(h, c) THEN PrevFree(h, c) ELSE PrevFree(h, b)
  PROVE  Listed(g, S \ {c})
<1>1. PICK most, rank : Ranked(h, S, most, rank)
  BY DEF Listed
<1>2. NULL \notin S /\ Linked(h, S)
  BY DEF Listed
<1> DEFINE T == S \ {c}
           n == NextFree(h, c)
           p == PrevFree(h, c)
<1>3. /\ n \in S \cup {NULL} /\ (n # NULL => PrevFree(h, n) = c /\ rank[n] < rank[c])
      /\ p \in S \cup {NULL} /\ NextFree(h, p) = c
      /\ c # NULL /\ (p # NULL => rank[c] < rank[p])
      /\ \A b \in S : rank[b] \in Nat
  BY <1>1, <1>2 DEF Linked, Ranked
<1>4. n # c /\ p # c
  BY <1>3
<1>5. n \in T \cup {NULL} /\ p \in T \cup {NULL}
  BY <1>3, <1>4
<1> HIDE DEF n, p
<1>6. ASSUME NEW b \in T \cup {NULL}
      PROVE  /\ NextFree(g, b) \in T \cup {NULL}
             /\ NextFree(g, b) # NULL => PrevFree(g, NextFree(g, b)) = b
  <2>1. CASE b = p
    <3>1. NextFree(g, b) = n
      BY <2>1 DEF n, p
    <3>2. n # NULL => PrevFree(g, n) = p
      BY <1>5 DEF n, p
    <3> QED
      BY <1>5, <2>1, <3>1, <3>2
  <2>2. CASE b # p
    <3>1. NextFree(g, b) = NextFree(h, b)
      BY <2>2 DEF p
    <3>2. /\ NextFree(h, b) \in S \cup {NULL}
          /\ NextFree(h, b) # NULL => PrevFree(h, NextFree(h, b)) = b
      BY <1>2 DEF Linked
    <3>3. NextFree(h, b) # c
      BY <1>3, <2>2, <3>2 DEF p
    <3>4. NextFree(h, b) # NULL => NextFree(h, b) # n
      BY <1>2, <1>3, <3>2
    <3> QED
      BY <3>1, <3>2, <3>3, <3>4 DEF n
  <2> QED
    BY <2>1, <2>2
<1>7. ASSUME NEW b \in T
      PROVE  PrevFree(g, b) \in T \cup {NULL} /\ NextFree(g, PrevFree(g, b)) = b
  <2>1. CASE b = n
    <3>1. PrevFree(g, b) = p
      BY <2>1 DEF n, p
    <3>2. NextFree(g, p) = n
      BY <1>5 DEF n, p
    <3> QED
      BY <1>5, <2>1, <3>1, <3>2
  <2>2. CASE b # n
    <3>1. PrevFree(g, b) = PrevFree(h, b)
      BY <2>2 DEF n
    <3>2. PrevFree(h, b) \in S \cup {NULL} /\ NextFree(h, PrevFree(h, b)) = b
      BY <1>2 DEF Linked
    <3>3. PrevFree(h, b) # c /\ PrevFree(h, b) # p
      BY <1>3, <2>2, <3>2 DEF n
    <3> QED
      BY <3>1, <3>2, <3>3 DEF p
  <2> QED
    BY <2>1, <2>2
<1>8. Linked(g, T)
  BY <1>6, <1>7 DEF Linked
<1> DEFINE less == [b \in T |-> rank[b]]
<1>9. Ranked(g, T, most, less)
  <2>1. less \in [T -> Nat] /\ most \in Nat
    BY <1>1, <1>3 DEF Ranked
  <2>2. ASSUME NEW b \in T
        PROVE  less[b] <= most /\ (NextFree(g, b) # NULL => less[NextFree(g, b)] < less[b])
    <3>1. rank[b] <= most /\ less[b] = rank[b]
          /\ (NextFree(h, b) # NULL => rank[NextFree(h, b)] < rank[b])
      BY <1>1 DEF Ranked
    <3>2. NextFree(g, b) \in T \cup {NULL}
      BY <1>6
    <3>3. NextFree(g, b) # NULL => less[NextFree(g, b)] = rank[NextFree(g, b)]
      BY <3>2
    <3>4. NextFree(g, b) = IF b = p THEN n ELSE NextFree(h, b)
      BY DEF n, p
    <3>5. n # NULL /\ b = p => rank[n] < rank[b]
      <4>1. n # NULL /\ b = p => rank[n] \in Nat /\ rank[b] \in Nat /\ rank[c] \in Nat
        BY <1>2, <1>3
      <4>2. n # NULL /\ b = p => rank[n] < rank[c] /\ rank[c] < rank[b]
        BY <1>2, <1>3
      <4> QED
        BY <4>1, <4>2
    <3> QED
      BY <3>1, <3>3, <3>4, <3>5
  <2> HIDE DEF less
  <2> QED
    BY <2>1, <2>2 DEF Ranked
<1> QED
  BY <1>2, <1>8, <1>9 DEF Listed

\* d takes the place of c.
LEMMA Replaced ==
  ASSUME NEW h, NEW g, NEW S, Listed(h, S), NEW c \in S, NEW d, d # NULL, d \notin S,
         \A b \in (S \ {c}) \cup {d, NULL} :
           NextFree(g, b) = IF b = d THEN NextFree(h, c)
                            ELSE IF b = PrevFree(h, c) THEN d ELSE NextFree(h, b),
         \A b \in (S \ {c}) \cup {d} :
           PrevFree(g, b) = IF b = d THEN PrevFree(h, c)
                            ELSE IF b = NextFree(h, c) THEN d ELSE PrevFree(h, b)
  PROVE  Listed(g, (S \ {c}) \cup {d})
<1>1. PICK most, rank : Ranked(h, S, most, rank)
  BY DEF Listed
<1>2. NULL \notin S /\ Linked(h, S)
  BY DEF Listed
<1> DEFINE T == (S \ {c}) \cup {d}
           n == NextFree(h, c)
           p == PrevFree(h, c)
<1>3. /\ n \in S \cup {NULL} /\ (n # NULL => PrevFree(h, n) = c /\ rank[n] < rank[c])
      /\ p \in S \cup {NULL} /\ NextFree(h, p) = c
      /\ c # NULL /\ (p # NULL => rank[c] < rank[p])
      /\ \A b \in S : rank[b] \in Nat
  BY <1>1, <1>2 DEF Linked, Ranked
<1>4. n # c /\ p # c /\ n # d /\ p # d /\ c # d
  BY <1>3
<1>5. n \in (S \ {c}) \cup {NULL} /\ p \in (S \ {c}) \cup {NULL}
  BY <1>3, <1>4
<1>0. NextFree(g, d) = n /\ PrevFree(g, d) = p
  OBVIOUS
<1> HIDE DEF n, p
<1>6. ASSUME NEW b \in T \cup {NULL}
      PROVE  /\ NextFree(g, b) \in T \cup {NULL}
             /\ NextFree(g, b) # NULL => PrevFree(g, NextFree(g, b)) = b
  <2>1. CASE b = p
    <3>1. NextFree(g, b) = d
      BY <1>4, <2>1 DEF p
    <3> QED
      BY <1>0, <2>1, <3>1
  <2>2. CASE b = d
    <3>1. NextFree(g, b) = n
      BY <1>0, <2>2
    <3>2. n # NULL => PrevFree(g, n) = d
      BY <1>4, <1>5 DEF n
    <3> QED
      BY <1>5, <2>2, <3>1, <3>2
  <2>3. CASE b # p /\ b # d
    <3>0. b \in (S \ {c}) \cup {NULL}
      BY <2>3
    <3>1. NextFree(g, b) = NextFree(h, b)
      BY <2>3, <3>0 DEF p
    <3>2. /\ NextFree(h, b) \in S \cup {NULL}
          /\ NextFree(h, b) # NULL => PrevFree(h, NextFree(h, b)) = b
      BY <1>2, <3>0 DEF Linked
    <3>3. NextFree(h, b) # c
      BY <1>3, <2>3, <3>2 DEF p
    <3>4. NextFree(h, b) # NULL => NextFree(h, b) # n
      BY <1>2, <1>3, <3>0, <3>2
    <3>5. NextFree(h, b) # d
      BY <3>2
    <3> QED
      BY <3>1, <3>2, <3>3, <3>4, <3>5 DEF n
  <2> QED
    BY <2>1, <2>2, <2>3
<1>7. ASSUME NEW b \in T
      PROVE  PrevFree(g, b) \in T \cup {NULL} /\ NextFree(g, PrevFree(g, b)) = b
  <2>1. CASE b = n
    <3>1. PrevFree(g, b) = d
      BY <1>4, <2>1 DEF n
    <3> QED
      BY <1>0, <2>1, <3>1
  <2>2. CASE b = d
    <3>1. PrevFree(g, b) = p
      BY <1>0, <2>2
    <3>2. NextFree(g, p) = d
      BY <1>4, <1>5 DEF p
    <3> QED
      BY <1>5, <2>2, <3>1, <3>2
  <2>3. CASE b # n /\ b # d
    <3>0. b \in S \ {c}
      BY <2>3
    <3>1. PrevFree(g, b) = PrevFree(h, b)
      BY <2>3, <3>0 DEF n
    <3>2. PrevFree(h, b) \in S \cup {NULL} /\ NextFree(h, PrevFree(h, b)) = b
      BY <1>2, <3>0 DEF Linked
    <3>3. PrevFree(h, b) # c /\ PrevFree(h, b) # p /\ PrevFree(h, b) # d
      BY <1>3, <2>3, <3>0, <3>2 DEF n
    <3> QED
      BY <3>1, <3>2, <3>3 DEF p
  <2> QED
    BY <2>1, <2>2, <2>3
<1>8. Linked(g, T)
  BY <1>6, <1>7 DEF Linked
<1> DEFINE new == [b \in T |-> IF b = d THEN rank[c] ELSE rank[b]]
<1>9. Ranked(g, T, most, new)
  <2>1. new \in [T -> Nat] /\ most \in Nat
    BY <1>1, <1>3 DEF Ranked
  <2>2. ASSUME NEW b \in T
        PROVE  new[b] <= most /\ (NextFree(g, b) # NULL => new[NextFree(g, b)] < new[b])
    <3>1. CASE b = d
      <4>1. new[b] = rank[c] /\ rank[c] <= most /\ NextFree(g, b) = n
        BY <1>0, <1>1, <3>1 DEF Ranked
      <4>2. n # NULL => new[n] = rank[n]
        BY <1>4, <1>5
      <4> QED
        BY <1>3, <4>1, <4>2
    <3>2. CASE b = p
      <4>1. new[b] = rank[b] /\ rank[b] <= most /\ b \in S /\ NextFree(g, b) = d
        BY <1>1, <1>2, <1>3, <1>4, <3>2 DEF Ranked, p
      <4>2. new[d] = rank[c]
        OBVIOUS
      <4>3. b # NULL
        BY <1>2, <4>1
      <4> QED
        BY <1>3, <3>2, <4>1, <4>2, <4>3
    <3>3. CASE b # d /\ b # p
      <4>1. new[b] = rank[b] /\ rank[b] <= most /\ b \in S
            /\ (NextFree(h, b) # NULL => rank[NextFree(h, b)] < rank[b])
        BY <1>1, <3>3 DEF Ranked
      <4>2. NextFree(g, b) = NextFree(h, b)
        BY <3>3 DEF p
      <4>3. NextFree(h, b) \in S \cup {NULL}
        BY <1>2, <4>1 DEF Linked
      <4>4. NextFree(g, b) \in T \cup {NULL}
        BY <1>6
      <4>5. NextFree(h, b) # NULL => NextFree(h, b) # d /\ NextFree(h, b) \in T
        BY <4>2, <4>3, <4>4
      <4>6. NextFree(h, b) # NULL => new[NextFree(h, b)] = rank[NextFree(h, b)]
        BY <4>5
      <4> QED
        BY <4>1, <4>2, <4>6
    <3> QED
      BY <3>1, <3>2, <3>3
  <2> HIDE DEF new
  <2> QED
    BY <2>1, <2>2 DEF Ranked
<1>10. NULL \notin T
  BY <1>2
<1> QED
  BY <1>8, <1>9, <1>10 DEF Listed

\* d becomes the first.
LEMMA PutFirst ==
  ASSUME NEW h, NEW g, NEW S, Listed(h, S), NEW d, d # NULL, d \notin S,
         \A b \in S \cup {d, NULL} :
           NextFree(g, b) = IF b = NULL THEN d
                            ELSE IF b = d THEN NextFree(h, NULL) ELSE NextFree(h, b),
         \A b \in S \cup {d} :
           PrevFree(g, b) = IF b = d THEN NULL
                            ELSE IF b = NextFree(h, NULL) THEN d ELSE PrevFree(h, b)
  PROVE  Listed(g, S \cup {d})
<1>1. PICK most, rank : Ranked(h, S, most, rank)
  BY DEF Listed
<1>2. NULL \notin S /\ Linked(h, S)
  BY DEF Listed
<1> DEFINE T == S \cup {d}
           n == NextFree(h, NULL)
<1>3. n \in S \cup {NULL} /\ (n # NULL => PrevFree(h, n) = NULL) /\ n # d
  BY <1>2 DEF Linked
<1>0. NextFree(g, d) = n /\ PrevFree(g, d) = NULL /\ NextFree(g, NULL) = d
  OBVIOUS
<1> HIDE DEF n
<1>4. n # NULL => PrevFree(g, n) = d
  BY <1>3 DEF n
<1>5. ASSUME NEW b \in S
      PROVE  NextFree(g, b) = NextFree(h, b)
             /\ (b # n => PrevFree(g, b) = PrevFree(h, b) /\ PrevFree(h, b) \in S)
  <2>1. NextFree(g, b) = NextFree(h, b) /\ (b # n => PrevFree(g, b) = PrevFree(h, b))
    BY <1>2 DEF n
  <2>2. PrevFree(h, b) \in S \cup {NULL} /\ NextFree(h, PrevFree(h, b)) = b
    BY <1>2 DEF Linked
  <2> QED
    BY <2>1, <2>2 DEF n
<1>6. ASSUME NEW b \in S
      PROVE  /\ NextFree(g, b) \in S \cup {NULL}
             /\ NextFree(g, b) # NULL => PrevFree(g, NextFree(g, b)) = b
  <2>1. /\ NextFree(h, b) \in S \cup {NULL}
        /\ NextFree(h, b) # NULL => PrevFree(h, NextFree(h, b)) = b
    BY <1>2 DEF Linked
  <2>2. NextFree(h, b) # NULL => NextFree(h, b) # n
    BY <1>2, <1>3, <2>1
  <2> QED
    BY <1>5, <2>1, <2>2
<1>7. ASSUME NEW b \in S
      PROVE  PrevFree(g, b) \in T /\ NextFree(g, PrevFree(g, b)) = b
  <2>1. NextFree(h, PrevFree(h, b)) = b
    BY <1>2 DEF Linked
  <2>2. CASE b = n
    BY <1>0, <1>2, <1>4, <2>2
  <2>3. CASE b # n
    BY <1>5, <2>1, <2>3
  <2> QED
    BY <2>2, <2>3
<1>8. Linked(g, T)
  BY <1>0, <1>3, <1>4, <1>6, <1>7 DEF Linked
<1> DEFINE new == [b \in T |-> IF b = d THEN most + 1 ELSE rank[b]]
<1>9. Ranked(g, T, most + 1, new)
  <2>1. new \in [T -> Nat] /\ most + 1 \in Nat
    BY <1>1 DEF Ranked
  <2>2. ASSUME NEW b \in T
        PROVE  new[b] <= most + 1 /\ (NextFree(g, b) # NULL => new[NextFree(g, b)] < new[b])
    <3>0. \A e \in S : new[e] = rank[e] /\ rank[e] \in Nat /\ rank[e] <= most
      BY <1>1 DEF Ranked
    <3>00. new[d] = most + 1 /\ most \in Nat
      BY <1>1 DEF Ranked
    <3> HIDE DEF new
    <3>1. CASE b = d
      BY <1>0, <1>3, <3>0, <3>00, <3>1
    <3>2. CASE b \in S
      <4>1. NextFree(h, b) # NULL => rank[NextFree(h, b)] < rank[b]
        BY <1>1, <3>2 DEF Ranked
      <4>2. NextFree(g, b) = NextFree(h, b) /\ NextFree(g, b) \in S \cup {NULL}
        BY <1>5, <1>6, <3>2
      <4>3. NextFree(g, b) # NULL => new[NextFree(g, b)] = rank[NextFree(g, b)]
        BY <3>0, <4>2
      <4> QED
        BY <3>0, <3>00, <3>2, <4>1, <4>2, <4>3
    <3> QED
      BY <3>1, <3>2
  <2> HIDE DEF new
  <2> QED
    BY <2>1, <2>2 DEF Ranked
<1>10. NULL \notin T
  BY <1>2
<1> QED
  BY <1>8, <1>9, <1>10 DEF Listed

\* Of some blocks of a list, one is linked from another part of the list or the head.
LEMMA HeadOf ==
  ASSUME NEW h, NEW S, Listed(h, S), NEW T \in SUBSET S, T # {}
  PROVE  \E b \in T : PrevFree(h, b) \notin T
<1>1. PICK most, rank : Ranked(h, S, most, rank)
  BY DEF Listed
<1>2. most \in Nat /\ \A b \in S : rank[b] \in Nat /\ rank[b] <= most
  BY <1>1 DEF Ranked
<1> DEFINE below == {most - rank[b] : b \in T}
<1>3. below \in SUBSET Nat /\ below # {}
  BY <1>2
<1>4. PICK x \in below : \A y \in below : x <= y
  <2> HIDE DEF below
  <2> QED
    BY <1>3, LeastNumber
<1>5. PICK b \in T : x = most - rank[b]
  OBVIOUS
<1>6. ASSUME PrevFree(h, b) \in T PROVE FALSE
  <2> DEFINE p == PrevFree(h, b)
  <2>1. NextFree(h, p) = b /\ b # NULL /\ b \in S /\ p \in S
    BY <1>6 DEF Listed, Linked
  <2>2. rank[b] < rank[p]
    BY <1>1, <2>1 DEF Ranked
  <2>3. x <= most - rank[p]
    BY <1>4, <1>6
  <2>4. rank[b] \in Nat /\ rank[p] \in Nat
    BY <1>2, <2>1
  <2> HIDE DEF p
  <2> QED
    BY <1>2, <1>5, <2>2, <2>3, <2>4
<1> QED
  BY <1>6

\* A block without neighbours in the list is the only one.
LEMMA Alone ==
  ASSUME NEW h, NEW S, Listed(h, S), NEW c \in S, PrevFree(h, c) = NULL, NextFree(h, c) = NULL
  PROVE  S = {c}
<1> SUFFICES ASSUME S \ {c} # {} PROVE FALSE
  OBVIOUS
<1>1. PICK b \in S \ {c} : PrevFree(h, b) \notin S \ {c}
  BY HeadOf
<1>2. PrevFree(h, b) \in {c, NULL} /\ NextFree(h, PrevFree(h, b)) = b
      /\ NextFree(h, NULL) = c /\ NULL \notin S
  BY <1>1 DEF Listed, Linked
<1> QED
  BY <1>1, <1>2

-----------------------------------------------------------------------------
(* BufferAlloc: the list of free blocks.                                   *)

\* f follows the list of h from its head, and stays at its end.
Follows(h, S, f) ==
    /\ f \in [Nat -> S \cup {NULL}] /\ f[0] = NextFree(h, NULL)
    /\ \A n \in Nat : f[n + 1] = IF f[n] = NULL THEN NULL ELSE NextFree(h, f[n])
LengthAlong(h, f) ==
    CHOOSE n \in 0 .. h.len : /\ f[n] = NULL \/ n = h.len
                              /\ \A m \in 0 .. n - 1 : f[m] # NULL

\* FreeBlocks follows the list up to there.
LEMMA FreeBlocksFollow ==
  ASSUME NEW h, NEW S, Listed(h, S)
  PROVE  \E f : /\ Follows(h, S, f)
                /\ FreeBlocks(h) = [n \in 1 .. LengthAlong(h, f) |-> f[n - 1]]
<1> DEFINE V == S \cup {NULL}
           next(b) == IF b = NULL THEN NULL ELSE h.hdr[b].next_free
           body(f) == [n \in Nat |-> IF n = 0 THEN h.first_free
                                     ELSE LET b == f[n - 1]
                                          IN  IF b = NULL THEN NULL ELSE h.hdr[b].next_free]
           F == [x \in Nat \X V |-> next(x[2])]
<1>1. h.first_free \in V /\ \A b \in V : next(b) \in V
  BY DEF Listed, Linked, NextFree
<1>2. F \in [Nat \X V -> V]
  <2> HIDE DEF next
  <2> QED
    BY <1>1
<1>3. PICK f : Loop(V, h.first_free, F, f)
  <2> HIDE DEF F, V
  <2> QED
    BY <1>1, <1>2, Recursion, Zenon
<1>4. f \in [Nat -> V] /\ f[0] = h.first_free /\ \A n \in Nat : f[n + 1] = next(f[n])
  <2>1. f \in [Nat -> V] /\ f[0] = h.first_free /\ \A n \in Nat : f[n + 1] = F[<<n, f[n]>>]
    <3> HIDE DEF F
    <3> QED
      BY <1>3 DEF Loop
  <2>2. \A n \in Nat : <<n, f[n]>> \in Nat \X V
    BY <2>1
  <2>3. \A n \in Nat : F[<<n, f[n]>>] = next(f[n])
    <3> HIDE DEF next
    <3> QED
      BY <2>2
  <2> QED
    BY <2>1, <2>3
<1>5. f = body(f)
  <2>1. ASSUME NEW n \in Nat PROVE f[n] = IF n = 0 THEN h.first_free ELSE next(f[n - 1])
    <3>1. CASE n = 0
      BY <1>4, <3>1
    <3>2. CASE n # 0
      <4>1. n - 1 \in Nat /\ (n - 1) + 1 = n
        BY <3>2
      <4> QED
        BY <1>4, <3>2, <4>1
    <3> QED
      BY <3>1, <3>2
  <2> QED
    BY <1>4, <2>1
<1> DEFINE at == CHOOSE at : at = body(at)
<1>6. at = body(at)
  BY <1>5
<1>7. FreeBlocks(h) = [n \in 1 .. LengthAlong(h, at) |-> at[n - 1]]
  BY DEF FreeBlocks, LengthAlong
<1> HIDE DEF at, F
<1>8. at[0] = h.first_free /\ \A n \in Nat : at[n + 1] = next(at[n])
  <2>1. \A n \in Nat : at[n] = IF n = 0 THEN h.first_free ELSE next(at[n - 1])
    BY <1>6
  <2>2. \A n \in Nat : n + 1 \in Nat /\ n + 1 # 0 /\ (n + 1) - 1 = n
    OBVIOUS
  <2> HIDE DEF body, next
  <2> QED
    BY <2>1, <2>2
<1>9. at \in [Nat -> V]
  <2> DEFINE T == {n \in Nat : at[n] \in V}
  <2>1. 0 \in T
    BY <1>1, <1>8
  <2>2. ASSUME NEW n \in Nat, n \in T PROVE n + 1 \in T
    <3> HIDE DEF next
    <3> QED
      BY <1>1, <1>8, <2>2
  <2>3. Nat \subseteq T
    <3> HIDE DEF T
    <3> QED
      BY <2>1, <2>2, Induction
  <2> QED
    BY <1>6, <2>3
<1>10. Follows(h, S, at)
  <2> HIDE DEF body
  <2> QED
    BY <1>8, <1>9 DEF Follows, NextFree
<1> QED
  BY <1>7, <1>10

\* The list has every block of S once, in the order of the links back too.
LEMMA FreeBlocksAre ==
  ASSUME NEW h, NEW S \in SUBSET (1 .. h.len), h.len \in Nat, Listed(h, S)
  PROVE  \E n \in Nat :
           /\ FreeBlocks(h) \in [1 .. n -> S]
           /\ \A b \in S : \E i \in 1 .. n : FreeBlocks(h)[i] = b
           /\ \A i, j \in 1 .. n : i # j => FreeBlocks(h)[i] # FreeBlocks(h)[j]
           /\ \A i \in 1 .. n : PrevFree(h, FreeBlocks(h)[i])
                                  = IF i = 1 THEN NULL ELSE FreeBlocks(h)[i - 1]
<1>1. PICK f : /\ Follows(h, S, f)
               /\ FreeBlocks(h) = [n \in 1 .. LengthAlong(h, f) |-> f[n - 1]]
  BY FreeBlocksFollow
<1>2. PICK most, rank : Ranked(h, S, most, rank)
  BY DEF Listed
<1>3. /\ f[0] = NextFree(h, NULL) /\ \A n \in Nat : f[n] \in S \cup {NULL}
      /\ \A n \in Nat : f[n + 1] = IF f[n] = NULL THEN NULL ELSE NextFree(h, f[n])
  BY <1>1 DEF Follows
<1>4. /\ NULL \notin S /\ \A b \in S : rank[b] \in Nat
      /\ \A b \in S : NextFree(h, b) # NULL => rank[NextFree(h, b)] < rank[b]
      /\ \A b \in S \cup {NULL} : NextFree(h, b) # NULL => PrevFree(h, NextFree(h, b)) = b
      /\ \A b \in S : PrevFree(h, b) \in S \cup {NULL} /\ NextFree(h, PrevFree(h, b)) = b
  BY <1>2 DEF Listed, Linked, Ranked
\* Along the list the ranks get lower.
<1>5. ASSUME NEW i \in Nat, NEW n \in Nat, f[i + n + 1] # NULL
      PROVE  f[i] # NULL /\ f[i + n + 1] # f[i]
  <2> DEFINE T == {k \in Nat : f[i + k + 1] # NULL
                               => f[i] # NULL /\ rank[f[i + k + 1]] < rank[f[i]]}
  <2>0. ASSUME NEW k \in Nat, f[k + 1] # NULL
        PROVE  f[k] # NULL /\ f[k] \in S /\ f[k + 1] \in S /\ rank[f[k + 1]] < rank[f[k]]
    <3>1. f[k] # NULL /\ f[k + 1] = NextFree(h, f[k]) /\ f[k] \in S
      BY <1>3, <2>0
    <3>2. k + 1 \in Nat
      OBVIOUS
    <3>3. f[k + 1] \in S
      BY <1>3, <2>0, <3>2
    <3> QED
      BY <1>4, <2>0, <3>1, <3>3
  <2>1. 0 \in T
    <3>1. i + 0 + 1 = i + 1
      OBVIOUS
    <3> QED
      BY <2>0, <3>1
  <2>2. ASSUME NEW k \in Nat, k \in T PROVE k + 1 \in T
    <3> SUFFICES ASSUME f[i + (k + 1) + 1] # NULL
                 PROVE  f[i] # NULL /\ rank[f[i + (k + 1) + 1]] < rank[f[i]]
      OBVIOUS
    <3> DEFINE m == i + k + 1
    <3>1. m \in Nat /\ i + (k + 1) + 1 = m + 1
      OBVIOUS
    <3>2. f[m] # NULL /\ f[m] \in S /\ f[m + 1] \in S /\ rank[f[m + 1]] < rank[f[m]]
      <4> HIDE DEF m
      <4> QED
        BY <2>0, <3>1
    <3>3. f[i] # NULL /\ rank[f[m]] < rank[f[i]]
      BY <2>2, <3>2
    <3>4. f[i] \in S
      BY <1>3, <3>3
    <3>5. rank[f[i]] \in Nat /\ rank[f[m]] \in Nat /\ rank[f[m + 1]] \in Nat
      BY <1>4, <3>2, <3>4
    <3> HIDE DEF m
    <3> QED
      BY <3>1, <3>2, <3>3, <3>5
  <2>3. Nat \subseteq T
    <3> HIDE DEF T
    <3> QED
      BY <2>1, <2>2, Induction
  <2>4. f[i] # NULL /\ rank[f[i + n + 1]] < rank[f[i]]
    BY <1>5, <2>3
  <2>5. f[i] \in S
    BY <1>3, <2>4
  <2>6. rank[f[i]] \in Nat
    BY <1>4, <2>5
  <2> QED
    BY <2>4, <2>6
<1>6. ASSUME NEW i \in Nat, NEW j \in Nat, i < j, f[j] # NULL
      PROVE  f[i] # NULL /\ f[j] # f[i]
  <2>1. j - i - 1 \in Nat /\ i + (j - i - 1) + 1 = j
    BY <1>6
  <2> DEFINE n == j - i - 1
  <2> HIDE DEF n
  <2>2. n \in Nat /\ i + n + 1 = j
    BY <2>1 DEF n
  <2> QED
    BY <1>5, <1>6, <2>2
\* It comes to an end among the h.len addresses that there are.
<1>7. \E n \in 0 .. h.len : f[n] = NULL
  <2> SUFFICES ASSUME \A n \in 0 .. h.len : f[n] # NULL PROVE FALSE
    OBVIOUS
  <2> DEFINE g == [n \in 0 .. h.len |-> f[n]]
  <2>0. \A k \in 0 .. h.len : f[k] \in 1 .. h.len
    <3>1. ASSUME NEW k \in 0 .. h.len PROVE f[k] \in S
      BY <1>3
    <3> QED
      BY <3>1
  <2>1. g \in [0 .. h.len -> 1 .. h.len]
    BY <2>0
  <2>2. /\ IsFiniteSet(0 .. h.len) /\ IsFiniteSet(1 .. h.len)
        /\ Cardinality(1 .. h.len) < Cardinality(0 .. h.len)
    <3>1. Cardinality(0 .. h.len) = IF 0 > h.len THEN 0 ELSE h.len - 0 + 1
      BY FS_Interval
    <3>2. Cardinality(1 .. h.len) = IF 1 > h.len THEN 0 ELSE h.len - 1 + 1
      BY FS_Interval
    <3>3. IsFiniteSet(0 .. h.len) /\ IsFiniteSet(1 .. h.len)
      BY FS_Interval
    <3> QED
      BY <3>1, <3>2, <3>3
  <2>3. PICK x, y \in 0 .. h.len : x # y /\ g[x] = g[y]
    <3> HIDE DEF g
    <3> QED
      BY <2>1, <2>2, FS_PigeonHole
  <2>4. x \in Nat /\ y \in Nat /\ (x < y \/ y < x) /\ f[x] = f[y] /\ f[x] # NULL /\ f[y] # NULL
    BY <2>3
  <2> QED
    BY <1>6, <2>4
<1>8. PICK n \in 0 .. h.len : f[n] = NULL /\ \A m \in 0 .. n - 1 : f[m] # NULL
  <2> DEFINE ends == {k \in Nat : f[k] = NULL}
  <2>1. PICK n \in ends : \A k \in ends : n <= k
    <3>1. ends # {} /\ ends \in SUBSET Nat
      BY <1>7
    <3> HIDE DEF ends
    <3> QED
      BY <3>1, LeastNumber
  <2>2. n \in 0 .. h.len /\ f[n] = NULL
    BY <1>7, <2>1
  <2>3. \A m \in 0 .. n - 1 : f[m] # NULL
    BY <2>1
  <2> QED
    BY <2>2, <2>3
<1>9. LengthAlong(h, f) = n
  <2> DEFINE P(k) == /\ f[k] = NULL \/ k = h.len
                     /\ \A m \in 0 .. k - 1 : f[m] # NULL
  <2>1. P(n)
    BY <1>8
  <2>2. ASSUME NEW k \in 0 .. h.len, P(k) PROVE k = n
    <3>1. ~(n < k)
      BY <1>8, <2>2
    <3>2. ~(k < n)
      BY <1>8, <2>2
    <3> QED
      BY <3>1, <3>2
  <2>3. LengthAlong(h, f) = CHOOSE k \in 0 .. h.len : P(k)
    BY DEF LengthAlong
  <2>4. (CHOOSE k \in 0 .. h.len : P(k)) \in 0 .. h.len /\ P(CHOOSE k \in 0 .. h.len : P(k))
    <3> HIDE DEF P
    <3> QED
      BY <2>1
  <2> DEFINE c == CHOOSE k \in 0 .. h.len : P(k)
  <2> HIDE DEF P
  <2> QED
    BY <2>2, <2>3, <2>4
<1> DEFINE s == FreeBlocks(h)
<1>10. s = [i \in 1 .. n |-> f[i - 1]] /\ n \in Nat
  BY <1>1, <1>8, <1>9
<1>11. ASSUME NEW i \in 1 .. n
       PROVE  i - 1 \in Nat /\ s[i] = f[i - 1] /\ f[i - 1] \in S
  <2>1. i - 1 \in Nat /\ i - 1 \in 0 .. n - 1
    BY <1>10
  <2>2. s[i] = f[i - 1]
    BY <1>10
  <2>3. f[i - 1] # NULL /\ f[i - 1] \in S \cup {NULL}
    BY <1>3, <1>8, <2>1
  <2> QED
    BY <2>1, <2>2, <2>3
<1>12. s \in [1 .. n -> S]
  BY <1>10, <1>11
<1> HIDE DEF s
<1>13. ASSUME NEW i \in 1 .. n, NEW j \in 1 .. n, i # j PROVE s[i] # s[j]
  <2>1. i - 1 < j - 1 \/ j - 1 < i - 1
    BY <1>13
  <2>2. f[i - 1] # NULL /\ f[j - 1] # NULL
    BY <1>4, <1>11
  <2> QED
    BY <1>6, <1>11, <2>1, <2>2
<1>14. ASSUME NEW i \in 1 .. n PROVE PrevFree(h, s[i]) = IF i = 1 THEN NULL ELSE s[i - 1]
  <2>1. CASE i = 1
    <3>1. s[i] = f[0] /\ f[0] # NULL
      BY <1>4, <1>11, <2>1
    <3> QED
      BY <1>3, <1>4, <2>1, <3>1
  <2>2. CASE i # 1
    <3>1. i - 1 \in 1 .. n /\ i - 2 \in Nat /\ (i - 2) + 1 = i - 1 /\ (i - 1) - 1 = i - 2
      BY <2>2
    <3>2. s[i - 1] = f[i - 2] /\ f[i - 2] \in S /\ s[i] = f[i - 1] /\ f[i - 1] \in S
      BY <1>11, <3>1
    <3>3. f[i - 1] = NextFree(h, f[i - 2]) /\ f[i - 1] # NULL
      BY <1>3, <1>4, <3>1, <3>2
    <3> QED
      BY <1>4, <2>2, <3>2, <3>3
  <2> QED
    BY <2>1, <2>2
<1>15. ASSUME NEW c \in S PROVE \E i \in 1 .. n : s[i] = c
  <2> DEFINE T == {b \in S : \A i \in 1 .. n : s[i] # b}
  <2> SUFFICES ASSUME T # {} PROVE FALSE
    OBVIOUS
  <2>1. PICK b \in T : PrevFree(h, b) \notin T
    BY HeadOf
  <2>2. NextFree(h, PrevFree(h, b)) = b /\ b \in S /\ b # NULL
        /\ PrevFree(h, b) \in S \cup {NULL}
    BY <1>4
  <2>3. PICK k \in Nat : f[k] = b
    <3>1. CASE PrevFree(h, b) = NULL
      <4>1. f[0] = b
        BY <1>3, <2>2, <3>1
      <4> QED
        BY <4>1
    <3>2. CASE PrevFree(h, b) \in S
      <4>1. PICK i \in 1 .. n : s[i] = PrevFree(h, b)
        BY <2>1, <3>2
      <4>2. f[i - 1] = PrevFree(h, b) /\ f[i - 1] # NULL /\ i - 1 \in Nat
        BY <1>4, <1>11, <4>1
      <4>3. f[(i - 1) + 1] = b
        BY <1>3, <2>2, <4>2
      <4>4. (i - 1) + 1 \in Nat
        OBVIOUS
      <4> QED
        BY <4>3, <4>4
    <3> QED
      BY <2>2, <3>1, <3>2
  <2>4. k < n
    <3> SUFFICES ASSUME n <= k PROVE FALSE
      BY <1>8
    <3>1. k # n
      BY <1>8, <2>2, <2>3
    <3>2. n < k
      BY <1>8, <3>1
    <3> QED
      BY <1>6, <1>8, <2>2, <2>3, <3>2
  <2>5. k + 1 \in 1 .. n /\ (k + 1) - 1 = k
    BY <1>8, <2>4
  <2>6. s[k + 1] = b
    BY <1>11, <2>3, <2>5
  <2> QED
    BY <2>5, <2>6
<1> HIDE DEF s
<1> QED
  BY <1>10, <1>12, <1>13, <1>14, <1>15 DEF s

-----------------------------------------------------------------------------
(* BufferAlloc: the blocks tile the buffer.                                *)

Stop(h, b) == b + HeaderSize + h.hdr[b].size
Tiled(h) ==
    /\ h.first = 1 /\ 1 \in DOMAIN h.hdr
    /\ \A b \in DOMAIN h.hdr :
         /\ Stop(h, b) <= h.len + 1
         /\ IF h.hdr[b].next = NULL THEN Stop(h, b) = h.len + 1
            ELSE /\ h.hdr[b].next = Stop(h, b) /\ h.hdr[b].next \in DOMAIN h.hdr
                 /\ h.hdr[h.hdr[b].next].prev = b
         /\ IF b = 1 THEN h.hdr[b].prev = NULL
            ELSE h.hdr[b].prev \in DOMAIN h.hdr /\ h.hdr[h.hdr[b].prev].next = b
    /\ \A x, y \in DOMAIN h.hdr : x < y => Stop(h, x) <= y

LEMMA Numbers ==
  ASSUME NEW h, HeapType(h)
  PROVE  /\ HeaderSize \in Nat /\ HeaderSize > 0 /\ h.len \in Nat /\ h.first_free \in Nat
         /\ \A b \in DOMAIN h.hdr :
              /\ b \in Nat /\ b # NULL /\ h.hdr[b] \in Headers
              /\ h.hdr[b].size \in Nat /\ h.hdr[b].alloc \in Nat
              /\ h.hdr[b].prev \in Nat /\ h.hdr[b].next \in Nat
              /\ h.hdr[b].prev_free \in Nat /\ h.hdr[b].next_free \in Nat
              /\ Stop(h, b) \in Nat /\ b + HeaderSize <= Stop(h, b)
<1>1. HeaderSize \in Nat /\ HeaderSize > 0 /\ h.len \in Nat /\ h.first_free \in Nat
  BY BufferAssumption DEF HeapType
<1>2. ASSUME NEW b \in DOMAIN h.hdr
      PROVE  /\ b \in Nat /\ b # NULL /\ h.hdr[b] \in Headers
             /\ h.hdr[b].size \in Nat /\ h.hdr[b].alloc \in Nat
             /\ h.hdr[b].prev \in Nat /\ h.hdr[b].next \in Nat
             /\ h.hdr[b].prev_free \in Nat /\ h.hdr[b].next_free \in Nat
  BY DEF HeapType, Headers
<1> QED
  BY <1>1, <1>2 DEF Stop

LEMMA SameTiles ==
  ASSUME NEW h, NEW g, Tiled(h), SameChain(h, g)
  PROVE  Tiled(g)
<1>1. \A b \in DOMAIN h.hdr : Stop(g, b) = Stop(h, b)
  BY DEF Stop, SameChain
<1> QED
  BY <1>1 DEF SameChain, Tiled

\* The block p goes into the block q before it.
Joins(h, g, q, p) ==
    /\ g.len = h.len /\ g.first = h.first /\ DOMAIN g.hdr = DOMAIN h.hdr \ {p}
    /\ \A b \in DOMAIN h.hdr \ {p} :
         /\ g.hdr[b].size = IF b = q THEN h.hdr[q].size + HeaderSize + h.hdr[p].size
                            ELSE h.hdr[b].size
         /\ g.hdr[b].next = IF b = q THEN h.hdr[p].next ELSE h.hdr[b].next
         /\ g.hdr[b].prev = IF b = h.hdr[p].next THEN q ELSE h.hdr[b].prev
LEMMA JoinedTiles ==
  ASSUME NEW h, HeapType(h), Tiled(h), NEW q \in DOMAIN h.hdr, NEW p, p = h.hdr[q].next, p # NULL,
         NEW g, Joins(h, g, q, p)
  PROVE  Tiled(g)
<1>0. /\ g.len = h.len /\ g.first = h.first /\ DOMAIN g.hdr = DOMAIN h.hdr \ {p}
      /\ \A b \in DOMAIN h.hdr \ {p} :
           /\ g.hdr[b].size = IF b = q THEN h.hdr[q].size + HeaderSize + h.hdr[p].size
                              ELSE h.hdr[b].size
           /\ g.hdr[b].next = IF b = q THEN h.hdr[p].next ELSE h.hdr[b].next
           /\ g.hdr[b].prev = IF b = h.hdr[p].next THEN q ELSE h.hdr[b].prev
  BY DEF Joins
<1> DEFINE D == DOMAIN h.hdr
           E == DOMAIN h.hdr \ {p}
           m == h.hdr[p].next
<1>1. p = Stop(h, q) /\ p \in D /\ h.hdr[p].prev = q /\ q \in Nat /\ q # NULL
  BY Numbers DEF Tiled
<1>2. p # 1 /\ p # q /\ q < p
  BY <1>1, Numbers DEF Tiled
<1>3. Stop(g, q) = Stop(h, p)
  <2>1. g.hdr[q].size = h.hdr[q].size + HeaderSize + h.hdr[p].size
    BY <1>0, <1>2
  <2> QED
    BY <1>1, <2>1, Numbers DEF Stop
<1>4. \A b \in E : b # q => Stop(g, b) = Stop(h, b)
  BY <1>0 DEF Stop
<1>5. m # NULL => m = Stop(h, p) /\ m \in E /\ h.hdr[m].prev = p /\ m # p
  <2>1. m # NULL => m = Stop(h, p) /\ m \in D /\ h.hdr[m].prev = p
    BY <1>1 DEF Tiled
  <2>2. m # p
    BY <1>1, <2>1, Numbers
  <2> QED
    BY <2>1, <2>2
<1>6. ASSUME NEW b \in E
      PROVE  /\ Stop(g, b) <= h.len + 1
             /\ IF g.hdr[b].next = NULL THEN Stop(g, b) = h.len + 1
                ELSE /\ g.hdr[b].next = Stop(g, b) /\ g.hdr[b].next \in E
                     /\ g.hdr[g.hdr[b].next].prev = b
  <2>1. CASE b = q
    <3>1. g.hdr[b].next = m /\ Stop(g, b) = Stop(h, p)
      BY <1>0, <1>3, <2>1
    <3>2. Stop(h, p) <= h.len + 1 /\ (m = NULL => Stop(h, p) = h.len + 1)
      BY <1>1 DEF Tiled
    <3>3. m # NULL => g.hdr[m].prev = q
      BY <1>0, <1>5
    <3> HIDE DEF m
    <3> QED
      BY <1>5, <2>1, <3>1, <3>2, <3>3
  <2>2. CASE b # q
    <3>1. g.hdr[b].next = h.hdr[b].next /\ Stop(g, b) = Stop(h, b)
      BY <1>0, <1>4, <2>2
    <3>2. /\ Stop(h, b) <= h.len + 1
          /\ IF h.hdr[b].next = NULL THEN Stop(h, b) = h.len + 1
             ELSE /\ h.hdr[b].next = Stop(h, b) /\ h.hdr[b].next \in D
                  /\ h.hdr[h.hdr[b].next].prev = b
      BY DEF Tiled
    <3>3. h.hdr[b].next # NULL => h.hdr[b].next \in E /\ h.hdr[b].next # m
      BY <1>1, <1>5, <2>2, <3>2
    <3>4. h.hdr[b].next # NULL => g.hdr[h.hdr[b].next].prev = b
      BY <1>0, <3>2, <3>3
    <3> QED
      BY <3>1, <3>2, <3>3, <3>4
  <2> QED
    BY <2>1, <2>2
<1>7. ASSUME NEW b \in E
      PROVE  IF b = 1 THEN g.hdr[b].prev = NULL
             ELSE g.hdr[b].prev \in E /\ g.hdr[g.hdr[b].prev].next = b
  <2>0. IF b = 1 THEN h.hdr[b].prev = NULL
        ELSE h.hdr[b].prev \in D /\ h.hdr[h.hdr[b].prev].next = b
    BY DEF Tiled
  <2>1. CASE b = m
    <3>1. m # NULL
      BY <2>1, Numbers
    <3>2. b # 1
      BY <1>1, <1>5, <2>0, <2>1, <3>1, Numbers
    <3>3. g.hdr[b].prev = q /\ g.hdr[q].next = m /\ q \in E
      BY <1>0, <1>2, <2>1
    <3> QED
      BY <2>1, <3>2, <3>3
  <2>2. CASE b # m
    <3>1. g.hdr[b].prev = h.hdr[b].prev
      BY <1>0, <2>2
    <3>2. b # 1 => h.hdr[b].prev # p /\ h.hdr[b].prev # q
      BY <2>0, <2>2
    <3>3. b # 1 => h.hdr[b].prev \in E
      BY <2>0, <3>2
    <3>4. b # 1 => g.hdr[h.hdr[b].prev].next = b
      BY <1>0, <2>0, <3>2, <3>3
    <3> QED
      BY <2>0, <3>1, <3>3, <3>4
  <2> QED
    BY <2>1, <2>2
<1>8. ASSUME NEW x \in E, NEW y \in E, x < y PROVE Stop(g, x) <= y
  <2>0. \A u, v \in D : u < v => Stop(h, u) <= v
    BY DEF Tiled
  <2>1. CASE x = q
    <3>1. p <= y /\ p # y
      BY <1>1, <1>8, <2>0, <2>1
    <3>2. Stop(h, p) <= y
      <4>1. p \in Nat /\ y \in Nat
        BY <1>1, Numbers
      <4>2. p < y
        BY <3>1, <4>1
      <4> QED
        BY <1>1, <2>0, <4>2
    <3> QED
      BY <1>3, <2>1, <3>2
  <2>2. CASE x # q
    BY <1>4, <1>8, <2>0, <2>2
  <2> QED
    BY <2>1, <2>2
<1>9. g.first = 1 /\ 1 \in E
  BY <1>0, <1>2 DEF Tiled
<1> HIDE DEF m
<1> QED
  BY <1>0, <1>6, <1>7, <1>8, <1>9 DEF Tiled

\* The place of the second half of a block that is cut is not that of another block.
LEMMA NewPlace ==
  ASSUME NEW h, HeapType(h), Tiled(h), NEW c \in DOMAIN h.hdr, NEW len \in Nat, NEW n,
         n = c + HeaderSize + len, len < h.hdr[c].size
  PROVE  n \notin DOMAIN h.hdr /\ n \in Nat /\ n > c /\ n > 1 /\ n # NULL
<1>1. c \in Nat /\ c > 0 /\ HeaderSize \in Nat /\ HeaderSize > 0 /\ h.hdr[c].size \in Nat
  BY Numbers DEF NULL
<1>2. n \in Nat /\ c < n /\ n < Stop(h, c) /\ Stop(h, c) \in Nat
  BY <1>1 DEF Stop
<1>3. n \in DOMAIN h.hdr => Stop(h, c) <= n
  BY <1>2 DEF Tiled
<1>4. n \notin DOMAIN h.hdr
  BY <1>2, <1>3
<1> QED
  BY <1>1, <1>2, <1>4 DEF NULL

\* The block c is cut; the new one begins at n.
LEMMA CutTiles ==
  ASSUME NEW h, HeapType(h), Tiled(h), NEW c \in DOMAIN h.hdr, NEW len \in Nat, NEW n,
         n = c + HeaderSize + len, len + HeaderSize < h.hdr[c].size,
         NEW g, g.len = h.len, g.first = h.first, DOMAIN g.hdr = DOMAIN h.hdr \cup {n},
         \A b \in DOMAIN h.hdr \cup {n} :
           /\ g.hdr[b].size = IF b = n THEN h.hdr[c].size - len - HeaderSize
                              ELSE IF b = c THEN len ELSE h.hdr[b].size
           /\ g.hdr[b].next = IF b = n THEN h.hdr[c].next ELSE IF b = c THEN n ELSE h.hdr[b].next
           /\ g.hdr[b].prev = IF b = n THEN c ELSE IF b = h.hdr[c].next THEN n ELSE h.hdr[b].prev
  PROVE  Tiled(g)
<1> DEFINE D == DOMAIN h.hdr
           E == DOMAIN h.hdr \cup {n}
           m == h.hdr[c].next
<1>1. c \in Nat /\ c # NULL /\ HeaderSize \in Nat /\ HeaderSize > 0 /\ h.hdr[c].size \in Nat
      /\ h.len \in Nat
  BY Numbers
<1>2. n \notin D /\ n \in Nat /\ n > c /\ n > 1 /\ n # NULL
  <2>1. len < h.hdr[c].size
    BY <1>1
  <2> QED
    BY <2>1, NewPlace
<1>3. Stop(g, n) = Stop(h, c) /\ Stop(g, c) = n /\ n < Stop(h, c) /\ Stop(h, c) \in Nat
  <2>1. g.hdr[n].size = h.hdr[c].size - len - HeaderSize /\ g.hdr[c].size = len
    BY <1>2
  <2> QED
    BY <1>1, <1>2, <2>1 DEF Stop
<1>4. \A b \in D : b # c => Stop(g, b) = Stop(h, b)
  BY <1>2 DEF Stop
<1>5. /\ Stop(h, c) <= h.len + 1
      /\ IF m = NULL THEN Stop(h, c) = h.len + 1
         ELSE m = Stop(h, c) /\ m \in D /\ h.hdr[m].prev = c
  BY DEF Tiled
<1>6. m # n /\ m # c
  BY <1>1, <1>2, <1>3, <1>5
<1>7. ASSUME NEW b \in E
      PROVE  /\ Stop(g, b) <= h.len + 1
             /\ IF g.hdr[b].next = NULL THEN Stop(g, b) = h.len + 1
                ELSE /\ g.hdr[b].next = Stop(g, b) /\ g.hdr[b].next \in E
                     /\ g.hdr[g.hdr[b].next].prev = b
  <2>1. CASE b = n
    <3>1. g.hdr[b].next = m
      BY <2>1
    <3>2. m # NULL => g.hdr[m].prev = n
      BY <1>5, <1>6
    <3> HIDE DEF m
    <3> QED
      BY <1>3, <1>5, <2>1, <3>1, <3>2
  <2>2. CASE b = c
    <3>1. g.hdr[b].next = n /\ g.hdr[n].prev = c /\ Stop(g, b) = n
      BY <1>2, <1>3, <2>2
    <3>2. n <= h.len + 1
      BY <1>1, <1>2, <1>3, <1>5
    <3> QED
      BY <1>2, <2>2, <3>1, <3>2
  <2>3. CASE b # n /\ b # c
    <3>0. b \in D
      BY <2>3
    <3>1. g.hdr[b].next = h.hdr[b].next /\ Stop(g, b) = Stop(h, b)
      BY <1>4, <2>3, <3>0
    <3>2. /\ Stop(h, b) <= h.len + 1
          /\ IF h.hdr[b].next = NULL THEN Stop(h, b) = h.len + 1
             ELSE /\ h.hdr[b].next = Stop(h, b) /\ h.hdr[b].next \in D
                  /\ h.hdr[h.hdr[b].next].prev = b
      BY <3>0 DEF Tiled
    <3>3. h.hdr[b].next # NULL => h.hdr[b].next # n /\ h.hdr[b].next # m
      BY <1>2, <1>5, <2>3, <3>2
    <3>4. h.hdr[b].next # NULL => g.hdr[h.hdr[b].next].prev = b
      BY <3>2, <3>3
    <3> QED
      BY <3>1, <3>2, <3>4
  <2> QED
    BY <2>1, <2>2, <2>3
<1>8. ASSUME NEW b \in E
      PROVE  IF b = 1 THEN g.hdr[b].prev = NULL
             ELSE g.hdr[b].prev \in E /\ g.hdr[g.hdr[b].prev].next = b
  <2>1. CASE b = n
    <3>1. g.hdr[n].prev = c /\ g.hdr[c].next = n /\ n # 1
      BY <1>1, <1>2
    <3> QED
      BY <2>1, <3>1
  <2>2. CASE b # n
    <3>0. b \in D /\ IF b = 1 THEN h.hdr[b].prev = NULL
                     ELSE h.hdr[b].prev \in D /\ h.hdr[h.hdr[b].prev].next = b
      BY <2>2 DEF Tiled
    <3>1. CASE b = m
      <4>1. g.hdr[b].prev = n /\ g.hdr[n].next = m
        BY <2>2, <3>1
      <4>2. b # 1
        <5>1. m # NULL
          BY <3>0, <3>1, Numbers
        <5> QED
          BY <1>1, <1>5, <3>0, <3>1, <5>1
      <4> QED
        BY <3>1, <4>1, <4>2
    <3>2. CASE b # m
      <4>1. g.hdr[b].prev = h.hdr[b].prev
        BY <2>2, <3>2
      <4>2. b # 1 => h.hdr[b].prev # n /\ h.hdr[b].prev # c
        BY <1>2, <3>0, <3>2
      <4>3. b # 1 => g.hdr[h.hdr[b].prev].next = b
        BY <3>0, <4>2
      <4> QED
        BY <3>0, <4>1, <4>3
    <3> QED
      BY <3>1, <3>2
  <2> QED
    BY <2>1, <2>2
<1>9. ASSUME NEW x \in E, NEW y \in E, x < y PROVE Stop(g, x) <= y
  <2>0. \A u, v \in D : u < v => Stop(h, u) <= v
    BY DEF Tiled
  <2>1. CASE x = n
    <3>1. y \in D /\ y \in Nat /\ c < y
      BY <1>1, <1>2, <1>9, <2>1, Numbers
    <3> QED
      BY <1>3, <2>0, <2>1, <3>1
  <2>2. CASE x = c
    <3>1. Stop(g, x) = n
      BY <1>3, <2>2
    <3>2. y # n => y \in D /\ y \in Nat /\ Stop(h, c) <= y
      BY <1>9, <2>0, <2>2, Numbers
    <3> QED
      BY <1>2, <1>3, <3>1, <3>2
  <2>3. CASE x # n /\ x # c
    <3>1. x \in D /\ Stop(g, x) = Stop(h, x) /\ x \in Nat /\ Stop(h, x) \in Nat
      BY <1>4, <2>3, Numbers
    <3>2. CASE y = n
      <4>1. x < c \/ c < x
        BY <1>1, <2>3, <3>1
      <4>2. ~(c < x)
        <5> SUFFICES ASSUME c < x PROVE FALSE
          OBVIOUS
        <5>1. Stop(h, c) <= x
          BY <2>0, <3>1
        <5> QED
          BY <1>2, <1>3, <1>9, <3>1, <3>2, <5>1
      <4>3. Stop(h, x) <= c
        BY <2>0, <3>1, <4>1, <4>2
      <4> QED
        BY <1>1, <1>2, <3>1, <3>2, <4>3
    <3>3. CASE y # n
      BY <1>9, <2>0, <3>1, <3>3
    <3> QED
      BY <3>2, <3>3
  <2> QED
    BY <2>1, <2>2, <2>3
<1>10. g.first = 1 /\ 1 \in E
  BY DEF Tiled
<1> HIDE DEF m
<1> QED
  BY <1>7, <1>8, <1>9, <1>10 DEF Tiled

-----------------------------------------------------------------------------
(* BufferAlloc: what the parts of calloc and free do to a heap.            *)

Free(h) == {b \in DOMAIN h.hdr : h.hdr[b].alloc = 0}
Used(h) == {b \in DOMAIN h.hdr : h.hdr[b].alloc = 1}

\* The free blocks of X are in no list yet, all others are in that of h.
HeapInv(h, X) ==
    /\ HeapType(h) /\ Tiled(h)
    /\ \A b \in DOMAIN h.hdr : h.hdr[b].alloc \in {0, 1}
    /\ X \subseteq Free(h) /\ Listed(h, Free(h) \ X)
    /\ \A b \in DOMAIN h.hdr : b \in X \/ h.hdr[b].alloc = 1
                               => h.hdr[b].next_free = NULL /\ h.hdr[b].prev_free = NULL

\* Free neighbours are at most a block of Y and the next one.
Compact(h, Y) ==
    \A b \in Free(h) : h.hdr[b].next \in Free(h) => b \in Y

\* The program does not notice the difference of h and g.
SameUsed(h, g) ==
    /\ g.len = h.len /\ Used(g) = Used(h)
    /\ \A b \in Used(h) : g.hdr[b].size = h.hdr[b].size

LEMMA FreeOnes ==
  ASSUME NEW h, HeapType(h)
  PROVE  \A p : IsFree(h, p) /\ p \in DOMAIN h.hdr \cup {NULL} <=> p \in Free(h)
<1>1. NULL \notin DOMAIN h.hdr
  BY DEF HeapType
<1> QED
  BY <1>1 DEF IsFree, Free

LEMMA Neighbours ==
  ASSUME NEW h, HeapType(h), NEW S \in SUBSET DOMAIN h.hdr, Listed(h, S)
  PROVE  /\ NextFree(h, NULL) = h.first_free /\ h.first_free \in S \cup {NULL} /\ NULL \notin S
         /\ \A b \in S : /\ NextFree(h, b) = h.hdr[b].next_free
                         /\ PrevFree(h, b) = h.hdr[b].prev_free
                         /\ h.hdr[b].next_free \in S \cup {NULL}
                         /\ h.hdr[b].prev_free \in S \cup {NULL}
<1>1. NULL \notin S /\ Linked(h, S)
  BY DEF Listed
<1>2. \A b \in S : NextFree(h, b) = h.hdr[b].next_free /\ PrevFree(h, b) = h.hdr[b].prev_free
  BY <1>1 DEF NextFree, PrevFree
<1> QED
  BY <1>1, <1>2 DEF Linked, NextFree

\* The next link of p becomes v and the link back of n becomes w.
BothSet(h, g, p, v, n, w) ==
    /\ HeapType(g) /\ SameChain(h, g) /\ DOMAIN g.hdr = DOMAIN h.hdr
    /\ \A b \in DOMAIN h.hdr : PrevFree(g, b) = IF b = n THEN w ELSE PrevFree(h, b)
    /\ \A b \in DOMAIN h.hdr \cup {NULL} :
         NextFree(g, b) = IF b = p THEN v ELSE NextFree(h, b)
LEMMA BothLinks ==
  ASSUME NEW h, HeapType(h), NEW p \in DOMAIN h.hdr \cup {NULL}, NEW n \in DOMAIN h.hdr \cup {NULL},
         NEW v \in Nat, NEW w \in Nat,
         NEW g, g = SetHdr(SetNextFree(h, p, v), n, "prev_free", w)
  PROVE  BothSet(h, g, p, v, n, w)
<1> DEFINE D == DOMAIN h.hdr
           k == SetNextFree(h, p, v)
<1>1. /\ HeapType(k) /\ SameChain(h, k)
      /\ \A b \in D : PrevFree(k, b) = PrevFree(h, b)
      /\ \A b \in D \cup {NULL} : NextFree(k, b) = IF b = p THEN v ELSE NextFree(h, b)
  BY SetNext
<1>0. g = SetHdr(k, n, "prev_free", w)
  OBVIOUS
<1> HIDE DEF k
<1>2. DOMAIN k.hdr = D
  BY <1>1 DEF SameChain
<1>3. PrevFreeSet(k, g, n, w)
  BY <1>0, <1>1, <1>2, SetPrevFree
<1>4. SameChain(h, g) /\ DOMAIN g.hdr = D /\ HeapType(g)
  BY <1>1, <1>3 DEF SameChain, PrevFreeSet
<1>5. \A b \in D : PrevFree(g, b) = IF b = n THEN w ELSE PrevFree(h, b)
  BY <1>1, <1>2, <1>3 DEF PrevFree, PrevFreeSet
<1>6. \A b \in D \cup {NULL} : NextFree(g, b) = NextFree(k, b)
  BY <1>2, <1>3 DEF NextFree, PrevFreeSet
<1> QED
  BY <1>1, <1>4, <1>5, <1>6 DEF BothSet

\* TakeWhole: c leaves the list and is in use.
LEMMA WholeTaken ==
  ASSUME NEW h, HeapInv(h, {}), Compact(h, {}), NEW c \in Free(h), NEW g, g = TakeWhole(h, c)
  PROVE  /\ HeapInv(g, {}) /\ Compact(g, {}) /\ g.len = h.len
         /\ Used(g) = Used(h) \cup {c} /\ c \notin Used(h)
         /\ \A b \in DOMAIN h.hdr : g.hdr[b].size = h.hdr[b].size
<1> DEFINE D == DOMAIN h.hdr
           S == Free(h)
           n == h.hdr[c].next_free
           p == h.hdr[c].prev_free
           u == SetHdr(SetNextFree(h, p, n), n, "prev_free", p)
           zero == 0
           one == 1
<1>1. /\ HeapType(h) /\ Tiled(h) /\ Listed(h, S) /\ c \in D /\ S \subseteq D
      /\ NextFree(h, NULL) = h.first_free /\ NULL \notin S /\ NULL \notin D
      /\ NextFree(h, c) = n /\ PrevFree(h, c) = p /\ n \in S \cup {NULL} /\ p \in S \cup {NULL}
      /\ n \in Nat /\ p \in Nat
  <2>1. HeapType(h) /\ Tiled(h) /\ Listed(h, S) /\ c \in D /\ S \subseteq D
    <3>1. S \ {} = S
      OBVIOUS
    <3> QED
      BY <3>1 DEF HeapInv, Free
  <2>2. n \in Nat /\ p \in Nat /\ NULL \notin D
    BY <2>1, Numbers DEF HeapType
  <2> QED
    BY <2>1, <2>2, Neighbours
<1>2. /\ HeapType(u) /\ SameChain(h, u) /\ DOMAIN u.hdr = D
      /\ \A b \in D : PrevFree(u, b) = IF b = n THEN p ELSE PrevFree(h, b)
      /\ \A b \in D \cup {NULL} : NextFree(u, b) = IF b = p THEN n ELSE NextFree(h, b)
  <2>1. p \in D \cup {NULL} /\ n \in D \cup {NULL}
    BY <1>1
  <2> HIDE DEF p, n, u
  <2>2. BothSet(h, u, p, n, n, p)
    BY <1>1, <2>1, BothLinks DEF u
  <2> QED
    BY <2>2 DEF BothSet
<1> DEFINE e == [u.hdr[c] EXCEPT !.alloc = one, !.prev_free = NULL, !.next_free = NULL]
<1>3. g = [u EXCEPT !.hdr = [u.hdr EXCEPT ![c] = e]]
  BY DEF TakeWhole
<1> HIDE DEF u, n, p
<1>4. /\ e \in Headers /\ e.size = u.hdr[c].size /\ e.prev = u.hdr[c].prev /\ e.next = u.hdr[c].next
      /\ e.alloc = one /\ e.prev_free = NULL /\ e.next_free = NULL
  <2>1. u.hdr[c] \in Headers /\ NULL \in Nat /\ one \in Nat
    BY <1>1, <1>2, Numbers DEF NULL
  <2> HIDE DEF one
  <2> QED
    BY <2>1 DEF Headers
<1> HIDE DEF e, one
<1>5. /\ HeapType(g) /\ DOMAIN g.hdr = D /\ g.len = u.len /\ g.first = u.first
      /\ g.first_free = u.first_free
      /\ g.hdr[c] = e /\ \A b \in D : b # c => g.hdr[b] = u.hdr[b]
  BY <1>1, <1>2, <1>3, <1>4, NewHeader
<1>6. /\ g.len = h.len /\ g.first = h.first
      /\ \A b \in D : /\ g.hdr[b].size = h.hdr[b].size
                      /\ g.hdr[b].prev = h.hdr[b].prev /\ g.hdr[b].next = h.hdr[b].next
                      /\ g.hdr[b].alloc = IF b = c THEN one ELSE h.hdr[b].alloc
  BY <1>2, <1>4, <1>5 DEF SameChain
<1>7. Tiled(g)
  <2>1. \A b \in D : Stop(g, b) = Stop(h, b)
    BY <1>6 DEF Stop
  <2> QED
    BY <1>1, <1>5, <1>6, <2>1 DEF Tiled
<1>8. Free(g) = S \ {c} /\ Used(g) = Used(h) \cup {c} /\ c \notin Used(h)
  BY <1>1, <1>5, <1>6 DEF Free, Used, one
<1>9. Listed(g, S \ {c})
  <2>1. \A b \in (S \ {c}) \cup {NULL} : NextFree(g, b) = NextFree(u, b)
    BY <1>1, <1>5 DEF NextFree
  <2>2. \A b \in S \ {c} : PrevFree(g, b) = PrevFree(u, b)
    BY <1>1, <1>5 DEF PrevFree
  <2>3. \A b \in (S \ {c}) \cup {NULL} :
          NextFree(g, b) = IF b = PrevFree(h, c) THEN NextFree(h, c) ELSE NextFree(h, b)
    BY <1>1, <1>2, <2>1
  <2>4. \A b \in S \ {c} :
          PrevFree(g, b) = IF b = NextFree(h, c) THEN PrevFree(h, c) ELSE PrevFree(h, b)
    BY <1>1, <1>2, <2>2
  <2> QED
    BY <1>1, <2>3, <2>4, TakenOut
<1>10. ASSUME NEW b \in D, g.hdr[b].alloc = 1
       PROVE  g.hdr[b].next_free = NULL /\ g.hdr[b].prev_free = NULL
  <2>1. CASE b = c
    BY <1>4, <1>5, <2>1
  <2>2. CASE b # c
    <3>1. h.hdr[b].alloc = 1 /\ b \notin S /\ b # NULL
      BY <1>1, <1>6, <1>10, <2>2 DEF Free
    <3>2. h.hdr[b].next_free = NULL /\ h.hdr[b].prev_free = NULL
      BY <3>1 DEF HeapInv
    <3>3. b # n /\ b # p
      BY <1>1, <3>1
    <3>4. NextFree(u, b) = NextFree(h, b) /\ PrevFree(u, b) = PrevFree(h, b)
      BY <1>2, <3>3
    <3> QED
      BY <1>5, <2>2, <3>1, <3>2, <3>4 DEF NextFree, PrevFree
  <2> QED
    BY <2>1, <2>2
<1>11. \A b \in D : g.hdr[b].alloc \in {0, 1}
  BY <1>6 DEF HeapInv, one
<1>12. HeapInv(g, {})
  <2>1. Free(g) \ {} = S \ {c}
    BY <1>8
  <2> QED
    BY <1>5, <1>7, <1>9, <1>10, <1>11, <2>1 DEF HeapInv
<1>13. Compact(g, {})
  BY <1>1, <1>6, <1>8 DEF Compact
<1> QED
  BY <1>6, <1>8, <1>12, <1>13

\* Split: c keeps len bytes and is in use, a new block takes its place in the list.
LEMMA CutOff ==
  ASSUME NEW h, HeapInv(h, {}), Compact(h, {}), NEW c \in Free(h), NEW len \in Nat,
         Splits(h, c, len), NEW g, g = Split(h, c, len)
  PROVE  /\ HeapInv(g, {}) /\ Compact(g, {}) /\ g.len = h.len
         /\ Used(g) = Used(h) \cup {c} /\ c \notin Used(h)
         /\ g.hdr[c].size = len
         /\ \A b \in DOMAIN h.hdr : b # c => g.hdr[b].size = h.hdr[b].size
<1> DEFINE D == DOMAIN h.hdr
           S == Free(h)
           m == h.hdr[c].next
           n == h.hdr[c].next_free
           p == h.hdr[c].prev_free
           new == c + HeaderSize + len
           E == D \cup {new}
           zero == 0
           one == 1
           left == h.hdr[c].size - len - HeaderSize
           rest == Header(left, zero, c, m, p, n)
           k1 == [h EXCEPT !.hdr = With(h.hdr, new, rest)]
           k2 == LinkBack(k1, m, new)
           k3 == SetHdr(SetNextFree(k2, p, new), n, "prev_free", new)
           e == Header(len, one, h.hdr[c].prev, new, NULL, NULL)
<1>1. /\ HeapType(h) /\ Tiled(h) /\ Listed(h, S) /\ c \in D /\ S \subseteq D
      /\ NULL \notin S /\ NULL \notin D
      /\ NextFree(h, c) = n /\ PrevFree(h, c) = p /\ n \in S \cup {NULL} /\ p \in S \cup {NULL}
      /\ n \in Nat /\ p \in Nat /\ m \in Nat /\ m \in D \cup {NULL} /\ h.hdr[c].prev \in Nat
      /\ c \in Nat
  <2>1. HeapType(h) /\ Tiled(h) /\ Listed(h, S) /\ c \in D /\ S \subseteq D
    <3>1. S \ {} = S
      OBVIOUS
    <3> QED
      BY <3>1 DEF HeapInv, Free
  <2>2. n \in Nat /\ p \in Nat /\ NULL \notin D /\ m \in Nat /\ h.hdr[c].prev \in Nat /\ c \in Nat
    BY <2>1, Numbers DEF HeapType
  <2>3. m \in D \cup {NULL}
    BY <2>1 DEF Tiled
  <2> QED
    BY <2>1, <2>2, <2>3, Neighbours
<1>2. left \in Nat /\ len + HeaderSize < h.hdr[c].size /\ len < h.hdr[c].size
  <2>1. /\ h.hdr[c].size \in Nat /\ HeaderSize \in Nat /\ HeaderSize > 0
        /\ AlignMultiple \in Nat /\ AlignMultiple > 0
    BY <1>1, Numbers, BufferAssumption
  <2> QED
    BY <2>1 DEF Splits
<1>3. new \notin D /\ new \in Nat /\ new > c /\ new # NULL
  BY <1>1, <1>2, NewPlace
<1>4. g = [k3 EXCEPT !.hdr = [k3.hdr EXCEPT ![c] = e]]
  BY DEF Split
<1>5. /\ rest \in Headers /\ rest.size = left /\ rest.alloc = zero /\ rest.prev = c
      /\ rest.next = m /\ rest.prev_free = p /\ rest.next_free = n
  <2>1. zero \in Nat
    OBVIOUS
  <2> HIDE DEF zero, left, m, n, p
  <2> QED
    BY <1>1, <1>2, <2>1 DEF Header, Headers
<1>6. /\ e \in Headers /\ e.size = len /\ e.alloc = one /\ e.prev = h.hdr[c].prev
      /\ e.next = new /\ e.prev_free = NULL /\ e.next_free = NULL
  <2>1. one \in Nat /\ NULL \in Nat
    BY DEF NULL
  <2> HIDE DEF one, new
  <2> QED
    BY <1>1, <1>3, <2>1 DEF Header, Headers
<1> HIDE DEF m, n, p, new, left, rest, e, k1, k2, k3
<1>7. /\ HeapType(k1) /\ DOMAIN k1.hdr = E
      /\ k1.len = h.len /\ k1.first = h.first /\ k1.first_free = h.first_free
      /\ k1.hdr[new] = rest /\ \A b \in D : k1.hdr[b] = h.hdr[b]
  <2> DEFINE H == With(h.hdr, new, rest)
  <2>1. DOMAIN H = E /\ H[new] = rest /\ \A b \in D : H[b] = h.hdr[b]
    BY <1>3 DEF With
  <2>2. H = [b \in E |-> H[b]]
    BY DEF With
  <2>3. \A b \in E : H[b] \in Headers
    BY <1>1, <1>5, <2>1, Numbers
  <2> HIDE DEF H
  <2>4. H \in [E -> Headers]
    BY <2>2, <2>3
  <2>5. k1 = [h EXCEPT !.hdr = H]
    BY DEF k1, H
  <2>6. /\ h \in [len : Nat, first : Nat, first_free : Nat, hdr : [D -> Headers]]
        /\ D \subseteq Nat \ {NULL}
    BY <1>1 DEF HeapType
  <2>7. /\ k1 \in [len : Nat, first : Nat, first_free : Nat, hdr : [E -> Headers]]
        /\ k1.hdr = H /\ k1.len = h.len /\ k1.first = h.first /\ k1.first_free = h.first_free
    <3> HIDE DEF D, E
    <3> QED
      BY <2>4, <2>5, <2>6
  <2>8. E \subseteq Nat \ {NULL}
    BY <1>3, <2>6
  <2> QED
    BY <2>1, <2>7, <2>8 DEF HeapType
<1>8. /\ HeapType(k2) /\ SameLinks(k1, k2, E) /\ DOMAIN k2.hdr = E
      /\ k2.len = h.len /\ k2.first = h.first
      /\ \A b \in E : /\ k2.hdr[b].size = k1.hdr[b].size /\ k2.hdr[b].alloc = k1.hdr[b].alloc
                      /\ k2.hdr[b].next = k1.hdr[b].next
                      /\ k2.hdr[b].prev = IF b = m THEN new ELSE k1.hdr[b].prev
  <2>1. m \in DOMAIN k1.hdr \cup {NULL} /\ k2 = SetHdr(k1, m, "prev", new)
    BY <1>1, <1>7 DEF k2, LinkBack
  <2>2. PrevSet(k1, k2, m, new)
    BY <1>3, <1>7, <2>1, SetPrev
  <2> QED
    BY <1>7, <2>2 DEF PrevSet
<1>9. /\ HeapType(k3) /\ SameChain(k2, k3) /\ DOMAIN k3.hdr = E
      /\ \A b \in E : PrevFree(k3, b) = IF b = n THEN new ELSE PrevFree(k2, b)
      /\ \A b \in E \cup {NULL} : NextFree(k3, b) = IF b = p THEN new ELSE NextFree(k2, b)
  <2>1. n \in DOMAIN k2.hdr \cup {NULL} /\ p \in DOMAIN k2.hdr \cup {NULL}
    BY <1>1, <1>8
  <2>2. BothSet(k2, k3, p, new, n, new)
    BY <1>3, <1>8, <2>1, BothLinks DEF k3
  <2> QED
    BY <1>8, <2>2 DEF BothSet
<1>10. /\ HeapType(g) /\ DOMAIN g.hdr = E /\ g.len = k3.len /\ g.first = k3.first
       /\ g.first_free = k3.first_free
       /\ g.hdr[c] = e /\ \A b \in E : b # c => g.hdr[b] = k3.hdr[b]
  BY <1>1, <1>4, <1>6, <1>9, NewHeader
<1>11. /\ g.len = h.len /\ g.first = h.first
       /\ \A b \in E :
            /\ g.hdr[b].size = IF b = new THEN left ELSE IF b = c THEN len ELSE h.hdr[b].size
            /\ g.hdr[b].next = IF b = new THEN m ELSE IF b = c THEN new ELSE h.hdr[b].next
            /\ g.hdr[b].prev = IF b = new THEN c ELSE IF b = m THEN new ELSE h.hdr[b].prev
            /\ g.hdr[b].alloc = IF b = new THEN zero ELSE IF b = c THEN one ELSE h.hdr[b].alloc
  <2>1. g.len = h.len /\ g.first = h.first
    BY <1>8, <1>9, <1>10 DEF SameChain
  <2>2. m # c /\ m # new
    <3>1. m # NULL => m = Stop(h, c) /\ m \in D
      BY <1>1 DEF Tiled, m
    <3>2. c + HeaderSize <= Stop(h, c) /\ HeaderSize > 0 /\ HeaderSize \in Nat /\ Stop(h, c) \in Nat
      BY <1>1, Numbers
    <3> QED
      BY <1>1, <1>3, <3>1, <3>2
  <2>3. ASSUME NEW b \in E
        PROVE  /\ g.hdr[b].size = IF b = new THEN left ELSE IF b = c THEN len ELSE h.hdr[b].size
               /\ g.hdr[b].next = IF b = new THEN m ELSE IF b = c THEN new ELSE h.hdr[b].next
               /\ g.hdr[b].prev = IF b = new THEN c ELSE IF b = m THEN new ELSE h.hdr[b].prev
               /\ g.hdr[b].alloc = IF b = new THEN zero ELSE IF b = c THEN one ELSE h.hdr[b].alloc
    <3>1. CASE b = c
      BY <1>3, <1>6, <1>10, <2>2, <3>1
    <3>2. CASE b # c
      <4>1. /\ g.hdr[b].size = k2.hdr[b].size /\ g.hdr[b].next = k2.hdr[b].next
            /\ g.hdr[b].prev = k2.hdr[b].prev /\ g.hdr[b].alloc = k2.hdr[b].alloc
        BY <1>8, <1>9, <1>10, <3>2 DEF SameChain
      <4>2. CASE b = new
        BY <1>5, <1>7, <1>8, <2>2, <4>1, <4>2
      <4>3. CASE b # new
        <5>1. k1.hdr[b] = h.hdr[b]
          BY <1>7, <4>3
        <5> QED
          BY <1>8, <3>2, <4>1, <4>3, <5>1
      <4> QED
        BY <4>2, <4>3
    <3> QED
      BY <3>1, <3>2
  <2> QED
    BY <2>1, <2>3
<1>12. Tiled(g)
  BY <1>1, <1>2, <1>10, <1>11, CutTiles DEF left, m, new
<1>13. Free(g) = (S \ {c}) \cup {new} /\ Used(g) = Used(h) \cup {c} /\ c \notin Used(h)
  <2>1. new # c
    BY <1>1, <1>3
  <2>2. \A b \in E : g.hdr[b].alloc = IF b = new THEN 0 ELSE IF b = c THEN 1 ELSE h.hdr[b].alloc
    BY <1>11
  <2>3. h.hdr[c].alloc = 0
    BY DEF Free
  <2> QED
    BY <1>1, <1>3, <1>10, <2>1, <2>2, <2>3 DEF Free, Used
<1>14. /\ \A b \in (S \ {c}) \cup {new, NULL} :
            NextFree(g, b) = IF b = new THEN n ELSE IF b = p THEN new ELSE NextFree(h, b)
       /\ \A b \in (S \ {c}) \cup {new} :
            PrevFree(g, b) = IF b = new THEN p ELSE IF b = n THEN new ELSE PrevFree(h, b)
       /\ \A b \in D : b # c /\ b # n /\ b # p
            => g.hdr[b].next_free = h.hdr[b].next_free /\ g.hdr[b].prev_free = h.hdr[b].prev_free
  <2>0. new # c /\ new # p /\ new # n
    BY <1>1, <1>3
  <2>1. \A b \in E \cup {NULL} : b # c => NextFree(g, b) = NextFree(k3, b)
    BY <1>10 DEF NextFree
  <2>2. \A b \in E : b # c => PrevFree(g, b) = PrevFree(k3, b)
    BY <1>10 DEF PrevFree
  <2>3. \A b \in D \cup {NULL} : NextFree(k2, b) = NextFree(h, b)
    BY <1>7, <1>8 DEF NextFree, SameLinks
  <2>4. \A b \in D : PrevFree(k2, b) = PrevFree(h, b)
    BY <1>7, <1>8 DEF PrevFree, SameLinks
  <2>5. NextFree(k2, new) = n /\ PrevFree(k2, new) = p
    BY <1>3, <1>5, <1>7, <1>8 DEF NextFree, PrevFree, SameLinks
  <2>6. /\ \A b \in (D \ {c}) \cup {new, NULL} :
             NextFree(g, b) = IF b = new THEN n ELSE IF b = p THEN new ELSE NextFree(h, b)
        /\ \A b \in (D \ {c}) \cup {new} :
             PrevFree(g, b) = IF b = new THEN p ELSE IF b = n THEN new ELSE PrevFree(h, b)
    BY <1>1, <1>9, <2>0, <2>1, <2>2, <2>3, <2>4, <2>5
  <2>7. \A b \in D : b # c /\ b # n /\ b # p
          => g.hdr[b].next_free = h.hdr[b].next_free /\ g.hdr[b].prev_free = h.hdr[b].prev_free
    <3>1. \A b \in D : /\ NextFree(g, b) = g.hdr[b].next_free /\ PrevFree(g, b) = g.hdr[b].prev_free
                       /\ NextFree(h, b) = h.hdr[b].next_free /\ PrevFree(h, b) = h.hdr[b].prev_free
      BY <1>1 DEF NextFree, PrevFree
    <3> QED
      BY <1>3, <2>6, <3>1
  <2> QED
    BY <1>1, <2>6, <2>7
<1>15. Listed(g, (S \ {c}) \cup {new})
  <2>1. new \notin S
    BY <1>1, <1>3
  <2> QED
    BY <1>1, <1>3, <1>14, <2>1, Replaced
<1>16. ASSUME NEW b \in E, g.hdr[b].alloc = 1
       PROVE  g.hdr[b].next_free = NULL /\ g.hdr[b].prev_free = NULL
  <2>1. CASE b = c
    BY <1>6, <1>10, <2>1
  <2>2. CASE b # c
    <3>1. h.hdr[b].alloc = 1 /\ b \notin S /\ b # NULL /\ b \in D
      BY <1>1, <1>3, <1>11, <1>16, <2>2 DEF Free
    <3>2. h.hdr[b].next_free = NULL /\ h.hdr[b].prev_free = NULL
      BY <3>1 DEF HeapInv
    <3>3. b # n /\ b # p
      BY <1>1, <3>1
    <3> QED
      BY <1>14, <2>2, <3>1, <3>2, <3>3
  <2> QED
    BY <2>1, <2>2
<1>17. \A b \in E : g.hdr[b].alloc \in {0, 1}
  BY <1>11 DEF HeapInv
<1>18. HeapInv(g, {})
  <2>1. Free(g) \ {} = (S \ {c}) \cup {new}
    BY <1>13
  <2> QED
    BY <1>10, <1>12, <1>15, <1>16, <1>17, <2>1 DEF HeapInv
<1>19. Compact(g, {})
  <2> SUFFICES ASSUME NEW b \in Free(g), g.hdr[b].next \in Free(g) PROVE FALSE
    BY DEF Compact
  <2>1. CASE b = new
    <3>1. m \in S /\ c \in S /\ h.hdr[c].next = m
      BY <1>1, <1>3, <1>11, <1>13, <2>1 DEF m
    <3> QED
      BY <3>1 DEF Compact
  <2>2. CASE b # new
    <3>1. b \in S /\ b # c /\ g.hdr[b].next = h.hdr[b].next
      BY <1>1, <1>11, <1>13, <2>2
    <3>2. h.hdr[b].next # new
      <4>1. h.hdr[b].next \in D \cup {NULL}
        BY <1>1, <3>1 DEF Tiled
      <4> QED
        BY <1>3, <4>1
    <3>3. h.hdr[b].next \in S
      BY <1>13, <3>1, <3>2
    <3> QED
      BY <3>1, <3>3 DEF Compact
  <2> QED
    BY <2>1, <2>2
<1>20. g.hdr[c].size = len /\ \A b \in D : b # c => g.hdr[b].size = h.hdr[b].size
  BY <1>1, <1>3, <1>11
<1> QED
  BY <1>11, <1>13, <1>18, <1>19, <1>20

LEMMA LessOne ==
  ASSUME NEW h, HeapType(h), NEW p, NEW g, g = Without(h, p)
  PROVE  /\ HeapType(g) /\ DOMAIN g.hdr = DOMAIN h.hdr \ {p}
         /\ g.len = h.len /\ g.first = h.first /\ g.first_free = h.first_free
         /\ \A b \in DOMAIN h.hdr \ {p} : g.hdr[b] = h.hdr[b]
<1> DEFINE D == DOMAIN h.hdr
           E == D \ {p}
           H == [b \in E |-> h.hdr[b]]
<1>1. /\ h \in [len : Nat, first : Nat, first_free : Nat, hdr : [D -> Headers]]
      /\ D \subseteq Nat \ {NULL}
  BY DEF HeapType
<1>2. H \in [E -> Headers] /\ DOMAIN H = E /\ \A b \in E : H[b] = h.hdr[b]
  BY Numbers
<1>3. g = [h EXCEPT !.hdr = H]
  BY DEF Without, Restrict
<1> HIDE DEF H
<1>4. /\ g \in [len : Nat, first : Nat, first_free : Nat, hdr : [E -> Headers]]
      /\ g.hdr = H /\ g.len = h.len /\ g.first = h.first /\ g.first_free = h.first_free
  <2> HIDE DEF D, E
  <2> QED
    BY <1>1, <1>2, <1>3
<1> QED
  BY <1>1, <1>2, <1>4 DEF HeapType

\* MergeBefore: p, which is in no list yet, goes into the free block before it.
LEMMA MergedBefore ==
  ASSUME NEW h, NEW p, HeapInv(h, {p}), NEW q, q = h.hdr[p].prev, q \in Free(h),
         Compact(h, {p, q}), NEW g, g = MergeBefore(h, p)
  PROVE  HeapInv(g, {}) /\ Compact(g, {q}) /\ SameUsed(h, g) /\ q \in Free(g)
         /\ DOMAIN g.hdr = DOMAIN h.hdr \ {p}
<1> DEFINE D == DOMAIN h.hdr
           E == D \ {p}
           S == Free(h)
           m == h.hdr[p].next
           big == h.hdr[q].size + HeaderSize + h.hdr[p].size
           e == [h.hdr[q] EXCEPT !.size = big, !.next = m]
           k1 == [h EXCEPT !.hdr = [h.hdr EXCEPT ![q] = e]]
           k2 == Without(k1, p)
<1>1. /\ HeapType(h) /\ Tiled(h) /\ Listed(h, S \ {p}) /\ p \in S /\ S \subseteq D
      /\ p \in D /\ q \in D /\ NULL \notin D
  BY DEF HeapInv, Free, HeapType
<1>2. /\ h.hdr[q].next = p /\ p # q /\ q < p /\ q \in Nat /\ p \in Nat /\ big \in Nat /\ m \in Nat
      /\ m \in E \cup {NULL} /\ m # q
  <2>1. h.hdr[q].next = p
    <3>1. p # 1 => q \in D /\ h.hdr[q].next = p
      BY <1>1 DEF Tiled
    <3>2. p = 1 => q = NULL
      BY <1>1 DEF Tiled
    <3> QED
      BY <1>1, <3>1, <3>2
  <2>2. p = Stop(h, q) /\ (m # NULL => m = Stop(h, p) /\ m \in D)
    BY <1>1, <2>1 DEF Tiled
  <2>3. /\ q \in Nat /\ p \in Nat /\ m \in Nat /\ h.hdr[q].size \in Nat /\ h.hdr[p].size \in Nat
        /\ HeaderSize \in Nat /\ HeaderSize > 0
        /\ q + HeaderSize <= Stop(h, q) /\ p + HeaderSize <= Stop(h, p)
        /\ Stop(h, q) \in Nat /\ Stop(h, p) \in Nat
    BY <1>1, Numbers
  <2>4. q < p /\ (m # NULL => p < m)
    BY <2>2, <2>3
  <2>5. m # q
    BY <1>1, <2>3, <2>4
  <2>6. big \in Nat
    BY <2>3
  <2>7. p # q /\ (m # NULL => m # p)
    BY <2>3, <2>4
  <2>8. m \in E \cup {NULL}
    BY <2>2, <2>7
  <2> HIDE DEF big, D, E
  <2> QED
    BY <2>1, <2>3, <2>4, <2>5, <2>6, <2>7, <2>8
<1>3. g = SetHdr(k2, m, "prev", q)
  <2>1. k1 = [h EXCEPT !.hdr[h.hdr[p].prev].size = @ + HeaderSize + h.hdr[p].size,
                       !.hdr[h.hdr[p].prev].next = h.hdr[p].next]
    BY <1>1, <1>2
  <2> QED
    BY <2>1 DEF MergeBefore
<1>4. /\ e \in Headers /\ e.size = big /\ e.next = m /\ e.alloc = h.hdr[q].alloc
      /\ e.prev = h.hdr[q].prev /\ e.prev_free = h.hdr[q].prev_free
      /\ e.next_free = h.hdr[q].next_free
  <2>1. h.hdr[q] \in Headers
    BY <1>1, Numbers
  <2> HIDE DEF m, big
  <2> QED
    BY <1>2, <2>1 DEF Headers
<1> HIDE DEF e, m, big, k1, k2
<1>5. /\ HeapType(k1) /\ DOMAIN k1.hdr = D
      /\ k1.len = h.len /\ k1.first = h.first /\ k1.first_free = h.first_free
      /\ k1.hdr[q] = e /\ \A b \in D : b # q => k1.hdr[b] = h.hdr[b]
  BY <1>1, <1>4, NewHeader DEF k1
<1>6. /\ HeapType(k2) /\ DOMAIN k2.hdr = E
      /\ k2.len = h.len /\ k2.first = h.first /\ k2.first_free = h.first_free
      /\ \A b \in E : k2.hdr[b] = k1.hdr[b]
  BY <1>5, LessOne DEF k2
<1>7. PrevSet(k2, g, m, q)
  <2>1. m \in DOMAIN k2.hdr \cup {NULL}
    BY <1>2, <1>6
  <2> QED
    BY <1>2, <1>3, <1>6, <2>1, SetPrev
<1>8. /\ HeapType(g) /\ DOMAIN g.hdr = E /\ g.len = h.len /\ g.first = h.first
      /\ g.first_free = h.first_free
      /\ \A b \in E :
           /\ g.hdr[b].size = IF b = q THEN big ELSE h.hdr[b].size
           /\ g.hdr[b].next = IF b = q THEN m ELSE h.hdr[b].next
           /\ g.hdr[b].prev = IF b = m THEN q ELSE h.hdr[b].prev
           /\ g.hdr[b].alloc = h.hdr[b].alloc
           /\ g.hdr[b].prev_free = h.hdr[b].prev_free
           /\ g.hdr[b].next_free = h.hdr[b].next_free
  <2>1. /\ HeapType(g) /\ DOMAIN g.hdr = E /\ g.len = h.len /\ g.first = h.first
        /\ g.first_free = h.first_free
    BY <1>6, <1>7 DEF PrevSet, SameLinks
  <2>2. ASSUME NEW b \in E
        PROVE  /\ g.hdr[b].size = IF b = q THEN big ELSE h.hdr[b].size
               /\ g.hdr[b].next = IF b = q THEN m ELSE h.hdr[b].next
               /\ g.hdr[b].prev = IF b = m THEN q ELSE h.hdr[b].prev
               /\ g.hdr[b].alloc = h.hdr[b].alloc
               /\ g.hdr[b].prev_free = h.hdr[b].prev_free
               /\ g.hdr[b].next_free = h.hdr[b].next_free
    <3>1. /\ g.hdr[b].size = k2.hdr[b].size /\ g.hdr[b].alloc = k2.hdr[b].alloc
          /\ g.hdr[b].next = k2.hdr[b].next
          /\ g.hdr[b].prev = IF b = m THEN q ELSE k2.hdr[b].prev
          /\ g.hdr[b].prev_free = k2.hdr[b].prev_free
          /\ g.hdr[b].next_free = k2.hdr[b].next_free
      BY <1>6, <1>7 DEF PrevSet, SameLinks
    <3>2. k2.hdr[b] = IF b = q THEN e ELSE h.hdr[b]
      BY <1>5, <1>6
    <3> QED
      BY <1>4, <3>1, <3>2
  <2> QED
    BY <2>1, <2>2
<1>9. Tiled(g)
  <2>1. p = h.hdr[q].next /\ p # NULL
    BY <1>1, <1>2
  <2>2. Joins(h, g, q, p)
    BY <1>8 DEF Joins, m, big
  <2> QED
    BY <1>1, <2>1, <2>2, JoinedTiles
<1>10. Free(g) = S \ {p} /\ Used(g) = Used(h)
  <2>1. h.hdr[p].alloc = 0
    BY <1>1 DEF Free
  <2> QED
    BY <1>8, <2>1 DEF Free, Used
<1>11. Listed(g, S \ {p})
  <2>1. \A b \in (S \ {p}) \cup {NULL} : NextFree(g, b) = NextFree(h, b)
    BY <1>1, <1>8 DEF NextFree
  <2>2. \A b \in S \ {p} : PrevFree(g, b) = PrevFree(h, b)
    BY <1>1, <1>8 DEF PrevFree
  <2> QED
    BY <1>1, <2>1, <2>2, SameList
<1>12. HeapInv(g, {})
  <2>1. Free(g) \ {} = S \ {p}
    BY <1>10
  <2>2. \A b \in E : g.hdr[b].alloc \in {0, 1}
    BY <1>8 DEF HeapInv
  <2>3. \A b \in E : g.hdr[b].alloc = 1 => g.hdr[b].next_free = NULL /\ g.hdr[b].prev_free = NULL
    BY <1>8 DEF HeapInv
  <2> QED
    BY <1>8, <1>9, <1>11, <2>1, <2>2, <2>3 DEF HeapInv
<1>13. Compact(g, {q})
  <2> SUFFICES ASSUME NEW b \in Free(g), g.hdr[b].next \in Free(g), b # q PROVE FALSE
    BY DEF Compact
  <2>1. b \in S /\ b # p /\ b \in E /\ h.hdr[b].next \in S
    BY <1>8, <1>10, <1>1
  <2> QED
    BY <2>1 DEF Compact
<1>14. SameUsed(h, g)
  <2>1. \A b \in Used(h) : b \in E /\ b # q
    BY <1>1 DEF Used, Free
  <2> QED
    BY <1>8, <1>10, <2>1 DEF SameUsed
<1> QED
  BY <1>2, <1>8, <1>10, <1>12, <1>13, <1>14

\* Unlist: q leaves the list, if it is in one.
LEMMA Unlisted ==
  ASSUME NEW h, NEW X, HeapInv(h, X), NEW q \in Free(h), X \subseteq {q},
         NEW old \in Free(h), old # q, NEW u, u = Unlist(h, q)
  PROVE  /\ HeapType(u) /\ SameChain(h, u) /\ Listed(u, Free(h) \ {q})
         /\ \A b \in DOMAIN h.hdr \ Free(h) :
              u.hdr[b].next_free = h.hdr[b].next_free /\ u.hdr[b].prev_free = h.hdr[b].prev_free
<1> DEFINE D == DOMAIN h.hdr
           S == Free(h)
           n == h.hdr[q].next_free
           p == h.hdr[q].prev_free
<1>1. HeapType(h) /\ Listed(h, S \ X) /\ S \subseteq D /\ q \in D /\ SameChain(h, h) /\ NULL \notin D
  BY DEF HeapInv, Free, SameChain, HeapType
<1>2. CASE p = NULL /\ n = NULL
  <2>1. u = h
    BY <1>2 DEF Unlist
  <2>2. S \ X = S \ {q}
    <3>1. CASE q \in X
      BY <3>1
    <3>2. CASE q \notin X
      <4>1. X = {} /\ S \ X = S
        BY <3>2
      <4>2. Listed(h, S) /\ PrevFree(h, q) = NULL /\ NextFree(h, q) = NULL
        BY <1>1, <1>2, <4>1 DEF PrevFree, NextFree
      <4>3. S = {q}
        BY <4>2, Alone
      <4> QED
        BY <4>3
    <3> QED
      BY <3>1, <3>2
  <2> QED
    BY <1>1, <2>1, <2>2
<1>3. CASE ~(p = NULL /\ n = NULL)
  <2>1. u = SetHdr(SetNextFree(h, p, n), n, "prev_free", p)
    BY <1>3 DEF Unlist
  <2>2. q \notin X
    BY <1>1, <1>3 DEF HeapInv
  <2>3. X = {} /\ S \ X = S /\ Listed(h, S)
    BY <1>1, <2>2
  <2>4. /\ NextFree(h, q) = n /\ PrevFree(h, q) = p /\ n \in S \cup {NULL} /\ p \in S \cup {NULL}
        /\ NULL \notin S
    BY <1>1, <2>3, Neighbours
  <2>5. n \in Nat /\ p \in Nat
    BY <1>1, Numbers
  <2> HIDE DEF n, p
  <2>6. BothSet(h, u, p, n, n, p)
    BY <1>1, <2>1, <2>4, <2>5, BothLinks
  <2>7. Listed(u, S \ {q})
    <3>1. \A b \in (S \ {q}) \cup {NULL} :
            NextFree(u, b) = IF b = PrevFree(h, q) THEN NextFree(h, q) ELSE NextFree(h, b)
      BY <1>1, <2>4, <2>6 DEF BothSet
    <3>2. \A b \in S \ {q} :
            PrevFree(u, b) = IF b = NextFree(h, q) THEN PrevFree(h, q) ELSE PrevFree(h, b)
      BY <1>1, <2>4, <2>6 DEF BothSet
    <3> QED
      BY <2>3, <3>1, <3>2, TakenOut
  <2>8. ASSUME NEW b \in D \ S
        PROVE  u.hdr[b].next_free = h.hdr[b].next_free /\ u.hdr[b].prev_free = h.hdr[b].prev_free
    <3>1. b # n /\ b # p /\ b # NULL
      BY <1>1, <2>4
    <3>2. NextFree(u, b) = NextFree(h, b) /\ PrevFree(u, b) = PrevFree(h, b)
      BY <2>6, <3>1 DEF BothSet
    <3> QED
      BY <3>1, <3>2 DEF NextFree, PrevFree
  <2> QED
    BY <2>6, <2>7, <2>8 DEF BothSet
<1> QED
  BY <1>2, <1>3

\* MergeAfter: q grows over the free block after it and takes its place in the list.
LEMMA MergedAfter ==
  ASSUME NEW h, NEW X, HeapInv(h, X), NEW q \in Free(h), X \subseteq {q}, Compact(h, {q}),
         NEW old, old = h.hdr[q].next, old \in Free(h), NEW g, g = MergeAfter(h, q)
  PROVE  HeapInv(g, {}) /\ Compact(g, {}) /\ SameUsed(h, g)
<1> DEFINE D == DOMAIN h.hdr
           E == D \ {old}
           S == Free(h)
           T == S \ {q}
           m == h.hdr[old].next
           big == h.hdr[q].size + HeaderSize + h.hdr[old].size
           u == Unlist(h, q)
           n == u.hdr[old].next_free
           p == u.hdr[old].prev_free
           e == [u.hdr[q] EXCEPT !.size = big, !.next = m, !.prev_free = p, !.next_free = n]
           k1 == [u EXCEPT !.hdr = [u.hdr EXCEPT ![q] = e]]
           k2 == SetHdr(SetNextFree(k1, p, q), n, "prev_free", q)
           k3 == SetHdr(k2, m, "prev", q)
<1>1. /\ HeapType(h) /\ Tiled(h) /\ S \subseteq D /\ q \in D /\ old \in D /\ NULL \notin D
      /\ q # NULL /\ old # NULL
  BY DEF HeapInv, Free, HeapType
<1>2. /\ q < old /\ q \in Nat /\ old \in Nat /\ big \in Nat /\ m \in Nat
      /\ m \in E \cup {NULL} /\ m # q
  <2>2. old = Stop(h, q) /\ (m # NULL => m = Stop(h, old) /\ m \in D)
    BY <1>1 DEF Tiled
  <2>3. /\ q \in Nat /\ old \in Nat /\ m \in Nat /\ h.hdr[q].size \in Nat /\ h.hdr[old].size \in Nat
        /\ HeaderSize \in Nat /\ HeaderSize > 0
        /\ q + HeaderSize <= Stop(h, q) /\ old + HeaderSize <= Stop(h, old)
        /\ Stop(h, q) \in Nat /\ Stop(h, old) \in Nat
    BY <1>1, Numbers
  <2>4. q < old /\ (m # NULL => old < m)
    BY <2>2, <2>3
  <2>5. m # q
    BY <1>1, <2>3, <2>4
  <2> QED
    BY <2>2, <2>3, <2>4, <2>5
<1>3. /\ HeapType(u) /\ SameChain(h, u) /\ Listed(u, T)
      /\ \A b \in D \ S :
           u.hdr[b].next_free = h.hdr[b].next_free /\ u.hdr[b].prev_free = h.hdr[b].prev_free
  <2>1. old # q
    BY <1>2
  <2> HIDE DEF u
  <2> QED
    BY <2>1, Unlisted DEF u
<1> HIDE DEF u
<1>4. /\ DOMAIN u.hdr = D /\ T \subseteq D /\ old \in T
      /\ n \in T \cup {NULL} /\ p \in T \cup {NULL} /\ NULL \notin T
      /\ NextFree(u, old) = n /\ PrevFree(u, old) = p /\ n \in Nat /\ p \in Nat
      /\ n # q /\ p # q /\ n # old /\ p # old
  <2>1. DOMAIN u.hdr = D /\ T \subseteq D /\ old \in T
    BY <1>1, <1>2, <1>3 DEF SameChain
  <2>2. /\ n \in T \cup {NULL} /\ p \in T \cup {NULL} /\ NULL \notin T
        /\ NextFree(u, old) = n /\ PrevFree(u, old) = p
    BY <1>3, <2>1, Neighbours
  <2>3. n \in Nat /\ p \in Nat
    BY <1>3, <2>1, Numbers
  <2>4. n # old /\ p # old
    <3>1. PICK most, rank : Ranked(u, T, most, rank)
      BY <1>3 DEF Listed
    <3>2. \A b \in T : rank[b] \in Nat /\ (NextFree(u, b) # NULL => rank[NextFree(u, b)] < rank[b])
      BY <3>1 DEF Ranked
    <3>3. NextFree(u, PrevFree(u, old)) = old
      BY <1>3, <2>1 DEF Listed, Linked
    <3> QED
      BY <1>1, <2>1, <2>2, <3>2, <3>3
  <2> QED
    BY <1>1, <2>1, <2>2, <2>3, <2>4
<1>5. g = Without(k3, old)
  <2>1. /\ u.hdr[q].size = h.hdr[q].size /\ u.hdr[old].size = h.hdr[old].size
        /\ u.hdr[old].next = m
    BY <1>1, <1>3 DEF SameChain
  <2>2. k1 = [u EXCEPT !.hdr[q].size = @ + HeaderSize + u.hdr[old].size,
                       !.hdr[q].next = u.hdr[old].next,
                       !.hdr[q].prev_free = u.hdr[old].prev_free,
                       !.hdr[q].next_free = u.hdr[old].next_free]
    BY <2>1
  <2> QED
    BY <2>1, <2>2 DEF MergeAfter, u
<1>6. /\ e \in Headers /\ e.size = big /\ e.next = m /\ e.alloc = h.hdr[q].alloc
      /\ e.prev = h.hdr[q].prev /\ e.prev_free = p /\ e.next_free = n
  <2>1. u.hdr[q] \in Headers /\ u.hdr[q].alloc = h.hdr[q].alloc /\ u.hdr[q].prev = h.hdr[q].prev
    BY <1>1, <1>3, <1>4, Numbers DEF SameChain
  <2> HIDE DEF m, big, n, p
  <2> QED
    BY <1>2, <1>4, <2>1 DEF Headers
<1> HIDE DEF e, m, big, n, p, k1, k2, k3
<1>7. /\ HeapType(k1) /\ DOMAIN k1.hdr = D
      /\ k1.len = u.len /\ k1.first = u.first /\ k1.first_free = u.first_free
      /\ k1.hdr[q] = e /\ \A b \in D : b # q => k1.hdr[b] = u.hdr[b]
  <2>1. q \in DOMAIN u.hdr
    BY <1>1, <1>4
  <2> QED
    BY <1>3, <1>4, <1>6, <2>1, NewHeader DEF k1
<1>8. BothSet(k1, k2, p, q, n, q)
  <2>1. p \in DOMAIN k1.hdr \cup {NULL} /\ n \in DOMAIN k1.hdr \cup {NULL}
    BY <1>4, <1>7
  <2> QED
    BY <1>2, <1>7, <2>1, BothLinks DEF k2
<1>9. PrevSet(k2, k3, m, q)
  <2>1. HeapType(k2) /\ m \in DOMAIN k2.hdr \cup {NULL}
    BY <1>2, <1>7, <1>8 DEF BothSet
  <2> QED
    BY <1>2, <2>1, SetPrev DEF k3
<1>10. /\ HeapType(g) /\ DOMAIN g.hdr = E /\ g.len = k3.len /\ g.first = k3.first
       /\ g.first_free = k3.first_free /\ DOMAIN k3.hdr = D /\ DOMAIN k2.hdr = D
       /\ \A b \in E : g.hdr[b] = k3.hdr[b]
  <2>1. HeapType(k3) /\ DOMAIN k3.hdr = D /\ DOMAIN k2.hdr = D
    BY <1>7, <1>8, <1>9 DEF BothSet, PrevSet
  <2> QED
    BY <1>5, <2>1, LessOne
<1>11. /\ g.len = h.len /\ g.first = h.first
       /\ \A b \in E :
            /\ g.hdr[b].size = IF b = q THEN big ELSE h.hdr[b].size
            /\ g.hdr[b].next = IF b = q THEN m ELSE h.hdr[b].next
            /\ g.hdr[b].prev = IF b = m THEN q ELSE h.hdr[b].prev
            /\ g.hdr[b].alloc = h.hdr[b].alloc
  <2>1. g.len = h.len /\ g.first = h.first
    BY <1>3, <1>7, <1>8, <1>9, <1>10 DEF SameChain, BothSet, PrevSet
  <2>2. ASSUME NEW b \in E
        PROVE  /\ g.hdr[b].size = IF b = q THEN big ELSE h.hdr[b].size
               /\ g.hdr[b].next = IF b = q THEN m ELSE h.hdr[b].next
               /\ g.hdr[b].prev = IF b = m THEN q ELSE h.hdr[b].prev
               /\ g.hdr[b].alloc = h.hdr[b].alloc
    <3>1. /\ g.hdr[b].size = k2.hdr[b].size /\ g.hdr[b].alloc = k2.hdr[b].alloc
          /\ g.hdr[b].next = k2.hdr[b].next
          /\ g.hdr[b].prev = IF b = m THEN q ELSE k2.hdr[b].prev
      BY <1>9, <1>10 DEF PrevSet
    <3>2. /\ k2.hdr[b].size = k1.hdr[b].size /\ k2.hdr[b].alloc = k1.hdr[b].alloc
          /\ k2.hdr[b].next = k1.hdr[b].next /\ k2.hdr[b].prev = k1.hdr[b].prev
      BY <1>7, <1>8 DEF BothSet, SameChain
    <3>3. k1.hdr[b] = IF b = q THEN e ELSE u.hdr[b]
      BY <1>7
    <3>4. /\ u.hdr[b].size = h.hdr[b].size /\ u.hdr[b].alloc = h.hdr[b].alloc
          /\ u.hdr[b].next = h.hdr[b].next /\ u.hdr[b].prev = h.hdr[b].prev
      BY <1>3 DEF SameChain
    <3> QED
      BY <1>6, <3>1, <3>2, <3>3, <3>4
  <2> QED
    BY <2>1, <2>2
<1>12. Tiled(g)
  <2>1. Joins(h, g, q, old)
    BY <1>10, <1>11 DEF Joins, m, big
  <2> QED
    BY <1>1, <2>1, JoinedTiles
<1>13. Free(g) = S \ {old} /\ Used(g) = Used(h)
  <2>1. h.hdr[old].alloc = 0
    BY DEF Free
  <2> QED
    BY <1>10, <1>11, <2>1 DEF Free, Used
<1>14. /\ \A b \in E \cup {NULL} :
            NextFree(g, b) = IF b = q THEN n ELSE IF b = p THEN q ELSE NextFree(u, b)
       /\ \A b \in E :
            PrevFree(g, b) = IF b = q THEN p ELSE IF b = n THEN q ELSE PrevFree(u, b)
  <2>1. \A b \in E \cup {NULL} : NextFree(g, b) = NextFree(k2, b)
    BY <1>9, <1>10 DEF NextFree, PrevSet, SameLinks
  <2>2. \A b \in E : PrevFree(g, b) = PrevFree(k2, b)
    BY <1>9, <1>10 DEF PrevFree, PrevSet, SameLinks
  <2>3. /\ \A b \in D \cup {NULL} : NextFree(k2, b) = IF b = p THEN q ELSE NextFree(k1, b)
        /\ \A b \in D : PrevFree(k2, b) = IF b = n THEN q ELSE PrevFree(k1, b)
    BY <1>7, <1>8 DEF BothSet
  <2>4. /\ \A b \in D \cup {NULL} : NextFree(k1, b) = IF b = q THEN n ELSE NextFree(u, b)
        /\ \A b \in D : PrevFree(k1, b) = IF b = q THEN p ELSE PrevFree(u, b)
    BY <1>1, <1>6, <1>7 DEF NextFree, PrevFree
  <2> QED
    BY <1>4, <2>1, <2>2, <2>3, <2>4
<1>15. Listed(g, S \ {old})
  <2>1. (T \ {old}) \cup {q} = S \ {old} /\ q \notin T
    BY <1>2
  <2>2. /\ \A b \in (T \ {old}) \cup {q, NULL} :
             NextFree(g, b) = IF b = q THEN NextFree(u, old)
                              ELSE IF b = PrevFree(u, old) THEN q ELSE NextFree(u, b)
        /\ \A b \in (T \ {old}) \cup {q} :
             PrevFree(g, b) = IF b = q THEN PrevFree(u, old)
                              ELSE IF b = NextFree(u, old) THEN q ELSE PrevFree(u, b)
    BY <1>1, <1>2, <1>4, <1>14
  <2>3. Listed(g, (T \ {old}) \cup {q})
    <3> HIDE DEF T
    <3> QED
      BY <1>1, <1>3, <1>4, <2>1, <2>2, Replaced
  <2> QED
    BY <2>1, <2>3
<1>16. HeapInv(g, {})
  <2>1. Free(g) \ {} = S \ {old}
    BY <1>13
  <2>2. \A b \in E : g.hdr[b].alloc \in {0, 1}
    BY <1>11 DEF HeapInv
  <2>3. ASSUME NEW b \in E, g.hdr[b].alloc = 1
        PROVE  g.hdr[b].next_free = NULL /\ g.hdr[b].prev_free = NULL
    <3>1. h.hdr[b].alloc = 1 /\ b \in D \ S /\ b # NULL
      BY <1>1, <1>11, <2>3 DEF Free
    <3>2. b # q /\ b # n /\ b # p
      BY <1>4, <3>1
    <3>3. NextFree(g, b) = NextFree(u, b) /\ PrevFree(g, b) = PrevFree(u, b)
      BY <1>14, <3>2
    <3>4. h.hdr[b].next_free = NULL /\ h.hdr[b].prev_free = NULL
      BY <3>1 DEF HeapInv
    <3> QED
      BY <1>3, <3>1, <3>3, <3>4 DEF NextFree, PrevFree
  <2> QED
    BY <1>10, <1>12, <1>15, <2>1, <2>2, <2>3 DEF HeapInv
<1>17. Compact(g, {})
  <2> SUFFICES ASSUME NEW b \in Free(g), g.hdr[b].next \in Free(g) PROVE FALSE
    BY DEF Compact
  <2>1. b \in S /\ b # old /\ b \in E
    BY <1>1, <1>13
  <2>2. CASE b = q
    <3>1. m \in S /\ h.hdr[old].next = m
      BY <1>11, <1>13, <2>1, <2>2 DEF m
    <3> QED
      BY <1>2, <3>1 DEF Compact
  <2>3. CASE b # q
    <3>1. h.hdr[b].next \in S
      BY <1>11, <1>13, <2>1, <2>3
    <3> QED
      BY <2>1, <2>3, <3>1 DEF Compact
  <2> QED
    BY <2>2, <2>3
<1>18. SameUsed(h, g)
  <2>1. \A b \in Used(h) : b \in E /\ b # q
    BY DEF Used, Free
  <2> QED
    BY <1>11, <1>13, <2>1 DEF SameUsed
<1> QED
  BY <1>16, <1>17, <1>18

\* Prepend: p becomes the first of the list.
LEMMA Prepended ==
  ASSUME NEW h, NEW p, HeapInv(h, {p}), Compact(h, {}), NEW g, g = Prepend(h, p)
  PROVE  HeapInv(g, {}) /\ Compact(g, {}) /\ SameUsed(h, g)
<1> DEFINE D == DOMAIN h.hdr
           S == Free(h)
           n == h.first_free
           k == SetHdr(h, n, "prev_free", p)
           e == [k.hdr[p] EXCEPT !.next_free = n]
           k1 == [k EXCEPT !.hdr = [k.hdr EXCEPT ![p] = e]]
<1>1. /\ HeapType(h) /\ Tiled(h) /\ Listed(h, S \ {p}) /\ p \in S /\ S \subseteq D /\ p \in D
      /\ NULL \notin D /\ p # NULL /\ p \in Nat /\ n \in Nat
  <2>1. /\ HeapType(h) /\ Tiled(h) /\ Listed(h, S \ {p}) /\ p \in S /\ S \subseteq D /\ p \in D
        /\ NULL \notin D /\ p # NULL
    BY DEF HeapInv, Free, HeapType
  <2> QED
    BY <2>1, Numbers
<1>2. n \in (S \ {p}) \cup {NULL} /\ NextFree(h, NULL) = n
  BY <1>1, Neighbours
<1>3. PrevFreeSet(h, k, n, p)
  <2>1. n \in D \cup {NULL}
    BY <1>1, <1>2
  <2> HIDE DEF n
  <2> QED
    BY <1>1, <2>1, SetPrevFree
<1> HIDE DEF n, k
<1>4. HeapType(k) /\ SameChain(h, k) /\ DOMAIN k.hdr = D
  BY <1>3 DEF PrevFreeSet, SameChain
<1>5. /\ e \in Headers /\ e.next_free = n /\ e.size = k.hdr[p].size /\ e.alloc = k.hdr[p].alloc
      /\ e.next = k.hdr[p].next /\ e.prev = k.hdr[p].prev /\ e.prev_free = k.hdr[p].prev_free
  <2>1. k.hdr[p] \in Headers
    BY <1>1, <1>4, Numbers
  <2> QED
    BY <1>1, <2>1 DEF Headers
<1>6. g = [k1 EXCEPT !.first_free = p]
  BY DEF Prepend, k, n
<1> HIDE DEF e, k1
<1>7. /\ HeapType(k1) /\ DOMAIN k1.hdr = D
      /\ k1.len = k.len /\ k1.first = k.first
      /\ k1.hdr[p] = e /\ \A b \in D : b # p => k1.hdr[b] = k.hdr[b]
  BY <1>1, <1>4, <1>5, NewHeader DEF k1
<1>8. HeapType(g) /\ g.hdr = k1.hdr /\ g.len = k1.len /\ g.first = k1.first /\ g.first_free = p
  BY <1>1, <1>6, <1>7 DEF HeapType
<1>9. SameChain(h, g) /\ DOMAIN g.hdr = D
  BY <1>4, <1>5, <1>7, <1>8 DEF SameChain
<1>10. /\ \A b \in D \cup {NULL} :
            NextFree(g, b) = IF b = NULL THEN p ELSE IF b = p THEN n ELSE NextFree(h, b)
       /\ \A b \in D : PrevFree(g, b) = IF b = n THEN p ELSE PrevFree(h, b)
  BY <1>1, <1>2, <1>3, <1>5, <1>7, <1>8 DEF NextFree, PrevFree, PrevFreeSet
<1>11. Free(g) = S /\ Used(g) = Used(h)
  BY <1>9 DEF Free, Used, SameChain
<1>12. Listed(g, S)
  <2>1. PrevFree(h, p) = NULL
    BY <1>1 DEF HeapInv, PrevFree
  <2>2. (S \ {p}) \cup {p} = S /\ p \notin S \ {p}
    BY <1>1
  <2>3. /\ \A b \in (S \ {p}) \cup {p, NULL} :
             NextFree(g, b) = IF b = NULL THEN p
                              ELSE IF b = p THEN NextFree(h, NULL) ELSE NextFree(h, b)
        /\ \A b \in (S \ {p}) \cup {p} :
             PrevFree(g, b) = IF b = p THEN NULL
                              ELSE IF b = NextFree(h, NULL) THEN p ELSE PrevFree(h, b)
    BY <1>1, <1>2, <1>10, <2>1
  <2>4. Listed(g, (S \ {p}) \cup {p})
    BY <1>1, <2>2, <2>3, PutFirst
  <2> QED
    BY <2>2, <2>4
<1>13. HeapInv(g, {})
  <2>1. Free(g) \ {} = S
    BY <1>11
  <2>2. \A b \in D : g.hdr[b].alloc \in {0, 1}
    BY <1>9 DEF HeapInv, SameChain
  <2>3. ASSUME NEW b \in D, g.hdr[b].alloc = 1
        PROVE  g.hdr[b].next_free = NULL /\ g.hdr[b].prev_free = NULL
    <3>1. h.hdr[b].alloc = 1 /\ b \notin S /\ b # NULL
      BY <1>1, <1>9, <2>3 DEF Free, SameChain
    <3>2. b # p /\ b # n
      BY <1>1, <1>2, <3>1
    <3>3. NextFree(g, b) = NextFree(h, b) /\ PrevFree(g, b) = PrevFree(h, b)
      BY <1>10, <3>1, <3>2
    <3>4. h.hdr[b].next_free = NULL /\ h.hdr[b].prev_free = NULL
      BY <3>1 DEF HeapInv
    <3> QED
      BY <3>1, <3>3, <3>4 DEF NextFree, PrevFree
  <2>4. Tiled(g)
    BY <1>1, <1>9, SameTiles
  <2> QED
    BY <1>8, <1>9, <1>12, <2>1, <2>2, <2>3, <2>4 DEF HeapInv
<1>14. Compact(g, {})
  BY <1>1, <1>9, <1>11 DEF Compact, SameChain
<1>15. SameUsed(h, g)
  BY <1>9, <1>11 DEF SameUsed, SameChain, Used
<1> QED
  BY <1>13, <1>14, <1>15

\* free clears alloc first: p is free then, and in no list yet.
Cleared(h, p) == [h EXCEPT !.hdr[p].alloc = 0]
LEMMA Released ==
  ASSUME NEW h, HeapInv(h, {}), Compact(h, {}), NEW p \in Used(h),
         NEW g, g = Cleared(h, p)
  PROVE  /\ HeapInv(g, {p}) /\ Compact(g, {p, g.hdr[p].prev}) /\ g.len = h.len
         /\ Used(g) = Used(h) \ {p}
         /\ \A b \in DOMAIN h.hdr : g.hdr[b].size = h.hdr[b].size
<1> DEFINE D == DOMAIN h.hdr
           S == Free(h)
           zero == 0
           e == [h.hdr[p] EXCEPT !.alloc = zero]
<1>1. /\ HeapType(h) /\ Tiled(h) /\ Listed(h, S) /\ p \in D /\ h.hdr[p].alloc = 1 /\ S \subseteq D
      /\ h.hdr[p].next_free = NULL /\ h.hdr[p].prev_free = NULL
  BY DEF HeapInv, Used, Free
<1>2. h.hdr[p] \in Headers
  BY <1>1, Numbers
<1>3. /\ e \in Headers /\ e.alloc = zero /\ e.size = h.hdr[p].size
      /\ e.prev = h.hdr[p].prev /\ e.next = h.hdr[p].next
      /\ e.prev_free = h.hdr[p].prev_free /\ e.next_free = h.hdr[p].next_free
  BY <1>2 DEF Headers
<1>4. g = [h EXCEPT !.hdr = [h.hdr EXCEPT ![p] = e]]
  BY DEF Cleared
<1> HIDE DEF e
<1>5. /\ HeapType(g) /\ DOMAIN g.hdr = D
      /\ g.len = h.len /\ g.first = h.first /\ g.first_free = h.first_free
      /\ g.hdr[p] = e /\ \A b \in D : b # p => g.hdr[b] = h.hdr[b]
  BY <1>1, <1>3, <1>4, NewHeader
<1>6. ASSUME NEW b \in D
      PROVE  /\ g.hdr[b].size = h.hdr[b].size
             /\ g.hdr[b].prev = h.hdr[b].prev /\ g.hdr[b].next = h.hdr[b].next
             /\ g.hdr[b].prev_free = h.hdr[b].prev_free /\ g.hdr[b].next_free = h.hdr[b].next_free
             /\ g.hdr[b].alloc = IF b = p THEN 0 ELSE h.hdr[b].alloc
  BY <1>3, <1>5
<1>7. Tiled(g)
  <2>1. \A b \in D : Stop(g, b) = Stop(h, b)
    BY <1>6 DEF Stop
  <2> QED
    BY <1>1, <1>5, <1>6, <2>1 DEF Tiled
<1>8. Free(g) = S \cup {p} /\ Used(g) = Used(h) \ {p} /\ p \notin S
  <2>1. p \notin S
    BY <1>1 DEF Free
  <2>2. ASSUME NEW b \in D PROVE (b \in Free(g) <=> b \in S \/ b = p) /\ (b \in Used(g) <=> b \in Used(h) /\ b # p)
    BY <1>5, <1>6 DEF Free, Used
  <2>3. Free(g) \subseteq D /\ Used(g) \subseteq D /\ Used(h) \subseteq D
    BY <1>5 DEF Free, Used
  <2> QED
    BY <1>1, <2>1, <2>2, <2>3
<1>9. Listed(g, S)
  <2>1. \A b \in S \cup {NULL} : NextFree(g, b) = NextFree(h, b)
    BY <1>1, <1>5, <1>6 DEF NextFree
  <2>2. \A b \in S : PrevFree(g, b) = PrevFree(h, b)
    BY <1>1, <1>6 DEF PrevFree
  <2> QED
    BY <1>1, <2>1, <2>2, SameList
<1>10. HeapInv(g, {p})
  <2>1. (S \cup {p}) \ {p} = S
    BY <1>8
  <2>2. \A b \in D : g.hdr[b].alloc \in {0, 1}
    BY <1>6 DEF HeapInv
  <2>3. \A b \in D : b = p \/ g.hdr[b].alloc = 1 => g.hdr[b].next_free = NULL /\ g.hdr[b].prev_free = NULL
    BY <1>1, <1>6 DEF HeapInv
  <2> QED
    BY <1>5, <1>7, <1>8, <1>9, <2>1, <2>2, <2>3 DEF HeapInv
<1>11. Compact(g, {p, g.hdr[p].prev})
  <2> SUFFICES ASSUME NEW b \in Free(g), g.hdr[b].next \in Free(g), b # p
               PROVE  b = g.hdr[p].prev
    BY DEF Compact
  <2>1. b \in S /\ b \in D /\ g.hdr[b].next = h.hdr[b].next
    BY <1>1, <1>6, <1>8
  <2>2. h.hdr[b].next \notin S
    BY <2>1 DEF Compact
  <2>3. h.hdr[b].next = p
    BY <1>8, <2>1, <2>2
  <2>4. p # NULL
    BY <1>1, Numbers
  <2>5. h.hdr[p].prev = b
    BY <1>1, <2>1, <2>3, <2>4 DEF Tiled
  <2> QED
    BY <1>1, <1>6, <2>5
<1> QED
  BY <1>5, <1>6, <1>8, <1>10, <1>11

\* The rest of free: p is merged with its neighbours that are free, or listed.
LEMMA RegroupedWell ==
  ASSUME NEW h, NEW p, HeapInv(h, {p}), Compact(h, {p, h.hdr[p].prev}),
         NEW g, g = Regrouped(h, p)
  PROVE  HeapInv(g, {}) /\ Compact(g, {}) /\ SameUsed(h, g)
<1> DEFINE q == h.hdr[p].prev
           k == MergeBefore(h, p)
<1>1. HeapType(h) /\ Tiled(h) /\ p \in DOMAIN h.hdr /\ p \in Free(h)
  BY DEF HeapInv, Free
<1>2. q \in DOMAIN h.hdr \cup {NULL} /\ h.hdr[p].next \in DOMAIN h.hdr \cup {NULL}
  BY <1>1 DEF Tiled
<1>3. (IsFree(h, q) <=> q \in Free(h)) /\ (IsFree(h, h.hdr[p].next) <=> h.hdr[p].next \in Free(h))
  BY <1>1, <1>2, FreeOnes
<1>4. CASE q \in Free(h)
  <2>1. HeapInv(k, {}) /\ Compact(k, {q}) /\ SameUsed(h, k) /\ q \in Free(k)
    BY <1>4, MergedBefore
  <2>2. HeapType(k) /\ Tiled(k) /\ q \in DOMAIN k.hdr
    BY <2>1 DEF HeapInv, Free
  <2>3. k.hdr[q].next \in DOMAIN k.hdr \cup {NULL}
    BY <2>2 DEF Tiled
  <2>4. IsFree(k, k.hdr[q].next) <=> k.hdr[q].next \in Free(k)
    BY <2>2, <2>3, FreeOnes
  <2>0. IsFree(h, q)
    BY <1>3, <1>4
  <2>5. g = IF IsFree(k, k.hdr[q].next) THEN MergeAfter(k, q) ELSE k
    BY <2>0 DEF Regrouped
  <2> HIDE DEF k, q
  <2>6. CASE IsFree(k, k.hdr[q].next)
    <3>1. g = MergeAfter(k, q) /\ k.hdr[q].next \in Free(k)
      BY <2>4, <2>5, <2>6
    <3>2. HeapInv(g, {}) /\ Compact(g, {}) /\ SameUsed(k, g)
      BY <2>1, <3>1, MergedAfter
    <3> QED
      BY <2>1, <3>2 DEF SameUsed
  <2>7. CASE ~IsFree(k, k.hdr[q].next)
    <3>1. g = k /\ Compact(k, {})
      BY <2>1, <2>4, <2>5, <2>7 DEF Compact
    <3> QED
      BY <2>1, <3>1
  <2> QED
    BY <2>6, <2>7
<1>5. CASE q \notin Free(h)
  <2>1. g = IF IsFree(h, h.hdr[p].next) THEN MergeAfter(h, p) ELSE Prepend(h, p)
    BY <1>3, <1>5 DEF Regrouped
  <2>2. Compact(h, {p})
    BY <1>5 DEF Compact
  <2>3. CASE IsFree(h, h.hdr[p].next)
    BY <1>1, <1>3, <2>1, <2>2, <2>3, MergedAfter
  <2>4. CASE ~IsFree(h, h.hdr[p].next)
    <3>1. Compact(h, {})
      BY <1>3, <2>2, <2>4 DEF Compact
    <3> QED
      BY <2>1, <2>4, <3>1, Prepended
  <2> QED
    BY <2>3, <2>4
<1> QED
  BY <1>4, <1>5

-----------------------------------------------------------------------------
(* BufferAlloc: what calloc finds.                                         *)

\* The free list of a heap that is in order.
LEMMA FreeListOf ==
  ASSUME NEW h, HeapInv(h, {})
  PROVE  \E n \in Nat :
           /\ FreeBlocks(h) \in [1 .. n -> Free(h)]
           /\ \A b \in Free(h) : \E i \in 1 .. n : FreeBlocks(h)[i] = b
           /\ \A i, j \in 1 .. n : i # j => FreeBlocks(h)[i] # FreeBlocks(h)[j]
           /\ \A i \in 1 .. n : PrevFree(h, FreeBlocks(h)[i])
                                  = IF i = 1 THEN NULL ELSE FreeBlocks(h)[i - 1]
<1>1. HeapType(h) /\ Tiled(h) /\ Listed(h, Free(h)) /\ h.len \in Nat
  <2>1. Free(h) \ {} = Free(h)
    OBVIOUS
  <2> QED
    BY <2>1, Numbers DEF HeapInv
<1>2. Free(h) \in SUBSET (1 .. h.len)
  <2> SUFFICES ASSUME NEW b \in Free(h) PROVE b \in 1 .. h.len
    OBVIOUS
  <2>1. b \in DOMAIN h.hdr /\ Stop(h, b) <= h.len + 1
    BY <1>1 DEF Free, Tiled
  <2>2. b \in Nat /\ b # 0 /\ HeaderSize \in Nat /\ HeaderSize > 0 /\ Stop(h, b) \in Nat
        /\ b + HeaderSize <= Stop(h, b)
    BY <1>1, <2>1, Numbers DEF NULL
  <2> QED
    BY <1>1, <2>1, <2>2
<1> QED
  BY <1>1, <1>2, FreeBlocksAre

LEMMA FoundBlock ==
  ASSUME NEW h, HeapInv(h, {}), NEW len \in Nat, FindBlock(h, len) # NULL
  PROVE  FindBlock(h, len) \in Free(h) /\ h.hdr[FindBlock(h, len)].size >= len
<1> DEFINE free == FreeBlocks(h)
           fits == {i \in DOMAIN free : h.hdr[free[i]].size >= len}
<1>1. PICK n \in Nat : free \in [1 .. n -> Free(h)]
  BY FreeListOf
<1>2. DOMAIN free = 1 .. n
  BY <1>1
<1>3. fits # {} /\ FindBlock(h, len) = free[CHOOSE i \in fits : \A j \in fits : i <= j]
  BY DEF FindBlock
<1>4. fits \in SUBSET Nat
  BY <1>2
<1>5. \E i \in fits : \A j \in fits : i <= j
  <2> HIDE DEF fits
  <2> QED
    BY <1>3, <1>4, LeastNumber
<1>6. PICK i \in fits : FindBlock(h, len) = free[i]
  <2> HIDE DEF fits, free
  <2> QED
    BY <1>3, <1>5
<1> QED
  BY <1>1, <1>2, <1>6

\* The length is rounded up to a multiple of the alignment, and nothing overflowed.
LEMMA RoundedUp ==
  ASSUME NEW n \in Nat, NEW size \in Nat, n < SizeModulus, size < SizeModulus,
         LengthAllowed(n, size)
  PROVE  AlignUp(n, size) \in Nat /\ n * size \in Nat /\ n * size <= AlignUp(n, size)
<1> DEFINE len == (n * size) % SizeModulus
           over == len % AlignMultiple
<1>1. /\ SizeModulus \in Nat /\ AlignMultiple \in Nat /\ AlignMultiple > 0
      /\ AlignMultiple < SizeModulus
  BY BufferAssumption
<1>2. n > 0 /\ size > 0 /\ len \div n = size /\ len <= SizeModulus - AlignMultiple
  BY DEF LengthAllowed
<1>3. n * size \in Nat
  OBVIOUS
<1>4. len \in Nat /\ len < SizeModulus
  BY <1>1, <1>3
<1>5. AlignUp(n, size) = IF over = 0 THEN len ELSE (len - over + AlignMultiple) % SizeModulus
  BY DEF AlignUp
<1> HIDE DEF len
<1>6. over \in Nat /\ over < AlignMultiple
  BY <1>1, <1>4
<1>7. n * size <= len
  <2>1. n * (len \div n) <= len
    BY <1>2, <1>4
  <2> QED
    BY <1>2, <2>1
<1>8. CASE over = 0
  BY <1>3, <1>4, <1>5, <1>7, <1>8
<1> HIDE DEF over
<1>9. CASE over # 0
  <2> DEFINE up == len - over + AlignMultiple
  <2>1. up \in Nat /\ len <= up /\ up < SizeModulus
    BY <1>1, <1>2, <1>4, <1>6, <1>9
  <2>2. up % SizeModulus = up
    <3> HIDE DEF up
    <3> QED
      BY <1>1, <2>1
  <2>3. AlignUp(n, size) = up
    BY <1>5, <1>9, <2>2
  <2> HIDE DEF up
  <2> QED
    BY <1>3, <1>4, <1>7, <2>1, <2>3
<1> QED
  BY <1>8, <1>9

-----------------------------------------------------------------------------
(* BufferAlloc: the allocator's invariant.                                 *)

\* The program's pointers are the places after the headers of the blocks in use,
\* with room for what it asked for.
Owned(h, live) ==
    /\ live \in [DOMAIN live -> Nat]
    /\ DOMAIN live = {b + HeaderSize : b \in Used(h)}
    /\ \A b \in Used(h) : live[b + HeaderSize] <= h.hdr[b].size

BufferInv == HeapInv(bheap, {}) /\ Compact(bheap, {}) /\ Owned(bheap, blive)

\* A new heap is one block that is free.
LEMMA BufferStarts == BufferInit => BufferInv
<1> SUFFICES ASSUME BufferInit PROVE BufferInv
  OBVIOUS
<1>1. PICK len \in BufferLengths : bheap = mbedtls_memory_buffer_alloc_init(len)
  BY DEF BufferInit
<1>2. len \in Nat /\ HeaderSize \in Nat /\ HeaderSize > 0 /\ len - HeaderSize \in Nat
  BY BufferAssumption
<1> DEFINE h == bheap
           zero == 0
           one == 1
           e == Header(len - HeaderSize, zero, zero, zero, zero, zero)
           H == [b \in {one} |-> e]
<1>3. h = [len |-> len, first |-> one, first_free |-> one, hdr |-> H]
  BY <1>1 DEF mbedtls_memory_buffer_alloc_init, NULL
<1>4. /\ e \in Headers /\ e.size = len - HeaderSize /\ e.alloc = zero /\ e.prev = zero
      /\ e.next = zero /\ e.prev_free = zero /\ e.next_free = zero
  BY <1>2 DEF Header, Headers
<1> HIDE DEF e
<1>5. H \in [{one} -> Headers] /\ DOMAIN H = {one} /\ H[one] = e
  BY <1>4
<1> HIDE DEF H
<1>6. /\ h \in [len : Nat, first : Nat, first_free : Nat, hdr : [{one} -> Headers]]
      /\ h.hdr = H /\ h.len = len /\ h.first = one /\ h.first_free = one
  BY <1>2, <1>3, <1>5
<1> HIDE DEF h
<1>7. HeapType(h) /\ DOMAIN h.hdr = {1} /\ h.hdr[1] = e
  BY <1>5, <1>6 DEF HeapType, NULL
<1>8. Stop(h, 1) = len + 1
  BY <1>2, <1>4, <1>7 DEF Stop
<1>9. Tiled(h)
  BY <1>2, <1>4, <1>6, <1>7, <1>8 DEF Tiled, NULL
<1>10. Free(h) = {1} /\ Used(h) = {}
  BY <1>4, <1>7 DEF Free, Used
<1>11. Listed(h, {1})
  <2>1. Linked(h, {1}) /\ NULL \notin {1}
    BY <1>4, <1>6, <1>7 DEF Linked, NextFree, PrevFree, NULL
  <2> DEFINE rank == [b \in {1} |-> zero]
  <2>2. Ranked(h, {1}, zero, rank)
    BY <1>4, <1>7 DEF Ranked, NextFree, NULL
  <2> QED
    BY <2>1, <2>2 DEF Listed
<1>12. HeapInv(h, {}) /\ Compact(h, {})
  <2>1. Free(h) \ {} = {1}
    BY <1>10
  <2>2. HeapInv(h, {})
    BY <1>4, <1>7, <1>9, <1>11, <2>1 DEF HeapInv, NULL
  <2> QED
    BY <1>4, <1>7, <1>10, <2>2 DEF Compact
<1>13. Owned(h, blive)
  <2>1. blive = <<>> /\ DOMAIN blive = {} /\ blive \in [{} -> Nat]
    BY DEF BufferInit
  <2> QED
    BY <1>10, <2>1 DEF Owned
<1> QED
  BY <1>12, <1>13 DEF BufferInv, h

LEMMA BufferCallocs ==
  ASSUME BufferInv, NEW n \in 0 .. SizeModulus - 1, NEW size \in 0 .. SizeModulus - 1,
         buffer_alloc_calloc(n, size)
  PROVE  BufferInv'
<1> DEFINE len == AlignUp(n, size)
           h == bheap
           c == FindBlock(h, len)
           g == bheap'
<1>1. n \in Nat /\ size \in Nat /\ n < SizeModulus /\ size < SizeModulus
  BY BufferAssumption
<1>2. LengthAllowed(n, size) /\ c # NULL
      /\ g = (IF Splits(h, c, len) THEN Split(h, c, len) ELSE TakeWhole(h, c))
      /\ blive' = With(blive, c + HeaderSize, n * size)
  BY DEF buffer_alloc_calloc
<1>3. len \in Nat /\ n * size \in Nat /\ n * size <= len
  BY <1>1, <1>2, RoundedUp
<1>4. HeapInv(h, {}) /\ Compact(h, {}) /\ Owned(h, blive)
  BY DEF BufferInv
<1> DEFINE room == n * size
<1> HIDE DEF len, h, g, room
<1>5. c \in Free(h) /\ h.hdr[c].size >= len
  BY <1>2, <1>3, <1>4, FoundBlock
<1> HIDE DEF c
<1>6. /\ HeapInv(g, {}) /\ Compact(g, {}) /\ Used(g) = Used(h) \cup {c} /\ c \notin Used(h)
      /\ g.hdr[c].size >= len
      /\ \A b \in Used(h) : g.hdr[b].size = h.hdr[b].size
  <2>1. Used(h) \subseteq DOMAIN h.hdr /\ c \in DOMAIN h.hdr
    BY <1>5 DEF Used, Free
  <2>2. CASE Splits(h, c, len)
    <3>1. g = Split(h, c, len)
      BY <1>2, <2>2
    <3>2. /\ HeapInv(g, {}) /\ Compact(g, {}) /\ Used(g) = Used(h) \cup {c} /\ c \notin Used(h)
          /\ g.hdr[c].size = len
          /\ \A b \in DOMAIN h.hdr : b # c => g.hdr[b].size = h.hdr[b].size
      BY <1>3, <1>4, <1>5, <2>2, <3>1, CutOff
    <3> QED
      BY <1>3, <2>1, <3>2
  <2>3. CASE ~Splits(h, c, len)
    <3>1. g = TakeWhole(h, c)
      BY <1>2, <2>3
    <3>2. /\ HeapInv(g, {}) /\ Compact(g, {}) /\ Used(g) = Used(h) \cup {c} /\ c \notin Used(h)
          /\ \A b \in DOMAIN h.hdr : g.hdr[b].size = h.hdr[b].size
      BY <1>4, <1>5, <3>1, WholeTaken
    <3> QED
      BY <1>5, <2>1, <3>2
  <2> QED
    BY <2>2, <2>3
<1>7. /\ HeaderSize \in Nat /\ c \in Nat
      /\ \A b \in Used(h) : b \in Nat
      /\ g.hdr[c].size \in Nat
  <2>1. HeapType(h) /\ HeapType(g) /\ c \in DOMAIN h.hdr /\ c \in DOMAIN g.hdr
    BY <1>4, <1>5, <1>6 DEF HeapInv, Free, Used
  <2>2. Used(h) \subseteq DOMAIN h.hdr
    BY DEF Used
  <2> QED
    BY <2>1, <2>2, Numbers
<1>8. room \in Nat /\ room <= g.hdr[c].size
  BY <1>3, <1>6, <1>7 DEF room
<1> DEFINE new == c + HeaderSize
           live == blive'
<1>9. live = With(blive, new, room)
  BY <1>2 DEF room
<1>10. DOMAIN live = DOMAIN blive \cup {new} /\ live[new] = room
       /\ \A y \in DOMAIN blive : y # new => live[y] = blive[y]
  BY <1>9 DEF With
<1>11. live \in [DOMAIN blive \cup {new} -> Nat]
  BY <1>4, <1>8, <1>9 DEF Owned, With
<1> HIDE DEF live
<1>12. Owned(g, live)
  <2>1. live \in [DOMAIN live -> Nat]
    BY <1>10, <1>11
  <2>2. DOMAIN live = {b + HeaderSize : b \in Used(g)}
    BY <1>4, <1>6, <1>10 DEF Owned
  <2>3. ASSUME NEW b \in Used(g) PROVE live[b + HeaderSize] <= g.hdr[b].size
    <3>1. CASE b = c
      BY <1>8, <1>10, <3>1
    <3>2. CASE b # c
      <4>1. b \in Used(h) /\ b + HeaderSize \in DOMAIN blive /\ b + HeaderSize # new
        BY <1>4, <1>6, <1>7, <3>2 DEF Owned
      <4>2. blive[b + HeaderSize] <= h.hdr[b].size
        BY <1>4, <4>1 DEF Owned
      <4> QED
        BY <1>6, <1>10, <4>1, <4>2
    <3> QED
      BY <3>1, <3>2
  <2> QED
    BY <2>1, <2>2, <2>3 DEF Owned
<1> QED
  BY <1>6, <1>12 DEF BufferInv, g, live

LEMMA BufferFrees ==
  ASSUME BufferInv, NEW ptr \in DOMAIN blive, buffer_alloc_free(ptr)
  PROVE  BufferInv'
<1> DEFINE h == bheap
           g == bheap'
           live == blive'
<1>1. HeapInv(h, {}) /\ Compact(h, {}) /\ Owned(h, blive)
  BY DEF BufferInv
<1>2. PICK p \in Used(h) : ptr = p + HeaderSize
  BY <1>1 DEF Owned
<1>3. HeaderSize \in Nat /\ \A b \in Used(h) : b \in Nat
  <2>1. Used(h) \subseteq DOMAIN h.hdr /\ HeapType(h)
    BY <1>1 DEF Used, HeapInv
  <2> QED
    BY <2>1, Numbers
<1>4. ptr - HeaderSize = p
  BY <1>2, <1>3
<1> DEFINE k == Cleared(h, p)
<1>5. g = Regrouped(k, p) /\ live = Restrict(blive, DOMAIN blive \ {ptr})
  BY <1>4 DEF buffer_alloc_free, Cleared
<1> HIDE DEF h, g, live, k
<1>6. /\ HeapInv(k, {p}) /\ Compact(k, {p, k.hdr[p].prev}) /\ k.len = h.len
      /\ Used(k) = Used(h) \ {p}
      /\ \A b \in DOMAIN h.hdr : k.hdr[b].size = h.hdr[b].size
  BY <1>1, Released DEF k
<1>7. HeapInv(g, {}) /\ Compact(g, {}) /\ SameUsed(k, g)
  BY <1>5, <1>6, RegroupedWell
<1>8. Used(g) = Used(h) \ {p} /\ \A b \in Used(g) : g.hdr[b].size = h.hdr[b].size
  <2>1. Used(h) \subseteq DOMAIN h.hdr
    BY DEF Used
  <2> QED
    BY <1>6, <1>7, <2>1 DEF SameUsed
<1>9. DOMAIN live = DOMAIN blive \ {ptr} /\ \A y \in DOMAIN blive \ {ptr} : live[y] = blive[y]
  BY <1>5 DEF Restrict
<1>10. live \in [DOMAIN blive \ {ptr} -> Nat]
  BY <1>1, <1>5 DEF Owned, Restrict
<1>11. Owned(g, live)
  <2>1. DOMAIN live = {b + HeaderSize : b \in Used(g)}
    BY <1>1, <1>2, <1>3, <1>8, <1>9 DEF Owned
  <2>2. ASSUME NEW b \in Used(g) PROVE live[b + HeaderSize] <= g.hdr[b].size
    <3>1. b \in Used(h) /\ b + HeaderSize \in DOMAIN blive \ {ptr}
      BY <1>8, <1>9, <2>1
    <3> QED
      BY <1>1, <1>8, <1>9, <3>1 DEF Owned
  <2> QED
    BY <1>9, <1>10, <2>1, <2>2 DEF Owned
<1> QED
  BY <1>7, <1>11 DEF BufferInv, g, live

LEMMA BufferSteps == BufferInv /\ [BufferNext]_bufferVars => BufferInv'
<1> SUFFICES ASSUME BufferInv, [BufferNext]_bufferVars PROVE BufferInv'
  OBVIOUS
<1>1. ASSUME NEW args \in CallocArgs, buffer_alloc_calloc(args[1], args[2]) PROVE BufferInv'
  <2>1. args[1] \in 0 .. SizeModulus - 1 /\ args[2] \in 0 .. SizeModulus - 1
    BY BufferAssumption
  <2> QED
    BY <1>1, <2>1, BufferCallocs
<1>2. ASSUME NEW ptr \in DOMAIN blive, buffer_alloc_free(ptr) PROVE BufferInv'
  BY <1>2, BufferFrees
<1>3. CASE UNCHANGED bufferVars
  BY <1>3 DEF bufferVars, BufferInv
<1> QED
  BY <1>1, <1>2, <1>3 DEF BufferNext

\* Of a heap in which nothing is used there is one block left.
LEMMA OneBlock ==
  ASSUME NEW h, HeapInv(h, {}), Compact(h, {}), Used(h) = {}
  PROVE  h = mbedtls_memory_buffer_alloc_init(h.len)
<1> DEFINE D == DOMAIN h.hdr
           e == h.hdr[1]
<1>1. HeapType(h) /\ Tiled(h) /\ Listed(h, Free(h)) /\ Free(h) = D
  <2>1. Free(h) \ {} = Free(h)
    OBVIOUS
  <2>2. Free(h) = D
    BY DEF HeapInv, Free, Used
  <2> QED
    BY <2>1, <2>2 DEF HeapInv
<1>2. 1 \in D /\ e.next = NULL /\ Stop(h, 1) = h.len + 1 /\ h.first = 1 /\ e.prev = NULL
      /\ e.alloc = 0
  <2>1. 1 \in D /\ h.first = 1 /\ e.prev = NULL
    BY <1>1 DEF Tiled
  <2>2. e.next \notin D /\ e.alloc = 0
    BY <1>1, <2>1 DEF Compact, Free
  <2> QED
    BY <1>1, <2>1, <2>2 DEF Tiled
<1>3. h.len \in Nat /\ HeaderSize \in Nat /\ HeaderSize > 0 /\ e.size \in Nat /\ e \in Headers
      /\ \A b \in D : b \in Nat /\ b # 0 /\ Stop(h, b) \in Nat /\ b + HeaderSize <= Stop(h, b)
  BY <1>1, <1>2, Numbers DEF NULL
<1>4. D = {1}
  <2> SUFFICES ASSUME NEW b \in D, b # 1 PROVE FALSE
    BY <1>2
  <2>1. Stop(h, 1) <= b /\ Stop(h, b) <= h.len + 1
    BY <1>1, <1>2, <1>3 DEF Tiled
  <2> QED
    BY <1>2, <1>3, <2>1
<1>5. e.size = h.len - HeaderSize
  BY <1>2, <1>3 DEF Stop
<1>6. e.next_free = NULL /\ e.prev_free = NULL /\ h.first_free = 1
  <2>1. PICK most, rank : Ranked(h, {1}, most, rank)
    BY <1>1, <1>4 DEF Listed
  <2>2. Linked(h, {1})
    BY <1>1, <1>4 DEF Listed
  <2>3. NextFree(h, 1) # 1
    BY <2>1 DEF Ranked, NULL
  <2>4. NextFree(h, 1) = NULL /\ PrevFree(h, 1) = NULL /\ NextFree(h, NULL) = 1
    BY <2>2, <2>3 DEF Linked
  <2> QED
    BY <2>4 DEF NextFree, PrevFree, NULL
<1> DEFINE zero == 0
           one == 1
           len == h.len
           s == h.len - HeaderSize
<1>7. e = Header(s, zero, zero, zero, zero, zero)
  BY <1>2, <1>3, <1>5, <1>6 DEF Header, Headers, NULL
<1>8. h.hdr \in [{one} -> Headers] /\ h \in [len : Nat, first : Nat, first_free : Nat, hdr : [{one} -> Headers]]
  BY <1>1, <1>4 DEF HeapType
<1>9. h.hdr = [b \in {one} |-> e]
  BY <1>8
<1> HIDE DEF e, s
<1>10. h = [len |-> len, first |-> one, first_free |-> one, hdr |-> [b \in {one} |-> e]]
  <2> DEFINE H == [b \in {one} |-> e]
  <2>1. h.hdr = H
    BY <1>9
  <2> HIDE DEF H
  <2>2. h = [len |-> len, first |-> one, first_free |-> one, hdr |-> H]
    BY <1>2, <1>6, <1>8, <2>1
  <2> QED
    BY <2>2 DEF H
<1> QED
  BY <1>7, <1>10 DEF mbedtls_memory_buffer_alloc_init, s, NULL

LEMMA BufferInvSuffices == BufferInv => BufferCorrect
<1> SUFFICES ASSUME BufferInv PROVE BufferCorrect
  OBVIOUS
<1>1. HeapInv(bheap, {}) /\ Compact(bheap, {}) /\ Owned(bheap, blive)
  BY DEF BufferInv
<1>2. HeapType(bheap) /\ Tiled(bheap)
  BY <1>1 DEF HeapInv
<1>3. BufferTiled
  <2>1. \A b \in Blocks : End(b) = Stop(bheap, b)
    BY DEF End, Stop
  <2> QED
    BY <1>2, <2>1 DEF BufferTiled, Tiled, Blocks
<1>4. BufferFreeListExact
  <2> DEFINE free == FreeBlocks(bheap)
  <2>1. PICK n \in Nat :
           /\ free \in [1 .. n -> Free(bheap)]
           /\ \A b \in Free(bheap) : \E i \in 1 .. n : free[i] = b
           /\ \A i, j \in 1 .. n : i # j => free[i] # free[j]
           /\ \A i \in 1 .. n : PrevFree(bheap, free[i]) = IF i = 1 THEN NULL ELSE free[i - 1]
    BY <1>1, FreeListOf
  <2> HIDE DEF free
  <2>2. DOMAIN free = 1 .. n
    BY <2>1
  <2>3. {free[i] : i \in DOMAIN free} = Free(bheap)
    BY <2>1, <2>2
  <2>4. \A i \in DOMAIN free : bheap.hdr[free[i]].prev_free = IF i = 1 THEN NULL ELSE free[i - 1]
    BY <2>1, <2>2 DEF PrevFree
  <2>5. \A i, j \in DOMAIN free : i # j => free[i] # free[j]
    BY <2>1, <2>2
  <2> QED
    BY <2>3, <2>4, <2>5 DEF BufferFreeListExact, Free, Blocks, free
<1>5. HeaderSize \in Nat /\ \A b \in Used(bheap) : b \in Nat
  <2>1. Used(bheap) \subseteq DOMAIN bheap.hdr
    BY DEF Used
  <2> QED
    BY <1>2, <2>1, Numbers
<1>6. BufferOwned
  <2>1. \A b \in Used(bheap) : (b + HeaderSize) - HeaderSize = b
    BY <1>5
  <2>2. DOMAIN blive = {b + HeaderSize : b \in Used(bheap)}
        /\ \A b \in Used(bheap) : blive[b + HeaderSize] <= bheap.hdr[b].size
    BY <1>1 DEF Owned
  <2>3. {ptr - HeaderSize : ptr \in DOMAIN blive} = Used(bheap)
    BY <2>1, <2>2
  <2>4. ASSUME NEW ptr \in DOMAIN blive PROVE blive[ptr] <= bheap.hdr[ptr - HeaderSize].size
    <3>1. PICK b \in Used(bheap) : ptr = b + HeaderSize
      BY <2>2
    <3> QED
      BY <2>1, <2>2, <3>1
  <2> QED
    BY <2>3, <2>4 DEF BufferOwned, Used, Blocks
<1>7. BufferCompact
  <2>1. ASSUME NEW b \in Blocks, IsFree(bheap, b), IsFree(bheap, bheap.hdr[b].next) PROVE FALSE
    <3>1. b \in DOMAIN bheap.hdr /\ bheap.hdr[b].next \in DOMAIN bheap.hdr \cup {NULL}
      BY <1>2 DEF Blocks, Tiled
    <3>2. b \in Free(bheap) /\ bheap.hdr[b].next \in Free(bheap)
      BY <1>2, <2>1, <3>1, FreeOnes
    <3> QED
      BY <1>1, <3>2 DEF Compact
  <2>2. ASSUME blive = <<>> PROVE bheap = mbedtls_memory_buffer_alloc_init(bheap.len)
    <3>1. DOMAIN blive = {}
      BY <2>2
    <3>2. Used(bheap) = {}
      BY <1>1, <3>1 DEF Owned
    <3> QED
      BY <1>1, <3>2, OneBlock
  <2> QED
    BY <2>1, <2>2 DEF BufferCompact
<1> QED
  BY <1>3, <1>4, <1>6, <1>7 DEF BufferCorrect

\* mbedtls_calloc() and mbedtls_free() on a static buffer, called in any order with
\* any arguments: the blocks tile the buffer, the free list has every free block
\* once and no other, memory in use is in a block of its own that is long enough,
\* and free neighbours are merged, so that after the last free the heap is new.
THEOREM MemoryIsKeptWhole == BufferSpec => []BufferCorrect
<1>1. BufferInit => BufferInv
  BY BufferStarts
<1>2. BufferInv /\ [BufferNext]_bufferVars => BufferInv'
  BY BufferSteps
<1>3. BufferInv => BufferCorrect
  BY BufferInvSuffices
<1> QED
  BY <1>1, <1>2, <1>3, PTL DEF BufferSpec
=============================================================================

--------------------------- MODULE StorePushProofs ---------------------------
(***************************************************************************)
(* Proofs about StorePush, for every model, batch size, set of failures    *)
(* and bound: a protected instance is never written (ProtectedInstanceSafe);*)
(* a push that wiped first leaves only what could not be read              *)
(* (LeftoversExplained) and, if all could be read, the whole of its model  *)
(* (PushIsWhole).                                                          *)
(***************************************************************************)
EXTENDS StorePush, SequenceTheorems, WellFoundedInduction, FiniteSetTheorems, TLAPS

\* What keeps every request, also a late one, away from a protected instance:
\* push_model never gets past the constructor of the writer there.
GuardedInv ==
    /\ \E rows : store \in [Targets -> rows]
    /\ target \in Targets
    /\ target \in PROTECTED_TARGETS => pc = "failed"
    /\ \A r \in late : r.target \in Targets \ PROTECTED_TARGETS

\* A request to another instance leaves the protected one as it is.
LEMMA AppliedElsewhere ==
    ASSUME \E rows : store \in [Targets -> rows],
           NEW r, r.target \in Targets \ PROTECTED_TARGETS
    PROVE  /\ \E rows : Applied(store, r) \in [Targets -> rows]
           /\ Applied(store, r)["permanent"] = store["permanent"]
<1>1. PICK rows : store \in [Targets -> rows]
  OBVIOUS
<1> DEFINE new == [k \in Keys |-> IF k \in r.keys THEN r.push ELSE store[r.target][k]]
<1>2. CASE Commits(store[r.target], r)
  <2>1. Applied(store, r) = [store EXCEPT ![r.target] = new]
    BY <1>2 DEF Applied
  <2> HIDE DEF new
  <2>2. [store EXCEPT ![r.target] = new] \in [Targets -> rows \cup {new}]
    BY <1>1
  <2>3. r.target # "permanent" /\ "permanent" \in Targets
    BY DEF PROTECTED_TARGETS, Targets
  <2>4. [store EXCEPT ![r.target] = new]["permanent"] = store["permanent"]
    BY <1>1, <2>3
  <2> QED BY <2>1, <2>2, <2>4
<1>3. CASE ~Commits(store[r.target], r)
  BY <1>1, <1>3 DEF Applied
<1> QED BY <1>2, <1>3

\* A failing Write, too, reaches no other instance than the writer's.
LEMMA FailureElsewhere ==
    ASSUME GuardedInv, NEW r, r.target \in Targets \ PROTECTED_TARGETS, WriteFails(r)
    PROVE  /\ \E rows : store' \in [Targets -> rows]
           /\ store'["permanent"] = store["permanent"]
           /\ \A q \in late' : q.target \in Targets \ PROTECTED_TARGETS
<1>1. \E rows : store \in [Targets -> rows]
  BY DEF GuardedInv
<1>2. CASE Fault("request") /\ UNCHANGED <<store, late>>
  BY <1>1, <1>2 DEF GuardedInv
<1>3. CASE Fault("reply") /\ store' = Applied(store, r) /\ UNCHANGED late
  BY <1>1, <1>3, AppliedElsewhere DEF GuardedInv
<1>4. CASE Fault("late") /\ late' = late \cup {r} /\ UNCHANGED store
  BY <1>1, <1>4 DEF GuardedInv
<1> QED BY <1>2, <1>3, <1>4 DEF WriteFails

\* Every step keeps the guard and the rows of the protected instance.
LEMMA GuardedStep ==
    ASSUME GuardedInv, [Next]_vars
    PROVE  GuardedInv' /\ store'["permanent"] = store["permanent"]
<1>1. /\ \E rows : store \in [Targets -> rows]
      /\ target \in Targets
      /\ target \in PROTECTED_TARGETS => pc = "failed"
      /\ \A r \in late : r.target \in Targets \ PROTECTED_TARGETS
  BY DEF GuardedInv
<1>2. ASSUME NEW t \in Targets, NEW wipe_first \in WipeChoices, Start(t, wipe_first)
      PROVE  GuardedInv' /\ store'["permanent"] = store["permanent"]
  BY <1>1, <1>2 DEF Start, GuardedInv
<1>3. CASE ReadIds \/ ReadFails \/ WipeOver \/ TypeWiped \/ Return
  BY <1>1, <1>3 DEF ReadIds, ReadFails, WipeOver, TypeWiped, Return, GuardedInv
<1>4. ASSUME NEW b \in SUBSET ids, DeleteBatch(b)
      PROVE  GuardedInv' /\ store'["permanent"] = store["permanent"]
  <2>1. Delete(b).target = target /\ target \in Targets \ PROTECTED_TARGETS
    BY <1>1, <1>4 DEF DeleteBatch, Delete
  <2>2. /\ \E rows : Applied(store, Delete(b)) \in [Targets -> rows]
        /\ Applied(store, Delete(b))["permanent"] = store["permanent"]
    BY <1>1, <2>1, AppliedElsewhere
  <2> QED BY <1>1, <1>4, <2>1, <2>2 DEF DeleteBatch, Written, GuardedInv
<1>5. ASSUME NEW b \in SUBSET ids, DeleteFails(b)
      PROVE  GuardedInv' /\ store'["permanent"] = store["permanent"]
  <2>1. Delete(b).target = target /\ target \in Targets \ PROTECTED_TARGETS
    BY <1>1, <1>5 DEF DeleteFails, Delete
  <2>2. WriteFails(Delete(b)) /\ pc' = "failed" /\ target' = target
    BY <1>5 DEF DeleteFails
  <2> QED BY <1>1, <2>1, <2>2, FailureElsewhere DEF GuardedInv
<1>6. CASE FlushOk
  <2> DEFINE r == Insert(Head(batches), push)
  <2>1. r.target = target /\ target \in Targets \ PROTECTED_TARGETS
    BY <1>1, <1>6 DEF FlushOk, Insert
  <2>2. store' = Applied(store, r) /\ late' = late /\ target' = target
    BY <1>6 DEF FlushOk, Written
  <2> HIDE DEF r
  <2>3. /\ \E rows : Applied(store, r) \in [Targets -> rows]
        /\ Applied(store, r)["permanent"] = store["permanent"]
    BY <1>1, <2>1, AppliedElsewhere
  <2> QED BY <1>1, <2>1, <2>2, <2>3 DEF GuardedInv
<1>7. CASE FlushFails
  <2> DEFINE r == Insert(Head(batches), push)
  <2>1. r.target = target /\ target \in Targets \ PROTECTED_TARGETS
    BY <1>1, <1>7 DEF FlushFails, Insert
  <2>2. WriteFails(r) /\ target' = target
    BY <1>7 DEF FlushFails
  <2> HIDE DEF r
  <2> QED BY <1>1, <2>1, <2>2, FailureElsewhere DEF GuardedInv
<1>8. ASSUME NEW r \in late, ServeLate(r)
      PROVE  GuardedInv' /\ store'["permanent"] = store["permanent"]
  <2>1. /\ store' = Applied(store, r) /\ late' = late \ {r}
        /\ target' = target /\ pc' = pc
    BY <1>8 DEF ServeLate, client
  <2>2. /\ \E rows : Applied(store, r) \in [Targets -> rows]
        /\ Applied(store, r)["permanent"] = store["permanent"]
    BY <1>1, AppliedElsewhere
  <2> QED BY <1>1, <2>1, <2>2 DEF GuardedInv
<1>9. ASSUME NEW k \in Derivers, Derive(k)
      PROVE  GuardedInv' /\ store'["permanent"] = store["permanent"]
  <2>1. PICK rows : store \in [Targets -> rows]
    BY <1>1
  <2> DEFINE new == [store["ephemeral"] EXCEPT ![DerivedKey[k]] = store["ephemeral"][k]]
  <2>2. store' = [store EXCEPT !["ephemeral"] = new]
    BY <1>9 DEF Derive
  <2>3. late' = late /\ target' = target /\ pc' = pc
    BY <1>9 DEF Derive, client
  <2> HIDE DEF new
  <2>4. store' \in [Targets -> rows \cup {new}] /\ store'["permanent"] = store["permanent"]
    BY <2>1, <2>2 DEF Targets
  <2>5. \E all : store' \in [Targets -> all]
    BY <2>4
  <2> QED BY <1>1, <2>3, <2>4, <2>5 DEF GuardedInv
<1>10. CASE UNCHANGED vars
  BY <1>1, <1>10 DEF vars, client, GuardedInv
<1> QED BY <1>2, <1>3, <1>4, <1>5, <1>6, <1>7, <1>8, <1>9, <1>10 DEF Next

LEMMA GuardedInit == ASSUME Init PROVE GuardedInv
<1>1. \E f : store = [t \in Targets |-> f]
  BY DEF Init
<1>2. \E rows : store \in [Targets -> rows]
  <2>1. PICK f : store = [t \in Targets |-> f]
    BY <1>1
  <2>2. store \in [Targets -> {f}]
    BY <2>1
  <2> QED BY <2>2
<1> QED BY <1>2 DEF Init, GuardedInv, Targets, PROTECTED_TARGETS

\* No push, retry or late request ever changes a protected instance
\* (PROTECTED_TARGETS in writer.py).
THEOREM ProtectedInstanceSafe == Spec => PermanentUntouched
<1>1. Init => GuardedInv
  BY GuardedInit
<1>2. GuardedInv /\ [Next]_vars => GuardedInv' /\ [store'["permanent"] = store["permanent"]]_vars
  BY GuardedStep
<1> QED BY <1>1, <1>2, PTL DEF Spec, PermanentUntouched

-----------------------------------------------------------------------------
(***************************************************************************)
(* The batches of a push cut its rows up: each row is in exactly one.      *)
(***************************************************************************)
\* A nonempty set of naturals has a least element.
LEMMA LeastElement ==
    ASSUME NEW A \in SUBSET Nat, A # {}
    PROVE  \E m \in A : \A k \in A : m <= k
<1>1. PICK m \in A : \A k \in A : <<k, m>> \notin OpToRel(<, Nat)
    BY NatLessThanWellFounded, WFMin
<1>2. \A k \in A : ~(k < m)
    BY <1>1 DEF OpToRel
<1> QED
    BY <1>2

LEMMA CeilDivCovers ==
    ASSUME NEW a \in Nat, NEW b \in Nat \ {0}
    PROVE  CeilDiv(a, b) \in Nat /\ a <= CeilDiv(a, b) * b
<1>1. CeilDiv(a, b) \in Nat
  BY DEF CeilDiv
<1> QED BY <1>1 DEF CeilDiv

LEMMA Products ==
    ASSUME NEW b \in Nat, NEW a \in Nat, NEW c \in Nat
    PROVE  a * b \in Nat /\ (a <= c => a * b <= c * b)
 OBVIOUS

\* Every position falls into one chunk.
LEMMA ChunkOf ==
    ASSUME NEW len \in Nat, NEW m \in 1 .. len, NEW b \in Nat \ {0}
    PROVE  \E n \in 1 .. CeilDiv(len, b) : m \in (n - 1) * b + 1 .. Least(n * b, len)
<1> DEFINE A == {n \in Nat : m <= n * b}
<1>1. CeilDiv(len, b) \in A
    BY CeilDivCovers, Products
<1>2. PICK n \in A : \A k \in A : n <= k
    BY <1>1, LeastElement
<1>3. n \in 1 .. CeilDiv(len, b)
  <2>1. n \in Nat /\ n <= CeilDiv(len, b) /\ CeilDiv(len, b) \in Nat
    BY <1>1, <1>2, CeilDivCovers
  <2>2. n # 0
    BY <1>2
  <2> QED BY <2>1, <2>2
<1>4. (n - 1) * b < m
  <2>1. n - 1 \in Nat /\ n - 1 \notin A
    BY <1>2, <1>3
  <2> QED BY <2>1, Products
<1>5. (n - 1) * b \in Nat /\ n * b \in Nat
    BY <1>3, Products
<1> QED BY <1>2, <1>3, <1>4, <1>5 DEF Least

LEMMA ChunkApart ==
    ASSUME NEW len \in Nat, NEW b \in Nat \ {0}, NEW i \in Nat \ {0}, NEW j \in Nat \ {0}, i < j,
           NEW m \in (i - 1) * b + 1 .. Least(i * b, len),
           NEW n \in (j - 1) * b + 1 .. Least(j * b, len)
    PROVE  m < n
<1>1. i * b <= (j - 1) * b /\ i * b \in Nat /\ (j - 1) * b \in Nat /\ (i - 1) * b \in Nat /\ j * b \in Nat
    BY Products
<1> QED BY <1>1 DEF Least

LEMMA ChunkWithin ==
    ASSUME NEW len \in Nat, NEW b \in Nat \ {0}, NEW i \in Nat \ {0},
           NEW m \in (i - 1) * b + 1 .. Least(i * b, len)
    PROVE  m \in 1 .. len
<1>1. i * b \in Nat /\ (i - 1) * b \in Nat
    BY Products
<1> QED BY <1>1 DEF Least

\* A sequence of sets that cuts S up.
Cuts(bs, S) ==
    /\ bs \in Seq(SUBSET S) /\ UNION RangeOf(bs) = S
    /\ \A i, j \in DOMAIN bs : i # j => bs[i] \cap bs[j] = {}

LEMMA ChunksCut ==
    ASSUME BatchSize \in Nat \ {0}, NEW S, NEW s \in Seq(S), IsInjective(s)
    PROVE  Cuts(Chunks(s), RangeOf(s))
<1> DEFINE top == CeilDiv(Len(s), BatchSize)
           C(n) == (n - 1) * BatchSize + 1 .. Least(n * BatchSize, Len(s))
<1>1. Len(s) \in Nat /\ top \in Nat /\ DOMAIN s = 1 .. Len(s)
  <2>1. Len(s) \in Nat /\ DOMAIN s = 1 .. Len(s)
    OBVIOUS
  <2> QED BY <2>1, CeilDivCovers
<1>2. Chunks(s) = [n \in 1 .. top |-> {s[m] : m \in C(n)}]
    BY DEF Chunks
<1>3. \A n \in 1 .. top : C(n) \subseteq DOMAIN s
  <2> SUFFICES ASSUME NEW n \in 1 .. top, NEW m \in C(n) PROVE m \in DOMAIN s
    OBVIOUS
  <2> HIDE DEF top
  <2>1. n \in Nat \ {0}
    BY <1>1
  <2> QED BY <1>1, <2>1, ChunkWithin
<1>4. \A m \in DOMAIN s : \E n \in 1 .. top : m \in C(n)
    BY <1>1, ChunkOf
<1>5. \A i, j \in 1 .. top : i < j => \A m \in C(i), n \in C(j) : m # n
  <2> SUFFICES ASSUME NEW i \in 1 .. top, NEW j \in 1 .. top, i < j, NEW m \in C(i), NEW n \in C(j)
               PROVE  m # n
    OBVIOUS
  <2> HIDE DEF top
  <2>1. m < n
    <3>1. i \in Nat \ {0} /\ j \in Nat \ {0}
      BY <1>1
    <3> QED BY <1>1, <3>1, ChunkApart
  <2>2. m \in DOMAIN s /\ n \in DOMAIN s
    BY <1>3
  <2> QED BY <1>1, <2>1, <2>2
<1> HIDE DEF top, C
<1>6. Chunks(s) \in Seq(SUBSET RangeOf(s))
  <2>1. \A n \in 1 .. top : {s[m] : m \in C(n)} \in SUBSET RangeOf(s)
    BY <1>3 DEF RangeOf
  <2>2. Chunks(s) \in [1 .. top -> SUBSET RangeOf(s)]
    BY <1>2, <2>1
  <2> QED BY <1>1, <2>2
<1>7. UNION RangeOf(Chunks(s)) = RangeOf(s)
  <2>1. \A x \in RangeOf(s) : x \in UNION RangeOf(Chunks(s))
    <3> TAKE x \in RangeOf(s)
    <3>1. PICK m \in DOMAIN s : x = s[m]
      BY DEF RangeOf
    <3>2. PICK n \in 1 .. top : m \in C(n)
      BY <1>4, <3>1
    <3>3. x \in Chunks(s)[n] /\ n \in DOMAIN Chunks(s)
      BY <1>2, <3>1, <3>2
    <3> QED BY <3>3 DEF RangeOf
  <2>2. UNION RangeOf(Chunks(s)) \subseteq RangeOf(s)
    BY <1>6 DEF RangeOf
  <2> QED BY <2>1, <2>2
<1>8. \A i, j \in DOMAIN Chunks(s) : i # j => Chunks(s)[i] \cap Chunks(s)[j] = {}
  <2>1. \A i, j \in 1 .. top : i < j => Chunks(s)[i] \cap Chunks(s)[j] = {}
    <3> SUFFICES ASSUME NEW i \in 1 .. top, NEW j \in 1 .. top, i < j,
                        NEW x, x \in Chunks(s)[i], x \in Chunks(s)[j]
                 PROVE  FALSE
      OBVIOUS
    <3>1. PICK m \in C(i) : x = s[m]
      BY <1>2
    <3>2. PICK n \in C(j) : x = s[n]
      BY <1>2
    <3>3. m = n
      BY <1>3, <3>1, <3>2 DEF IsInjective
    <3> QED BY <1>5, <3>3
  <2>2. DOMAIN Chunks(s) = 1 .. top
    BY <1>2
  <2> SUFFICES ASSUME NEW i \in 1 .. top, NEW j \in 1 .. top, i # j
               PROVE  Chunks(s)[i] \cap Chunks(s)[j] = {}
    BY <2>2
  <2>3. i < j \/ j < i
    BY <1>1
  <2> QED BY <2>1, <2>3
<1> QED BY <1>6, <1>7, <1>8 DEF Cuts

LEMMA CutsConcat ==
    ASSUME NEW S, NEW T, S \cap T = {}, NEW a, NEW b, Cuts(a, S), Cuts(b, T)
    PROVE  Cuts(a \o b, S \cup T)
<1>1. a \in Seq(SUBSET S) /\ b \in Seq(SUBSET T)
    BY DEF Cuts
<1>2. a \in Seq(SUBSET (S \cup T)) /\ b \in Seq(SUBSET (S \cup T)) 
    <2>1. SUBSET S \subseteq SUBSET (S \cup T) /\ SUBSET T \subseteq SUBSET (S \cup T)
      OBVIOUS
    <2> QED BY <1>1, <2>1
<1> DEFINE c == a \o b
<1>3. /\ c \in Seq(SUBSET (S \cup T)) /\ Len(c) = Len(a) + Len(b)
      /\ \A i \in 1 .. Len(c) : c[i] = IF i <= Len(a) THEN a[i] ELSE b[i - Len(a)]
    BY <1>2, ConcatProperties
<1>4. Len(a) \in Nat /\ Len(b) \in Nat /\ DOMAIN a = 1 .. Len(a) /\ DOMAIN b = 1 .. Len(b) /\ DOMAIN c = 1 .. Len(c)
    BY <1>1, <1>3
<1> HIDE DEF c
<1>5. \A i \in DOMAIN c : \/ i \in DOMAIN a /\ c[i] = a[i]
                          \/ i - Len(a) \in DOMAIN b /\ i > Len(a) /\ c[i] = b[i - Len(a)]
    BY <1>3, <1>4
<1>6. RangeOf(c) = RangeOf(a) \cup RangeOf(b)
  <2>1. \A i \in DOMAIN a : i \in DOMAIN c /\ c[i] = a[i]
    BY <1>3, <1>4
  <2>2. \A i \in DOMAIN b : i + Len(a) \in DOMAIN c /\ c[i + Len(a)] = b[i]
    BY <1>3, <1>4
  <2> QED BY <1>5, <2>1, <2>2 DEF RangeOf
<1>7. \A i, j \in DOMAIN c : i # j => c[i] \cap c[j] = {}
  <2>1. \A i \in DOMAIN a : a[i] \subseteq S
    BY <1>1
  <2>2. \A i \in DOMAIN b : b[i] \subseteq T
    BY <1>1
  <2> QED BY <1>4, <1>5, <2>1, <2>2 DEF Cuts
<1>8. UNION RangeOf(c) = S \cup T
  BY <1>6 DEF Cuts
<1> QED BY <1>3, <1>7, <1>8 DEF Cuts, c

LEMMA FiniteRange ==
    ASSUME NEW S, NEW s \in Seq(S)
    PROVE  IsFiniteSet(RangeOf(s))
<1>1. Len(s) \in Nat /\ DOMAIN s = 1 .. Len(s)
  OBVIOUS
<1>2. IsFiniteSet(1 .. Len(s))
  BY <1>1, FS_Interval
<1>3. s \in Surjection(1 .. Len(s), RangeOf(s))
  BY <1>1 DEF RangeOf, Surjection
<1> QED BY <1>2, <1>3, FS_Surjection

LEMMA ImportCuts ==
    ASSUME StorePushAssumption, NEW p \in DOMAIN Models
    PROVE  Cuts(ImportBatches(p), ModelKeys(p)) /\ IsFiniteSet(ModelKeys(p))
<1> DEFINE m == Models[p].model
           v == Models[p].provisioning
<1>1. m \in Seq(Keys) /\ v \in Seq(Keys) /\ IsInjective(m \o v) /\ BatchSize \in Nat \ {0}
  <2> DEFINE Rec == [model : Seq(Keys), provisioning : Seq(Keys)]
  <2>1. Models \in Seq(Rec)
    BY DEF StorePushAssumption
  <2> HIDE DEF Rec
  <2>2. Models[p] \in Rec
    BY <2>1
  <2> USE DEF Rec
  <2> QED BY <2>2 DEF StorePushAssumption
<1> HIDE DEF m, v
<1>2. /\ Len(m) \in Nat /\ Len(v) \in Nat /\ DOMAIN m = 1 .. Len(m) /\ DOMAIN v = 1 .. Len(v)
      /\ DOMAIN (m \o v) = 1 .. Len(m) + Len(v)
      /\ \A i \in DOMAIN m : (m \o v)[i] = m[i]
      /\ \A i \in DOMAIN v : (m \o v)[Len(m) + i] = v[i]
  <2>1. /\ Len(m \o v) = Len(m) + Len(v) /\ m \o v \in Seq(Keys)
        /\ \A i \in 1 .. Len(m \o v) : (m \o v)[i] = IF i <= Len(m) THEN m[i] ELSE v[i - Len(m)]
    BY <1>1, ConcatProperties
  <2>2. Len(m) \in Nat /\ Len(v) \in Nat /\ DOMAIN m = 1 .. Len(m) /\ DOMAIN v = 1 .. Len(v)
    BY <1>1
  <2>3. DOMAIN (m \o v) = 1 .. Len(m) + Len(v)
    BY <2>1
  <2> QED BY <2>1, <2>2, <2>3
<1> DEFINE c == m \o v
<1>3. \A i, j \in 1 .. Len(m) + Len(v) : c[i] = c[j] => i = j
  BY <1>1, <1>2 DEF IsInjective
<1>4. /\ \A i \in DOMAIN m : i \in 1 .. Len(m) + Len(v) /\ c[i] = m[i]
      /\ \A i \in DOMAIN v : Len(m) + i \in 1 .. Len(m) + Len(v) /\ c[Len(m) + i] = v[i]
  <2>1. \A i \in DOMAIN m : i \in 1 .. Len(m) + Len(v) /\ c[i] = m[i]
    BY <1>2
  <2>2. \A i \in DOMAIN v : Len(m) + i \in 1 .. Len(m) + Len(v)
    BY <1>2
  <2>3. \A i \in DOMAIN v : c[Len(m) + i] = v[i]
    BY <1>2
  <2> QED BY <2>1, <2>2, <2>3
<1> HIDE DEF c
<1>5. IsInjective(m) /\ IsInjective(v) /\ RangeOf(m) \cap RangeOf(v) = {}
  <2>1. IsInjective(m)
    BY <1>3, <1>4 DEF IsInjective
  <2>2. ASSUME NEW i \in DOMAIN v, NEW j \in DOMAIN v, v[i] = v[j]
        PROVE  i = j
    <3> DEFINE a == Len(m) + i
               b == Len(m) + j
    <3>1. a \in 1 .. Len(m) + Len(v) /\ b \in 1 .. Len(m) + Len(v) /\ c[a] = c[b]
      BY <1>4, <2>2
    <3> HIDE DEF a, b
    <3>2. a = b
      BY <1>3, <3>1
    <3> USE DEF a, b
    <3> QED BY <1>2, <3>2
  <2>3. ASSUME NEW i \in DOMAIN m, NEW j \in DOMAIN v, m[i] = v[j]
        PROVE  FALSE
    <3>1. i = Len(m) + j
      BY <1>3, <1>4, <2>3
    <3> QED BY <1>2, <3>1
  <2> QED BY <2>1, <2>2, <2>3 DEF IsInjective, RangeOf
<1>6. Cuts(ImportBatches(p), ModelKeys(p))
  BY <1>1, <1>5, ChunksCut, CutsConcat DEF ImportBatches, ModelKeys, m, v
<1>7. IsFiniteSet(RangeOf(m)) /\ IsFiniteSet(RangeOf(v))
  BY <1>1, FiniteRange
<1> QED BY <1>6, <1>7, FS_Union DEF ModelKeys, m, v

-----------------------------------------------------------------------------
(***************************************************************************)
(* What a push has done to the rows of the instance so far.                *)
(***************************************************************************)
Goes == {"wipe", "delete", "import", "done"}
Row(k) == store["ephemeral"][k]
InTurn == "late" \notin RangeOf(faults)
Dealt == {WipeTypes[n] : n \in 1 .. wiped}
Excused(k) == k.type \in skipped \/ \E e \in Derivers : DerivedKey[e] = k /\ e.type \in skipped
Left == UNION RangeOf(batches)

PushShape ==
    /\ store \in [Targets -> [Keys -> 0 .. Len(Models)]]
    /\ push \in 1 .. Len(Models) /\ target \in Targets
    /\ pc \in Goes => target = "ephemeral"
    /\ wiped \in 0 .. Len(WipeTypes) /\ ids \subseteq Keys
    /\ pc = "delete" => wiped > 0 /\ \A k \in ids : k.type = WipeTypes[wiped]
    /\ faults \in Seq(Faults) /\ late \subseteq Requests

\* Nothing is applied out of turn, and nothing is of a push to come.
TurnInv == InTurn => late = {} /\ \A k \in Keys : Row(k) <= push

\* Of the types dealt with, only what could not be read is left, and what is
\* about to be deleted.
WipeInv ==
    InTurn /\ pc \in Goes =>
        \A k \in Keys : Foreign(k) /\ k.type \in Dealt =>
            Excused(k) \/ (pc = "delete" /\ k \in ids)

\* The push has no rows before it imports.
FreshInv == InTurn /\ pc \in {"wipe", "delete"} => \A k \in Keys : ~Mine(k)

\* The batches that are left cut up the rows that are not counted yet.
BatchInv ==
    pc \in Goes =>
        /\ batches \in Seq(SUBSET ModelKeys(push))
        /\ \A i, j \in DOMAIN batches : i # j => batches[i] \cap batches[j] = {}
        /\ total = Cardinality(ModelKeys(push) \ Left)
        /\ pc \in {"wipe", "delete"} => Left = ModelKeys(push)
        /\ pc = "done" => batches = <<>>

\* The rows of a batch that is left are not there, or, if it is the next one
\* and a reply was lost, all there.
ImportInv ==
    InTurn /\ pc \in {"import", "done"} /\ wiped = Len(WipeTypes) /\ skipped = {} =>
        /\ \A k \in ModelKeys(push) \ Left : Mine(k)
        /\ \A n \in DOMAIN batches :
              \/ \A k \in batches[n] : Row(k) = 0
              \/ n = 1 /\ \A k \in batches[n] : Mine(k)

PushInv == PushShape /\ TurnInv /\ WipeInv /\ FreshInv /\ BatchInv /\ ImportInv

LEMMA FaultAdds ==
    ASSUME NEW kind, Fault(kind), faults \in Seq(Faults)
    PROVE  /\ faults' \in Seq(Faults) /\ RangeOf(faults') = RangeOf(faults) \cup {kind}
           /\ InTurn' => InTurn /\ kind # "late"
<1>1. faults' = Append(faults, kind) /\ kind \in Faults
    BY DEF Fault
<1>2. /\ faults' \in Seq(Faults) /\ Len(faults) \in Nat
      /\ DOMAIN faults = 1 .. Len(faults) /\ DOMAIN faults' = 1 .. Len(faults) + 1
      /\ faults'[Len(faults) + 1] = kind /\ \A n \in DOMAIN faults : faults'[n] = faults[n]
    BY <1>1
<1>3. RangeOf(faults') = RangeOf(faults) \cup {kind}
    BY <1>2 DEF RangeOf
<1> QED
    BY <1>2, <1>3 DEF InTurn

LEMMA PushInitHolds == ASSUME StorePushAssumption, Init PROVE PushInv
<1>1. /\ push = 1 /\ target = "ephemeral" /\ pc = "idle" /\ wiped = 0 /\ ids = {}
      /\ late = {} /\ faults = <<>>
    BY DEF Init
<1>2. Len(Models) \in Nat /\ 1 \in 1 .. Len(Models) /\ Len(WipeTypes) \in Nat
    BY DEF StorePushAssumption
<1>3. PICK d \in SUBSET Derivers : store = [t \in Targets |->
                 [k \in Keys |->
                    IF k \in ModelKeys(1) \/ \E e \in d \cap ModelKeys(1) : k = DerivedKey[e]
                    THEN 1 ELSE 0]]
    BY DEF Init
<1>4. store \in [Targets -> [Keys -> 0 .. 1]]
    BY <1>3
<1>5. store \in [Targets -> [Keys -> 0 .. Len(Models)]]
    BY <1>2, <1>4
<1>6. PushShape
    BY <1>1, <1>2, <1>5 DEF PushShape, Goes, Targets
<1>7. TurnInv
    <2>1. store["ephemeral"] \in [Keys -> 0 .. 1]
        BY <1>4 DEF Targets
    <2>2. \A k \in Keys : Row(k) <= push
        <3> TAKE k \in Keys
        <3>1. Row(k) \in 0 .. 1
            BY <2>1 DEF Row
        <3> QED
            BY <1>1, <3>1
    <2> QED
        BY <1>1, <2>2 DEF TurnInv
<1> QED
    BY <1>1, <1>6, <1>7 DEF PushInv, WipeInv, FreshInv, BatchInv, ImportInv, Goes

\* push_model up to its first read.
LEMMA StartHolds ==
    ASSUME StorePushAssumption, PushInv,
           NEW t \in Targets, NEW wipe_first \in WipeChoices, Start(t, wipe_first)
    PROVE  PushInv'
<1>1. /\ push' = push + 1 /\ push' \in 1 .. Len(Models) /\ push' \in DOMAIN Models /\ push \in Nat
      /\ target' = t /\ wiped' = 0 /\ ids' = {} /\ skipped' = {} /\ total' = 0
      /\ batches' = ImportBatches(push') /\ store' = store /\ late' = late /\ faults' = faults
      /\ t \notin PROTECTED_TARGETS \/ pc' = "failed"
      /\ pc' \in {"failed", "wipe", "import"} /\ Len(WipeTypes) \in Nat
    <2>1. push \in Nat /\ push + 1 \in 1 .. Len(Models) /\ DOMAIN Models = 1 .. Len(Models)
        BY DEF Start, StorePushAssumption, PushInv, PushShape
    <2>2. Len(WipeTypes) \in Nat
        BY DEF StorePushAssumption
    <2> QED
        BY <2>1, <2>2 DEF Start
<1>2. Cuts(batches', ModelKeys(push'))
    BY <1>1, ImportCuts
<1>3. PushShape'
    BY <1>1 DEF PushInv, PushShape, Goes, Targets, PROTECTED_TARGETS
<1>4. \A k \in Keys : Row(k)' = Row(k) /\ Row(k) \in Nat
    BY <1>1 DEF PushInv, PushShape, Row, Targets
<1>5. TurnInv'
    BY <1>1, <1>4 DEF PushInv, TurnInv, InTurn
<1>6. InTurn' => \A k \in Keys : ~Mine(k)'
    BY <1>1, <1>4 DEF PushInv, TurnInv, InTurn, Mine, Row
<1>7. WipeInv'
    BY <1>1 DEF WipeInv, Dealt
<1>8. FreshInv'
    BY <1>6 DEF FreshInv
<1>9. BatchInv'
    <2>1. (ModelKeys(push) \ Left)' = {} /\ Left' = ModelKeys(push)'
        BY <1>2 DEF Cuts, Left
    <2> QED
        BY <1>1, <1>2, <2>1, FS_EmptySet DEF BatchInv, Cuts
<1>10. ImportInv'
    <2>1. wiped' = Len(WipeTypes) => Keys = {}
        BY <1>1 DEF StorePushAssumption, RangeOf
    <2>2. ModelKeys(push') \subseteq Keys
        BY <1>1 DEF Keys
    <2>3. \A n \in DOMAIN batches' : batches'[n] \subseteq ModelKeys(push')
        BY <1>2 DEF Cuts
    <2> QED
        BY <2>1, <2>2, <2>3 DEF ImportInv
<1> QED
    BY <1>3, <1>5, <1>7, <1>8, <1>9, <1>10 DEF PushInv

\* The wipe reads one type after the other.
LEMMA ReadHolds ==
    ASSUME StorePushAssumption, PushInv, ReadIds \/ ReadFails PROVE PushInv'
<1>1. /\ pc = "wipe" /\ wiped < Len(WipeTypes) /\ wiped' = wiped + 1
      /\ store' = store /\ late' = late /\ push' = push /\ target' = target
      /\ batches' = batches /\ total' = total
      /\ skipped \subseteq skipped' /\ target = "ephemeral"
      /\ wiped \in Nat /\ Len(WipeTypes) \in Nat /\ pc' \in {"wipe", "delete"}
    BY DEF ReadIds, ReadFails, StorePushAssumption, PushInv, PushShape, Goes
<1>2. \/ /\ ids' = {k \in Keys : k.type = WipeTypes[wiped + 1] /\ Row(k) # 0}
         /\ pc' = "delete" /\ faults' = faults
      \/ /\ skipped' = skipped \cup {WipeTypes[wiped + 1]}
         /\ pc' = "wipe" /\ ids' = ids /\ Fault("read")
    BY <1>1 DEF ReadIds, ReadFails, Row
<1>3. faults' \in Seq(Faults) /\ (InTurn' => InTurn)
    BY <1>2, FaultAdds DEF PushInv, PushShape, InTurn
<1>4. PushShape'
    BY <1>1, <1>2, <1>3 DEF PushInv, PushShape, Goes
<1>5. TurnInv' /\ FreshInv'
    BY <1>1, <1>3 DEF PushInv, TurnInv, FreshInv, Row, Mine
<1>6. WipeInv'
    <2> SUFFICES ASSUME InTurn', NEW k \in Keys, Foreign(k)', k.type \in Dealt'
                 PROVE  Excused(k)' \/ (pc' = "delete" /\ k \in ids')
        BY DEF WipeInv
    <2>1. InTurn /\ Foreign(k) /\ Row(k) # 0
        BY <1>1, <1>3 DEF Foreign, Row
    <2>2. k.type \in Dealt \/ k.type = WipeTypes[wiped + 1]
        BY <1>1 DEF Dealt
    <2>3. CASE k.type \in Dealt
        BY <1>1, <2>1, <2>3 DEF PushInv, WipeInv, Goes, Excused
    <2>4. CASE k.type = WipeTypes[wiped + 1]
        BY <1>2, <2>1, <2>4 DEF Excused
    <2> QED
        BY <2>2, <2>3, <2>4
<1>7. BatchInv'
    BY <1>1 DEF PushInv, BatchInv, Goes, Left
<1> QED
    BY <1>1, <1>4, <1>5, <1>6, <1>7 DEF PushInv, ImportInv

\* The wipe goes on to the next type, or ends.
LEMMA WipeOverHolds ==
    ASSUME StorePushAssumption, PushInv, WipeOver \/ TypeWiped PROVE PushInv'
<1>1. /\ UNCHANGED <<store, push, target, wiped, ids, batches, total, skipped, late, faults>>
      /\ pc \in {"wipe", "delete"} /\ ~(pc' = "delete") /\ pc' \in {"wipe", "import"}
      /\ pc' = "import" => pc = "wipe" /\ wiped = Len(WipeTypes)
      /\ pc = "delete" => ids = {}
    BY DEF WipeOver, TypeWiped
<1>2. PushShape' /\ TurnInv' /\ FreshInv' /\ BatchInv'
    BY <1>1 DEF PushInv, PushShape, TurnInv, FreshInv, BatchInv, InTurn, Goes, Row, Mine, Left
<1>3. WipeInv'
    BY <1>1 DEF PushInv, WipeInv, InTurn, Goes, Foreign, Dealt, Excused
<1>4. ImportInv'
    <2> SUFFICES ASSUME InTurn, pc' = "import", skipped = {}
                 PROVE  /\ \A k \in ModelKeys(push) \ Left : Mine(k)
                        /\ \A k \in Keys : Row(k) = 0
                        /\ \A n \in DOMAIN batches : batches[n] \subseteq Keys
        BY <1>1 DEF ImportInv, InTurn, Mine, Row, Left
    <2>1. ModelKeys(push) \ Left = {} /\ \A k \in Keys : ~Mine(k)
        BY <1>1 DEF PushInv, FreshInv, BatchInv, Goes
    <2>2. \A k \in Keys : k.type \in Dealt
        BY <1>1 DEF StorePushAssumption, RangeOf, Dealt
    <2>3. \A k \in Keys : ~Foreign(k)
        BY <1>1, <2>2 DEF PushInv, WipeInv, Goes, Excused
    <2>4. \A n \in DOMAIN batches : batches[n] \subseteq ModelKeys(push)
        BY <1>1 DEF PushInv, BatchInv, Goes
    <2>5. ModelKeys(push) \subseteq Keys
        BY DEF PushInv, PushShape, Keys, StorePushAssumption
    <2> QED
        BY <2>1, <2>3, <2>4, <2>5 DEF Mine, Foreign, Row
<1> QED
    BY <1>2, <1>3, <1>4 DEF PushInv

LEMMA ReturnHolds == ASSUME PushInv, Return PROVE PushInv'
<1>1. /\ UNCHANGED <<store, push, target, wiped, ids, batches, total, skipped, late, faults>>
      /\ pc = "import" /\ pc' = "done" /\ batches = <<>>
    BY DEF Return
<1>2. PushShape' /\ TurnInv' /\ FreshInv' /\ BatchInv'
    BY <1>1 DEF PushInv, PushShape, TurnInv, FreshInv, BatchInv, InTurn, Goes, Row, Mine, Left
<1>3. WipeInv' /\ ImportInv'
    BY <1>1 DEF PushInv, WipeInv, ImportInv, InTurn, Goes, Foreign, Dealt, Excused, Mine, Row, Left
<1> QED
    BY <1>2, <1>3 DEF PushInv

\* The rows of the instance after the Store has processed a request to it.
LEMMA AppliedRows ==
    ASSUME PushShape, NEW r \in Requests, r.target \in Targets \ PROTECTED_TARGETS,
           store' = Applied(store, r)
    PROVE  /\ store' \in [Targets -> [Keys -> 0 .. Len(Models)]]
           /\ Commits(store["ephemeral"], r) =>
                 \A k \in Keys : Row(k)' = IF k \in r.keys THEN r.push ELSE Row(k)
           /\ ~Commits(store["ephemeral"], r) => store' = store
<1> DEFINE R == 0 .. Len(Models)
           new == [k \in Keys |-> IF k \in r.keys THEN r.push ELSE store["ephemeral"][k]]
<1>1. /\ r.target = "ephemeral" /\ r.push \in R /\ "ephemeral" \in Targets
      /\ store \in [Targets -> [Keys -> R]]
    BY DEF Requests, Targets, PROTECTED_TARGETS, PushShape
<1> HIDE DEF R
<1>2. new \in [Keys -> R]
    BY <1>1
<1>3. Commits(store["ephemeral"], r) => store' = [store EXCEPT !["ephemeral"] = new]
    BY <1>1 DEF Applied
<1>4. ~Commits(store["ephemeral"], r) => store' = store
    BY <1>1 DEF Applied
<1>5. Commits(store["ephemeral"], r) =>
        store' \in [Targets -> [Keys -> R]] /\ store'["ephemeral"] = new
    <2> HIDE DEF new
    <2> QED
        BY <1>1, <1>2, <1>3
<1> QED
    BY <1>1, <1>4, <1>5 DEF Row, R

\* A row the instance derives is excused if what it derives from is: derived
\* types are wiped after the types they derive from.
LEMMA DeriveHolds ==
    ASSUME StorePushAssumption, PushInv, NEW k \in Derivers, Derive(k) PROVE PushInv'
<1> DEFINE d == DerivedKey[k]
<1>1. /\ UNCHANGED <<push, target, pc, wiped, ids, batches, attempt, total, skipped, late, faults>>
      /\ Row(k) # 0 /\ Row(d) = 0
      /\ store' = [store EXCEPT !["ephemeral"][d] = Row(k)]
    BY DEF Derive, Row, client
<1>2. d \in Keys /\ k \in Keys /\ d.type \in DerivedTypes /\ k.type \notin DerivedTypes
    <2>1. d \in RangeOf(DerivedKey) /\ k \in Derivers
        BY DEF RangeOf, Derivers
    <2> HIDE DEF d
    <2>2. d \in Keys
        BY <2>1 DEF Keys
    <2> QED
        BY <2>1, <2>2 DEF StorePushAssumption
<1> HIDE DEF d
<1>3. /\ store' \in [Targets -> [Keys -> 0 .. Len(Models)]]
      /\ Row(d)' = Row(k) /\ \A j \in Keys : j # d => Row(j)' = Row(j)
    BY <1>1, <1>2 DEF PushInv, PushShape, Row, Targets
<1>4. PushShape' /\ TurnInv' /\ FreshInv' /\ BatchInv'
    BY <1>1, <1>2, <1>3
       DEF PushInv, PushShape, TurnInv, FreshInv, BatchInv, InTurn, Goes, Mine, Row, Left
<1>5. WipeInv'
    <2> SUFFICES ASSUME InTurn, pc \in Goes, NEW j \in Keys, Foreign(j)', j.type \in Dealt
                 PROVE  Excused(j) \/ (pc = "delete" /\ j \in ids)
        BY <1>1 DEF WipeInv, InTurn, Dealt, Excused
    <2>1. CASE j # d
        <3>1. Foreign(j)
            BY <1>1, <1>3, <2>1 DEF Foreign, Row
        <3> QED
            BY <3>1 DEF PushInv, WipeInv
    <2>2. CASE j = d
        <3>1. Foreign(k)
            BY <1>1, <1>3, <2>2 DEF Foreign, Row
        <3>2. PICK n \in 1 .. wiped : d.type = WipeTypes[n]
            BY <2>2 DEF Dealt
        <3>3. PICK m \in DOMAIN WipeTypes : k.type = WipeTypes[m]
            BY <1>2 DEF StorePushAssumption, RangeOf
        <3>4. /\ DOMAIN WipeTypes = 1 .. Len(WipeTypes) /\ Len(WipeTypes) \in Nat
              /\ wiped \in 0 .. Len(WipeTypes)
              /\ \A i, l \in DOMAIN WipeTypes :
                    WipeTypes[i] \notin DerivedTypes /\ WipeTypes[l] \in DerivedTypes => i < l
            BY DEF StorePushAssumption, PushInv, PushShape
        <3>5. n \in DOMAIN WipeTypes
            BY <3>4
        <3>6. m < n
            BY <1>2, <3>2, <3>3, <3>4, <3>5
        <3>7. k.type \in Dealt
            BY <3>3, <3>4, <3>6 DEF Dealt
        <3>8. ~(pc = "delete" /\ k \in ids)
            <4> SUFFICES ASSUME pc = "delete", k \in ids PROVE FALSE
                OBVIOUS
            <4>1. k.type = WipeTypes[wiped] /\ wiped > 0
                BY DEF PushInv, PushShape
            <4>2. wiped < n
                <5>1. wiped \in DOMAIN WipeTypes
                    BY <3>4, <4>1
                <5> QED
                    BY <1>2, <3>2, <3>4, <3>5, <4>1, <5>1
            <4> QED
                BY <3>4, <4>2
        <3>9. \A e \in Derivers : DerivedKey[e] # k
            BY <1>2 DEF StorePushAssumption, RangeOf, Derivers
        <3> QED
            BY <1>2, <2>2, <3>1, <3>7, <3>8, <3>9 DEF PushInv, WipeInv, Excused, d
    <2> QED
        BY <2>1, <2>2
<1>6. ImportInv'
    <2>1. push \in DOMAIN Models
        BY DEF PushInv, PushShape, StorePushAssumption
    <2>2. d \notin ModelKeys(push) /\ ModelKeys(push) \subseteq Keys
        BY <1>2, <2>1 DEF StorePushAssumption, Keys
    <2>3. \A j \in ModelKeys(push) : Row(j)' = Row(j)
        BY <1>3, <2>2
    <2>4. pc \in Goes => \A n \in DOMAIN batches : batches[n] \subseteq ModelKeys(push)
        BY DEF PushInv, BatchInv
    <2> QED
        BY <1>1, <2>3, <2>4 DEF PushInv, ImportInv, InTurn, Mine, Row, Left, Goes
<1> QED
    BY <1>4, <1>5, <1>6 DEF PushInv

\* The rows that are there after a request are there before it, or are its own.
LEMMA RequestRows ==
    ASSUME PushShape, TurnInv, NEW r \in Requests, r.target \in Targets \ PROTECTED_TARGETS,
           r.push <= push, store' = Applied(store, r), push' = push
    PROVE  /\ store' \in [Targets -> [Keys -> 0 .. Len(Models)]]
           /\ InTurn => \A k \in Keys : Row(k)' <= push
           /\ \A k \in Keys : Row(k)' \in {Row(k), r.push}
BY AppliedRows DEF TurnInv, Row

LEMMA WriteFailsHolds ==
    ASSUME PushShape, TurnInv, NEW r \in Requests, r.target \in Targets \ PROTECTED_TARGETS,
           r.push <= push, WriteFails(r), push' = push
    PROVE  /\ store' \in [Targets -> [Keys -> 0 .. Len(Models)]]
           /\ faults' \in Seq(Faults) /\ late' \subseteq Requests /\ TurnInv'
           /\ InTurn' => InTurn /\ (store' = store \/ store' = Applied(store, r))
<1>1. CASE Fault("request") /\ UNCHANGED <<store, late>>
    BY <1>1, FaultAdds DEF PushShape, TurnInv, Row
<1>2. CASE Fault("reply") /\ store' = Applied(store, r) /\ UNCHANGED late
    BY <1>2, FaultAdds, RequestRows DEF PushShape, TurnInv
<1>3. CASE Fault("late") /\ late' = late \cup {r} /\ UNCHANGED store
    BY <1>3, FaultAdds DEF PushShape, TurnInv
<1> QED
    BY <1>1, <1>2, <1>3 DEF WriteFails

\* DELETE of a batch of what was read, and its failure.
LEMMA DeleteHolds ==
    ASSUME PushInv, NEW b \in SUBSET ids, DeleteBatch(b) PROVE PushInv'
<1>1. /\ UNCHANGED <<push, target, pc, wiped, batches, total, skipped, late, faults>>
      /\ pc = "delete" /\ ids' = ids \ b /\ store' = Applied(store, Delete(b))
      /\ target = "ephemeral"
    BY DEF DeleteBatch, Written, PushInv, PushShape, Goes
<1>2. /\ Delete(b) \in Requests /\ Delete(b).target = "ephemeral" /\ Delete(b).push = 0
      /\ Delete(b).keys = b /\ Delete(b).op = "DELETE" /\ 0 <= push
      /\ "ephemeral" \in Targets \ PROTECTED_TARGETS
    BY <1>1 DEF Delete, Requests, PushInv, PushShape, Targets, PROTECTED_TARGETS
<1>3. /\ store' \in [Targets -> [Keys -> 0 .. Len(Models)]]
      /\ \A k \in Keys : Row(k)' = IF k \in b THEN 0 ELSE Row(k)
    BY <1>1, <1>2, AppliedRows DEF Commits, PushInv
<1>4. PushShape'
    BY <1>1, <1>3 DEF PushInv, PushShape
<1>5. TurnInv' /\ FreshInv' /\ BatchInv' /\ ImportInv'
    <2>1. TurnInv'
        BY <1>1, <1>2, <1>3 DEF PushInv, TurnInv, InTurn
    <2>2. FreshInv'
        BY <1>1, <1>3 DEF PushInv, PushShape, FreshInv, InTurn, Mine, Row
    <2>3. BatchInv' /\ ImportInv'
        BY <1>1 DEF PushInv, BatchInv, ImportInv, Left
    <2> QED
        BY <2>1, <2>2, <2>3
<1>6. WipeInv'
    BY <1>1, <1>3 DEF PushInv, WipeInv, InTurn, Foreign, Row, Dealt, Excused
<1> QED
    BY <1>4, <1>5, <1>6 DEF PushInv

LEMMA DeleteFailsHolds ==
    ASSUME PushInv, NEW b \in SUBSET ids, DeleteFails(b) PROVE PushInv'
<1>1. /\ UNCHANGED <<push, target, wiped, ids, batches, total, skipped>>
      /\ pc = "delete" /\ pc' = "failed" /\ WriteFails(Delete(b)) /\ target = "ephemeral"
    BY DEF DeleteFails, PushInv, PushShape, Goes
<1>2. /\ Delete(b) \in Requests /\ Delete(b).target \in Targets \ PROTECTED_TARGETS
      /\ Delete(b).push <= push
    BY <1>1 DEF Delete, Requests, PushInv, PushShape, Targets, PROTECTED_TARGETS
<1>3. /\ store' \in [Targets -> [Keys -> 0 .. Len(Models)]]
      /\ faults' \in Seq(Faults) /\ late' \subseteq Requests /\ TurnInv'
    BY <1>1, <1>2, WriteFailsHolds DEF PushInv
<1> QED
    BY <1>1, <1>3 DEF PushInv, PushShape, WipeInv, FreshInv, BatchInv, ImportInv, Goes

\* A request of an earlier push is out of turn.
LEMMA ServeHolds == ASSUME PushInv, GuardedInv, NEW r \in late, ServeLate(r) PROVE PushInv'
<1>1. /\ UNCHANGED <<client, faults>> /\ late' = late \ {r} /\ store' = Applied(store, r)
      /\ r \in Requests /\ r.target \in Targets \ PROTECTED_TARGETS
      /\ UNCHANGED <<push, target, pc, wiped, ids, batches, total, skipped>>
    BY DEF ServeLate, PushInv, PushShape, GuardedInv, client
<1>2. store' \in [Targets -> [Keys -> 0 .. Len(Models)]]
    BY <1>1, AppliedRows DEF PushInv
<1>3. ~InTurn /\ ~InTurn'
    BY <1>1 DEF PushInv, TurnInv, InTurn
<1>4. PushShape' /\ BatchInv'
    BY <1>1, <1>2 DEF PushInv, PushShape, BatchInv, Left
<1> QED
    BY <1>3, <1>4 DEF PushInv, TurnInv, WipeInv, FreshInv, ImportInv

\* An INSERT of the next batch puts all of it there, also when the reply of an
\* earlier attempt was lost and this one does not commit; the other rows stay.
LEMMA InsertRows ==
    ASSUME StorePushAssumption, PushInv, InTurn, pc = "import", batches # <<>>,
           wiped = Len(WipeTypes), skipped = {},
           store' = Applied(store, Insert(Head(batches), push))
    PROVE  \A k \in Keys : Row(k)' = IF k \in Head(batches) THEN push ELSE Row(k)
<1> DEFINE r == Insert(Head(batches), push)
<1>1. Head(batches) = batches[1] /\ 1 \in DOMAIN batches /\ Head(batches) \subseteq ModelKeys(push)
    BY DEF PushInv, BatchInv, Goes
<1>2. push \in DOMAIN Models /\ push \in 0 .. Len(Models) /\ push # 0
    BY DEF PushInv, PushShape, StorePushAssumption
<1>3. Head(batches) \subseteq Keys
    BY <1>1, <1>2 DEF Keys
<1>4. /\ r \in Requests /\ r.target \in Targets \ PROTECTED_TARGETS
      /\ r.keys = Head(batches) /\ r.push = push /\ r.op # "DELETE" /\ store' = Applied(store, r)
    BY <1>2, <1>3 DEF Insert, Requests, PushInv, PushShape, Targets, PROTECTED_TARGETS, Goes
<1> HIDE DEF r
<1>5. /\ Commits(store["ephemeral"], r) =>
            \A k \in Keys : Row(k)' = IF k \in Head(batches) THEN push ELSE Row(k)
      /\ ~Commits(store["ephemeral"], r) => store' = store
    BY <1>4, AppliedRows DEF PushInv
<1>6. \/ \A k \in Head(batches) : Row(k) = 0
      \/ \A k \in Head(batches) : Row(k) = push
    <2>1. \A n \in DOMAIN batches :
             \/ \A k \in batches[n] : Row(k) = 0
             \/ n = 1 /\ \A k \in batches[n] : Mine(k)
        BY DEF PushInv, ImportInv
    <2>2. \/ \A k \in batches[1] : Row(k) = 0
          \/ \A k \in batches[1] : Mine(k)
        BY <1>1, <2>1
    <2> QED
        BY <1>1, <2>2 DEF Mine, Row
<1>7. (\A k \in Head(batches) : Row(k) = 0) => Commits(store["ephemeral"], r)
    BY <1>4 DEF Commits, Row
<1> QED
    BY <1>3, <1>5, <1>6, <1>7 DEF Row

\* What the import's requests are, and what they leave of the other pushes' rows.
LEMMA ImportRequest ==
    ASSUME StorePushAssumption, PushInv, pc = "import", batches # <<>>
    PROVE  LET r == Insert(Head(batches), push)
           IN  /\ r \in Requests /\ r.target \in Targets \ PROTECTED_TARGETS
               /\ r.push = push /\ r.push <= push
<1>1. Head(batches) \subseteq ModelKeys(push)
    BY DEF PushInv, BatchInv, Goes
<1>2. push \in DOMAIN Models /\ push \in 0 .. Len(Models)
    BY DEF PushInv, PushShape, StorePushAssumption
<1>3. Head(batches) \subseteq Keys
    BY <1>1, <1>2 DEF Keys
<1> QED
    BY <1>2, <1>3 DEF Insert, Requests, PushInv, PushShape, Targets, PROTECTED_TARGETS, Goes

LEMMA FlushFailsHolds == ASSUME StorePushAssumption, PushInv, FlushFails PROVE PushInv'
<1> DEFINE r == Insert(Head(batches), push)
<1>1. /\ UNCHANGED <<push, target, wiped, ids, batches, total, skipped>>
      /\ pc = "import" /\ pc' \in {"import", "failed"} /\ batches # <<>> /\ WriteFails(r)
    BY DEF FlushFails
<1>2. r \in Requests /\ r.target \in Targets \ PROTECTED_TARGETS /\ r.push = push /\ r.push <= push
    BY <1>1, ImportRequest
<1> HIDE DEF r
<1>3. /\ store' \in [Targets -> [Keys -> 0 .. Len(Models)]]
      /\ faults' \in Seq(Faults) /\ late' \subseteq Requests /\ TurnInv'
      /\ InTurn' => InTurn /\ (store' = store \/ store' = Applied(store, r))
    BY <1>1, <1>2, WriteFailsHolds DEF PushInv
<1>4. InTurn' => \A k \in Keys : Row(k)' \in {Row(k), push}
    BY <1>1, <1>2, <1>3, RequestRows DEF PushInv, Row
<1>5. PushShape' /\ BatchInv' /\ FreshInv'
    BY <1>1, <1>3 DEF PushInv, PushShape, BatchInv, FreshInv, Goes, Left
<1>6. WipeInv'
    BY <1>1, <1>3, <1>4 DEF PushInv, WipeInv, Goes, Foreign, Row, Dealt, Excused
<1>7. ImportInv'
    <2> SUFFICES ASSUME InTurn', pc' = "import", wiped = Len(WipeTypes), skipped = {}
                 PROVE  /\ \A k \in ModelKeys(push) \ Left : Mine(k)'
                        /\ \A n \in DOMAIN batches :
                              \/ \A k \in batches[n] : Row(k)' = 0
                              \/ n = 1 /\ \A k \in batches[n] : Mine(k)'
        BY <1>1 DEF ImportInv, Left
    <2>1. /\ \A k \in ModelKeys(push) \ Left : Mine(k)
          /\ \A n \in DOMAIN batches :
                \/ \A k \in batches[n] : Row(k) = 0
                \/ n = 1 /\ \A k \in batches[n] : Mine(k)
        BY <1>1, <1>3 DEF PushInv, ImportInv
    <2>2. CASE store' = store
        BY <1>1, <2>1, <2>2 DEF Mine, Row
    <2>3. CASE store' = Applied(store, r)
        <3>1. \A k \in Keys : Row(k)' = IF k \in batches[1] THEN push ELSE Row(k)
            BY <1>1, <1>3, <2>3, InsertRows DEF r, PushInv, BatchInv, Goes
        <3>2. /\ 1 \in DOMAIN batches
              /\ \A n \in DOMAIN batches : batches[n] \subseteq ModelKeys(push)
              /\ \A n \in DOMAIN batches : n # 1 => batches[n] \cap batches[1] = {}
              /\ ModelKeys(push) \subseteq Keys
            BY <1>1 DEF PushInv, PushShape, BatchInv, Goes, Keys, StorePushAssumption
        <3> QED
            BY <1>1, <2>1, <3>1, <3>2 DEF Mine, Row
    <2> QED
        BY <1>3, <2>2, <2>3
<1> QED
    BY <1>3, <1>5, <1>6, <1>7 DEF PushInv

\* What is counted when the next batch is done.
LEMMA BatchCounted ==
    ASSUME NEW S, IsFiniteSet(S), NEW bs \in Seq(SUBSET S), bs # <<>>,
           \A i, j \in DOMAIN bs : i # j => bs[i] \cap bs[j] = {}
    PROVE  /\ Tail(bs) \in Seq(SUBSET S)
           /\ \A n \in DOMAIN Tail(bs) : n + 1 \in DOMAIN bs /\ n + 1 # 1 /\ Tail(bs)[n] = bs[n + 1]
           /\ \A i, j \in DOMAIN Tail(bs) : i # j => Tail(bs)[i] \cap Tail(bs)[j] = {}
           /\ S \ UNION RangeOf(Tail(bs)) = (S \ UNION RangeOf(bs)) \cup Head(bs)
           /\ Cardinality(S \ UNION RangeOf(Tail(bs)))
                = Cardinality(S \ UNION RangeOf(bs)) + Cardinality(Head(bs))
<1> DEFINE L == UNION RangeOf(bs)
           T == UNION RangeOf(Tail(bs))
<1>1. /\ Len(bs) \in Nat \ {0} /\ DOMAIN bs = 1 .. Len(bs) /\ 1 \in DOMAIN bs
      /\ Head(bs) = bs[1] /\ Head(bs) \subseteq S
      /\ Tail(bs) \in Seq(SUBSET S) /\ DOMAIN Tail(bs) = 1 .. Len(bs) - 1
      /\ \A n \in DOMAIN Tail(bs) : Tail(bs)[n] = bs[n + 1]
    OBVIOUS
<1>2. \A n \in DOMAIN Tail(bs) : n + 1 \in DOMAIN bs /\ n + 1 # 1
    BY <1>1
<1>3. \A i, j \in DOMAIN Tail(bs) : i # j => Tail(bs)[i] \cap Tail(bs)[j] = {}
    <2> SUFFICES ASSUME NEW i \in DOMAIN Tail(bs), NEW j \in DOMAIN Tail(bs), i # j
                 PROVE  Tail(bs)[i] \cap Tail(bs)[j] = {}
        OBVIOUS
    <2>1. i + 1 # j + 1
        BY <1>1
    <2> QED
        BY <1>1, <1>2, <2>1
<1>4. L = T \cup Head(bs)
    <2>1. ASSUME NEW n \in DOMAIN bs, n # 1
          PROVE  bs[n] \in RangeOf(Tail(bs))
        <3>1. n - 1 \in DOMAIN Tail(bs) /\ (n - 1) + 1 = n
            BY <1>1, <2>1
        <3> QED
            BY <1>1, <3>1 DEF RangeOf
    <2>2. \A n \in DOMAIN Tail(bs) : Tail(bs)[n] \in RangeOf(bs)
        BY <1>1, <1>2 DEF RangeOf
    <2>3. Head(bs) \in RangeOf(bs)
        BY <1>1 DEF RangeOf
    <2>4. RangeOf(bs) = RangeOf(Tail(bs)) \cup {Head(bs)}
        BY <1>1, <2>1, <2>2, <2>3 DEF RangeOf
    <2> QED
        BY <2>4
<1>5. T \cap Head(bs) = {}
    BY <1>1, <1>2 DEF RangeOf
<1>6. S \ T = (S \ L) \cup Head(bs) /\ (S \ L) \cap Head(bs) = {}
    BY <1>1, <1>4, <1>5
<1>7. Cardinality(S \ T) = Cardinality(S \ L) + Cardinality(Head(bs))
    <2> DEFINE rest == S \ L
               next == Head(bs)
    <2>1. IsFiniteSet(rest) /\ IsFiniteSet(next)
        BY <1>1, FS_Subset
    <2>2. S \ T = rest \cup next /\ rest \cap next = {}
        BY <1>6
    <2> HIDE DEF rest, next
    <2>3. Cardinality(rest \cup next) = Cardinality(rest) + Cardinality(next) - Cardinality(rest \cap next)
        BY <2>1, FS_Union
    <2>4. Cardinality(rest) \in Nat /\ Cardinality(next) \in Nat /\ Cardinality(rest \cap next) = 0
        BY <2>1, <2>2, FS_CardinalityType, FS_EmptySet
    <2>5. Cardinality(rest \cup next) = Cardinality(rest) + Cardinality(next)
        BY <2>3, <2>4
    <2> QED
        BY <2>2, <2>5 DEF rest, next
<1> QED
    BY <1>1, <1>2, <1>3, <1>6, <1>7

LEMMA FlushOkHolds == ASSUME StorePushAssumption, PushInv, FlushOk PROVE PushInv'
<1> DEFINE r == Insert(Head(batches), push)
           S == ModelKeys(push)
<1>1. /\ UNCHANGED <<push, target, pc, wiped, ids, skipped, late, faults>>
      /\ pc = "import" /\ batches # <<>> /\ store' = Applied(store, r)
      /\ total' = total + Cardinality(Head(batches)) /\ batches' = Tail(batches)
    BY DEF FlushOk, Written
<1>2. r \in Requests /\ r.target \in Targets \ PROTECTED_TARGETS /\ r.push = push /\ r.push <= push
    BY <1>1, ImportRequest
<1>3. /\ IsFiniteSet(S) /\ S \subseteq Keys
      /\ batches \in Seq(SUBSET S)
      /\ \A i, j \in DOMAIN batches : i # j => batches[i] \cap batches[j] = {}
      /\ total = Cardinality(S \ Left)
    <2>1. push \in DOMAIN Models
        BY DEF PushInv, PushShape, StorePushAssumption
    <2> QED
        BY <1>1, <2>1, ImportCuts DEF PushInv, BatchInv, Goes, Keys
<1>4. /\ batches' \in Seq(SUBSET S)
      /\ \A n \in DOMAIN batches' : n + 1 \in DOMAIN batches /\ n + 1 # 1 /\ batches'[n] = batches[n + 1]
      /\ \A i, j \in DOMAIN batches' : i # j => batches'[i] \cap batches'[j] = {}
      /\ S \ Left' = (S \ Left) \cup Head(batches)
      /\ Cardinality(S \ Left') = Cardinality(S \ Left) + Cardinality(Head(batches))
    BY <1>1, <1>3, BatchCounted DEF Left
<1>5. S' = S
    BY <1>1 DEF ModelKeys
<1> HIDE DEF r, S
<1>6. /\ store' \in [Targets -> [Keys -> 0 .. Len(Models)]]
      /\ InTurn => \A k \in Keys : Row(k)' <= push
      /\ \A k \in Keys : Row(k)' \in {Row(k), push}
    BY <1>1, <1>2, RequestRows DEF PushInv
<1>7. PushShape' /\ TurnInv' /\ FreshInv'
    BY <1>1, <1>6 DEF PushInv, PushShape, TurnInv, FreshInv, InTurn
<1>8. WipeInv'
    BY <1>1, <1>6 DEF PushInv, WipeInv, InTurn, Goes, Foreign, Row, Dealt, Excused
<1>9. BatchInv'
    BY <1>1, <1>3, <1>4, <1>5 DEF BatchInv, S
<1>10. ImportInv'
    <2> SUFFICES ASSUME InTurn, wiped = Len(WipeTypes), skipped = {}
                 PROVE  /\ \A k \in S \ Left' : Row(k)' = push
                        /\ \A n \in DOMAIN batches' : \A k \in batches'[n] : Row(k)' = 0
        BY <1>1 DEF ImportInv, InTurn, Mine, Row, S
    <2>1. \A k \in Keys : Row(k)' = IF k \in Head(batches) THEN push ELSE Row(k)
        BY <1>1, InsertRows DEF r
    <2>2. /\ \A k \in S \ Left : Row(k) = push
          /\ \A n \in DOMAIN batches : n # 1 => \A k \in batches[n] : Row(k) = 0
        BY <1>1 DEF PushInv, ImportInv, Mine, Row, S
    <2>3. Head(batches) = batches[1] /\ 1 \in DOMAIN batches
        BY <1>1, <1>3
    <2>4. \A k \in S \ Left' : Row(k)' = push
        BY <1>3, <1>4, <2>1, <2>2
    <2>5. ASSUME NEW n \in DOMAIN batches', NEW k \in batches'[n]
          PROVE  Row(k)' = 0
        <3>1. n + 1 \in DOMAIN batches /\ n + 1 # 1 /\ k \in batches[n + 1]
            BY <1>4, <2>5
        <3>2. k \in Keys /\ k \notin Head(batches) /\ Row(k) = 0
            BY <1>3, <2>2, <2>3, <3>1
        <3> QED
            BY <2>1, <3>2
    <2> QED
        BY <2>4, <2>5
<1> QED
    BY <1>7, <1>8, <1>9, <1>10 DEF PushInv

LEMMA PushStepHolds ==
    ASSUME StorePushAssumption, GuardedInv, PushInv, [Next]_vars PROVE PushInv'
<1>1. CASE Next
    BY <1>1, StartHolds, ReadHolds, WipeOverHolds, ReturnHolds, DeleteHolds, DeleteFailsHolds,
       FlushOkHolds, FlushFailsHolds, ServeHolds, DeriveHolds DEF Next
<1>2. CASE UNCHANGED vars
    BY <1>2 DEF vars, client, PushInv, PushShape, TurnInv, WipeInv, FreshInv, BatchInv, ImportInv,
       InTurn, Goes, Row, Mine, Foreign, Dealt, Excused, Left
<1> QED
    BY <1>1, <1>2

LEMMA PushInvariance == Spec => [](GuardedInv /\ PushInv)
<1>1. Init => GuardedInv /\ PushInv
    BY GuardedInit, PushInitHolds, StorePushAssumption
<1>2. GuardedInv /\ PushInv /\ [Next]_vars => GuardedInv' /\ PushInv'
    BY GuardedStep, PushStepHolds, StorePushAssumption
<1> QED
    BY <1>1, <1>2, PTL DEF Spec

\* When a push that wiped first has returned, a row of another model is of a type
\* that could not be read, or derived from one of such a type: push_model's
\* "serves exactly one model", with what its except clause leaves of it.
THEOREM LeftoversExplained == Spec => []LeftoversAreOfUnreadTypes
<1>1. PushInv => LeftoversAreOfUnreadTypes
    <2> SUFFICES ASSUME PushInv, Returned, NEW k \in Keys, Foreign(k)
                 PROVE  Excused(k)
        BY DEF LeftoversAreOfUnreadTypes, Excused
    <2>1. k.type \in Dealt
        BY StorePushAssumption DEF StorePushAssumption, RangeOf, Dealt, Returned
    <2> QED
        BY <2>1 DEF PushInv, WipeInv, Returned, InTurn, Goes
<1> QED
    BY <1>1, PushInvariance, PTL

\* When a push that could read every type has returned, every row of its model is
\* there, written by it, and the total it reports is the number of those rows,
\* whatever was tried again (flush and its six attempts).
THEOREM PushIsWhole == Spec => []WholeModel
<1>1. PushInv => WholeModel
    <2> SUFFICES ASSUME PushInv, Returned, skipped = {}
                 PROVE  /\ \A k \in ModelKeys(push) : Mine(k)
                        /\ total = Cardinality(ModelKeys(push))
        BY DEF WholeModel
    <2>1. Left = {}
        BY DEF PushInv, BatchInv, Returned, Goes, Left, RangeOf
    <2>2. ModelKeys(push) \ Left = ModelKeys(push)
        BY <2>1
    <2> QED
        BY <2>2 DEF PushInv, BatchInv, ImportInv, Returned, InTurn, Goes
<1> QED
    BY <1>1, PushInvariance, PTL
=============================================================================

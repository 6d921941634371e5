------------------------- MODULE SagaExecutorProofs -------------------------
(***************************************************************************)
(* Theorems about the saga executor, for every DAG, registry and naming,   *)
(* every number of calls and every failure of DoIt, UndoIt and Save.       *)
(***************************************************************************)
EXTENDS SagaExecutor, FiniteSetTheorems, SequenceTheorems, WellFoundedInduction, TLAPS

(* Sequences and what is kept of them *)

\* Induction over a set of numbers, by the least number that is not in it.
LEMMA SetInduction ==
  ASSUME NEW T, NEW n \in Nat, 0 \in T, \A k \in 0 .. n - 1 : k \in T => k + 1 \in T
  PROVE  \A k \in 0 .. n : k \in T
<1> DEFINE R == {ss \in Nat \X Nat : ss[1] < ss[2]}
           C == {i \in 0 .. n : i \notin T}
<1>1. IsWellFoundedOn(R, Nat)
  BY NatLessThanWellFounded DEF OpToRel
<1>2. SUFFICES ASSUME C # {} PROVE FALSE
  OBVIOUS
<1>3. PICK i \in C : \A j \in C : <<j, i>> \notin R
  <2>1. C \subseteq Nat
    OBVIOUS
  <2> HIDE DEF R, C
  <2>2. QED
    BY <1>1, <1>2, <2>1, WFMin
<1>4. i \in 1 .. n /\ i - 1 \in 0 .. n - 1 /\ i - 1 \in C
  BY <1>3
<1>5. <<i - 1, i>> \in R
  BY <1>4
<1>6. QED
  BY <1>3, <1>4, <1>5

\* f holds the filtered prefixes of s, up to the one of length n.
KeptUpTo(f, s, S, n) ==
  /\ f = [m \in 0 .. n |-> f[m]]
  /\ f[0] = <<>>
  /\ \A m \in 1 .. n : f[m] = IF s[m] \in S THEN Append(f[m - 1], s[m]) ELSE f[m - 1]

\* The recursive function that Kept takes its value from exists, and its values up to
\* n depend on the first n elements only.
LEMMA KeptExists ==
  ASSUME NEW s, NEW S, NEW n \in Nat
  PROVE  \E f : KeptUpTo(f, s, S, n)
<1> DEFINE T == {k \in 0 .. n : \E f : KeptUpTo(f, s, S, k)}
<1>1. 0 \in T
  <2>1. KeptUpTo([m \in 0 .. 0 |-> <<>>], s, S, 0)
    BY DEF KeptUpTo
  <2>2. QED
    BY <2>1
<1>2. ASSUME NEW k \in 0 .. n - 1, k \in T PROVE k + 1 \in T
  <2>1. PICK f : KeptUpTo(f, s, S, k)
    BY <1>2
  <2> DEFINE e == IF s[k + 1] \in S THEN Append(f[k], s[k + 1]) ELSE f[k]
             g == [m \in 0 .. k + 1 |-> IF m = k + 1 THEN e ELSE f[m]]
  <2>2. g[k + 1] = e /\ \A m \in 0 .. k : g[m] = f[m]
    OBVIOUS
  <2>3. g = [m \in 0 .. k + 1 |-> g[m]]
    OBVIOUS
  <2>4. f[0] = <<>> /\ \A m \in 1 .. k : f[m] = IF s[m] \in S THEN Append(f[m - 1], s[m]) ELSE f[m - 1]
    BY <2>1 DEF KeptUpTo
  <2>5. KeptUpTo(g, s, S, k + 1)
    <3> HIDE DEF g
    <3>1. ASSUME NEW m \in 1 .. k + 1
          PROVE  g[m] = IF s[m] \in S THEN Append(g[m - 1], s[m]) ELSE g[m - 1]
      BY <2>2, <2>4
    <3>2. QED
      BY <2>2, <2>3, <2>4, <3>1 DEF KeptUpTo
  <2>6. QED
    BY <2>5
<1>3. QED
  <2> HIDE DEF T
  <2>1. n \in T
    BY <1>1, <1>2, SetInduction
  <2>2. QED
    BY <2>1 DEF T

LEMMA KeptUnique ==
  ASSUME NEW s, NEW t, NEW S, NEW n \in Nat, NEW f, NEW g,
         KeptUpTo(f, s, S, n), KeptUpTo(g, t, S, n + 1), \A i \in 1 .. n : s[i] = t[i]
  PROVE  f[n] = g[n]
<1> DEFINE T == {k \in 0 .. n : f[k] = g[k]}
<1>1. 0 \in T
  BY DEF KeptUpTo
<1>2. ASSUME NEW k \in 0 .. n - 1, k \in T PROVE k + 1 \in T
  <2>1. k + 1 \in 1 .. n /\ k + 1 \in 1 .. n + 1 /\ (k + 1) - 1 = k
    OBVIOUS
  <2>2. f[k + 1] = IF s[k + 1] \in S THEN Append(f[k], s[k + 1]) ELSE f[k]
    BY <2>1 DEF KeptUpTo
  <2>3. g[k + 1] = IF t[k + 1] \in S THEN Append(g[k], t[k + 1]) ELSE g[k]
    BY <2>1 DEF KeptUpTo
  <2>4. QED
    BY <1>2, <2>1, <2>2, <2>3
<1>3. QED
  <2> HIDE DEF T
  <2>1. n \in T
    BY <1>1, <1>2, SetInduction
  <2>2. QED
    BY <2>1 DEF T

LEMMA KeptIs ==
  ASSUME NEW s, NEW S, Len(s) \in Nat
  PROVE  \E f : KeptUpTo(f, s, S, Len(s)) /\ Kept(s, S) = f[Len(s)]
<1> DEFINE N == 0 .. Len(s)
           Eq(f) == f = [n \in N |-> IF n = 0 THEN <<>>
                              ELSE IF s[n] \in S THEN Append(f[n - 1], s[n])
                              ELSE f[n - 1]]
           fn == CHOOSE f : Eq(f)
<1>1. Kept(s, S) = fn[Len(s)]
  BY DEF Kept
<1>2. PICK f : KeptUpTo(f, s, S, Len(s))
  BY KeptExists
<1>3. Eq(f)
  <2>1. f = [n \in N |-> f[n]]
    BY <1>2 DEF KeptUpTo
  <2>2. ASSUME NEW n \in N
        PROVE  f[n] = IF n = 0 THEN <<>>
                      ELSE IF s[n] \in S THEN Append(f[n - 1], s[n])
                      ELSE f[n - 1]
    <3>1. n = 0 \/ n \in 1 .. Len(s)
      OBVIOUS
    <3>2. QED
      BY <1>2, <3>1 DEF KeptUpTo
  <2>3. QED
    BY <2>1, <2>2, Zenon
<1>4. Eq(fn)
  <2> HIDE DEF Eq
  <2>1. QED
    BY <1>3
<1>5. KeptUpTo(fn, s, S, Len(s))
  <2> HIDE DEF fn
  <2>1. fn = [n \in N |-> fn[n]]
    BY <1>4
  <2>2. fn[0] = <<>>
    BY <1>4
  <2>3. ASSUME NEW n \in 1 .. Len(s)
        PROVE  fn[n] = IF s[n] \in S THEN Append(fn[n - 1], s[n]) ELSE fn[n - 1]
    <3>1. n \in N /\ n # 0
      OBVIOUS
    <3>2. fn[n] = [i \in N |-> IF i = 0 THEN <<>>
                              ELSE IF s[i] \in S THEN Append(fn[i - 1], s[i])
                              ELSE fn[i - 1]][n]
      BY <1>4
    <3>3. QED
      BY <3>1, <3>2
  <2>4. QED
    BY <2>1, <2>2, <2>3 DEF KeptUpTo
<1>6. QED
  BY <1>1, <1>5

\* How the first n elements of a sequence and what is kept of them correspond: the
\* elements kept are those at the places h, in order, and none of S is passed over.
Places(h, t, s, S, n) ==
  /\ h \in [1 .. Len(t) -> 1 .. n]
  /\ \A i, j \in 1 .. Len(t) : i < j => h[i] < h[j]
  /\ \A i \in 1 .. Len(t) : t[i] = s[h[i]] /\ s[h[i]] \in S
  /\ \A k \in 1 .. n : s[k] \in S => \E i \in 1 .. Len(t) : h[i] = k

\* One more element kept has the place after all others.
LEMMA AppendPlace ==
  ASSUME NEW s, NEW S, NEW t \in Seq(S), NEW n \in Nat, NEW h, Places(h, t, s, S, n),
         s[n + 1] \in S
  PROVE  \E g : Places(g, Append(t, s[n + 1]), s, S, n + 1)
<1> DEFINE l == Len(t)
           u == Append(t, s[n + 1])
           g == [i \in 1 .. l + 1 |-> IF i = l + 1 THEN n + 1 ELSE h[i]]
<1>1. /\ l \in Nat /\ Len(u) = l + 1 /\ u[l + 1] = s[n + 1]
      /\ \A i \in 1 .. l : u[i] = t[i]
  OBVIOUS
<1>2. /\ \A i \in 1 .. l : h[i] \in 1 .. n /\ t[i] = s[h[i]] /\ s[h[i]] \in S
      /\ \A i, j \in 1 .. l : i < j => h[i] < h[j]
      /\ \A k \in 1 .. n : s[k] \in S => \E i \in 1 .. l : h[i] = k
  BY DEF Places
<1> HIDE DEF l, u
<1>3. g[l + 1] = n + 1 /\ \A i \in 1 .. l : g[i] = h[i] /\ i # l + 1
  BY <1>1
<1>4. \A i \in 1 .. l + 1 : i \in 1 .. l \/ i = l + 1
  BY <1>1
<1>5. g \in [1 .. l + 1 -> 1 .. n + 1]
  BY <1>2, <1>4
<1> HIDE DEF g
<1>6. ASSUME NEW i \in 1 .. l + 1, NEW j \in 1 .. l + 1, i < j
      PROVE  g[i] < g[j]
  <2>1. i \in 1 .. l /\ g[i] = h[i] /\ h[i] \in 1 .. n
    BY <1>1, <1>2, <1>3, <1>6
  <2>2. CASE j = l + 1
    BY <1>3, <2>1, <2>2
  <2>3. CASE j \in 1 .. l
    BY <1>2, <1>3, <1>6, <2>1, <2>3
  <2>4. QED
    BY <1>4, <2>2, <2>3
<1>7. \A i \in 1 .. l + 1 : u[i] = s[g[i]] /\ s[g[i]] \in S
  BY <1>1, <1>2, <1>3, <1>4
<1>8. \A k \in 1 .. n + 1 : s[k] \in S => \E i \in 1 .. l + 1 : g[i] = k
  <2>1. \A k \in 1 .. n + 1 : k \in 1 .. n \/ k = n + 1
    OBVIOUS
  <2>2. l + 1 \in 1 .. l + 1 /\ \A i \in 1 .. l : i \in 1 .. l + 1
    BY <1>1
  <2>3. QED
    BY <1>2, <1>3, <2>1, <2>2
<1>9. Places(g, u, s, S, n + 1)
  BY <1>1, <1>5, <1>6, <1>7, <1>8 DEF Places
<1>10. QED
  BY <1>9 DEF u

\* What is kept of a sequence are its elements that are in S, each at its place.
LEMMA KeptPlaces ==
  ASSUME NEW E, NEW s \in Seq(E), NEW S
  PROVE  /\ Kept(s, S) \in Seq(S)
         /\ \E h : Places(h, Kept(s, S), s, S, Len(s))
<1> DEFINE l == Len(s)
<1>1. l \in Nat
  OBVIOUS
<1> HIDE DEF l
<1>2. PICK f : KeptUpTo(f, s, S, l) /\ Kept(s, S) = f[l]
  BY <1>1, KeptIs DEF l
<1> DEFINE T == {n \in 0 .. l : f[n] \in Seq(S) /\ \E h : Places(h, f[n], s, S, n)}
<1>3. 0 \in T
  <2>1. f[0] = <<>> /\ 0 \in 0 .. l
    BY <1>1, <1>2 DEF KeptUpTo
  <2>2. <<>> \in Seq(S) /\ Len(<<>>) = 0
    OBVIOUS
  <2>3. Places([i \in 1 .. 0 |-> i], <<>>, s, S, 0)
    BY <2>2 DEF Places
  <2>4. \E h : Places(h, f[0], s, S, 0)
    BY <2>1, <2>3
  <2>5. f[0] \in Seq(S)
    BY <2>1, <2>2
  <2>6. QED
    BY <2>1, <2>4, <2>5
<1>4. ASSUME NEW n \in 0 .. l - 1, n \in T PROVE n + 1 \in T
  <2>1. n + 1 \in 1 .. l /\ n + 1 \in 0 .. l /\ n \in Nat /\ (n + 1) - 1 = n /\ f[n] \in Seq(S)
    BY <1>1, <1>4
  <2>2. PICK h : Places(h, f[n], s, S, n)
    BY <1>4
  <2>3. f[n + 1] = IF s[n + 1] \in S THEN Append(f[n], s[n + 1]) ELSE f[n]
    BY <1>2, <2>1 DEF KeptUpTo
  <2>4. CASE s[n + 1] \notin S
    <3>1. f[n + 1] = f[n]
      BY <2>3, <2>4
    <3>2. Places(h, f[n], s, S, n + 1)
      <4>1. 1 .. n \subseteq 1 .. n + 1 /\ \A k \in 1 .. n + 1 : k \in 1 .. n \/ k = n + 1
        BY <2>1
      <4>2. QED
        BY <2>2, <2>4, <4>1 DEF Places
    <3>3. QED
      BY <2>1, <3>1, <3>2
  <2>5. CASE s[n + 1] \in S
    <3>1. f[n + 1] = Append(f[n], s[n + 1]) /\ f[n + 1] \in Seq(S)
      <4> DEFINE q == f[n]
                 e == s[n + 1]
      <4>1. q \in Seq(S) /\ e \in S
        BY <2>1, <2>5
      <4> HIDE DEF q, e
      <4>2. Append(q, e) \in Seq(S)
        BY <4>1
      <4>3. QED
        BY <2>3, <2>5, <4>2 DEF q, e
    <3>2. \E g : Places(g, f[n + 1], s, S, n + 1)
      BY <2>1, <2>2, <2>5, <3>1, AppendPlace
    <3>3. QED
      BY <2>1, <3>1, <3>2
  <2>6. QED
    BY <2>4, <2>5
<1>5. l \in T
  <2> HIDE DEF T
  <2>1. l \in 0 .. l
    BY <1>1
  <2>2. QED
    BY <1>1, <1>3, <1>4, <2>1, SetInduction
<1>6. QED
  BY <1>2, <1>5 DEF l

\* What is kept of a sequence that grows grows with it.
LEMMA KeptAppend ==
  ASSUME NEW E, NEW s \in Seq(E), NEW e \in E, NEW S
  PROVE  Kept(Append(s, e), S) = IF e \in S THEN Append(Kept(s, S), e) ELSE Kept(s, S)
<1> DEFINE t == Append(s, e)
           n == Len(s)
<1>1. /\ t \in Seq(E) /\ Len(t) = n + 1 /\ n \in Nat
      /\ t[n + 1] = e /\ \A i \in 1 .. n : s[i] = t[i]
  OBVIOUS
<1>2. PICK f : KeptUpTo(f, s, S, n) /\ Kept(s, S) = f[n]
  BY <1>1, KeptIs
<1> HIDE DEF t, n
<1>3. PICK g : KeptUpTo(g, t, S, n + 1) /\ Kept(t, S) = g[n + 1]
  BY <1>1, KeptIs
<1>4. f[n] = g[n]
  BY <1>1, <1>2, <1>3, KeptUnique
<1>5. g[n + 1] = IF t[n + 1] \in S THEN Append(g[n], t[n + 1]) ELSE g[n]
  BY <1>1, <1>3 DEF KeptUpTo
<1>6. QED
  BY <1>1, <1>2, <1>3, <1>4, <1>5 DEF t
----------------------------------------------------------------------------
(* Types *)

USE NodesAssumption, DagsAssumption, ActionNodesAssumption, RegistriesAssumption,
    NamesAssumption, FailuresAssumption, BoundsAssumption

\* A successful save leaves a readable state, with the status it was given.
LEMMA SavedStatus ==
  ASSUME NEW status, NEW nodes, Saves(status, nodes)
  PROVE  store'.status = status
BY DEF Saves, Snapshot

\* The kinds of state a save leaves behind, whether it succeeds or fails.
LEMMA SavedType ==
  ASSUME store \in {NoState, Torn} \/ Readable
  PROVE  /\ UNCHANGED store => (store' \in {NoState, Torn} \/ Readable')
         /\ SaveFails => (store' \in {NoState, Torn} \/ Readable')
         /\ \A nodes : \A status \in Statuses :
              Saves(status, nodes) => (store' \in {NoState, Torn} \/ Readable')
         /\ \A nodes : \A status \in Statuses :
              warned \in BOOLEAN /\ Persist(status, nodes) =>
                (store' \in {NoState, Torn} \/ Readable') /\ warned' \in BOOLEAN
<1>1. SaveFails => (store' \in {NoState, Torn} \/ Readable')
  BY DEF SaveFails, Readable
<1>2. ASSUME NEW status \in Statuses, NEW nodes, Saves(status, nodes)
      PROVE  Readable'
  BY <1>2, SavedStatus DEF Readable
<1>3. UNCHANGED store => (store' \in {NoState, Torn} \/ Readable')
  BY DEF Readable
<1>4. QED
  BY <1>1, <1>2, <1>3 DEF Persist

\* A topological order lists every node once, and edges point forward in it.
LEMMA OrderFacts ==
  ASSUME NEW s \in TopologicalOrders(edges)
  PROVE  /\ s \in Seq(Nodes)
         /\ \A i, j \in 1 .. Len(s) : <<s[i], s[j]>> \in edges => i < j
         /\ \A i, j \in 1 .. Len(s) : s[i] = s[j] => i = j
         /\ \A n \in Nodes : \E i \in 1 .. Len(s) : s[i] = n
<1> DEFINE D == 1 .. Cardinality(Nodes)
<1>1. Cardinality(Nodes) \in Nat
  BY FS_CardinalityType
<1>2. s \in [D -> Nodes] /\ \A i, j \in D : i # j => s[i] # s[j]
  BY DEF TopologicalOrders, SetToSeqs
<1>3. s \in Seq(Nodes) /\ D = 1 .. Len(s) /\ D = DOMAIN s
  BY <1>1, <1>2
<1>4. s \in Surjection(D, Nodes)
  <2>1. s \in Injection(D, Nodes)
    BY <1>2 DEF Injection, IsInjective
  <2>2. IsFiniteSet(D) /\ Cardinality(D) = Cardinality(Nodes)
    BY <1>1, FS_Interval
  <2>3. QED
    BY <2>1, <2>2, FS_Injection
<1>5. QED
  BY <1>2, <1>3, <1>4 DEF Surjection, TopologicalOrders

----------------------------------------------------------------------------
(* Type correctness, one part of the invariant at a time *)

LEMMA InitTypeOK == Init => TypeOK
<1> SUFFICES ASSUME Init PROVE TypeOK
  OBVIOUS
<1>1. ExecutorTypeOK
  <2>1. nodeState \in [Nodes -> NodeStates] /\ ancestorTree \in [Names -> Nat]
    BY DEF Init, FreshExecutor, AllPending, NoOutputs, NodeStates, NoOutput
  <2>2. completed \in Seq(Nodes) /\ failed \in Seq(Nodes)
    BY DEF Init, FreshExecutor
  <2>3. executionTrace \in Seq(ExecutionRecord)
    BY DEF Init, FreshExecutor
  <2>4. QED
    BY <2>1, <2>2, <2>3 DEF Init, ExecutorTypeOK
<1>2. EnvironmentTypeOK
  <2>1. store \in {NoState, Torn} /\ warned \in BOOLEAN
    BY DEF Init
  <2>2. executes \in 0 .. MaxExecutes /\ rollbacks \in 0 .. MaxRollbacks /\ serial \in Nat
    BY DEF Init
  <2>3. live \subseteq Nodes \X Nat
    BY DEF Init
  <2>4. QED
    BY <2>1, <2>2, <2>3 DEF EnvironmentTypeOK
<1>3. ControlTypeOK
  BY DEF Init, ControlTypeOK, Labels, Results
<1>4. QED
  BY <1>1, <1>2, <1>3 DEF TypeOK

LEMMA NextExecutorTypeOK == TypeOK /\ [Next]_vars => ExecutorTypeOK'
<1> SUFFICES ASSUME TypeOK, [Next]_vars PROVE ExecutorTypeOK'
  OBVIOUS
<1> USE DEF TypeOK, ExecutorTypeOK, ControlTypeOK, NodeStates, dagVars, nodeVars, listVars
<1>1. CASE Execute
  BY <1>1 DEF Execute
<1>2. CASE Rollback
  BY <1>2 DEF Rollback
<1>3. CASE SkipNode
  BY <1>3 DEF SkipNode, CurrentNode
<1>4. CASE ActionMissing
  BY <1>4 DEF ActionMissing, CurrentNode
<1>5. CASE StartNode
  BY <1>5 DEF StartNode, CurrentNode
<1>6. CASE DoItSucceeds
  <2>1. CurrentNode \in Nodes /\ serial' \in Nat
    BY <1>6 DEF DoItSucceeds, CurrentNode, EnvironmentTypeOK
  <2>2. ancestorTree' \in [Names -> Nat]
    BY <1>6, <2>1 DEF DoItSucceeds, Named
  <2>3. QED
    BY <1>6, <2>1, <2>2 DEF DoItSucceeds, Trace, ExecutionRecord
<1>7. CASE DoItFails
  BY <1>7 DEF DoItFails, CurrentNode, Trace, ExecutionRecord
<1>8. CASE NodeCompleted
  BY <1>8 DEF NodeCompleted, CurrentNode
<1>9. CASE NodeFailed
  BY <1>9 DEF NodeFailed, CurrentNode
<1>10. CASE SagaCompleted
  BY <1>10 DEF SagaCompleted
<1>11. CASE SkipUndo
  BY <1>11 DEF SkipUndo, NodeToUndo
<1>12. CASE StartUndo
  BY <1>12 DEF StartUndo, NodeToUndo
<1>13. CASE UndoItSucceeds
  BY <1>13 DEF UndoItSucceeds, NodeToUndo
<1>14. CASE UndoItFails
  BY <1>14 DEF UndoItFails
<1>15. CASE CompensationSucceeds
  BY <1>15 DEF CompensationSucceeds
<1>16. CASE CompensationFails
  BY <1>16 DEF CompensationFails
<1>17. CASE UNCHANGED vars
  BY <1>17 DEF vars, controlVars
<1> QED
  BY <1>1, <1>2, <1>3, <1>4, <1>5, <1>6, <1>7, <1>8, <1>9, <1>10, <1>11, <1>12, <1>13, <1>14, <1>15, <1>16, <1>17 DEF Next, Step

LEMMA NextEnvironmentTypeOK == TypeOK /\ [Next]_vars => EnvironmentTypeOK'
<1> SUFFICES ASSUME TypeOK, [Next]_vars PROVE EnvironmentTypeOK'
  OBVIOUS
<1> USE SavedType DEF TypeOK, EnvironmentTypeOK, ControlTypeOK, Statuses, storeVars, callVars,
      worldVars
<1>1. CASE Execute
  BY <1>1 DEF Execute
<1>2. CASE Rollback
  BY <1>2 DEF Rollback
<1>3. CASE SkipNode
  BY <1>3 DEF SkipNode
<1>4. CASE ActionMissing
  BY <1>4 DEF ActionMissing
<1>5. CASE StartNode
  BY <1>5 DEF StartNode
<1>6. CASE DoItSucceeds
  BY <1>6 DEF DoItSucceeds, CurrentNode
<1>7. CASE DoItFails
  BY <1>7 DEF DoItFails, CurrentNode
<1>8. CASE NodeCompleted
  BY <1>8 DEF NodeCompleted
<1>9. CASE NodeFailed
  BY <1>9 DEF NodeFailed
<1>10. CASE SagaCompleted
  BY <1>10 DEF SagaCompleted
<1>11. CASE SkipUndo
  BY <1>11 DEF SkipUndo
<1>12. CASE StartUndo
  BY <1>12 DEF StartUndo
<1>13. CASE UndoItSucceeds
  BY <1>13 DEF UndoItSucceeds
<1>14. CASE UndoItFails
  BY <1>14 DEF UndoItFails
<1>15. CASE CompensationSucceeds
  BY <1>15 DEF CompensationSucceeds
<1>16. CASE CompensationFails
  BY <1>16 DEF CompensationFails
<1>17. CASE UNCHANGED vars
  BY <1>17 DEF vars, controlVars
<1> QED
  BY <1>1, <1>2, <1>3, <1>4, <1>5, <1>6, <1>7, <1>8, <1>9, <1>10, <1>11, <1>12, <1>13, <1>14, <1>15, <1>16, <1>17 DEF Next, Step

LEMMA NextControlTypeOK == TypeOK /\ [Next]_vars => ControlTypeOK'
<1> SUFFICES ASSUME TypeOK, [Next]_vars PROVE ControlTypeOK'
  OBVIOUS
<1> USE DEF TypeOK, ExecutorTypeOK, ControlTypeOK, Labels, Results, listVars
<1>1. CASE Execute
  BY <1>1, OrderFacts DEF Execute
<1>2. CASE Rollback
  BY <1>2 DEF Rollback
<1>3. CASE SkipNode
  BY <1>3 DEF SkipNode, Goto
<1>4. CASE ActionMissing
  BY <1>4 DEF ActionMissing, Goto
<1>5. CASE StartNode
  BY <1>5 DEF StartNode, Goto
<1>6. CASE DoItSucceeds
  BY <1>6 DEF DoItSucceeds, Goto
<1>7. CASE DoItFails
  BY <1>7 DEF DoItFails, Goto
<1>8. CASE NodeCompleted
  BY <1>8 DEF NodeCompleted
<1>9. CASE NodeFailed
  BY <1>9 DEF NodeFailed
<1>10. CASE SagaCompleted
  BY <1>10 DEF SagaCompleted, Return
<1>11. CASE SkipUndo
  BY <1>11 DEF SkipUndo
<1>12. CASE StartUndo
  BY <1>12 DEF StartUndo, Goto
<1>13. CASE UndoItSucceeds
  BY <1>13 DEF UndoItSucceeds
<1>14. CASE UndoItFails
  BY <1>14 DEF UndoItFails, Goto
<1>15. CASE CompensationSucceeds
  BY <1>15 DEF CompensationSucceeds, Return
<1>16. CASE CompensationFails
  BY <1>16 DEF CompensationFails, Return
<1>17. CASE UNCHANGED vars
  BY <1>17 DEF vars, controlVars
<1> QED
  BY <1>1, <1>2, <1>3, <1>4, <1>5, <1>6, <1>7, <1>8, <1>9, <1>10, <1>11, <1>12, <1>13, <1>14, <1>15, <1>16, <1>17 DEF Next, Step

LEMMA NextTypeOK == TypeOK /\ [Next]_vars => TypeOK'
BY NextExecutorTypeOK, NextEnvironmentTypeOK, NextControlTypeOK DEF TypeOK

\* Every variable keeps the kind of value the code gives it, and the position of a
\* loop in progress stays within the list that loop walks: order[pos] and
\* completed[pos] are defined wherever the code indexes with them.
THEOREM TypeCorrect == Spec => []TypeOK
BY InitTypeOK, NextTypeOK, PTL DEF Spec

----------------------------------------------------------------------------
(* The inductive invariant *)

Forward == {"node", "DoIt", "nodeDone", "nodeFailed"}
Backward == {"undo", "UndoIt", "undoFailed"}

\* The loop of Execute walks a topological order and calls DoIt on actions only; a
\* call in progress has no result.
OrderInv ==
  /\ order = <<>> \/ order \in TopologicalOrders(edges)
  /\ pc \in Forward => order \in TopologicalOrders(edges)
  /\ pc # "idle" => result = "none"
  /\ pc = "DoIt" => CurrentNode \in ActionNodes
  /\ \A r \in live : r[1] \in ActionNodes

\* A node that the loop has passed is completed, and in place if it is an action.
Passed(n) ==
  /\ nodeState[n] = "completed"
  /\ n \in ActionNodes /\ DistinctNames => <<n, OutputOf(n)>> \in live

ForwardInv ==
  /\ pc \in Forward => \A i \in 1 .. pos - 1 : Passed(order[i])
  /\ pc = "nodeDone" => Passed(order[pos])

\* In the first Execute, and after it, the completed list is a prefix of the order:
\* it has no duplicates and the dependents of a node come after it.
PrefixInv ==
  executes <= 1 =>
    /\ executes = 0 => pc = "idle" /\ completed = <<>> /\ live = {}
    /\ Len(completed) <= Len(order)
    /\ \A i \in 1 .. Len(completed) : completed[i] = order[i]
    /\ \A i \in 1 .. Len(completed) : nodeState[completed[i]] # "failed"
    /\ pc \in Forward => Len(completed) = pos - 1

\* A resource belongs to a completed node, to the one being completed, or to a
\* failed one; but for the last, it is the output the tree holds for its node.
ResourceInv ==
  executes <= 1 =>
    \A r \in live :
      /\ \/ \E i \in 1 .. Len(completed) : completed[i] = r[1]
         \/ pc = "nodeDone" /\ r[1] = order[pos]
         \/ nodeState[r[1]] = "failed" /\ pc \notin {"node", "DoIt", "nodeDone"}
      /\ DistinctNames /\ nodeState[r[1]] # "failed" => r[2] = OutputOf(r[1])

\* Compensation has undone what its loop has passed.
BackwardInv ==
  executes <= 1 /\ DistinctNames =>
    /\ pc \in Backward => \A i \in pos + 1 .. Len(completed) : completed[i] \notin InPlace
    /\ result \in {"compensated", "rolledBack"} => pc = "idle" /\ InPlace = {}

IInv == TypeOK /\ OrderInv /\ ForwardInv /\ PrefixInv /\ ResourceInv /\ BackwardInv

LEMMA NextOrderInv == TypeOK /\ OrderInv /\ [Next]_vars => OrderInv'
<1> SUFFICES ASSUME TypeOK /\ OrderInv, [Next]_vars PROVE OrderInv'
  OBVIOUS
<1> USE DEF TypeOK, ExecutorTypeOK, ControlTypeOK, OrderInv, Forward, dagVars, nodeVars,
      listVars, worldVars, storeVars, CurrentNode
<1>1. CASE Execute
  BY <1>1 DEF Execute
<1>2. CASE Rollback
  BY <1>2 DEF Rollback
<1>3. CASE SkipNode
  BY <1>3 DEF SkipNode, Goto
<1>4. CASE ActionMissing
  BY <1>4 DEF ActionMissing, Goto
<1>5. CASE StartNode
  BY <1>5 DEF StartNode, Goto
<1>6. CASE DoItSucceeds
  BY <1>6 DEF DoItSucceeds, Goto
<1>7. CASE DoItFails
  BY <1>7 DEF DoItFails, Goto
<1>8. CASE NodeCompleted
  BY <1>8 DEF NodeCompleted
<1>9. CASE NodeFailed
  BY <1>9 DEF NodeFailed
<1>10. CASE SagaCompleted
  BY <1>10 DEF SagaCompleted, Return
<1>11. CASE SkipUndo
  BY <1>11 DEF SkipUndo
<1>12. CASE StartUndo
  BY <1>12 DEF StartUndo, Goto
<1>13. CASE UndoItSucceeds
  BY <1>13 DEF UndoItSucceeds
<1>14. CASE UndoItFails
  BY <1>14 DEF UndoItFails, Goto
<1>15. CASE CompensationSucceeds
  BY <1>15 DEF CompensationSucceeds, Return
<1>16. CASE CompensationFails
  BY <1>16 DEF CompensationFails, Return
<1>17. CASE UNCHANGED vars
  BY <1>17 DEF vars, controlVars, callVars
<1>18. QED
  BY <1>1, <1>2, <1>3, <1>4, <1>5, <1>6, <1>7, <1>8, <1>9,
     <1>10, <1>11, <1>12, <1>13, <1>14, <1>15, <1>16, <1>17 DEF Next, Step

LEMMA NextForwardInv == TypeOK /\ OrderInv /\ ForwardInv /\ [Next]_vars => ForwardInv'
<1> SUFFICES ASSUME TypeOK /\ OrderInv /\ ForwardInv, [Next]_vars PROVE ForwardInv'
  OBVIOUS
<1> USE DEF TypeOK, ExecutorTypeOK, EnvironmentTypeOK, ControlTypeOK, ForwardInv, Passed, OutputOf,
      Forward, dagVars, nodeVars, listVars, worldVars, storeVars, CurrentNode
<1>0. pc \in Forward =>
        /\ order \in Seq(Nodes)
        /\ \A i, j \in 1 .. Len(order) : order[i] = order[j] => i = j
  BY OrderFacts DEF OrderInv
<1>1. CASE Execute
  BY <1>1 DEF Execute
<1>2. CASE Rollback
  BY <1>2 DEF Rollback
<1>3. CASE SkipNode
  BY <1>3, <1>0 DEF SkipNode, Goto
<1>4. CASE ActionMissing
  BY <1>4, <1>0 DEF ActionMissing, Goto
<1>5. CASE StartNode
  BY <1>5, <1>0 DEF StartNode, Goto
<1>6. CASE DoItSucceeds
  <2>1. pc' = "nodeDone" /\ UNCHANGED <<order, pos>>
    BY <1>6 DEF DoItSucceeds, Goto
  <2>2. /\ order[pos] \in Nodes /\ \A i \in 1 .. pos - 1 : order[i] \in Nodes /\ order[i] # order[pos]
        /\ nodeState' = [nodeState EXCEPT ![order[pos]] = "completed"]
        /\ live' = live \cup {<<order[pos], serial'>>}
    BY <1>6, <1>0 DEF DoItSucceeds
  <2>3. Passed(order[pos])'
    <3>1. DistinctNames /\ order[pos] \in ActionNodes => ancestorTree'[NameOf[order[pos]]] = serial'
      BY <1>6, <2>2, NamesAssumption DEF DoItSucceeds, DistinctNames, Named
    <3>2. QED
      BY <2>1, <2>2, <3>1 DEF DistinctNames, Named
  <2>4. ASSUME NEW i \in 1 .. pos - 1 PROVE Passed(order[i])'
    <3>1. Passed(order[i])
      BY <1>6, <2>4 DEF DoItSucceeds
    <3>2. nodeState'[order[i]] = "completed"
      BY <2>2, <3>1
    <3>3. ASSUME DistinctNames, order[i] \in ActionNodes
          PROVE  ancestorTree'[NameOf[order[i]]] = ancestorTree[NameOf[order[i]]]
      <4>1. order[pos] \in ActionNodes
        BY <1>6 DEF DoItSucceeds, OrderInv
      <4>2. NameOf[order[i]] # NameOf[order[pos]] /\ NameOf[order[i]] \in Names
        BY <2>2, <3>3, <4>1, NamesAssumption DEF DistinctNames, Named
      <4>3. QED
        BY <1>6, <4>2 DEF DoItSucceeds
    <3>4. QED
      BY <2>1, <2>2, <3>1, <3>2, <3>3 DEF DistinctNames, Named
  <2>5. QED
    BY <2>1, <2>3, <2>4
<1>7. CASE DoItFails
  BY <1>7, <1>0 DEF DoItFails, Goto
<1>8. CASE NodeCompleted
  <2>1. pc' = "node" /\ pos' = pos + 1 /\ UNCHANGED <<order, nodeState, ancestorTree, live>>
    BY <1>8 DEF NodeCompleted
  <2>2. \A i \in 1 .. pos - 1 : Passed(order[i])
    BY <1>8 DEF NodeCompleted
  <2>3. Passed(order[pos])
    BY <1>8 DEF NodeCompleted
  <2>4. ASSUME NEW i \in 1 .. pos PROVE Passed(order[i])
    <3>1. i = pos \/ i \in 1 .. pos - 1
      BY <1>8 DEF NodeCompleted
    <3>2. QED
      BY ONLY <2>2, <2>3, <3>1
  <2>5. \A i \in 1 .. pos : Passed(order[i])'
    BY <2>1, <2>4
  <2>6. QED
    BY <2>1, <2>5
<1>9. CASE NodeFailed
  BY <1>9 DEF NodeFailed
<1>10. CASE SagaCompleted
  BY <1>10 DEF SagaCompleted, Return
<1>11. CASE SkipUndo
  BY <1>11 DEF SkipUndo
<1>12. CASE StartUndo
  BY <1>12 DEF StartUndo, Goto
<1>13. CASE UndoItSucceeds
  BY <1>13 DEF UndoItSucceeds
<1>14. CASE UndoItFails
  BY <1>14 DEF UndoItFails, Goto
<1>15. CASE CompensationSucceeds
  BY <1>15 DEF CompensationSucceeds, Return
<1>16. CASE CompensationFails
  BY <1>16 DEF CompensationFails, Return
<1>17. CASE UNCHANGED vars
  BY <1>17 DEF vars, controlVars, callVars
<1>18. QED
  BY <1>1, <1>2, <1>3, <1>4, <1>5, <1>6, <1>7, <1>8, <1>9,
     <1>10, <1>11, <1>12, <1>13, <1>14, <1>15, <1>16, <1>17 DEF Next, Step

LEMMA NextPrefixInv == TypeOK /\ OrderInv /\ ForwardInv /\ PrefixInv /\ [Next]_vars => PrefixInv'
<1> SUFFICES ASSUME TypeOK /\ OrderInv /\ ForwardInv /\ PrefixInv, [Next]_vars PROVE PrefixInv'
  OBVIOUS
<1> USE DEF TypeOK, ExecutorTypeOK, EnvironmentTypeOK, ControlTypeOK, PrefixInv, Forward,
      dagVars, nodeVars, listVars, worldVars, storeVars, callVars, CurrentNode
<1>0. pc \in Forward =>
        /\ order \in Seq(Nodes)
        /\ \A i, j \in 1 .. Len(order) : order[i] = order[j] => i = j
  BY OrderFacts DEF OrderInv
<1>1. CASE Execute
  BY <1>1 DEF Execute
<1>2. CASE Rollback
  BY <1>2 DEF Rollback
<1>3. CASE SkipNode
  BY <1>3 DEF SkipNode, Goto
<1>4. CASE ActionMissing
  BY <1>4, <1>0 DEF ActionMissing, Goto
<1>5. CASE StartNode
  BY <1>5 DEF StartNode, Goto
<1>6. CASE DoItSucceeds
  BY <1>6 DEF DoItSucceeds, Goto
<1>7. CASE DoItFails
  BY <1>7, <1>0 DEF DoItFails, Goto
<1>8. CASE NodeCompleted
  BY <1>8, <1>0 DEF NodeCompleted, ForwardInv, Passed
<1>9. CASE NodeFailed
  BY <1>9 DEF NodeFailed
<1>10. CASE SagaCompleted
  BY <1>10 DEF SagaCompleted, Return
<1>11. CASE SkipUndo
  BY <1>11 DEF SkipUndo
<1>12. CASE StartUndo
  BY <1>12 DEF StartUndo, Goto
<1>13. CASE UndoItSucceeds
  BY <1>13 DEF UndoItSucceeds
<1>14. CASE UndoItFails
  BY <1>14 DEF UndoItFails, Goto
<1>15. CASE CompensationSucceeds
  BY <1>15 DEF CompensationSucceeds, Return
<1>16. CASE CompensationFails
  BY <1>16 DEF CompensationFails, Return
<1>17. CASE UNCHANGED vars
  BY <1>17 DEF vars, controlVars, callVars
<1>18. QED
  BY <1>1, <1>2, <1>3, <1>4, <1>5, <1>6, <1>7, <1>8, <1>9,
     <1>10, <1>11, <1>12, <1>13, <1>14, <1>15, <1>16, <1>17 DEF Next, Step

LEMMA NextResourceInv == TypeOK /\ OrderInv /\ PrefixInv /\ ResourceInv /\ [Next]_vars => ResourceInv'
<1> SUFFICES ASSUME TypeOK /\ OrderInv /\ PrefixInv /\ ResourceInv, [Next]_vars PROVE ResourceInv'
  OBVIOUS
<1> USE DEF TypeOK, ExecutorTypeOK, EnvironmentTypeOK, ControlTypeOK, ResourceInv, OutputOf, Forward,
      dagVars, nodeVars, listVars, worldVars, storeVars, callVars, CurrentNode, NodeToUndo
<1>0. pc \in Forward =>
        /\ order \in Seq(Nodes)
        /\ \A i, j \in 1 .. Len(order) : order[i] = order[j] => i = j
  BY OrderFacts DEF OrderInv
<1>1. CASE Execute
  BY <1>1 DEF Execute, PrefixInv
<1>2. CASE Rollback
  BY <1>2 DEF Rollback, PrefixInv
<1>3. CASE SkipNode
  BY <1>3, <1>0 DEF SkipNode, Goto, PrefixInv
<1>4. CASE ActionMissing
  BY <1>4, <1>0 DEF ActionMissing, Goto, PrefixInv
<1>5. CASE StartNode
  BY <1>5, <1>0 DEF StartNode, Goto, PrefixInv
<1>6. CASE DoItSucceeds
  <2>1. order[pos] \in Nodes /\ pc' = "nodeDone" /\ UNCHANGED <<order, pos, completed, executes>>
        /\ nodeState' = [nodeState EXCEPT ![order[pos]] = "completed"]
        /\ live' = live \cup {<<order[pos], serial'>>}
    BY <1>6, <1>0 DEF DoItSucceeds, Goto
  <2>2. ASSUME NEW r \in live, executes <= 1
        PROVE  r[1] # order[pos] /\ \E i \in 1 .. Len(completed) : completed[i] = r[1]
    BY <1>6, <1>0, <2>2 DEF DoItSucceeds, PrefixInv
  <2>3. ASSUME NEW r \in live, executes <= 1, DistinctNames, nodeState'[r[1]] # "failed"
        PROVE  r[2] = ancestorTree'[NameOf[r[1]]]
    <3>1. r[1] \in ActionNodes /\ order[pos] \in ActionNodes /\ r[1] \in Nodes /\ r[1] # order[pos]
      BY <1>6, <2>2, <2>3 DEF DoItSucceeds, OrderInv
    <3>2. NameOf[r[1]] \in Names /\ NameOf[r[1]] # NameOf[order[pos]]
      BY <3>1, <2>3, NamesAssumption DEF DistinctNames, Named
    <3>3. ancestorTree'[NameOf[r[1]]] = ancestorTree[NameOf[r[1]]]
      BY <1>6, <3>2 DEF DoItSucceeds
    <3>4. r[2] = ancestorTree[NameOf[r[1]]]
      BY <2>1, <2>3, <3>1 DEF DistinctNames, Named
    <3>5. QED
      BY <3>3, <3>4
  <2>4. ASSUME DistinctNames PROVE serial' = ancestorTree'[NameOf[order[pos]]]
    BY <1>6, <2>4, <2>1, NamesAssumption DEF DoItSucceeds, DistinctNames, Named, OrderInv
  <2>5. ASSUME NEW r \in live', executes' <= 1
        PROVE /\ (\E i \in 1 .. Len(completed') : completed'[i] = r[1]) \/ r[1] = order'[pos']
              /\ DistinctNames /\ nodeState'[r[1]] # "failed" => r[2] = ancestorTree'[NameOf[r[1]]]
    <3>1. CASE r \in live
      BY <3>1, <2>1, <2>2, <2>3, <2>5
    <3>2. CASE r = <<order[pos], serial'>>
      BY <3>2, <2>1, <2>4
    <3>3. QED
      BY <2>1, <2>5, <3>1, <3>2
  <2>6. \A r \in live' : DistinctNames => Named(r[1])
    BY <1>6, <2>1 DEF DoItSucceeds, OrderInv, DistinctNames
  <2>7. QED
    BY <2>1, <2>5, <2>6
<1>7. CASE DoItFails
  BY <1>7, <1>0 DEF DoItFails, Goto
<1>8. CASE NodeCompleted
  <2>1. completed' = Append(completed, order[pos]) /\ order[pos] \in Nodes
        /\ UNCHANGED <<live, nodeState, ancestorTree, executes>> /\ pc' = "node"
    BY <1>8, <1>0 DEF NodeCompleted
  <2>2. \A i \in 1 .. Len(completed) : completed'[i] = completed[i]
    BY <2>1
  <2>3. completed'[Len(completed) + 1] = order[pos] /\ Len(completed') = Len(completed) + 1
    BY <2>1
  <2>4. ASSUME NEW r \in live, executes <= 1
        PROVE  \E i \in 1 .. Len(completed') : completed'[i] = r[1]
    <3>1. CASE \E i \in 1 .. Len(completed) : completed[i] = r[1]
      BY <3>1, <2>2, <2>3
    <3>2. CASE r[1] = order[pos]
      <4>1. Len(completed) + 1 \in 1 .. Len(completed')
        BY <2>3
      <4>2. QED
        BY <3>2, <4>1, <2>3
    <3>3. QED
      BY <1>8, <2>4, <3>1, <3>2 DEF NodeCompleted
  <2>5. QED
    BY <2>1, <2>4 DEF Named
<1>9. CASE NodeFailed
  BY <1>9 DEF NodeFailed
<1>10. CASE SagaCompleted
  BY <1>10 DEF SagaCompleted, Return
<1>11. CASE SkipUndo
  <2>1. executes <= 1 => \A n \in Nodes : nodeState'[n] = "failed" <=> nodeState[n] = "failed"
    BY <1>11 DEF SkipUndo, PrefixInv
  <2>2. pc' \notin {"node", "DoIt", "nodeDone"} /\ live' \subseteq live /\ executes' = executes
        /\ completed' = completed /\ ancestorTree' = ancestorTree /\ pc # "nodeDone"
    BY <1>11 DEF SkipUndo
  <2>3. \A r \in live : r[1] \in Nodes
    BY DEF TypeOK
  <2>4. QED
    BY <2>1, <2>2, <2>3 DEF Named
<1>12. CASE StartUndo
  <2>1. executes <= 1 => \A n \in Nodes : nodeState'[n] = "failed" <=> nodeState[n] = "failed"
    BY <1>12 DEF StartUndo, Goto, PrefixInv
  <2>2. pc' \notin {"node", "DoIt", "nodeDone"} /\ live' \subseteq live /\ executes' = executes
        /\ completed' = completed /\ ancestorTree' = ancestorTree /\ pc # "nodeDone"
    BY <1>12 DEF StartUndo, Goto
  <2>3. \A r \in live : r[1] \in Nodes
    BY DEF TypeOK
  <2>4. QED
    BY <2>1, <2>2, <2>3 DEF Named
<1>13. CASE UndoItSucceeds
  <2>1. executes <= 1 => \A n \in Nodes : nodeState'[n] = "failed" <=> nodeState[n] = "failed"
    BY <1>13 DEF UndoItSucceeds, PrefixInv
  <2>2. pc' \notin {"node", "DoIt", "nodeDone"} /\ live' \subseteq live /\ executes' = executes
        /\ completed' = completed /\ ancestorTree' = ancestorTree /\ pc # "nodeDone"
    BY <1>13 DEF UndoItSucceeds
  <2>3. \A r \in live : r[1] \in Nodes
    BY DEF TypeOK
  <2>4. QED
    BY <2>1, <2>2, <2>3 DEF Named
<1>14. CASE UndoItFails
  BY <1>14 DEF UndoItFails, Goto
<1>15. CASE CompensationSucceeds
  BY <1>15 DEF CompensationSucceeds, Return
<1>16. CASE CompensationFails
  BY <1>16 DEF CompensationFails, Return
<1>17. CASE UNCHANGED vars
  BY <1>17 DEF vars, controlVars, callVars
<1>18. QED
  BY <1>1, <1>2, <1>3, <1>4, <1>5, <1>6, <1>7, <1>8, <1>9,
     <1>10, <1>11, <1>12, <1>13, <1>14, <1>15, <1>16, <1>17 DEF Next, Step

LEMMA NextBackwardInv == IInv /\ [Next]_vars => BackwardInv'
<1> SUFFICES ASSUME IInv, [Next]_vars PROVE BackwardInv'
  OBVIOUS
<1> USE DEF TypeOK, ExecutorTypeOK, EnvironmentTypeOK, ControlTypeOK, IInv, OrderInv, BackwardInv, Forward, Backward,
      dagVars, nodeVars, listVars, worldVars, storeVars, callVars, NodeToUndo
<1>1. CASE Execute
  BY <1>1 DEF Execute
<1>2. CASE Rollback
  <2>1. /\ pc' = "idle" \/ pos' = Len(completed)
        /\ result' \notin {"compensated", "rolledBack"} /\ UNCHANGED completed
    BY <1>2 DEF Rollback
  <2>2. QED
    BY <2>1
<1>3. CASE SkipNode
  <2>1. pc' \notin Backward /\ result' \notin {"compensated", "rolledBack"}
    BY <1>3 DEF SkipNode, Goto
  <2>2. QED
    BY <2>1
<1>4. CASE ActionMissing
  <2>1. pc' \notin Backward /\ result' \notin {"compensated", "rolledBack"}
    BY <1>4 DEF ActionMissing, Goto
  <2>2. QED
    BY <2>1
<1>5. CASE StartNode
  <2>1. pc' \notin Backward /\ result' \notin {"compensated", "rolledBack"}
    BY <1>5 DEF StartNode, Goto
  <2>2. QED
    BY <2>1
<1>6. CASE DoItSucceeds
  <2>1. pc' \notin Backward /\ result' \notin {"compensated", "rolledBack"}
    BY <1>6 DEF DoItSucceeds, Goto
  <2>2. QED
    BY <2>1
<1>7. CASE DoItFails
  <2>1. pc' \notin Backward /\ result' \notin {"compensated", "rolledBack"}
    BY <1>7 DEF DoItFails, Goto
  <2>2. QED
    BY <2>1
<1>8. CASE NodeCompleted
  <2>1. pc' \notin Backward /\ result' \notin {"compensated", "rolledBack"}
    BY <1>8 DEF NodeCompleted
  <2>2. QED
    BY <2>1
<1>9. CASE NodeFailed
  <2>1. pos' = Len(completed) /\ result' = "none" /\ UNCHANGED completed
    BY <1>9 DEF NodeFailed
  <2>2. QED
    BY <2>1
<1>10. CASE SagaCompleted
  <2>1. pc' \notin Backward /\ result' \notin {"compensated", "rolledBack"}
    BY <1>10 DEF SagaCompleted, Return
  <2>2. QED
    BY <2>1
<1>11. CASE SkipUndo
  <2>1. executes <= 1 => \A n \in Nodes : nodeState'[n] = "failed" <=> nodeState[n] = "failed"
    BY <1>11 DEF SkipUndo, PrefixInv
  <2>2. live' \subseteq live /\ \A r \in live : r[1] \in Nodes
    BY <1>11 DEF SkipUndo
  <2>3. executes <= 1 => InPlace' \subseteq InPlace
    BY <2>1, <2>2 DEF InPlace
  <2>4. /\ result' = "none" /\ UNCHANGED <<completed, executes>> /\ pc \in Backward
        /\ pos \in 1 .. Len(completed) /\ pos' = pos - 1
    BY <1>11 DEF SkipUndo
  <2>5. executes <= 1 /\ DistinctNames => completed[pos] \notin InPlace'
    BY <1>11, <2>2, <2>3 DEF SkipUndo, InPlace
  <2>6. ASSUME executes <= 1, DistinctNames, NEW i \in pos .. Len(completed)
        PROVE  completed[i] \notin InPlace'
    <3>1. i = pos \/ i \in pos + 1 .. Len(completed)
      BY <2>4
    <3>2. \A j \in pos + 1 .. Len(completed) : completed[j] \notin InPlace
      BY <2>4, <2>6
    <3>3. QED
      BY ONLY <2>3, <2>5, <2>6, <3>1, <3>2
  <2>7. QED
    BY <2>4, <2>6
<1>12. CASE StartUndo
  <2>1. executes <= 1 => \A n \in Nodes : nodeState'[n] = "failed" <=> nodeState[n] = "failed"
    BY <1>12 DEF StartUndo, Goto, PrefixInv
  <2>2. live' \subseteq live /\ \A r \in live : r[1] \in Nodes
    BY <1>12 DEF StartUndo
  <2>3. executes <= 1 => InPlace' \subseteq InPlace
    BY <2>1, <2>2 DEF InPlace
  <2>4. /\ result' = "none" /\ UNCHANGED <<completed, executes>> /\ pc \in Backward
        /\ pos \in 1 .. Len(completed) /\ pos' = pos
    BY <1>12 DEF StartUndo, Goto
  <2>5. QED
    BY <2>3, <2>4
<1>13. CASE UndoItSucceeds
  <2>1. executes <= 1 => \A n \in Nodes : nodeState'[n] = "failed" <=> nodeState[n] = "failed"
    BY <1>13 DEF UndoItSucceeds, PrefixInv
  <2>2. live' \subseteq live /\ \A r \in live : r[1] \in Nodes
    BY <1>13 DEF UndoItSucceeds
  <2>3. executes <= 1 => InPlace' \subseteq InPlace
    BY <2>1, <2>2 DEF InPlace
  <2>4. /\ result' = "none" /\ UNCHANGED <<completed, executes>> /\ pc \in Backward
        /\ pos \in 1 .. Len(completed) /\ pos' = pos - 1
    BY <1>13 DEF UndoItSucceeds
  <2>5. executes <= 1 /\ DistinctNames => completed[pos] \notin InPlace'
    <3>1. SUFFICES ASSUME executes <= 1, DistinctNames, NEW r \in live',
                          r[1] = completed[pos], nodeState'[r[1]] # "failed"
                   PROVE  FALSE
      BY DEF InPlace
    <3>2. r \in live /\ r[2] # OutputOf(completed[pos])
      BY <1>13, <3>1 DEF UndoItSucceeds
    <3>3. nodeState[r[1]] # "failed"
      BY <2>1, <2>2, <3>1, <3>2
    <3>4. r[2] = OutputOf(r[1])
      BY <3>1, <3>2, <3>3 DEF ResourceInv
    <3>5. QED
      BY <3>1, <3>2, <3>4
  <2>6. ASSUME executes <= 1, DistinctNames, NEW i \in pos .. Len(completed)
        PROVE  completed[i] \notin InPlace'
    <3>1. i = pos \/ i \in pos + 1 .. Len(completed)
      BY <2>4
    <3>2. \A j \in pos + 1 .. Len(completed) : completed[j] \notin InPlace
      BY <2>4, <2>6
    <3>3. QED
      BY ONLY <2>3, <2>5, <2>6, <3>1, <3>2
  <2>7. QED
    BY <2>4, <2>6
<1>14. CASE UndoItFails
  <2>1. UNCHANGED <<live, nodeState, completed, pos, result, executes>> /\ pc = "UndoIt"
    BY <1>14 DEF UndoItFails, Goto
  <2>2. InPlace' = InPlace
    BY <2>1 DEF InPlace
  <2>3. QED
    BY <2>1, <2>2
<1>15. CASE CompensationSucceeds
  <2>1. /\ pc = "undo" /\ pos = 0 /\ pc' = "idle"
        /\ UNCHANGED <<live, nodeState, executes>>
    BY <1>15 DEF CompensationSucceeds, Return
  <2>2. InPlace' = InPlace
    BY <2>1 DEF InPlace
  <2>3. ASSUME executes <= 1, DistinctNames PROVE InPlace = {}
    <3>1. SUFFICES ASSUME NEW r \in live, nodeState[r[1]] # "failed" PROVE FALSE
      BY DEF InPlace
    <3>2. PICK i \in 1 .. Len(completed) : completed[i] = r[1]
      BY <2>1, <2>3, <3>1 DEF ResourceInv
    <3>3. completed[i] \notin InPlace
      BY <2>1, <2>3, <3>2
    <3>4. QED
      BY <3>1, <3>2, <3>3 DEF InPlace
  <2>4. QED
    BY <2>1, <2>2, <2>3
<1>16. CASE CompensationFails
  <2>1. pc' \notin Backward /\ result' \notin {"compensated", "rolledBack"}
    BY <1>16 DEF CompensationFails, Return
  <2>2. QED
    BY <2>1
<1>17. CASE UNCHANGED vars
  <2>1. UNCHANGED <<live, nodeState, completed, pc, pos, result, executes>>
    BY <1>17 DEF vars, controlVars, callVars
  <2>2. InPlace' = InPlace
    BY <2>1 DEF InPlace
  <2>3. QED
    BY <2>1, <2>2
<1>18. QED
  BY <1>1, <1>2, <1>3, <1>4, <1>5, <1>6, <1>7, <1>8, <1>9,
     <1>10, <1>11, <1>12, <1>13, <1>14, <1>15, <1>16, <1>17 DEF Next, Step

LEMMA InitIInv == Init => IInv
<1> SUFFICES ASSUME Init PROVE IInv
  OBVIOUS
<1> USE DEF Init, FreshExecutor
<1>1. TypeOK
  BY InitTypeOK
<1>2. OrderInv /\ ForwardInv
  BY DEF OrderInv, ForwardInv, Forward
<1>3. PrefixInv /\ ResourceInv
  BY DEF PrefixInv, ResourceInv, Forward
<1>4. BackwardInv
  BY DEF BackwardInv, Backward
<1>5. QED
  BY <1>1, <1>2, <1>3, <1>4 DEF IInv

LEMMA NextIInv == IInv /\ [Next]_vars => IInv'
BY NextTypeOK, NextOrderInv, NextForwardInv, NextPrefixInv, NextResourceInv, NextBackwardInv DEF IInv

LEMMA SpecIInv == Spec => []IInv
BY InitIInv, NextIInv, PTL DEF Spec

----------------------------------------------------------------------------
(* What the inductive invariant says of the properties *)

\* No DoIt is ever called before what its node depends on has completed and is in
\* place, with the output the node looks up: for every graph, and however many
\* times Execute runs.
THEOREM DependenciesHold == Spec => []DependenciesInPlace
<1>1. ASSUME IInv PROVE DependenciesInPlace
  <2>1. SUFFICES ASSUME pc = "DoIt", NEW m \in Nodes, <<m, order[pos]>> \in edges
                 PROVE  Passed(m)
    BY DEF DependenciesInPlace, CurrentNode, Passed
  <2>2. pos \in 1 .. Len(order) /\ order \in TopologicalOrders(edges)
    BY <1>1, <2>1 DEF IInv, TypeOK, ControlTypeOK, OrderInv, Forward
  <2>3. PICK i \in 1 .. Len(order) : order[i] = m
    BY <2>2, OrderFacts
  <2>4. i \in 1 .. pos - 1
    <3>1. i < pos
      BY <2>1, <2>2, <2>3, OrderFacts
    <3>2. QED
      BY <2>2, <3>1
  <2>5. QED
    BY <1>1, <2>1, <2>3, <2>4 DEF IInv, ForwardInv, Forward
<1>2. QED
  BY <1>1, SpecIInv, PTL

\* No UndoIt is ever called while something that depends on its node is in place:
\* in the compensation of a failed Execute and in every Rollback after it.
THEOREM DependentsHold == Spec => []DependentsGone
<1>1. ASSUME IInv PROVE DependentsGone
  <2>1. SUFFICES ASSUME pc = "UndoIt", executes <= 1, DistinctNames,
                        NEW m \in Nodes, <<completed[pos], m>> \in edges, m \in InPlace
                 PROVE  FALSE
    BY DEF DependentsGone, NodeToUndo
  <2>2. PICK r \in live : r[1] = m /\ nodeState[m] # "failed"
    BY <2>1 DEF InPlace
  <2>3. PICK i \in 1 .. Len(completed) : completed[i] = m
    BY <1>1, <2>1, <2>2 DEF IInv, ResourceInv
  <2>4. /\ pos \in 1 .. Len(completed) /\ Len(completed) <= Len(order)
        /\ completed[pos] = order[pos] /\ completed[i] = order[i]
        /\ Len(completed) \in Nat /\ Len(order) \in Nat
    BY <1>1, <2>1 DEF IInv, TypeOK, ControlTypeOK, ExecutorTypeOK, PrefixInv
  <2>5. order \in TopologicalOrders(edges)
    <3>1. order # <<>>
      BY <2>4
    <3>2. QED
      BY <1>1, <3>1 DEF IInv, OrderInv
  <2>6. pos < i
    <3>1. pos \in 1 .. Len(order) /\ i \in 1 .. Len(order) /\ <<order[pos], order[i]>> \in edges
      BY <2>1, <2>3, <2>4
    <3>2. QED
      BY <2>5, <3>1, OrderFacts
  <2>7. completed[i] \notin InPlace
    BY <1>1, <2>1, <2>4, <2>6 DEF IInv, BackwardInv, Backward
  <2>8. QED
    BY <2>1, <2>3, <2>7
<1>2. QED
  BY <1>1, SpecIInv, PTL

\* A compensation reported as a success has left nothing behind.
THEOREM NothingIsLeftBehind == Spec => []NothingLeftBehind
<1>1. IInv => NothingLeftBehind
  BY DEF IInv, BackwardInv, NothingLeftBehind
<1>2. QED
  BY <1>1, SpecIInv, PTL

----------------------------------------------------------------------------
(* The status on record *)

\* As long as no warning was printed, a final status is on record only between
\* calls, and with the resources it stands for.
StatusInv ==
  ~warned /\ executes <= 1 /\ DistinctNames =>
    /\ executes = 0 => store = NoState
    /\ store.status = "completed" => pc = "idle" /\ InPlace = ActionNodes
    /\ store.status = "rolled_back" => pc = "idle" /\ InPlace = {}

\* A save that prints no warning has put its status on record.
LEMMA PersistStatus ==
  ASSUME NEW status, NEW nodes, Persist(status, nodes)
  PROVE  ~warned' => ~warned /\ store'.status = status
BY SavedStatus DEF Persist

\* A final status is not on record while a call is in progress, so that a step of it
\* that does not save keeps StatusInv.
LEMMA UnsavedStep ==
  ASSUME StatusInv, PrefixInv, UNCHANGED <<store, warned, executes>>, pc # "idle"
  PROVE  StatusInv'
BY DEF StatusInv, PrefixInv

LEMMA SavedStep ==
  ASSUME StatusInv, PrefixInv, NEW status \in {"running", "failed", "rolling_back"}, NEW nodes,
         Persist(status, nodes), executes' = executes, completed # <<>> \/ pc # "idle"
  PROVE  StatusInv'
<1>1. ~warned' => store'.status \notin {"completed", "rolled_back"}
  BY PersistStatus
<1>2. executes' <= 1 => executes' # 0
  BY DEF PrefixInv
<1>3. QED
  BY <1>1, <1>2 DEF StatusInv

LEMMA NextStatusInv == IInv /\ BackwardInv' /\ StatusInv /\ [Next]_vars => StatusInv'
<1> SUFFICES ASSUME IInv /\ BackwardInv' /\ StatusInv, [Next]_vars PROVE StatusInv'
  OBVIOUS
<1> USE DEF TypeOK, ExecutorTypeOK, EnvironmentTypeOK, ControlTypeOK, IInv,
      dagVars, nodeVars, listVars, worldVars, storeVars, callVars
<1>1. CASE Execute
  <2>1. executes' = executes + 1 /\ executes \in Nat /\ (SaveFails \/ Saves("running", completed))
        /\ UNCHANGED warned
    BY <1>1 DEF Execute, EnvironmentTypeOK
  <2>2. SUFFICES ASSUME ~warned, executes = 0, DistinctNames
                 PROVE  store'.status \notin {"completed", "rolled_back"}
    BY <2>1 DEF StatusInv
  <2>3. store = NoState
    BY <2>2 DEF StatusInv
  <2>4. SaveFails => store' \in {NoState, Torn}
    BY <2>3 DEF SaveFails
  <2>5. Saves("running", completed) => store'.status = "running"
    BY SavedStatus
  <2>6. QED
    BY <2>1, <2>4, <2>5 DEF NoState, Torn
<1>2. CASE Rollback
  <2>1. UNCHANGED <<live, nodeState, executes>> /\ InPlace' = InPlace
    BY <1>2 DEF Rollback, InPlace
  <2>2. CASE completed = <<>>
    <3>1. UNCHANGED <<store, warned, pc>>
      BY <1>2, <2>2 DEF Rollback
    <3>2. QED
      BY <2>1, <3>1 DEF StatusInv
  <2>3. CASE completed # <<>>
    <3>1. Persist("rolling_back", completed)
      BY <1>2, <2>3 DEF Rollback
    <3>2. QED
      BY <2>1, <2>3, <3>1, SavedStep
  <2>4. QED
    BY <2>2, <2>3
<1>3. CASE SkipNode
  <2>1. UNCHANGED <<store, warned, executes>> /\ pc # "idle"
    BY <1>3 DEF SkipNode
  <2>2. QED
    BY <2>1, UnsavedStep
<1>4. CASE ActionMissing
  <2>1. UNCHANGED <<store, warned, executes>> /\ pc # "idle"
    BY <1>4 DEF ActionMissing
  <2>2. QED
    BY <2>1, UnsavedStep
<1>5. CASE StartNode
  <2>1. UNCHANGED <<store, warned, executes>> /\ pc # "idle"
    BY <1>5 DEF StartNode
  <2>2. QED
    BY <2>1, UnsavedStep
<1>6. CASE DoItSucceeds
  <2>1. UNCHANGED <<store, warned, executes>> /\ pc # "idle"
    BY <1>6 DEF DoItSucceeds
  <2>2. QED
    BY <2>1, UnsavedStep
<1>7. CASE DoItFails
  <2>1. UNCHANGED <<store, warned, executes>> /\ pc # "idle"
    BY <1>7 DEF DoItFails
  <2>2. QED
    BY <2>1, UnsavedStep
<1>8. CASE NodeCompleted
  <2>1. Persist("running", completed') /\ executes' = executes /\ pc # "idle"
    BY <1>8 DEF NodeCompleted
  <2>2. QED
    BY <2>1, SavedStep
<1>9. CASE NodeFailed
  <2>1. Persist("failed", completed) /\ executes' = executes /\ pc # "idle"
    BY <1>9 DEF NodeFailed
  <2>2. QED
    BY <2>1, SavedStep
<1>10. CASE SagaCompleted
  <2>1. /\ Persist("completed", completed) /\ pc' = "idle" /\ pc = "node" /\ pos = Len(order) + 1
        /\ UNCHANGED <<live, nodeState, executes>>
    BY <1>10 DEF SagaCompleted, Return, ControlTypeOK
  <2>2. InPlace' = InPlace
    BY <2>1 DEF InPlace
  <2>3. ASSUME DistinctNames PROVE InPlace = ActionNodes
    <3>1. InPlace \subseteq ActionNodes
      BY DEF InPlace, OrderInv
    <3>2. ASSUME NEW n \in ActionNodes PROVE n \in InPlace
      <4>1. order \in TopologicalOrders(edges)
        BY <2>1 DEF OrderInv, Forward
      <4>2. PICK i \in 1 .. Len(order) : order[i] = n
        BY <4>1, OrderFacts
      <4>3. Passed(order[i])
        BY <2>1 DEF ForwardInv, Forward
      <4>4. <<n, OutputOf(n)>> \in live /\ nodeState[n] = "completed"
        BY <2>3, <4>2, <4>3 DEF Passed
      <4>5. \E r \in {q \in live : nodeState[q[1]] # "failed"} : r[1] = n
        BY <4>4
      <4>6. QED
        BY <4>5 DEF InPlace
    <3>3. QED
      BY <3>1, <3>2
  <2>4. executes' <= 1 => executes' # 0
    BY <2>1 DEF PrefixInv
  <2>5. ~warned' => store'.status = "completed"
    BY <2>1, PersistStatus
  <2>6. QED
    BY <2>1, <2>2, <2>3, <2>4, <2>5 DEF StatusInv
<1>11. CASE SkipUndo
  <2>1. UNCHANGED <<store, warned, executes>> /\ pc # "idle"
    BY <1>11 DEF SkipUndo
  <2>2. QED
    BY <2>1, UnsavedStep
<1>12. CASE StartUndo
  <2>1. UNCHANGED <<store, warned, executes>> /\ pc # "idle"
    BY <1>12 DEF StartUndo
  <2>2. QED
    BY <2>1, UnsavedStep
<1>13. CASE UndoItSucceeds
  <2>1. UNCHANGED <<store, warned, executes>> /\ pc # "idle"
    BY <1>13 DEF UndoItSucceeds
  <2>2. QED
    BY <2>1, UnsavedStep
<1>14. CASE UndoItFails
  <2>1. UNCHANGED <<store, warned, executes>> /\ pc # "idle"
    BY <1>14 DEF UndoItFails
  <2>2. QED
    BY <2>1, UnsavedStep
<1>15. CASE CompensationSucceeds
  <2>1. CASE caller = "Execute"
    <3>1. UNCHANGED <<store, warned, executes>> /\ pc # "idle"
      BY <1>15, <2>1 DEF CompensationSucceeds
    <3>2. QED
      BY <3>1, UnsavedStep
  <2>2. CASE caller # "Execute"
    <3>1. /\ Persist("rolled_back", completed) /\ result' = "rolledBack" /\ pc' = "idle" /\ pc # "idle"
          /\ executes' = executes
      BY <1>15, <2>2 DEF CompensationSucceeds, Return
    <3>2. executes' <= 1 /\ DistinctNames => InPlace' = {}
      BY <3>1 DEF BackwardInv
    <3>3. executes' <= 1 => executes' # 0
      BY <3>1 DEF PrefixInv
    <3>4. ~warned' => store'.status = "rolled_back"
      BY <3>1, PersistStatus
    <3>5. QED
      BY <3>1, <3>2, <3>3, <3>4 DEF StatusInv
  <2>3. QED
    BY <2>1, <2>2
<1>16. CASE CompensationFails
  <2>1. CASE caller = "Execute"
    <3>1. UNCHANGED <<store, warned, executes>> /\ pc # "idle"
      BY <1>16, <2>1 DEF CompensationFails
    <3>2. QED
      BY <3>1, UnsavedStep
  <2>2. CASE caller # "Execute"
    <3>1. Persist("failed", completed) /\ executes' = executes /\ pc # "idle"
      BY <1>16, <2>2 DEF CompensationFails
    <3>2. QED
      BY <3>1, SavedStep
  <2>3. QED
    BY <2>1, <2>2
<1>17. CASE UNCHANGED vars
  <2>1. UNCHANGED <<live, nodeState, store, warned, pc, executes>>
    BY <1>17 DEF vars, controlVars, callVars
  <2>2. InPlace' = InPlace
    BY <2>1 DEF InPlace
  <2>3. QED
    BY <2>1, <2>2 DEF StatusInv
<1>18. QED
  BY <1>1, <1>2, <1>3, <1>4, <1>5, <1>6, <1>7, <1>8, <1>9,
     <1>10, <1>11, <1>12, <1>13, <1>14, <1>15, <1>16, <1>17 DEF Next, Step

\* The status on record is the truth, as long as no save was reported as failed.
THEOREM StatusIsTruthful == Spec => []StatusTruthful
<1>1. Init => StatusInv
  BY DEF Init, StatusInv, NoState
<1>2. IInv /\ IInv' /\ StatusInv /\ [Next]_vars => StatusInv'
  BY NextStatusInv DEF IInv
<1>3. StatusInv => StatusTruthful
  BY DEF StatusInv, StatusTruthful
<1>4. QED
  BY <1>1, <1>2, <1>3, SpecIInv, PTL DEF Spec

----------------------------------------------------------------------------
(* The list that a save stores *)

Saved == [name : Names, output : Nat]
EntryOf(n) == [name |-> NameOf[n], output |-> OutputOf(n)]
Listing(nodes) == Snapshot("running", nodes).actions

\* The stored list names the named nodes, in their order, with their outputs.
LEMMA ListingPlaces ==
  ASSUME ancestorTree \in [Names -> Nat], NEW nodes \in Seq(Nodes)
  PROVE  /\ \A status : Snapshot(status, nodes).actions = Listing(nodes)
         /\ Listing(nodes) \in Seq(Saved)
         /\ \E h \in [1 .. Len(Listing(nodes)) -> 1 .. Len(nodes)] :
              /\ \A i, j \in 1 .. Len(Listing(nodes)) : i < j => h[i] < h[j]
              /\ \A i \in 1 .. Len(Listing(nodes)) :
                   Named(nodes[h[i]]) /\ Listing(nodes)[i] = EntryOf(nodes[h[i]])
              /\ \A k \in 1 .. Len(nodes) : Named(nodes[k]) =>
                   \E i \in 1 .. Len(Listing(nodes)) : h[i] = k
<1> DEFINE S == {n \in Nodes : Named(n)}
           t == Kept(nodes, S)
           l == [i \in DOMAIN t |-> EntryOf(t[i])]
<1>1. t \in Seq(S) /\ \E h : Places(h, t, nodes, S, Len(nodes))
  BY KeptPlaces
<1>2. PICK h : Places(h, t, nodes, S, Len(nodes))
  BY <1>1
<1>3. \A status : Snapshot(status, nodes).actions = l
  BY DEF Snapshot, EntryOf
<1>4. Listing(nodes) = l
  BY <1>3 DEF Listing
<1> HIDE DEF t
<1>5. \A n \in S : EntryOf(n) \in Saved
  BY DEF EntryOf, Saved, OutputOf, Named
<1>6. \A i \in 1 .. Len(t) : t[i] \in S
  BY <1>1
<1>7. Len(t) \in Nat /\ DOMAIN t = 1 .. Len(t)
  BY <1>1
<1>8. l \in [1 .. Len(t) -> Saved]
  BY <1>5, <1>6, <1>7
<1>9. l \in Seq(Saved) /\ Len(l) = Len(t) /\ \A i \in 1 .. Len(t) : l[i] = EntryOf(t[i])
  BY <1>7, <1>8
<1> HIDE DEF l
<1>10. \A k \in 1 .. Len(nodes) : Named(nodes[k]) => nodes[k] \in S
  OBVIOUS
<1>11. /\ h \in [1 .. Len(l) -> 1 .. Len(nodes)]
       /\ \A i, j \in 1 .. Len(l) : i < j => h[i] < h[j]
       /\ \A i \in 1 .. Len(l) : t[i] = nodes[h[i]] /\ nodes[h[i]] \in S
       /\ \A k \in 1 .. Len(nodes) : nodes[k] \in S => \E i \in 1 .. Len(l) : h[i] = k
  BY <1>2, <1>9 DEF Places
<1>12. /\ \A i \in 1 .. Len(l) : Named(nodes[h[i]]) /\ l[i] = EntryOf(nodes[h[i]])
       /\ \A k \in 1 .. Len(nodes) : Named(nodes[k]) => \E i \in 1 .. Len(l) : h[i] = k
  BY <1>9, <1>10, <1>11
<1>13. \E g \in [1 .. Len(l) -> 1 .. Len(nodes)] :
         /\ \A i, j \in 1 .. Len(l) : i < j => g[i] < g[j]
         /\ \A i \in 1 .. Len(l) : Named(nodes[g[i]]) /\ l[i] = EntryOf(nodes[g[i]])
         /\ \A k \in 1 .. Len(nodes) : Named(nodes[k]) => \E i \in 1 .. Len(l) : g[i] = k
  BY <1>11, <1>12
<1>14. \A status : Snapshot(status, nodes).actions = Listing(nodes)
  BY <1>3, <1>4
<1>15. QED
  BY <1>4, <1>9, <1>13, <1>14, Zenon

\* A node more on the completed list is a node more on the stored one, if it has a name.
LEMMA ListingAppend ==
  ASSUME ancestorTree \in [Names -> Nat], NEW nodes \in Seq(Nodes), NEW n \in Nodes
  PROVE  Listing(Append(nodes, n))
           = IF Named(n) THEN Append(Listing(nodes), EntryOf(n)) ELSE Listing(nodes)
<1> DEFINE S == {m \in Nodes : Named(m)}
           t == Kept(nodes, S)
           u == Kept(Append(nodes, n), S)
           L(q) == [i \in DOMAIN q |-> EntryOf(q[i])]
<1>1. t \in Seq(S) /\ u = IF n \in S THEN Append(t, n) ELSE t
  <2> HIDE DEF S
  <2>1. QED
    BY KeptPlaces, KeptAppend
<1>2. Listing(nodes) = L(t) /\ Listing(Append(nodes, n)) = L(u)
  BY DEF Listing, Snapshot, EntryOf
<1> HIDE DEF t, u
<1>3. CASE Named(n)
  <2>1. u = Append(t, n) /\ n \in S
    BY <1>1, <1>3
  <2>2. Len(t) \in Nat /\ DOMAIN t = 1 .. Len(t) /\ DOMAIN u = 1 .. Len(t) + 1
        /\ u[Len(t) + 1] = n /\ \A i \in 1 .. Len(t) : u[i] = t[i]
    BY <1>1, <2>1
  <2>3. L(t) \in Seq({EntryOf(m) : m \in S}) /\ Len(L(t)) = Len(t)
    BY <1>1, <2>2
  <2>4. L(u) = Append(L(t), EntryOf(n))
    <3>1. Append(L(t), EntryOf(n)) = [i \in 1 .. Len(t) + 1 |->
             IF i = Len(t) + 1 THEN EntryOf(n) ELSE L(t)[i]]
      BY <2>2, <2>3
    <3>2. \A i \in 1 .. Len(t) + 1 : i = Len(t) + 1 \/ i \in 1 .. Len(t)
      BY <2>2
    <3>3. QED
      BY <2>2, <3>1, <3>2
  <2>5. QED
    BY <1>2, <1>3, <2>4
<1>4. QED
  BY <1>1, <1>2, <1>3

----------------------------------------------------------------------------
(* The trace *)

Succeeded == {t \in ExecutionRecord : t.status = "completed"}

LEMMA TraceAppend ==
  ASSUME executionTrace \in Seq(ExecutionRecord), CurrentNode \in Nodes,
         NEW status \in {"completed", "failed"}, Trace(status)
  PROVE  /\ status = "failed" => Kept(executionTrace', Succeeded) = Kept(executionTrace, Succeeded)
         /\ status = "completed" => Kept(executionTrace', Succeeded)
               = Append(Kept(executionTrace, Succeeded), [node |-> CurrentNode, status |-> status])
<1> DEFINE e == [node |-> CurrentNode, status |-> status]
<1>1. e \in ExecutionRecord /\ (e \in Succeeded <=> status = "completed")
  BY DEF ExecutionRecord, Succeeded
<1>2. executionTrace' = Append(executionTrace, e)
  BY DEF Trace
<1> HIDE DEF e
<1>3. Kept(executionTrace', Succeeded)
        = IF e \in Succeeded THEN Append(Kept(executionTrace, Succeeded), e) ELSE Kept(executionTrace, Succeeded)
  BY <1>1, <1>2, KeptAppend
<1>4. QED
  BY <1>1, <1>3 DEF e

\* The nodes of the records of success, and the actions among the nodes completed.
NodesOfTrace(t) == [i \in DOMAIN t |-> t[i].node]
Added == IF pc = "nodeDone" THEN Append(completed, CurrentNode) ELSE completed
CountInv == NodesOfTrace(Kept(executionTrace, Succeeded)) = Kept(Added, ActionNodes)

LEMMA SameTrace ==
  ASSUME CountInv, UNCHANGED <<executionTrace, completed>>, pc # "nodeDone", pc' # "nodeDone"
  PROVE  CountInv'
BY DEF CountInv, Added, NodesOfTrace

LEMMA NextCountInv == TypeOK /\ OrderInv /\ CountInv /\ [Next]_vars => CountInv'
<1> SUFFICES ASSUME TypeOK, OrderInv, CountInv, [Next]_vars PROVE CountInv'
  OBVIOUS
<1> USE DEF dagVars, nodeVars, listVars, worldVars, storeVars, callVars, controlVars
<1>0. /\ completed \in Seq(Nodes) /\ executionTrace \in Seq(ExecutionRecord) /\ order \in Seq(Nodes)
      /\ pc \in {"DoIt", "nodeDone", "nodeFailed"} => pos \in 1 .. Len(order)
      /\ pc = "node" => pos \in 1 .. Len(order) + 1
      /\ pc = "DoIt" => CurrentNode \in ActionNodes
  BY DEF TypeOK, ExecutorTypeOK, ControlTypeOK, OrderInv
<1>1. CASE Execute
  BY <1>1, SameTrace DEF Execute
<1>2. CASE Rollback
  BY <1>2, SameTrace DEF Rollback
<1>3. CASE SkipNode
  <2>1. /\ CurrentNode \in Nodes /\ CurrentNode \notin ActionNodes
        /\ pc = "node" /\ pc' = "nodeDone" /\ UNCHANGED <<executionTrace, completed, order, pos>>
    BY <1>0, <1>3 DEF SkipNode, Goto, CurrentNode
  <2>2. Kept(Append(completed, CurrentNode), ActionNodes) = Kept(completed, ActionNodes)
    BY <1>0, <2>1, KeptAppend
  <2>3. QED
    BY <2>1, <2>2 DEF CountInv, Added, NodesOfTrace, CurrentNode
<1>4. CASE ActionMissing
  BY <1>4, SameTrace DEF ActionMissing, Goto
<1>5. CASE StartNode
  BY <1>5, SameTrace DEF StartNode, Goto
<1>6. CASE DoItSucceeds
  <2> DEFINE n == CurrentNode
             e == [node |-> n, status |-> "completed"]
             K == Kept(executionTrace, Succeeded)
  <2>1. /\ n \in Nodes /\ n \in ActionNodes /\ Trace("completed")
        /\ pc = "DoIt" /\ pc' = "nodeDone" /\ UNCHANGED <<completed, order, pos>>
    BY <1>0, <1>6 DEF DoItSucceeds, Goto, CurrentNode
  <2>2. Kept(executionTrace', Succeeded) = Append(K, e) /\ K \in Seq(Succeeded) /\ e \in Succeeded
    BY <1>0, <2>1, TraceAppend, KeptPlaces DEF Succeeded, ExecutionRecord
  <2>3. Kept(Append(completed, n), ActionNodes) = Append(Kept(completed, ActionNodes), n)
    <3> HIDE DEF n
    <3>1. QED
      BY <1>0, <2>1, KeptAppend
  <2>4. NodesOfTrace(K) = Kept(completed, ActionNodes)
    BY <2>1 DEF CountInv, Added
  <2>5. Added' = Append(completed, n)
    BY <2>1 DEF Added, CurrentNode
  <2>6. NodesOfTrace(Append(K, e)) = Append(NodesOfTrace(K), n)
    <3>1. e.node = n
      OBVIOUS
    <3> HIDE DEF K, e, n
    <3>2. /\ Len(K) \in Nat /\ DOMAIN K = 1 .. Len(K) /\ DOMAIN Append(K, e) = 1 .. Len(K) + 1
          /\ Append(K, e)[Len(K) + 1] = e /\ \A i \in 1 .. Len(K) : Append(K, e)[i] = K[i]
      BY <2>2
    <3>3. NodesOfTrace(K) \in Seq(Nodes) /\ Len(NodesOfTrace(K)) = Len(K)
      <4>1. \A t \in Succeeded : t.node \in Nodes
        BY DEF Succeeded, ExecutionRecord
      <4>2. \A i \in 1 .. Len(K) : K[i].node \in Nodes
        BY <2>2, <4>1
      <4>3. NodesOfTrace(K) \in [1 .. Len(K) -> Nodes]
        BY <3>2, <4>2 DEF NodesOfTrace
      <4>4. QED
        BY <3>2, <4>3
    <3>4. /\ Append(NodesOfTrace(K), n) \in Seq(Nodes)
          /\ Len(Append(NodesOfTrace(K), n)) = Len(K) + 1
          /\ Append(NodesOfTrace(K), n)[Len(K) + 1] = n
          /\ \A i \in 1 .. Len(K) : Append(NodesOfTrace(K), n)[i] = K[i].node
      <4>1. \A i \in 1 .. Len(K) : NodesOfTrace(K)[i] = K[i].node
        BY <3>2 DEF NodesOfTrace
      <4>2. QED
        BY <2>1, <3>3, <4>1, AppendProperties
    <3>5. \A i \in 1 .. Len(K) + 1 : i = Len(K) + 1 \/ i \in 1 .. Len(K)
      BY <3>2
    <3> DEFINE u == Append(K, e)
               v == Append(NodesOfTrace(K), n)
    <3>6. \A i \in 1 .. Len(K) + 1 : v[i] = u[i].node
      BY <3>1, <3>2, <3>4, <3>5
    <3>7. v = [i \in 1 .. Len(K) + 1 |-> v[i]] /\ DOMAIN u = 1 .. Len(K) + 1
      <4>1. v \in Seq(Nodes) /\ Len(v) = Len(K) + 1
        BY <3>4
      <4> HIDE DEF v
      <4>2. v \in [1 .. Len(K) + 1 -> Nodes]
        BY <4>1
      <4>3. QED
        BY <3>2, <4>2
    <3>8. QED
      BY <3>6, <3>7 DEF NodesOfTrace
  <2>7. QED
    BY <2>2, <2>3, <2>4, <2>5, <2>6 DEF CountInv
<1>7. CASE DoItFails
  <2>1. /\ CurrentNode \in Nodes /\ Trace("failed") /\ pc = "DoIt" /\ pc' = "nodeFailed"
        /\ UNCHANGED completed
    BY <1>0, <1>7 DEF DoItFails, Goto, CurrentNode
  <2>2. Kept(executionTrace', Succeeded) = Kept(executionTrace, Succeeded)
    BY <1>0, <2>1, TraceAppend
  <2>3. QED
    BY <2>1, <2>2 DEF CountInv, Added, NodesOfTrace
<1>8. CASE NodeCompleted
  BY <1>8 DEF NodeCompleted, CountInv, Added, NodesOfTrace
<1>9. CASE NodeFailed
  BY <1>9, SameTrace DEF NodeFailed
<1>10. CASE SagaCompleted
  BY <1>10, SameTrace DEF SagaCompleted, Return
<1>11. CASE SkipUndo
  BY <1>11, SameTrace DEF SkipUndo
<1>12. CASE StartUndo
  BY <1>12, SameTrace DEF StartUndo, Goto
<1>13. CASE UndoItSucceeds
  BY <1>13, SameTrace DEF UndoItSucceeds
<1>14. CASE UndoItFails
  BY <1>14, SameTrace DEF UndoItFails, Goto
<1>15. CASE CompensationSucceeds
  BY <1>15, SameTrace DEF CompensationSucceeds, Return
<1>16. CASE CompensationFails
  BY <1>16, SameTrace DEF CompensationFails, Return
<1>17. CASE UNCHANGED vars
  BY <1>17 DEF vars, CountInv, Added, NodesOfTrace, CurrentNode
<1>18. QED
  BY <1>1, <1>2, <1>3, <1>4, <1>5, <1>6, <1>7, <1>8, <1>9,
     <1>10, <1>11, <1>12, <1>13, <1>14, <1>15, <1>16, <1>17 DEF Next, Step

\* The trace and the completed list tell the same story, over any number of calls: no
\* action is listed that the trace does not show to have succeeded, none is forgotten,
\* and the two have the same order.
THEOREM TraceAccounts == Spec => []TraceAccountsForCompleted
<1>1. Init => CountInv
  <2> SUFFICES ASSUME Init PROVE CountInv
    OBVIOUS
  <2>1. executionTrace = <<>> /\ Added = <<>>
    BY DEF Init, FreshExecutor, Added
  <2>2. <<>> \in Seq(ExecutionRecord) /\ <<>> \in Seq(Nodes) /\ Len(<<>>) = 0
    OBVIOUS
  <2>3. \A S : Kept(<<>>, S) = <<>>
    <3> TAKE S
    <3>1. PICK f : KeptUpTo(f, <<>>, S, Len(<<>>)) /\ Kept(<<>>, S) = f[Len(<<>>)]
      BY <2>2, KeptIs
    <3>2. QED
      BY <2>2, <3>1 DEF KeptUpTo
  <2>4. NodesOfTrace(<<>>) = <<>>
    BY DEF NodesOfTrace
  <2>5. QED
    BY <2>1, <2>3, <2>4 DEF CountInv
<1>2. IInv /\ CountInv /\ [Next]_vars => CountInv'
  BY NextCountInv DEF IInv
<1>3. CountInv => TraceAccountsForCompleted
  BY DEF CountInv, TraceAccountsForCompleted, Added, Succeeded, NodesOfTrace
<1>4. QED
  BY <1>1, <1>2, <1>3, SpecIInv, PTL DEF Spec

----------------------------------------------------------------------------
(* What is on record *)

\* A step leaves the store and what it is made from alone, or saves the list again
\* and leaves the world alone.
Quiet == UNCHANGED <<store, warned, completed, ancestorTree, executes>>
Resaved ==
  /\ UNCHANGED <<completed, ancestorTree, executes, worldVars>>
  /\ \E status \in Statuses : Persist(status, completed)

LEMMA StoreSteps ==
  ASSUME [Next]_vars
  PROVE  Quiet \/ Resaved \/ Execute \/ NodeCompleted \/ DoItSucceeds
<1> USE DEF Quiet, Resaved, Statuses, nodeVars, listVars, storeVars, callVars, worldVars
<1>1. CASE Rollback
  BY <1>1 DEF Rollback
<1>2. CASE SkipNode
  BY <1>2 DEF SkipNode
<1>3. CASE ActionMissing
  BY <1>3 DEF ActionMissing
<1>4. CASE StartNode
  BY <1>4 DEF StartNode
<1>5. CASE DoItFails
  BY <1>5 DEF DoItFails
<1>6. CASE NodeFailed
  BY <1>6 DEF NodeFailed
<1>7. CASE SagaCompleted
  BY <1>7 DEF SagaCompleted
<1>8. CASE SkipUndo
  BY <1>8 DEF SkipUndo
<1>9. CASE StartUndo
  BY <1>9 DEF StartUndo
<1>10. CASE UndoItSucceeds
  BY <1>10 DEF UndoItSucceeds
<1>11. CASE UndoItFails
  BY <1>11 DEF UndoItFails
<1>12. CASE CompensationSucceeds
  BY <1>12 DEF CompensationSucceeds
<1>13. CASE CompensationFails
  BY <1>13 DEF CompensationFails
<1>14. CASE UNCHANGED vars
  BY <1>14 DEF vars
<1>15. QED
  BY <1>1, <1>2, <1>3, <1>4, <1>5, <1>6, <1>7, <1>8, <1>9, <1>10, <1>11, <1>12, <1>13, <1>14
     DEF Next, Step

\* A save stores the listing; one that fails leaves what was there, or nothing readable,
\* and prints a warning, unless it is the first of an Execute.
LEMMA SavedListing ==
  ASSUME ancestorTree \in [Names -> Nat], NEW nodes \in Seq(Nodes), NEW status
  PROVE  /\ Saves(status, nodes) => store'.actions = Listing(nodes)
         /\ Persist(status, nodes) => \/ store'.actions = Listing(nodes)
                                      \/ (store' = store \/ store' = Torn) /\ warned'
<1>1. Saves(status, nodes) => store'.actions = Listing(nodes)
  BY ListingPlaces DEF Saves
<1>2. QED
  BY <1>1 DEF Persist, SaveFails

\* When DoIt returns an output, it is stored under a name that no node listed has.
LEMMA CurrentNotListed ==
  ASSUME IInv, executes <= 1, pc \in {"DoIt", "nodeDone"}
  PROVE  /\ completed \in Seq(Nodes) /\ CurrentNode \in Nodes
         /\ \A i \in 1 .. Len(completed) : completed[i] # CurrentNode
<1>1. /\ order \in TopologicalOrders(edges) /\ pos \in 1 .. Len(order) /\ completed \in Seq(Nodes)
      /\ Len(completed) = pos - 1 /\ \A i \in 1 .. Len(completed) : completed[i] = order[i]
  BY DEF IInv, OrderInv, PrefixInv, Forward, TypeOK, ControlTypeOK, ExecutorTypeOK
<1>2. order \in Seq(Nodes) /\ \A i, j \in 1 .. Len(order) : order[i] = order[j] => i = j
  BY <1>1, OrderFacts
<1>3. \A i \in 1 .. pos - 1 : i \in 1 .. Len(order) /\ i # pos
  BY <1>1, <1>2
<1>4. QED
  BY <1>1, <1>2, <1>3 DEF CurrentNode

SamePrefix(s, t) == Len(s) <= Len(t) /\ \A i \in 1 .. Len(s) : s[i] = t[i]

PrefixStored ==
  executes <= 1 /\ NamesIdentify /\ Readable =>
    store.actions \in Seq(Saved) /\ SamePrefix(store.actions, Listing(completed))

LEMMA NextPrefixStored == IInv /\ PrefixStored /\ [Next]_vars => PrefixStored'
<1> SUFFICES ASSUME IInv, PrefixStored, [Next]_vars, executes' <= 1, NamesIdentify, Readable'
             PROVE  store'.actions \in Seq(Saved) /\ SamePrefix(store'.actions, Listing(completed)')
  BY DEF PrefixStored, NamesIdentify, Named
<1>1. ancestorTree \in [Names -> Nat] /\ completed \in Seq(Nodes) /\ executes \in Nat
  BY DEF IInv, TypeOK, ExecutorTypeOK, EnvironmentTypeOK
<1>2. Listing(completed) \in Seq(Saved)
  BY <1>1, ListingPlaces
<1>3. UNCHANGED <<completed, ancestorTree>> => Listing(completed)' = Listing(completed)
  BY DEF Listing, Snapshot, OutputOf
<1>4. \A t \in Seq(Saved) : SamePrefix(t, t)
  BY DEF SamePrefix
<1>5. store' # Torn
  BY DEF Readable, Torn, Statuses
<1>6. UNCHANGED store => Readable
  BY DEF Readable
<1>7. CASE Quiet
  BY <1>3, <1>6, <1>7 DEF PrefixStored, Quiet
<1>8. CASE Resaved
  <2>1. PICK status : Persist(status, completed)
    BY <1>8 DEF Resaved
  <2>2. store'.actions = Listing(completed) \/ store' = store
    BY <1>1, <1>5, <2>1, SavedListing
  <2>3. Listing(completed)' = Listing(completed) /\ executes <= 1
    BY <1>3, <1>8 DEF Resaved
  <2>4. QED
    BY <1>2, <1>4, <1>6, <2>2, <2>3 DEF PrefixStored
<1>9. CASE Execute
  <2>1. UNCHANGED <<completed, ancestorTree>> /\ executes <= 1 /\ (SaveFails \/ Saves("running", completed))
    BY <1>1, <1>9 DEF Execute, nodeVars, listVars
  <2>2. store'.actions = Listing(completed) \/ store' = store
    BY <1>1, <1>5, <2>1, SavedListing DEF SaveFails
  <2>3. QED
    BY <1>2, <1>3, <1>4, <1>6, <2>1, <2>2 DEF PrefixStored
<1>10. CASE NodeCompleted
  <2> DEFINE n == CurrentNode
  <2>1. /\ completed' = Append(completed, n) /\ UNCHANGED <<ancestorTree, executes>>
        /\ Persist("running", completed') /\ pc = "nodeDone"
    BY <1>10 DEF NodeCompleted, nodeVars, callVars
  <2>2. n \in Nodes
    BY <2>1, CurrentNotListed
  <2> HIDE DEF n
  <2>3. completed' \in Seq(Nodes)
    BY <1>1, <2>1, <2>2
  <2>4. Listing(completed)' = Listing(completed')
    BY <2>1 DEF Listing, Snapshot, OutputOf
  <2>5. Listing(completed') \in Seq(Saved)
    BY <1>1, <2>3, ListingPlaces
  <2>6. store'.actions = Listing(completed') \/ store' = store
    BY <1>1, <1>5, <2>1, <2>3, SavedListing
  <2>7. CASE store'.actions = Listing(completed')
    BY <1>4, <2>4, <2>5, <2>7
  <2>8. CASE store' = store
    <3>1. store.actions \in Seq(Saved) /\ SamePrefix(store.actions, Listing(completed))
      BY <1>6, <2>1, <2>8 DEF PrefixStored
    <3>2. \/ Listing(completed') = Listing(completed)
          \/ Listing(completed') = Append(Listing(completed), EntryOf(n)) /\ EntryOf(n) \in Saved
      BY <1>1, <2>1, <2>2, ListingAppend DEF EntryOf, Saved, OutputOf, Named
    <3>3. SamePrefix(store.actions, Listing(completed'))
      BY <1>2, <3>1, <3>2 DEF SamePrefix
    <3>4. QED
      BY <2>4, <2>8, <3>1, <3>3
  <2>9. QED
    BY <2>6, <2>7, <2>8
<1>11. CASE DoItSucceeds
  <2> DEFINE n == CurrentNode
  <2>1. /\ UNCHANGED <<completed, store, executes>> /\ pc = "DoIt"
        /\ \/ UNCHANGED ancestorTree
           \/ ancestorTree' = [ancestorTree EXCEPT ![NameOf[n]] = serial']
    BY <1>11 DEF DoItSucceeds, listVars, storeVars, callVars
  <2>2. n \in ActionNodes /\ \A i \in 1 .. Len(completed) : completed[i] # n
    BY <2>1, CurrentNotListed DEF IInv, OrderInv
  <2>3. \A i \in 1 .. Len(completed) : OutputOf(completed[i])' = OutputOf(completed[i])
    BY <1>1, <2>1, <2>2 DEF OutputOf, NamesIdentify, Named
  <2>4. Listing(completed)' = Listing(completed)
    <3> DEFINE S == {m \in Nodes : Named(m)}
               k == Kept(completed, S)
    <3>1. k \in Seq(S) /\ \E h : Places(h, k, completed, S, Len(completed))
      BY <1>1, KeptPlaces
    <3>2. PICK h : Places(h, k, completed, S, Len(completed))
      BY <3>1
    <3> DEFINE L(tree) ==
                 [i \in DOMAIN k |->
                    [name |-> NameOf[k[i]],
                     output |-> IF Named(k[i]) THEN tree[NameOf[k[i]]] ELSE NoOutput]]
    <3>3. Listing(completed) = L(ancestorTree)
      BY DEF Listing, Snapshot, OutputOf
    <3>4. Listing(completed)' = L(ancestorTree')
      BY <2>1 DEF Listing, Snapshot, OutputOf
    <3> HIDE DEF k
    <3>5. \A i \in DOMAIN k : h[i] \in 1 .. Len(completed) /\ k[i] = completed[h[i]] /\ Named(k[i])
      BY <3>1, <3>2 DEF Places
    <3>6. \A i \in DOMAIN k : ancestorTree'[NameOf[k[i]]] = ancestorTree[NameOf[k[i]]]
      BY <2>1, <2>3, <3>5 DEF OutputOf
    <3>7. L(ancestorTree') = L(ancestorTree)
      BY <3>6
    <3>8. QED
      BY <3>3, <3>4, <3>7
  <2>5. QED
    BY <1>6, <2>1, <2>4 DEF PrefixStored
<1>12. QED
  BY <1>7, <1>8, <1>9, <1>10, <1>11, StoreSteps

\* Whatever saves were lost or torn, a readable record lists what did happen, with its
\* outputs and in its order, and nothing else.
THEOREM RecordIsPrefix == Spec => []StoredIsPrefix
<1>1. Init => PrefixStored
  BY DEF Init, PrefixStored, Readable, NoState, Statuses
<1>2. IInv /\ PrefixStored /\ [Next]_vars => PrefixStored'
  BY NextPrefixStored
<1>3. ASSUME IInv, PrefixStored PROVE StoredIsPrefix
  <2>1. SUFFICES ASSUME Readable, executes <= 1, NamesIdentify
                 PROVE  IsPrefix(store.actions, Listing(completed))
    <3>1. ancestorTree \in [Names -> Nat] /\ completed \in Seq(Nodes)
      BY <1>3 DEF IInv, TypeOK, ExecutorTypeOK
    <3>2. QED
      BY <3>1, ListingPlaces DEF StoredIsPrefix
  <2> DEFINE s == store.actions
             t == Listing(completed)
  <2>2. s \in Seq(Saved) /\ SamePrefix(s, t)
    BY <1>3, <2>1 DEF PrefixStored
  <2>3. t \in Seq(Saved)
    BY <1>3, ListingPlaces DEF IInv, TypeOK, ExecutorTypeOK
  <2> HIDE DEF s, t
  <2>4. Len(s) \in Nat /\ Len(t) \in Nat
    BY <2>2, <2>3
  <2>5. SubSeq(s, 1, Len(s)) = [i \in 1 .. Len(s) |-> s[i]] /\ SubSeq(t, 1, Len(s)) = [i \in 1 .. Len(s) |-> t[i]]
    BY <2>2, <2>3, <2>4
  <2>6. IsPrefix(s, t)
    BY <2>2, <2>5 DEF IsPrefix, SamePrefix
  <2>7. QED
    BY <2>6 DEF s, t
<1>4. QED
  BY <1>1, <1>2, <1>3, SpecIInv, PTL DEF Spec

\* The names and outputs that a list of saved actions holds.
Pairs(s) == {<<a.name, a.output>> : a \in ToSet(s)}

LEMMA ListedPairs ==
  ASSUME ancestorTree \in [Names -> Nat], NEW nodes \in Seq(Nodes)
  PROVE  \A p : p \in Pairs(Listing(nodes)) <=>
           \E i \in 1 .. Len(nodes) :
             Named(nodes[i]) /\ p = <<NameOf[nodes[i]], OutputOf(nodes[i])>>
<1> DEFINE l == Listing(nodes)
<1>1. l \in Seq(Saved)
  BY ListingPlaces
<1>2. PICK h \in [1 .. Len(l) -> 1 .. Len(nodes)] :
        /\ \A i \in 1 .. Len(l) : Named(nodes[h[i]]) /\ l[i] = EntryOf(nodes[h[i]])
        /\ \A k \in 1 .. Len(nodes) : Named(nodes[k]) => \E i \in 1 .. Len(l) : h[i] = k
  BY ListingPlaces
<1>3. \A p : p \in Pairs(l) <=> \E i \in 1 .. Len(l) : p = <<l[i].name, l[i].output>>
  BY <1>1 DEF Pairs, ToSet
<1> HIDE DEF l
<1>4. \A i \in 1 .. Len(l) :
        /\ h[i] \in 1 .. Len(nodes) /\ Named(nodes[h[i]])
        /\ l[i].name = NameOf[nodes[h[i]]] /\ l[i].output = OutputOf(nodes[h[i]])
  <2>1. \A n : EntryOf(n).name = NameOf[n] /\ EntryOf(n).output = OutputOf(n)
    BY DEF EntryOf
  <2>2. \A i \in 1 .. Len(l) :
          h[i] \in 1 .. Len(nodes) /\ Named(nodes[h[i]]) /\ l[i] = EntryOf(nodes[h[i]])
    BY <1>2
  <2>3. QED
    BY <2>1, <2>2
<1>5. ASSUME NEW p, p \in Pairs(l)
      PROVE  \E i \in 1 .. Len(nodes) :
               Named(nodes[i]) /\ p = <<NameOf[nodes[i]], OutputOf(nodes[i])>>
  <2>1. PICK i \in 1 .. Len(l) : p = <<l[i].name, l[i].output>>
    BY <1>3, <1>5
  <2>2. QED
    BY <1>4, <2>1
<1>6. ASSUME NEW p, NEW i \in 1 .. Len(nodes), Named(nodes[i]),
             p = <<NameOf[nodes[i]], OutputOf(nodes[i])>>
      PROVE  p \in Pairs(l)
  <2>1. PICK j \in 1 .. Len(l) : h[j] = i
    BY <1>2, <1>6
  <2>2. QED
    BY <1>3, <1>4, <1>6, <2>1
<1>7. QED
  BY <1>5, <1>6 DEF l

AllStored ==
  ~warned /\ executes <= 1 /\ DistinctNames =>
    \A i \in 1 .. Len(completed) : completed[i] \in ActionNodes =>
      <<NameOf[completed[i]], OutputOf(completed[i])>> \in Recorded

LEMMA NextAllStored == IInv /\ AllStored /\ [Next]_vars => AllStored'
<1> SUFFICES ASSUME IInv, AllStored, [Next]_vars, ~warned', executes' <= 1, DistinctNames,
                    NEW i \in 1 .. Len(completed'), completed'[i] \in ActionNodes
             PROVE  <<NameOf[completed'[i]], OutputOf(completed[i])'>> \in Recorded'
  BY DEF AllStored, DistinctNames, Named
<1>1. /\ ancestorTree \in [Names -> Nat] /\ completed \in Seq(Nodes) /\ executes \in Nat
      /\ \A n \in ActionNodes : Named(n)
  BY DEF IInv, TypeOK, ExecutorTypeOK, EnvironmentTypeOK, DistinctNames
<1>2. Recorded = Pairs(store.actions) /\ Recorded' = Pairs(store'.actions)
  BY DEF Recorded, Pairs
<1>3. ASSUME UNCHANGED ancestorTree, completed' \in Seq(Nodes), store'.actions = Listing(completed')
      PROVE  <<NameOf[completed'[i]], OutputOf(completed[i])'>> \in Recorded'
  <2>1. OutputOf(completed[i])' = OutputOf(completed'[i])
    BY <1>3 DEF OutputOf
  <2>2. <<NameOf[completed'[i]], OutputOf(completed'[i])>> \in Pairs(Listing(completed'))
    BY <1>1, <1>3, ListedPairs
  <2>3. QED
    BY <1>2, <1>3, <2>1, <2>2
<1>4. CASE Quiet
  <2>1. Recorded' = Recorded /\ OutputOf(completed[i])' = OutputOf(completed[i])
    BY <1>4 DEF Quiet, Recorded, OutputOf
  <2>2. QED
    BY <1>4, <2>1 DEF Quiet, AllStored
<1>5. CASE Resaved
  <2>1. PICK status : Persist(status, completed)
    BY <1>5 DEF Resaved
  <2>2. store'.actions = Listing(completed)
    BY <1>1, <2>1, SavedListing
  <2>3. QED
    BY <1>1, <1>3, <1>5, <2>2 DEF Resaved
<1>6. CASE Execute
  <2>1. executes = 0 /\ completed' = completed
    BY <1>1, <1>6 DEF Execute, listVars
  <2>2. completed = <<>>
    BY <2>1 DEF IInv, PrefixInv
  <2>3. QED
    BY <2>1, <2>2
<1>7. CASE NodeCompleted
  <2> DEFINE n == CurrentNode
  <2>1. completed' = Append(completed, n) /\ UNCHANGED ancestorTree /\ Persist("running", completed')
        /\ pc = "nodeDone" /\ executes' = executes
    BY <1>7 DEF NodeCompleted, nodeVars, callVars
  <2>2. n \in Nodes
    BY <2>1, CurrentNotListed
  <2> HIDE DEF n
  <2>3. completed' \in Seq(Nodes)
    BY <1>1, <2>1, <2>2
  <2>4. store'.actions = Listing(completed')
    BY <1>1, <2>1, <2>3, SavedListing
  <2>5. QED
    BY <1>3, <2>1, <2>3, <2>4
<1>8. CASE DoItSucceeds
  <2> DEFINE n == CurrentNode
  <2>1. /\ UNCHANGED <<completed, store, executes, warned>> /\ pc = "DoIt"
        /\ \/ UNCHANGED ancestorTree
           \/ ancestorTree' = [ancestorTree EXCEPT ![NameOf[n]] = serial']
    BY <1>8 DEF DoItSucceeds, listVars, storeVars, callVars
  <2>2. n \in ActionNodes /\ completed[i] # n /\ completed[i] \in ActionNodes
    BY <2>1, CurrentNotListed DEF IInv, OrderInv
  <2>3. OutputOf(completed[i])' = OutputOf(completed[i])
    BY <1>1, <2>1, <2>2 DEF OutputOf, DistinctNames, Named
  <2>4. QED
    BY <1>2, <2>1, <2>2, <2>3 DEF AllStored
<1>9. QED
  BY <1>4, <1>5, <1>6, <1>7, <1>8, StoreSteps

\* Wherever the process ends, the store lists all that is in place but the resource
\* of one DoIt that has just returned, and what failed actions left.
THEOREM CrashLosesOne == Spec => []CrashLosesAtMostOne
<1>1. Init => AllStored
  BY DEF Init, FreshExecutor, AllStored
<1>2. IInv /\ AllStored /\ [Next]_vars => AllStored'
  BY NextAllStored
<1>3. ASSUME IInv, AllStored PROVE CrashLosesAtMostOne
  <2>1. SUFFICES ASSUME ~warned, executes <= 1, DistinctNames, NEW r \in live,
                        nodeState[r[1]] # "failed", ~(pc = "nodeDone" /\ r[1] = CurrentNode)
                 PROVE  <<NameOf[r[1]], r[2]>> \in Recorded
    BY DEF CrashLosesAtMostOne
  <2>2. PICK i \in 1 .. Len(completed) : completed[i] = r[1] /\ r[2] = OutputOf(r[1])
    BY <1>3, <2>1 DEF IInv, ResourceInv, CurrentNode
  <2>3. r[1] \in ActionNodes
    BY <1>3 DEF IInv, OrderInv
  <2>4. QED
    BY <1>3, <2>1, <2>2, <2>3 DEF AllStored
<1>4. QED
  BY <1>1, <1>2, <1>3, SpecIInv, PTL DEF Spec

=============================================================================

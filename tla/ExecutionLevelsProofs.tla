----------------------- MODULE ExecutionLevelsProofs -----------------------
(***************************************************************************)
(* The levels of every graph, of any number of nodes: one inductive        *)
(* invariant carries all safety properties of ExecutionLevels.             *)
(***************************************************************************)
EXTENDS ExecutionLevels, TLAPS

\* A node that is not completed depends on one that had no level yet before the
\* last one was found: otherwise it would have been in that level.
Waiting ==
  levels # <<>> =>
    \A n \in Nodes \ completed : \E m \in dependencies(n) : m \notin completed \ levels[Len(levels)]

\* No node of a cycle ever enters a level; an error leaves a cycle behind.
CyclesLeftOut ==
  /\ \A S \in SUBSET Nodes : Circular(S) => S \cap completed = {}
  /\ pc = "error" => Circular(Nodes \ completed)

IInv == TypeOK /\ OnceEach /\ LevelsInOrder /\ Waiting /\ LevelsEarliest /\ CyclesLeftOut

LEMMA InitIInv == Init => IInv
  <1> SUFFICES ASSUME Init PROVE IInv
    OBVIOUS
  <1>1. TypeOK
    BY GraphsAssumption DEF Init, TypeOK
  <1>2. levels = <<>> /\ DOMAIN levels = {} /\ completed = {} /\ pc = "loop"
    BY DEF Init
  <1>3. OnceEach /\ LevelsInOrder /\ Waiting /\ LevelsEarliest /\ CyclesLeftOut
    BY <1>2 DEF OnceEach, LevelsInOrder, Waiting, LevelsEarliest, CyclesLeftOut
  <1> QED
    BY <1>1, <1>3 DEF IInv

\* The step that finds a level.
LEMMA NextLevelIInv == IInv /\ NextLevel => IInv'
  <1> SUFFICES ASSUME IInv, NextLevel PROVE IInv'
    OBVIOUS
  <1> DEFINE L == Len(levels)
             new == CanExecute
  <1>1. /\ levels \in Seq(SUBSET Nodes) /\ L \in Nat /\ DOMAIN levels = 1 .. L
        /\ edges \subseteq Nodes \X Nodes /\ completed \subseteq Nodes
    BY DEF IInv, TypeOK
  <1>2. /\ new # {} /\ new \subseteq Nodes \ completed
        /\ \A n \in new : dependencies(n) \subseteq completed
        /\ \A n \in Nodes \ completed : dependencies(n) \subseteq completed => n \in new
    BY DEF NextLevel, CanExecute
  <1>3. /\ levels' = Append(levels, new) /\ completed' = completed \cup new
        /\ edges' = edges /\ pc' = pc /\ pc = "loop"
    BY DEF NextLevel
  <1>4. /\ levels' \in Seq(SUBSET Nodes) /\ Len(levels') = L + 1 /\ DOMAIN levels' = 1 .. L + 1
        /\ \A i \in 1 .. L : levels'[i] = levels[i]
        /\ levels'[L + 1] = new
    BY <1>1, <1>2, <1>3
  <1>5. \A n : dependencies(n)' = dependencies(n)
    BY <1>3 DEF dependencies
  <1>6. TypeOK'
    BY <1>1, <1>2, <1>3, <1>4 DEF TypeOK
  <1>7. OnceEach'
    <2>1. completed = UNION {levels[i] : i \in 1 .. L}
      BY <1>1 DEF IInv, OnceEach
    <2>2. completed' = UNION {levels'[i] : i \in 1 .. L + 1}
      <3>1. ASSUME NEW n \in completed' PROVE \E i \in 1 .. L + 1 : n \in levels'[i]
        <4>1. CASE n \in completed
          <5>1. PICK i \in 1 .. L : n \in levels[i]
            BY <4>1, <2>1
          <5> QED
            BY <5>1, <1>1, <1>4
        <4>2. CASE n \in new
          BY <4>2, <1>1, <1>4
        <4> QED
          BY <4>1, <4>2, <1>3
      <3>2. ASSUME NEW i \in 1 .. L + 1, NEW n \in levels'[i] PROVE n \in completed'
        <4>1. CASE i \in 1 .. L
          BY <4>1, <1>3, <1>4, <2>1
        <4>2. CASE i = L + 1
          BY <4>2, <1>3, <1>4
        <4> QED
          BY <4>1, <4>2, <1>1
      <3> QED
        BY <3>1, <3>2
    <2>3. ASSUME NEW i \in 1 .. L + 1, NEW j \in 1 .. L + 1, i # j
          PROVE  levels'[i] \cap levels'[j] = {}
      <3>1. \A k \in 1 .. L : levels[k] \cap new = {}
        BY <2>1, <1>2
      <3>2. CASE i \in 1 .. L /\ j \in 1 .. L
        BY <3>2, <2>3, <1>1, <1>4 DEF IInv, OnceEach
      <3>3. CASE i = L + 1 \/ j = L + 1
        BY <3>1, <3>3, <2>3, <1>1, <1>4
      <3> QED
        BY <3>2, <3>3, <1>1
    <2> QED
      BY <2>2, <2>3, <1>4 DEF OnceEach
  <1>8. LevelsInOrder'
    <2> SUFFICES ASSUME NEW j \in 1 .. L + 1, NEW n \in levels'[j], NEW m \in dependencies(n)
                 PROVE  \E i \in 1 .. j - 1 : m \in levels'[i]
      BY <1>4, <1>5 DEF LevelsInOrder
    <2>1. CASE j \in 1 .. L
      <3>1. PICK i \in 1 .. j - 1 : m \in levels[i]
        BY <2>1, <1>1, <1>4 DEF IInv, LevelsInOrder
      <3> QED
        BY <3>1, <2>1, <1>1, <1>4
    <2>2. CASE j = L + 1
      <3>1. m \in completed
        BY <2>2, <1>2, <1>4
      <3>2. PICK i \in 1 .. L : m \in levels[i]
        BY <3>1, <1>1 DEF IInv, OnceEach
      <3> QED
        BY <3>2, <2>2, <1>1, <1>4
    <2> QED
      BY <2>1, <2>2, <1>1
  <1>9. Waiting'
    <2>1. completed' \ levels'[L + 1] = completed
      BY <1>2, <1>3, <1>4
    <2>2. ASSUME NEW n \in Nodes \ completed' PROVE \E m \in dependencies(n) : m \notin completed
      BY <1>2, <1>3
    <2> QED
      BY <2>1, <2>2, <1>4, <1>5 DEF Waiting
  <1>10. LevelsEarliest'
    <2> SUFFICES ASSUME NEW j \in (1 .. L + 1) \ {1}, NEW n \in levels'[j]
                 PROVE  dependencies(n) \cap levels'[j - 1] # {}
      BY <1>4, <1>5 DEF LevelsEarliest
    <2>1. CASE j \in 1 .. L
      <3>1. dependencies(n) \cap levels[j - 1] # {}
        BY <2>1, <1>1, <1>4 DEF IInv, LevelsEarliest
      <3> QED
        BY <3>1, <2>1, <1>1, <1>4
    <2>2. CASE j = L + 1
      <3>1. L # 0 /\ levels # <<>> /\ levels'[j - 1] = levels[L]
        BY <2>2, <1>1, <1>4
      <3>2. n \in Nodes \ completed /\ dependencies(n) \subseteq completed
        BY <2>2, <1>2, <1>4
      <3>3. PICK m \in dependencies(n) : m \notin completed \ levels[L]
        BY <3>1, <3>2 DEF IInv, Waiting
      <3> QED
        BY <3>1, <3>2, <3>3
    <2> QED
      BY <2>1, <2>2, <1>1
  <1>11. CyclesLeftOut'
    <2>1. \A S \in SUBSET Nodes : Circular(S)' <=> Circular(S)
      BY <1>5 DEF Circular
    <2>2. ASSUME NEW S \in SUBSET Nodes, Circular(S) PROVE S \cap completed' = {}
      <3>1. S \cap completed = {}
        BY <2>2 DEF IInv, CyclesLeftOut
      <3>2. S \cap new = {}
        BY <2>2, <3>1, <1>2 DEF Circular
      <3> QED
        BY <3>1, <3>2, <1>3
    <2>3. \A S \in SUBSET Nodes : Circular(S)' => S \cap completed' = {}
      BY <2>1, <2>2
    <2> QED
      BY <2>3, <1>3 DEF CyclesLeftOut
  <1> QED
    BY <1>6, <1>7, <1>8, <1>9, <1>10, <1>11 DEF IInv

\* The steps that end the loop, and the step that changes nothing.
LEMMA OtherIInv == IInv /\ (NoProgress \/ AllAssigned \/ UNCHANGED vars) => IInv'
  <1> SUFFICES ASSUME IInv, NoProgress \/ AllAssigned \/ UNCHANGED vars PROVE IInv'
    OBVIOUS
  <1>1. edges' = edges /\ completed' = completed /\ levels' = levels
    BY DEF NoProgress, AllAssigned, vars
  <1>2. \A n : dependencies(n)' = dependencies(n)
    BY <1>1 DEF dependencies
  <1>3. TypeOK'
    BY <1>1 DEF IInv, TypeOK, NoProgress, AllAssigned, vars
  <1>4. OnceEach' /\ LevelsInOrder' /\ Waiting' /\ LevelsEarliest'
    BY <1>1, <1>2 DEF IInv, OnceEach, LevelsInOrder, Waiting, LevelsEarliest
  <1>5. CyclesLeftOut'
    <2>1. \A S \in SUBSET Nodes : Circular(S)' <=> Circular(S)
      BY <1>2 DEF Circular
    <2>2. \A S \in SUBSET Nodes : Circular(S)' => S \cap completed' = {}
      BY <2>1, <1>1 DEF IInv, CyclesLeftOut
    <2>3. ASSUME pc' = "error" PROVE Circular(Nodes \ completed)
      <3>1. CASE NoProgress
        <4>1. completed # Nodes /\ CanExecute = {} /\ completed \subseteq Nodes
          BY <3>1 DEF NoProgress, IInv, TypeOK
        <4>2. Nodes \ completed # {}
          BY <4>1
        <4>3. ASSUME NEW n \in Nodes \ completed
              PROVE  dependencies(n) \cap (Nodes \ completed) # {}
          BY <4>1 DEF CanExecute, dependencies
        <4> QED
          BY <4>2, <4>3 DEF Circular
      <3>2. CASE AllAssigned
        BY <3>2, <2>3 DEF AllAssigned
      <3>3. CASE UNCHANGED vars
        BY <3>3, <2>3 DEF vars, IInv, CyclesLeftOut
      <3> QED
        BY <3>1, <3>2, <3>3
    <2>4. pc' = "error" => Circular(Nodes \ completed)'
      BY <2>3, <1>1, <1>2 DEF Circular
    <2> QED
      BY <2>2, <2>4, <1>1 DEF CyclesLeftOut
  <1> QED
    BY <1>3, <1>4, <1>5 DEF IInv

LEMMA IInvHolds == Spec => []IInv
  <1>1. IInv /\ [Next]_vars => IInv'
    BY NextLevelIInv, OtherIInv DEF Next
  <1> QED
    BY InitIInv, <1>1, PTL DEF Spec

\* The levels are sequences of sets of nodes, and hold all nodes when returned.
THEOREM TypeCorrect == Spec => []TypeOK
  <1>1. IInv => TypeOK
    BY DEF IInv
  <1> QED
    BY IInvHolds, <1>1, PTL

\* getExecutionLevels assigns no node twice, and loses none.
THEOREM EveryNodeOnce == Spec => []OnceEach
  <1>1. IInv => OnceEach
    BY DEF IInv
  <1> QED
    BY IInvHolds, <1>1, PTL

\* What a node depends on is in an earlier level than the node.
THEOREM OrderHolds == Spec => []LevelsInOrder
  <1>1. IInv => LevelsInOrder
    BY DEF IInv
  <1> QED
    BY IInvHolds, <1>1, PTL

\* No node is in a later level than its dependencies ask for.
THEOREM EarliestHolds == Spec => []LevelsEarliest
  <1>1. IInv => LevelsEarliest
    BY DEF IInv
  <1> QED
    BY IInvHolds, <1>1, PTL

\* The error "circular dependency" is returned only for a graph with a cycle, and
\* levels only for a graph without one.
THEOREM ErrorIsCycle == Spec => []ErrorMeansCycle
  <1>1. IInv => ErrorMeansCycle
    <2> SUFFICES ASSUME IInv PROVE ErrorMeansCycle
      OBVIOUS
    <2>1. pc = "error" => \E S \in SUBSET Nodes : Circular(S)
      BY DEF IInv, CyclesLeftOut
    <2>2. ASSUME pc = "returned", NEW S \in SUBSET Nodes, Circular(S) PROVE FALSE
      <3>1. completed = Nodes /\ S \cap completed = {}
        BY <2>2 DEF IInv, TypeOK, CyclesLeftOut
      <3> QED
        BY <3>1, <2>2 DEF Circular
    <2> QED
      BY <2>1, <2>2 DEF ErrorMeansCycle
  <1> QED
    BY IInvHolds, <1>1, PTL
=============================================================================

----------------------- MODULE WorkflowSchedulerProofs -----------------------
(***************************************************************************)
(* TLAPS proofs about WorkflowScheduler: for any number of nodes, any set  *)
(* of acyclic workflows, any parallelism and any number of restarts.       *)
(***************************************************************************)
EXTENDS WorkflowScheduler, FiniteSetTheorems, SequenceTheorems, TLAPS

Slot == INSTANCE WriteLockProofs WITH Callers <- Nodes, MaxToken <- N

(***************************************************************************)
(* The inductive invariant, in two layers.  The first holds for every      *)
(* workflow.                                                               *)
(***************************************************************************)
Queued == {ready[i] : i \in 1 .. Len(ready)}

\* The nodes whose dependents have been told: settled, closed or skipped.
Told ==
  {n \in Nodes : /\ remaining[n] = 0 /\ n \notin Queued
                 /\ stage[n] = "idle" \/ (stage[n] = "over" /\ n \in finished)}

\* The counter of a node is the number of dependencies that have not told.
Countdown == \A n \in Nodes : remaining[n] = Cardinality(spec.deps[n] \ Told)

\* A node is queued once, when its counter is down, and before it starts.
QueuedOnce ==
  /\ \A i, j \in 1 .. Len(ready) : ready[i] = ready[j] => i = j
  /\ \A n \in Nodes : n \in Queued => stage[n] = "idle"
  /\ \A n \in Nodes : n \in Queued \/ stage[n] # "idle" => remaining[n] = 0

\* The ready queue.
QueueOK ==
  /\ spec \in Specs
  /\ ready \in Seq(Nodes)
  /\ remaining \in [Nodes -> 0 .. N]
  /\ Countdown
  /\ QueuedOnce

\* The types of what is not the queue and not the slot.
DataOK ==
  /\ loop \in Outcomes \cup {"fill", "await", "paused", "threw", "deadlock"}
  /\ race \in {"pending", "resolved", "rejected"}
  /\ finished \subseteq Nodes
  /\ stage \in [Nodes -> Stages]
  /\ store \in [Nodes -> Results \cup {"none"}]
  /\ disk \in [results : [Nodes -> Results \cup {"none"}], digest : Nat]
  /\ cache \in [Nodes -> CacheEntries]
  /\ interrupt \in 0 .. N
  /\ opened \in [Nodes -> Nat]
  /\ answered \in 0 .. N
  /\ workspace \in Nat
  /\ digest \in Nat
  /\ restored \subseteq Nodes
  /\ starts \in 0 .. MaxStarts

\* A finished node settled, or has a result that was restored or closed; an
\* ended run has finished.
Finished ==
  /\ \A n \in finished : stage[n] = "over" \/ (stage[n] = "idle" /\ store[n] # "none")
  /\ loop \in Outcomes => finished = Nodes

RestoredStays == \A n \in restored : store[n] # "none" /\ stage[n] = "idle"

\* A write holds the slot from its execution until its result is taken up.
HoldsSlot ==
  \A n \in spec.writes : stage[n] \in {"executing", "returned"} => Slot!Holding(n)

\* What is cached under a key is a result of a read with that key, or one of
\* another workflow that shares the cache.
CacheEntry(e, k) ==
  \/ e.node = 0
  \/ e.node = N + 1 /\ spec.shared
  \/ e.node \in Nodes \ spec.writes /\ spec.key[e.node] = k

KeysMatch == \A k \in Nodes : CacheEntry(cache[k], k)

Base ==
  /\ QueueOK
  /\ DataOK
  /\ Slot!IInv
  /\ Finished
  /\ RestoredStays
  /\ HoldsSlot
  /\ KeysMatch

(***************************************************************************)
(* The second layer needs workflows in which no two reads share a cache    *)
(* key, and a cache that no other workflow shares: a replayed result is    *)
(* stored under the node that produced it, and then that may be another    *)
(* node than the one replayed (run workflow_replay).                       *)
(***************************************************************************)
SoleKeys ==
  \A s \in Specs :
    /\ ~s.shared
    /\ \A m, n \in Nodes \ s.writes : s.key[m] = s.key[n] => m = n

\* Results and stages agree.
ResultsInStep ==
  \A n \in Nodes :
    /\ stage[n] \in {"reserving", "locking", "executing", "pausing", "throwing"} => store[n] = "none"
    /\ stage[n] \in {"returned", "settling"} => store[n] # "none"
    /\ n \in finished => store[n] # "none"
    /\ store[n] # "none" /\ stage[n] = "idle" => n \in finished

ToldFinished == Told \subseteq finished

Active == {"reserving", "locking", "executing", "returned"}

\* The conditions of n hold of results that nothing rewrites any more.
Ready(n) ==
  \A d \in spec.deps[n] : /\ d \in finished
                          /\ dependencySatisfied(spec.when[n][d], store[d])

\* So it is for every node that runs or has a done result, until the gate.
Grounded ==
  loop \notin Outcomes =>
    \A n \in Nodes : stage[n] \in Active \/ store[n] \in DoneResults => Ready(n)

\* The conditions of the done results of the checkpoint hold in it, whenever
\* it was written: a crash leaves nothing a restart could not build on.
DiskGrounded ==
  \A n \in Nodes : disk.results[n] \in DoneResults =>
    \A d \in spec.deps[n] :
      /\ disk.results[d] # "none"
      /\ dependencySatisfied(spec.when[n][d], disk.results[d])

Upper ==
  /\ ResultsInStep
  /\ ToldFinished
  /\ Grounded
  /\ DiskGrounded
  /\ DeadlockOnlyAfterError
  /\ DoneMeansComplete

IInv == Base /\ (SoleKeys => Upper)

-----------------------------------------------------------------------------
(***************************************************************************)
(* Increasing enumerations: what InOrder returns.                          *)
(***************************************************************************)

\* A set of naturals has a least element.
LEMMA Least ==
  ASSUME NEW S \in SUBSET Nat, S # {}
  PROVE  \E m \in S : \A x \in S : m <= x
  <1> DEFINE R == OpToRel(<, Nat)
  <1>1. IsWellFoundedOn(R, Nat)
    BY NatLessThanWellFounded
  <1>2. \A x, y \in Nat : x < y => <<x, y>> \in R
    BY DEF OpToRel
  <1> HIDE DEF R
  <1>3. PICK m \in S : \A x \in S : ~(<<x, m>> \in R)
    BY <1>1, WFMin
  <1>4. ASSUME NEW x \in S PROVE m <= x
    <2>1. x \in Nat /\ m \in Nat /\ <<x, m>> \notin R
      BY <1>3
    <2>2. ~(x < m)
      BY <1>2, <2>1
    <2> QED BY <2>1, <2>2
  <1> QED BY <1>4

\* The number of nodes.
LEMMA NIsNat == N \in Nat
  BY SchedulerAssumption

\* A set of nodes is finite, of at most N elements.
LEMMA NodeSets ==
  ASSUME NEW S \in SUBSET Nodes
  PROVE  /\ IsFiniteSet(S)
         /\ Cardinality(S) \in 0 .. N
         /\ Cardinality(S) = 0 <=> S = {}
  <1>1. IsFiniteSet(Nodes) /\ Cardinality(Nodes) = N
    BY SchedulerAssumption, FS_Interval DEF Nodes
  <1>2. IsFiniteSet(S) /\ Cardinality(S) <= N
    BY <1>1, FS_Subset
  <1>3. Cardinality(S) \in Nat
    BY <1>2, FS_CardinalityType
  <1> QED BY <1>2, <1>3, FS_EmptySet, SchedulerAssumption

\* A nonempty set of nodes has a greatest element.
LEMMA Greatest ==
  ASSUME NEW S \in SUBSET Nodes, S # {}
  PROVE  \E m \in S : \A x \in S : x <= m
  <1> DEFINE D == {N - x : x \in S}
  <1>1. D \in SUBSET Nat /\ D # {}
    BY SchedulerAssumption DEF Nodes
  <1>2. PICK e \in D : \A x \in D : e <= x
    <2> HIDE DEF D
    <2> QED BY <1>1, Least
  <1>3. PICK m \in S : e = N - m
    OBVIOUS
  <1>4. ASSUME NEW x \in S PROVE x <= m
    <2>1. N - m <= N - x
      BY <1>2, <1>3
    <2> QED BY <2>1, SchedulerAssumption DEF Nodes
  <1> QED BY <1>4

Increasing(S) ==
  {s \in [1 .. Cardinality(S) -> S] :
     \A i, j \in 1 .. Cardinality(S) : i < j => s[i] < s[j]}

\* Every set of nodes has an increasing enumeration: take the smallest that
\* would have none and put its greatest element behind the others.
LEMMA Enumerable ==
  ASSUME NEW S \in SUBSET Nodes
  PROVE  Increasing(S) # {}
  <1> DEFINE Bad == {T \in SUBSET Nodes : Increasing(T) = {}}
             K == {Cardinality(T) : T \in Bad}
  <1> SUFFICES ASSUME Bad # {} PROVE FALSE
    OBVIOUS
  <1>1. K \in SUBSET Nat /\ K # {}
    BY NodeSets, SchedulerAssumption
  <1>2. PICK k \in K : \A x \in K : k <= x
    <2> HIDE DEF K
    <2> QED BY <1>1, Least
  <1>3. PICK T \in Bad : k = Cardinality(T)
    OBVIOUS
  <1>4. T \in SUBSET Nodes /\ Increasing(T) = {} /\ k \in Nat /\ IsFiniteSet(T)
    BY <1>1, <1>3, NodeSets
  <1>5. T # {}
    <2>1. SUFFICES ASSUME T = {} PROVE FALSE
      OBVIOUS
    <2>2. Cardinality(T) = 0
      BY <2>1, FS_EmptySet
    <2>3. [i \in 1 .. 0 |-> 0] \in Increasing(T)
      BY <2>2 DEF Increasing
    <2> QED BY <2>3, <1>4
  <1>6. PICK m \in T : \A x \in T : x <= m
    BY <1>4, <1>5, Greatest
  <1> DEFINE U == T \ {m}
  <1>7. Cardinality(U) = k - 1 /\ k # 0
    BY <1>3, <1>4, <1>5, <1>6, FS_RemoveElement, FS_EmptySet
  <1>8. U \in SUBSET Nodes /\ U \notin Bad
    <2>1. U \in SUBSET Nodes
      BY <1>4
    <2>2. ~(k <= k - 1)
      BY <1>4
    <2> QED BY <2>1, <2>2, <1>2, <1>7
  <1>9. PICK s : s \in Increasing(U)
    BY <1>8
  <1> DEFINE t == [i \in 1 .. k |-> IF i = k THEN m ELSE s[i]]
  <1>10. /\ s \in [1 .. k - 1 -> U]
         /\ \A i, j \in 1 .. k - 1 : i < j => s[i] < s[j]
    BY <1>7, <1>9 DEF Increasing
  <1>11. t \in [1 .. k -> T]
    BY <1>4, <1>6, <1>10
  <1>12. ASSUME NEW i \in 1 .. k, NEW j \in 1 .. k, i < j PROVE t[i] < t[j]
    <2>1. i \in 1 .. k - 1 /\ t[i] = s[i] /\ s[i] \in U
      BY <1>4, <1>10, <1>12
    <2>2. s[i] < m
      <3>1. s[i] <= m /\ s[i] # m /\ s[i] \in Nodes /\ m \in Nodes
        BY <2>1, <1>4, <1>6
      <3> QED BY <3>1 DEF Nodes
    <2>3. CASE j = k
      BY <2>1, <2>2, <2>3
    <2>4. CASE j # k
      BY <2>1, <2>4, <1>4, <1>10, <1>12
    <2> QED BY <2>3, <2>4
  <1>13. t \in Increasing(T)
    <2> HIDE DEF t
    <2> QED BY <1>3, <1>11, <1>12 DEF Increasing
  <1> QED BY <1>4, <1>13

\* InOrder(S) lists every element of S once.
LEMMA InOrderLists ==
  ASSUME NEW S \in SUBSET Nodes
  PROVE  /\ InOrder(S) \in Seq(Nodes)
         /\ {InOrder(S)[i] : i \in 1 .. Len(InOrder(S))} = S
         /\ \A i, j \in 1 .. Len(InOrder(S)) :
              InOrder(S)[i] = InOrder(S)[j] => i = j
  <1> DEFINE k == Cardinality(S)
             s == InOrder(S)
  <1>1. k \in Nat /\ IsFiniteSet(S)
    BY NodeSets, SchedulerAssumption
  <1>2. s \in [1 .. k -> S] /\ \A i, j \in 1 .. k : i < j => s[i] < s[j]
    BY Enumerable DEF Increasing, InOrder
  <1> HIDE DEF s, k
  <1>3. s \in Seq(Nodes) /\ Len(s) = k
    BY <1>1, <1>2
  <1>4. ASSUME NEW i \in 1 .. k, NEW j \in 1 .. k, s[i] = s[j] PROVE i = j
    <2>1. s[i] \in Nodes /\ s[j] \in Nodes
      BY <1>2
    <2> QED BY <2>1, <1>1, <1>2, <1>4 DEF Nodes
  <1>5. s \in Injection(1 .. k, S)
    BY <1>2, <1>4 DEF Injection, IsInjective
  <1>6. Cardinality(1 .. k) = k
    BY <1>1, FS_Interval
  <1>7. s \in Surjection(1 .. k, S)
    BY <1>1, <1>5, <1>6, FS_Injection DEF k
  <1>8. {s[i] : i \in 1 .. k} = S
    BY <1>2, <1>7 DEF Surjection
  <1> QED BY <1>3, <1>4, <1>8 DEF s

-----------------------------------------------------------------------------
(***************************************************************************)
(* The queue: what telling the dependents of a node, launching a node and  *)
(* any other step of a node do to it.                                      *)
(***************************************************************************)

\* What a workflow is, of the assumption on Specs.
LEMMA SpecFacts ==
  ASSUME spec \in Specs
  PROVE  /\ \A n \in Nodes : spec.deps[n] \in SUBSET Nodes
         /\ \A n \in Nodes : \A d \in spec.deps[n] : d < n
         /\ spec.writes \in SUBSET Nodes
         /\ spec.key \in [Nodes -> Nodes]
         /\ \A n \in Nodes : spec.outcomes[n] \in SUBSET (Results \ {"blocked"})
  BY SchedulerAssumption DEF WorkflowSpecs

\* Taking the first node of the queue.
LEMMA TakeNode ==
  ASSUME QueueOK, ready # <<>>
  PROVE  /\ node \in Nodes
         /\ node \in Queued
         /\ stage[node] = "idle"
         /\ remaining[node] = 0
         /\ Tail(ready) \in Seq(Nodes)
         /\ {Tail(ready)[i] : i \in 1 .. Len(Tail(ready))} = Queued \ {node}
         /\ \A i, j \in 1 .. Len(Tail(ready)) :
              Tail(ready)[i] = Tail(ready)[j] => i = j
  <1> DEFINE t == Tail(ready)
  <1>1. /\ ready \in Seq(Nodes) /\ Len(ready) \in Nat \ {0}
        /\ node = ready[1]
    BY EmptySeq DEF QueueOK, node
  <1>2. /\ t \in Seq(Nodes) /\ Len(t) = Len(ready) - 1
        /\ \A i \in 1 .. Len(t) : t[i] = ready[i + 1]
    BY <1>1, HeadTailProperties, EmptySeq
  <1>3. node \in Nodes /\ node \in Queued
    BY <1>1, ElementOfSeq DEF Queued
  <1> HIDE DEF t
  <1>4. \A i, j \in 1 .. Len(t) : t[i] = t[j] => i = j
    <2> SUFFICES ASSUME NEW i \in 1 .. Len(t), NEW j \in 1 .. Len(t), t[i] = t[j]
                 PROVE i = j
      OBVIOUS
    <2>1. i + 1 \in 1 .. Len(ready) /\ j + 1 \in 1 .. Len(ready)
      BY <1>1, <1>2
    <2>2. i + 1 = j + 1
      BY <2>1, <1>2 DEF QueueOK, QueuedOnce
    <2> QED BY <2>2, <1>1, <1>2
  <1>5. {t[i] : i \in 1 .. Len(t)} = Queued \ {node}
    <2>1. ASSUME NEW i \in 1 .. Len(t) PROVE t[i] \in Queued \ {node}
      <3>1. i + 1 \in 1 .. Len(ready) /\ 1 \in 1 .. Len(ready) /\ i + 1 # 1
        BY <1>1, <1>2
      <3>2. ready[i + 1] # ready[1]
        BY <3>1 DEF QueueOK, QueuedOnce
      <3> QED BY <3>1, <3>2, <1>1, <1>2 DEF Queued
    <2>2. ASSUME NEW n \in Queued \ {node} PROVE \E i \in 1 .. Len(t) : n = t[i]
      <3>1. PICK j \in 1 .. Len(ready) : n = ready[j]
        BY DEF Queued
      <3>2. j - 1 \in 1 .. Len(t) /\ (j - 1) + 1 = j
        BY <3>1, <1>1, <1>2
      <3> QED BY <3>1, <3>2, <1>2
    <2> QED BY <2>1, <2>2
  <1>6. stage[node] = "idle" /\ remaining[node] = 0
    BY <1>3 DEF QueueOK, QueuedOnce
  <1> QED BY <1>2, <1>3, <1>4, <1>5, <1>6 DEF t

\* onDependencyDone: d joins the nodes that have told, its dependents count
\* down, and those that reach 0 are queued behind the others, once.
LEMMA Tell ==
  ASSUME QueueOK, NEW d \in Nodes, d \notin Told, remaining[d] = 0,
         NEW left \in Seq(Nodes),
         {left[i] : i \in 1 .. Len(left)} = Queued \ {d},
         \A i, j \in 1 .. Len(left) : left[i] = left[j] => i = j,
         onDependencyDone(d, left),
         spec' = spec,
         \A n \in Nodes \ {d} : stage'[n] = stage[n] /\ (n \in finished' <=> n \in finished),
         stage'[d] = "idle" \/ (stage'[d] = "over" /\ d \in finished')
  PROVE  QueueOK' /\ Told' = Told \cup {d}
  <1> DEFINE pushed == {n \in Nodes : d \in spec.deps[n] /\ remaining[n] = 1}
             q == InOrder(pushed)
  <1>1. pushed \in SUBSET Nodes
    OBVIOUS
  <1>2. ready' = left \o q
    BY DEF onDependencyDone
  <1>3. remaining' = [n \in Nodes |-> IF d \in spec.deps[n]
                                      THEN remaining[n] - 1 ELSE remaining[n]]
    BY DEF onDependencyDone
  <1>4. d \notin spec.deps[d]
    BY SpecFacts DEF QueueOK, Nodes
  <1>5. \A n \in pushed : n # d /\ n \notin Queued /\ stage[n] = "idle"
    BY <1>4 DEF QueueOK, QueuedOnce
  <1>6. /\ q \in Seq(Nodes)
        /\ {q[i] : i \in 1 .. Len(q)} = pushed
        /\ \A i, j \in 1 .. Len(q) : q[i] = q[j] => i = j
    <2> HIDE DEF pushed
    <2> QED BY <1>1, InOrderLists
  <1> HIDE DEF q, pushed
  <1>7. /\ ready' \in Seq(Nodes)
        /\ Len(ready') = Len(left) + Len(q)
        /\ \A i \in 1 .. Len(left) + Len(q) :
             ready'[i] = IF i <= Len(left) THEN left[i] ELSE q[i - Len(left)]
        /\ Len(left) \in Nat /\ Len(q) \in Nat
    BY <1>2, <1>6, ConcatProperties, LenProperties
  <1>8. Queued' = (Queued \ {d}) \cup pushed
    <2>1. ASSUME NEW i \in 1 .. Len(left) + Len(q)
          PROVE  ready'[i] \in (Queued \ {d}) \cup pushed
      <3>1. CASE i <= Len(left)
        BY <3>1, <1>7
      <3>2. CASE ~(i <= Len(left))
        <4>1. i - Len(left) \in 1 .. Len(q)
          BY <3>2, <1>7
        <4> QED BY <4>1, <3>2, <1>6, <1>7
      <3> QED BY <3>1, <3>2
    <2>2. ASSUME NEW n \in Queued \ {d}
          PROVE  \E i \in 1 .. Len(left) + Len(q) : n = ready'[i]
      <3>1. PICK i \in 1 .. Len(left) : n = left[i]
        OBVIOUS
      <3> QED BY <3>1, <1>7
    <2>3. ASSUME NEW n \in pushed
          PROVE  \E i \in 1 .. Len(left) + Len(q) : n = ready'[i]
      <3>1. PICK i \in 1 .. Len(q) : n = q[i]
        BY <1>6
      <3>2. /\ i + Len(left) \in 1 .. Len(left) + Len(q)
            /\ ~(i + Len(left) <= Len(left)) /\ (i + Len(left)) - Len(left) = i
        BY <1>7
      <3> QED BY <3>1, <3>2, <1>7
    <2>4. Queued' = {ready'[i] : i \in 1 .. Len(left) + Len(q)}
      BY <1>7, Zenon DEF Queued
    <2> QED BY <2>1, <2>2, <2>3, <2>4
  <1>9. \A i, j \in 1 .. Len(ready') : ready'[i] = ready'[j] => i = j
    <2> SUFFICES ASSUME NEW i \in 1 .. Len(left) + Len(q),
                        NEW j \in 1 .. Len(left) + Len(q), ready'[i] = ready'[j]
                 PROVE  i = j
      BY <1>7
    <2>1. \A x \in 1 .. Len(left), y \in 1 .. Len(q) : left[x] # q[y]
      BY <1>5, <1>6
    <2>2. CASE i <= Len(left) /\ j <= Len(left)
      BY <2>2, <1>7
    <2>3. CASE ~(i <= Len(left)) /\ ~(j <= Len(left))
      <3>1. i - Len(left) \in 1 .. Len(q) /\ j - Len(left) \in 1 .. Len(q)
        BY <2>3, <1>7
      <3>2. i - Len(left) = j - Len(left)
        BY <3>1, <2>3, <1>6, <1>7
      <3> QED BY <3>2, <1>7
    <2>4. CASE i <= Len(left) /\ ~(j <= Len(left))
      <3>1. j - Len(left) \in 1 .. Len(q) /\ i \in 1 .. Len(left)
        BY <2>4, <1>7
      <3> QED BY <3>1, <2>4, <2>1, <1>7
    <2>5. CASE ~(i <= Len(left)) /\ j <= Len(left)
      <3>1. i - Len(left) \in 1 .. Len(q) /\ j \in 1 .. Len(left)
        BY <2>5, <1>7
      <3> QED BY <3>1, <2>5, <2>1, <1>7
    <2> QED BY <2>2, <2>3, <2>4, <2>5
  <1>10. \A n \in Nodes : d \in spec.deps[n] =>
           /\ remaining[n] \in 1 .. N
           /\ Cardinality(spec.deps[n] \ (Told \cup {d})) = remaining[n] - 1
    <2> SUFFICES ASSUME NEW n \in Nodes, d \in spec.deps[n]
                 PROVE  /\ remaining[n] \in 1 .. N
                        /\ Cardinality(spec.deps[n] \ (Told \cup {d})) = remaining[n] - 1
      OBVIOUS
    <2> DEFINE w == spec.deps[n] \ Told
    <2>1. w \in SUBSET Nodes /\ d \in w /\ remaining[n] = Cardinality(w)
      BY SpecFacts DEF QueueOK, Countdown
    <2>2. spec.deps[n] \ (Told \cup {d}) = w \ {d}
      OBVIOUS
    <2> HIDE DEF w
    <2>3. /\ IsFiniteSet(w) /\ Cardinality(w) \in 0 .. N /\ Cardinality(w) # 0
      BY <2>1, NodeSets
    <2>4. Cardinality(w \ {d}) = Cardinality(w) - 1
      BY <2>1, <2>3, FS_RemoveElement
    <2>5. Cardinality(w) \in 1 .. N
      BY <2>3, NIsNat
    <2>6. remaining[n] \in 1 .. N
      BY <2>1, <2>5, Zenon
    <2>7. Cardinality(spec.deps[n] \ (Told \cup {d})) = remaining[n] - 1
      BY <2>1, <2>2, <2>4, Zenon
    <2> QED BY <2>6, <2>7
  <1>11. remaining' \in [Nodes -> 0 .. N]
    <2> SUFFICES ASSUME NEW n \in Nodes
                 PROVE  (IF d \in spec.deps[n] THEN remaining[n] - 1 ELSE remaining[n])
                          \in 0 .. N
      BY <1>3
    <2>1. remaining[n] \in 0 .. N
      BY DEF QueueOK
    <2>2. d \in spec.deps[n] => remaining[n] \in 1 .. N
      BY <1>10
    <2> QED BY <2>1, <2>2, NIsNat
  <1>12. \A n \in Nodes : remaining'[n] = 0 <=> remaining[n] = 0 \/ n \in pushed
    <2> SUFFICES ASSUME NEW n \in Nodes
                 PROVE  remaining'[n] = 0 <=> remaining[n] = 0 \/ n \in pushed
      OBVIOUS
    <2>1. remaining[n] \in 0 .. N
      BY DEF QueueOK
    <2>2. remaining'[n] = IF d \in spec.deps[n] THEN remaining[n] - 1 ELSE remaining[n]
      BY <1>3
    <2>3. n \in pushed <=> d \in spec.deps[n] /\ remaining[n] = 1
      BY DEF pushed
    <2>4. d \in spec.deps[n] => remaining[n] \in 1 .. N
      BY <1>10
    <2> QED BY <2>1, <2>2, <2>3, <2>4, NIsNat
  <1>13. Told' = Told \cup {d}
    <2>1. ASSUME NEW n \in Nodes PROVE n \in Told' <=> n \in Told \cup {d}
      <3>1. CASE n = d
        BY <3>1, <1>5, <1>8, <1>12 DEF Told
      <3>2. CASE n # d /\ n \in pushed
        <4>1. n \in Queued'
          BY <3>2, <1>8
        <4>2. remaining[n] # 0
          BY <3>2 DEF pushed
        <4> QED BY <4>1, <4>2, <3>2 DEF Told
      <3>3. CASE n # d /\ n \notin pushed
        BY <3>3, <1>8, <1>12 DEF Told
      <3> QED BY <3>1, <3>2, <3>3
    <2> QED BY <2>1 DEF Told
  <1>14. Countdown'
    <2> SUFFICES ASSUME NEW n \in Nodes
                 PROVE  remaining'[n] = Cardinality(spec.deps[n] \ Told')
      BY DEF Countdown
    <2>1. CASE d \in spec.deps[n]
      BY <2>1, <1>3, <1>10, <1>13
    <2>2. CASE d \notin spec.deps[n]
      <3>1. spec.deps[n] \ (Told \cup {d}) = spec.deps[n] \ Told
        BY <2>2
      <3> QED BY <3>1, <2>2, <1>3, <1>13 DEF QueueOK, Countdown
    <2> QED BY <2>1, <2>2
  <1>15. \A n \in Nodes : n \in Queued' => stage'[n] = "idle"
    BY <1>5, <1>8 DEF QueueOK, QueuedOnce
  <1>16. \A n \in Nodes : n \in Queued' \/ stage'[n] # "idle" => remaining'[n] = 0
    BY <1>8, <1>12 DEF QueueOK, QueuedOnce
  <1>17. spec' \in Specs
    BY DEF QueueOK
  <1> QED BY <1>7, <1>9, <1>11, <1>13, <1>14, <1>15, <1>16, <1>17 DEF QueueOK, QueuedOnce

\* Launching the first node of the queue: it leaves the queue and has not told.
LEMMA LaunchQueue ==
  ASSUME QueueOK, ready # <<>>, ready' = Tail(ready), NEW to,
         to \notin {"idle", "over"},
         stage \in [Nodes -> Stages],
         stage' = [stage EXCEPT ![node] = to],
         UNCHANGED <<spec, remaining, finished>>
  PROVE  QueueOK' /\ Told' = Told
  <1>1. /\ node \in Nodes /\ node \in Queued
        /\ remaining[node] = 0
        /\ Tail(ready) \in Seq(Nodes)
        /\ {Tail(ready)[i] : i \in 1 .. Len(Tail(ready))} = Queued \ {node}
        /\ \A i, j \in 1 .. Len(Tail(ready)) : Tail(ready)[i] = Tail(ready)[j] => i = j
    BY TakeNode
  <1>2. Queued' = Queued \ {node}
    <2>1. Queued' = {Tail(ready)[i] : i \in 1 .. Len(Tail(ready))}
      BY Zenon DEF Queued
    <2> QED BY <1>1, <2>1
  <1>3. /\ stage'[node] = to
        /\ \A n \in Nodes \ {node} : stage'[n] = stage[n]
    BY <1>1
  <1>4. Told' = Told
    BY <1>1, <1>2, <1>3 DEF Told
  <1>5. Countdown'
    BY <1>4 DEF QueueOK, Countdown
  <1>6. QueuedOnce'
    <2>1. \A i, j \in 1 .. Len(ready') : ready'[i] = ready'[j] => i = j
      BY <1>1
    <2>2. \A n \in Nodes : n \in Queued' => stage'[n] = "idle"
      BY <1>2, <1>3 DEF QueueOK, QueuedOnce
    <2>3. \A n \in Nodes : n \in Queued' \/ stage'[n] # "idle" => remaining'[n] = 0
      BY <1>1, <1>2, <1>3 DEF QueueOK, QueuedOnce
    <2> QED BY <2>1, <2>2, <2>3 DEF QueuedOnce
  <1> QED BY <1>1, <1>4, <1>5, <1>6 DEF QueueOK

\* A node in flight moves on without settling.
LEMMA MoveQueue ==
  ASSUME QueueOK, UNCHANGED <<spec, ready, remaining, finished>>,
         \A n \in Nodes : \/ stage'[n] = stage[n]
                         \/ /\ stage[n] \in InFlight
                            /\ stage'[n] # "idle"
                            /\ n \notin finished
  PROVE  QueueOK' /\ Told' = Told
  <1>1. Queued' = Queued
    BY DEF Queued
  <1>2. Told' = Told
    BY <1>1 DEF Told, InFlight
  <1>3. Countdown'
    BY <1>2 DEF QueueOK, Countdown
  <1>4. QueuedOnce'
    BY <1>1 DEF QueueOK, QueuedOnce, InFlight
  <1> QED BY <1>2, <1>3, <1>4 DEF QueueOK

-----------------------------------------------------------------------------
(***************************************************************************)
(* The writer slot.  Its invariant is the one of WriteLockProofs; here,    *)
(* what the steps of the slot do to a node that holds it.                  *)
(***************************************************************************)

\* The two instances of WriteLock are the same module.
LEMMA SlotType == Slot!IInv => Lock!TypeOK
  BY DEF Slot!IInv, Slot!TypeOK, Lock!TypeOK, Slot!Token, Lock!Token,
     Slot!CallStatus, Lock!CallStatus

\* A step that leaves the controller alone.
LEMMA SlotRests ==
  ASSUME Slot!IInv, UNCHANGED lockVars
  PROVE  Slot!IInv'
  BY DEF lockVars, Slot!IInv, Slot!TypeOK, Slot!HolderOwns, Slot!OwnerHolds,
     Slot!HeldHasToken, Slot!WaiterWaits, Slot!TokensDrawn, Slot!TokensDistinct,
     Slot!SpentNotOwner, Slot!SpentNotWaiting, Slot!Holding, Slot!Waiting

\* acquireWrite takes the slot from nobody.
LEMMA SlotAcquire ==
  ASSUME Slot!IInv, NEW n \in Nodes,
         Lock!AcquireFree(n) \/ Lock!AcquirePreAborted(n) \/ Lock!AcquireBusy(n)
  PROVE  /\ Slot!IInv'
         /\ \A m \in Nodes : Slot!Holding(m) => Slot!Holding(m)'
  <1>1. Slot!AcquireFree(n) \/ Slot!AcquirePreAborted(n) \/ Slot!AcquireBusy(n)
    BY DEF Lock!AcquireFree, Lock!AcquirePreAborted, Lock!AcquireBusy,
       Slot!AcquireFree, Slot!AcquirePreAborted, Slot!AcquireBusy
  <1>2. Slot!IInv'
    BY <1>1, NIsNat, Slot!AcquireFreeIInv, Slot!AcquirePreAbortedIInv,
       Slot!AcquireBusyIInv
  <1>3. \A m \in Nodes : Slot!Holding(m) => Slot!Holding(m)'
    BY <1>1 DEF Slot!IInv, Slot!TypeOK, Slot!AcquireFree, Slot!AcquirePreAborted,
       Slot!AcquireBusy, Slot!Holding
  <1> QED BY <1>2, <1>3

\* A deadline or the abort of the run reaches only waiting calls.
LEMMA SlotCancel ==
  ASSUME Slot!IInv, Lock!Abort \/ \E n \in Nodes : Lock!Deadline(n)
  PROVE  /\ Slot!IInv'
         /\ \A m \in Nodes : Slot!Holding(m) => Slot!Holding(m)'
  <1>1. Slot!Abort \/ \E n \in Nodes : Slot!Deadline(n)
    BY DEF Lock!Abort, Lock!Deadline, Lock!CancelWaiting, Lock!Waiting,
       Slot!Abort, Slot!Deadline, Slot!CancelWaiting, Slot!Waiting
  <1>2. Slot!IInv'
    BY <1>1, NIsNat, Slot!AbortIInv, Slot!DeadlineIInv
  <1>3. \A m \in Nodes : Slot!Holding(m) => Slot!Holding(m)'
    BY <1>1 DEF Slot!IInv, Slot!TypeOK, Slot!Abort, Slot!Deadline,
       Slot!CancelWaiting, Slot!Holding, Slot!Waiting
  <1> QED BY <1>2, <1>3

\* A release is by the holder, and no other node loses the slot by it.
LEMMA SlotRelease ==
  ASSUME Slot!IInv, NEW n \in Nodes, Lock!Release(n)
  PROVE  /\ Slot!IInv'
         /\ \A m \in Nodes \ {n} : Slot!Holding(m) => Slot!Holding(m)'
  <1>1. Slot!Release(n)
    BY DEF Lock!Release, Lock!releaseWrite, Lock!Holding, Lock!Grant, Lock!NoCall,
       Slot!Release, Slot!releaseWrite, Slot!Holding, Slot!Grant, Slot!NoCall
  <1>2. Slot!IInv'
    BY <1>1, NIsNat, Slot!ReleaseIInv
  <1>3. \A m \in Nodes \ {n} : Slot!Holding(m) => Slot!Holding(m)'
    BY <1>1 DEF Slot!IInv, Slot!TypeOK, Slot!Release, Slot!releaseWrite,
       Slot!Grant, Slot!NoCall, Slot!Holding
  <1> QED BY <1>2, <1>3

-----------------------------------------------------------------------------
(***************************************************************************)
(* The first layer of the invariant, action by action.                     *)
(***************************************************************************)

\* A stored result stays a result.
Grows(new) == /\ new \in [Nodes -> Results \cup {"none"}]
              /\ \A n \in Nodes : store[n] # "none" => new[n] # "none"

\* ResultStore.put.
LEMMA PutStore ==
  ASSUME DataOK, NEW m \in Nodes, NEW r \in Results, put(m, r)
  PROVE  /\ Grows(store')
         /\ disk' \in [results : [Nodes -> Results \cup {"none"}], digest : Nat]
         /\ store'[m] = r
         /\ \A n \in Nodes \ {m} : store'[n] = store[n]
  <1>1. /\ store' \in [Nodes -> Results \cup {"none"}]
        /\ store'[m] = r
        /\ \A n \in Nodes \ {m} : store'[n] = store[n]
    BY DEF put, DataOK
  <1>2. r # "none"
    BY DEF Results, DoneResults
  <1>3. disk' \in [results : [Nodes -> Results \cup {"none"}], digest : Nat]
    BY <1>1 DEF put, DataOK
  <1> QED BY <1>1, <1>2, <1>3 DEF Grows

\* The checkpoint is left as it was or is a copy of the results.
LEMMA PutDisk ==
  ASSUME NEW m, NEW r, put(m, r)
  PROVE  disk' = disk \/ disk'.results = store'
  <1>1. disk' = disk \/ disk' = [results |-> store', digest |-> digest]
    BY DEF put
  <1>2. [results |-> store', digest |-> digest].results = store'
    OBVIOUS
  <1> QED BY <1>1, <1>2, Zenon

\* The result of a node of another workflow.
LEMMA PutForeign ==
  ASSUME DataOK, NEW r \in Results, put(N + 1, r)
  PROVE  /\ store' = store
         /\ disk' \in [results : [Nodes -> Results \cup {"none"}], digest : Nat]
  <1>1. N + 1 \notin Nodes
    BY NIsNat DEF Nodes
  <1>2. store' = store /\ disk' \in {disk, [results |-> store', digest |-> digest]}
    BY <1>1 DEF put
  <1> QED BY <1>2 DEF DataOK

\* A node steps from the skipped or closed head of the queue.
LEMMA CloseBase ==
  ASSUME Base, CanTake,
         onDependencyDone(node, Tail(ready)),
         UNCHANGED <<loop, race, stage, pauseVars, cache, workspace, runVars, lockVars>>,
         \/ UNCHANGED <<store, disk, finished>>
         \/ /\ finished' = finished \cup {node}
            /\ \E r \in Results : put(node, r)
  PROVE  Base' /\ Told' = Told \cup {node}
  <1>1. QueueOK /\ DataOK /\ Slot!IInv /\ Finished /\ RestoredStays /\ HoldsSlot /\ KeysMatch
    BY DEF Base
  <1>2. /\ node \in Nodes /\ node \in Queued
        /\ stage[node] = "idle"
        /\ remaining[node] = 0
        /\ Tail(ready) \in Seq(Nodes)
        /\ {Tail(ready)[i] : i \in 1 .. Len(Tail(ready))} = Queued \ {node}
        /\ \A i, j \in 1 .. Len(Tail(ready)) : Tail(ready)[i] = Tail(ready)[j] => i = j
    BY <1>1, TakeNode DEF CanTake
  <1>3. node \notin Told
    BY <1>2 DEF Told
  <1>4. /\ stage' = stage /\ spec' = spec /\ loop' = loop
        /\ \A n \in Nodes \ {node} : n \in finished' <=> n \in finished
    BY DEF runVars
  <1>5. QueueOK' /\ Told' = Told \cup {node}
    BY <1>1, <1>2, <1>3, <1>4, Tell
  <1>6. /\ Grows(store')
        /\ disk' \in [results : [Nodes -> Results \cup {"none"}], digest : Nat]
    BY <1>1, <1>2, PutStore DEF DataOK, Grows
  <1>7. DataOK'
    BY <1>1, <1>2, <1>6 DEF DataOK, Grows, pauseVars, runVars
  <1>8. Slot!IInv'
    BY <1>1, SlotRests
  <1>9. Finished'
    <2>1. finished' # finished => store'[node] # "none"
      BY <1>2, <1>1, PutStore DEF Results, DoneResults
    <2> QED BY <1>1, <1>2, <1>4, <1>6, <2>1 DEF Finished, CanTake, Outcomes, Grows, DataOK
  <1>10. RestoredStays'
    BY <1>1, <1>6, <1>4 DEF RestoredStays, runVars, DataOK, Grows
  <1>11. HoldsSlot'
    BY <1>1, <1>4 DEF HoldsSlot, Slot!Holding, lockVars
  <1>12. KeysMatch'
    BY <1>1, <1>4 DEF KeysMatch, CacheEntry
  <1> QED BY <1>5, <1>7, <1>8, <1>9, <1>10, <1>11, <1>12 DEF Base

\* Launching the head of the queue.
LEMMA LaunchBase ==
  ASSUME Base, Takes, NEW to \in {"settling", "reserving"}, Launch(to),
         \/ UNCHANGED <<store, disk>>
         \/ \E m \in Nodes : \E r \in Results : put(m, r)
         \/ \E r \in Results : put(N + 1, r)
  PROVE  Base' /\ Told' = Told
  <1>1. QueueOK /\ DataOK /\ Slot!IInv /\ Finished /\ RestoredStays /\ HoldsSlot /\ KeysMatch
    BY DEF Base
  <1>2. ready # <<>> /\ loop = "fill" /\ store[node] = "none"
    BY DEF Takes, CanTake
  <1>3. /\ node \in Nodes /\ node \in Queued
        /\ stage[node] = "idle"
    BY <1>1, <1>2, TakeNode
  <1>4. /\ stage' = [stage EXCEPT ![node] = to]
        /\ ready' = Tail(ready)
        /\ UNCHANGED <<spec, remaining, finished, loop, restored>>
    BY DEF Launch, runVars
  <1>5. QueueOK' /\ Told' = Told
    <2>1. stage \in [Nodes -> Stages]
      BY <1>1 DEF DataOK
    <2> QED BY <1>1, <1>2, <1>4, <2>1, LaunchQueue
  <1>6. /\ Grows(store')
        /\ disk' \in [results : [Nodes -> Results \cup {"none"}], digest : Nat]
    BY <1>1, PutStore, PutForeign DEF DataOK, Grows
  <1>7. DataOK'
    <2>1. stage' \in [Nodes -> Stages]
      BY <1>1, <1>4 DEF DataOK, Stages
    <2> QED BY <1>1, <1>4, <1>6, <2>1 DEF DataOK, Grows, Launch, pauseVars, runVars
  <1>8. Slot!IInv'
    BY <1>1, SlotRests DEF Launch
  <1>9. Finished'
    <2>1. node \notin finished
      BY <1>1, <1>2, <1>3 DEF Finished
    <2> QED BY <1>1, <1>2, <1>3, <1>4, <1>6, <2>1 DEF Grows, Finished, Outcomes, DataOK
  <1>10. RestoredStays'
    <2>1. node \notin restored
      BY <1>1, <1>2 DEF RestoredStays
    <2> QED BY <1>1, <1>4, <1>6, <2>1 DEF RestoredStays, DataOK, Grows
  <1>11. HoldsSlot'
    BY <1>1, <1>3, <1>4 DEF HoldsSlot, Slot!Holding, lockVars, Launch, DataOK
  <1>12. KeysMatch'
    BY <1>1, <1>4 DEF KeysMatch, CacheEntry, Launch
  <1> QED BY <1>5, <1>7, <1>8, <1>9, <1>10, <1>11, <1>12 DEF Base

\* How a filling round ends.
LEMMA EndFillFacts ==
  ASSUME EndFill
  PROVE  /\ finished = Nodes => /\ loop' = RunStatus
                                /\ loop' \in Outcomes
                                /\ store' = gated
         /\ finished # Nodes => /\ loop' \in {"await", "paused", "deadlock"}
                                /\ loop' \notin Outcomes
                                /\ store' = store
                                /\ loop' = "deadlock" => running = {} /\ interrupt = 0
  <1>1. RunStatus \in Outcomes
    BY DEF RunStatus, Outcomes
  <1>2. CASE finished = Nodes
    <2>1. loop' = RunStatus
      BY <1>2 DEF EndFill
    <2>2. loop' \in Outcomes
      BY <1>1, <2>1
    <2>3. store' = IF loop' \in Outcomes THEN gated ELSE store
      BY DEF EndFill
    <2> QED BY <1>2, <2>1, <2>2, <2>3
  <1>3. CASE finished # Nodes
    <2>1. /\ loop' \in {"await", "paused", "deadlock"}
          /\ loop' = "deadlock" => running = {} /\ interrupt = 0
      BY <1>3 DEF EndFill
    <2>2. loop' \notin Outcomes
      BY <2>1 DEF Outcomes
    <2> QED BY <1>3, <2>1, <2>2 DEF EndFill
  <1> QED BY <1>2, <1>3

\* The end of a filling round preserves the first layer.
LEMMA EndFillBase ==
  ASSUME Base, EndFill
  PROVE  Base' /\ Told' = Told
  <1>1. QueueOK /\ DataOK /\ Slot!IInv /\ Finished /\ RestoredStays /\ HoldsSlot /\ KeysMatch
    BY DEF Base
  <1>2. /\ UNCHANGED <<stage, interrupt, opened, ready, remaining, finished, disk,
                      cache, workspace, spec, answered, digest, restored, starts>>
        /\ UNCHANGED lockVars
        /\ race' = "pending"
    BY DEF EndFill, pauseVars, queueVars, runVars
  <1>3. QueueOK' /\ Told' = Told
    BY <1>1, <1>2, MoveQueue
  <1>4. Grows(gated)
    BY <1>1 DEF Grows, gated, DataOK, Results, DoneResults
  <1>5. Grows(store')
    BY <1>1, <1>4, EndFillFacts DEF Grows, DataOK
  <1>6. loop' \in Outcomes \cup {"await", "paused", "deadlock"}
    BY EndFillFacts
  <1>7. DataOK'
    BY <1>1, <1>2, <1>5, <1>6 DEF DataOK, Grows
  <1>8. Slot!IInv'
    BY <1>1, <1>2, SlotRests
  <1>9. Finished'
    <2>1. loop' \in Outcomes => finished' = Nodes
      BY <1>2, EndFillFacts
    <2> QED BY <1>1, <1>2, <1>5, <2>1 DEF Finished, Grows, DataOK
  <1>10. RestoredStays'
    BY <1>1, <1>2, <1>5 DEF RestoredStays, DataOK, Grows
  <1>11. HoldsSlot'
    BY <1>1, <1>2 DEF HoldsSlot, Slot!Holding, lockVars
  <1>12. KeysMatch'
    BY <1>1, <1>2 DEF KeysMatch, CacheEntry
  <1> QED BY <1>3, <1>7, <1>8, <1>9, <1>10, <1>11, <1>12 DEF Base

\* From stage s to stage t, neither of them with a result.
Unsettled == InFlight \ {"returned", "settling"}

Onward(s, t) ==
  /\ s \in Unsettled
  /\ t \in Unsettled \cup {"over"}
  /\ t \in Active => s \in Active

\* A step that moves a node in flight, or none, and stores nothing.
Moves ==
  /\ UNCHANGED <<queueVars, dataVars, runVars>>
  /\ \/ loop' = loop
     \/ loop' \in {"fill", "threw"} /\ loop = "await"
  /\ race' \in {"pending", "resolved", "rejected"}
  /\ interrupt' \in 0 .. N
  /\ opened' \in [Nodes -> Nat]
  /\ stage' \in [Nodes -> Stages]
  /\ \A n \in Nodes : stage'[n] = stage[n] \/ Onward(stage[n], stage'[n])

\* Such a step preserves the first layer when the slot does.
LEMMA MoveBase ==
  ASSUME Base, Moves, Slot!IInv', HoldsSlot'
  PROVE  Base' /\ Told' = Told
  <1>1. QueueOK /\ DataOK /\ Slot!IInv /\ Finished /\ RestoredStays /\ HoldsSlot /\ KeysMatch
    BY DEF Base
  <1>2. /\ UNCHANGED <<ready, remaining, finished, store, disk, cache, workspace,
                      spec, answered, digest, restored, starts>>
        /\ loop' \in Outcomes => loop' = loop
        /\ loop' = loop \/ loop' \in {"fill", "threw"}
    BY DEF Moves, queueVars, dataVars, runVars, Outcomes
  <1>3. /\ stage' \in [Nodes -> Stages]
        /\ \A n \in Nodes : \/ stage'[n] = stage[n]
                            \/ stage[n] \in InFlight /\ stage'[n] \in InFlight \cup {"over"}
    BY DEF Moves, Onward, Unsettled
  <1>4. \A n \in Nodes : stage[n] \in InFlight => n \notin finished
    BY <1>1 DEF Finished, InFlight
  <1>5. \A n \in Nodes : \/ stage'[n] = stage[n]
                         \/ /\ stage[n] \in InFlight
                            /\ stage'[n] # "idle"
                            /\ n \notin finished
    BY <1>3, <1>4 DEF InFlight
  <1>6. QueueOK' /\ Told' = Told
    BY <1>1, <1>2, <1>5, MoveQueue
  <1>7. DataOK'
    BY <1>1, <1>2, <1>3 DEF DataOK, Moves
  <1>8. Finished'
    BY <1>1, <1>2, <1>5 DEF Finished, DataOK
  <1>9. RestoredStays'
    BY <1>1, <1>2, <1>3 DEF RestoredStays, DataOK, InFlight
  <1>10. KeysMatch'
    BY <1>1, <1>2 DEF KeysMatch, CacheEntry
  <1> QED BY <1>6, <1>7, <1>8, <1>9, <1>10 DEF Base

\* A node goes from one stage in flight to another.
LEMMA GotoStage ==
  ASSUME DataOK, NEW n \in Nodes, NEW t \in InFlight \cup {"over"},
         stage[n] \in InFlight, Goto(n, t)
  PROVE  /\ stage' \in [Nodes -> Stages]
         /\ stage'[n] = t
         /\ \A m \in Nodes \ {n} : stage'[m] = stage[m]
  <1>1. t \in Stages
    BY DEF Stages, InFlight
  <1> QED BY <1>1 DEF DataOK, Goto

\* The moves that touch neither the queue nor the results.
QuietStep(n) ==
  \/ Reserved(n) \/ ReserveThrows(n)
  \/ LockGranted(n) \/ LockDeadline(n) \/ LockThrows(n)
  \/ Pause(n) \/ SettlePause(n) \/ Rethrow(n)

\* They preserve the first layer.
LEMMA QuietBase ==
  ASSUME Base, \/ \E n \in Nodes : QuietStep(n)
               \/ Wake \/ Cancel
  PROVE  Base' /\ Told' = Told /\ Moves
  <1>1. DataOK /\ Slot!IInv /\ HoldsSlot /\ spec \in Specs
    BY DEF Base, QueueOK
  <1>2. spec.writes \in SUBSET Nodes
    BY <1>1, SpecFacts
  <1>3. stage \in [Nodes -> Stages] /\ interrupt \in 0 .. N /\ opened \in [Nodes -> Nat]
        /\ race \in {"pending", "resolved", "rejected"} /\ workspace \in Nat
    BY <1>1 DEF DataOK
  <1>4. ASSUME Wake PROVE Slot!IInv' /\ HoldsSlot' /\ Moves
    <2>1. UNCHANGED <<stage, spec, interrupt, opened, race>> /\ UNCHANGED lockVars
      BY <1>4 DEF Wake, runVars, pauseVars
    <2>2. Moves
      BY <1>3, <1>4, <2>1 DEF Wake, Moves
    <2>3. HoldsSlot'
      BY <1>1, <2>1 DEF HoldsSlot, Slot!Holding, lockVars
    <2> QED BY <1>1, <2>1, <2>2, <2>3, SlotRests
  <1>5. ASSUME Cancel PROVE Slot!IInv' /\ HoldsSlot' /\ Moves
    <2>1. UNCHANGED <<stage, spec, interrupt, opened, race, loop>> /\ Lock!Abort
      BY <1>5 DEF Cancel, runVars, pauseVars
    <2>2. Moves
      BY <1>3, <1>5, <2>1 DEF Cancel, Moves
    <2>3. Slot!IInv' /\ \A m \in Nodes : Slot!Holding(m) => Slot!Holding(m)'
      BY <1>1, <2>1, SlotCancel
    <2>4. HoldsSlot'
      BY <1>1, <1>2, <2>1, <2>3 DEF HoldsSlot
    <2> QED BY <2>2, <2>3, <2>4
  <1>6. ASSUME NEW n \in Nodes, LockDeadline(n) PROVE Slot!IInv' /\ HoldsSlot' /\ Moves
    <2>1. UNCHANGED <<stage, spec, interrupt, opened, race, loop>> /\ Lock!Deadline(n)
      BY <1>6 DEF LockDeadline, runVars, pauseVars
    <2>2. Moves
      BY <1>3, <1>6, <2>1 DEF LockDeadline, Moves
    <2>3. Slot!IInv' /\ \A m \in Nodes : Slot!Holding(m) => Slot!Holding(m)'
      BY <1>1, <2>1, SlotCancel
    <2>4. HoldsSlot'
      BY <1>1, <1>2, <2>1, <2>3 DEF HoldsSlot
    <2> QED BY <2>2, <2>3, <2>4
  <1>7. ASSUME NEW n \in Nodes, Reserved(n) PROVE Slot!IInv' /\ HoldsSlot' /\ Moves
    <2>1. /\ UNCHANGED <<spec, interrupt, opened, race, loop>>
          /\ UNCHANGED <<queueVars, dataVars, runVars>>
          /\ stage[n] = "reserving"
      BY <1>7 DEF Reserved, At, runVars, pauseVars
    <2>2. \E t \in {"locking", "executing"} : Goto(n, t)
      BY <1>7 DEF Reserved
    <2>3. /\ stage' \in [Nodes -> Stages]
          /\ \A m \in Nodes \ {n} : stage'[m] = stage[m]
          /\ stage'[n] \in {"locking", "executing"}
      BY <1>1, <2>1, <2>2, GotoStage DEF InFlight
    <2>4. Moves
      <3>1. Onward(stage[n], stage'[n])
        BY <2>1, <2>3 DEF Onward, Unsettled, InFlight, Active
      <3> QED BY <1>3, <2>1, <2>3, <3>1 DEF Moves
    <2>5. CASE n \in spec.writes
      <3>1. /\ Goto(n, "locking")
            /\ Lock!AcquireFree(n) \/ Lock!AcquirePreAborted(n) \/ Lock!AcquireBusy(n)
        BY <1>7, <2>5 DEF Reserved
      <3>2. Slot!IInv' /\ \A m \in Nodes : Slot!Holding(m) => Slot!Holding(m)'
        BY <1>1, <3>1, SlotAcquire
      <3>3. stage'[n] = "locking"
        BY <1>1, <2>1, <3>1, GotoStage DEF InFlight
      <3>4. HoldsSlot'
        BY <1>1, <1>2, <2>1, <2>3, <3>2, <3>3 DEF HoldsSlot
      <3> QED BY <2>4, <3>2, <3>4
    <2>6. CASE n \notin spec.writes
      <3>1. UNCHANGED lockVars
        BY <1>7, <2>6 DEF Reserved
      <3>2. HoldsSlot'
        BY <1>1, <1>2, <2>1, <2>3, <2>6, <3>1 DEF HoldsSlot, Slot!Holding, lockVars
      <3> QED BY <1>1, <2>4, <3>1, <3>2, SlotRests
    <2> QED BY <2>5, <2>6
  <1>8. ASSUME NEW n \in Nodes,
               \/ ReserveThrows(n) \/ LockGranted(n) \/ LockThrows(n)
               \/ Pause(n) \/ SettlePause(n) \/ Rethrow(n)
        PROVE  Slot!IInv' /\ HoldsSlot' /\ Moves
    <2>1. /\ UNCHANGED <<spec, loop>>
          /\ UNCHANGED <<queueVars, dataVars, runVars>>
          /\ UNCHANGED lockVars
          /\ stage[n] \in InFlight
      BY <1>8 DEF ReserveThrows, LockGranted, LockThrows, Pause, SettlePause, Rethrow,
         At, InFlight, runVars
    <2>2. race' \in {"pending", "resolved", "rejected"}
      BY <1>3, <1>8 DEF ReserveThrows, LockGranted, LockThrows, Pause, SettlePause,
         Rethrow, Settled
    <2>3. interrupt' \in 0 .. N /\ opened' \in [Nodes -> Nat]
      <3>1. n \in 0 .. N
        BY NIsNat DEF Nodes
      <3>2. opened' = opened \/ opened' = [opened EXCEPT ![n] = workspace]
        BY <1>8 DEF ReserveThrows, LockGranted, LockThrows, Pause, SettlePause,
           Rethrow, pauseVars
      <3>3. interrupt' = interrupt \/ interrupt' = n
        BY <1>8 DEF ReserveThrows, LockGranted, LockThrows, Pause, SettlePause,
           Rethrow, pauseVars
      <3> QED BY <1>3, <3>1, <3>2, <3>3
    <2>4. \E t \in {"throwing", "executing", "pausing", "over"} :
            /\ Goto(n, t)
            /\ t = "executing" => Slot!Holding(n)
            /\ Onward(stage[n], t)
      BY <1>8 DEF ReserveThrows, LockGranted, LockThrows, Pause, SettlePause, Rethrow,
         Lock!Holding, Slot!Holding, At, Onward, Unsettled, InFlight, Active
    <2>5. PICK t \in {"throwing", "executing", "pausing", "over"} :
            /\ Goto(n, t)
            /\ t = "executing" => Slot!Holding(n)
            /\ Onward(stage[n], t)
      BY <2>4
    <2>6. /\ stage' \in [Nodes -> Stages]
          /\ stage'[n] = t
          /\ \A m \in Nodes \ {n} : stage'[m] = stage[m]
      BY <1>1, <2>1, <2>5, GotoStage DEF InFlight
    <2>7. Moves
      BY <2>1, <2>5, <2>2, <2>3, <2>6 DEF Moves
    <2>8. HoldsSlot'
      BY <1>1, <1>2, <2>1, <2>5, <2>6 DEF HoldsSlot, Slot!Holding, lockVars
    <2> QED BY <1>1, <2>1, <2>7, <2>8, SlotRests
  <1>9. Slot!IInv' /\ HoldsSlot' /\ Moves
    BY <1>4, <1>5, <1>6, <1>7, <1>8 DEF QuietStep
  <1> QED BY <1>9, MoveBase

\* An empty cache.
LEMMA NoCacheFacts ==
  /\ NoEntry \in CacheEntries /\ NoEntry.node = 0
  /\ NoCache \in [Nodes -> CacheEntries]
  /\ \A k \in Nodes : NoCache[k].node = 0
  <1>1. 0 \in 0 .. N + 1
    BY NIsNat
  <1>2. NoEntry \in CacheEntries /\ NoEntry.node = 0
    BY <1>1 DEF NoEntry, CacheEntries, DoneResults
  <1> QED BY <1>2 DEF NoCache

\* What a node that has returned may still do to its result.
LEMMA Checked ==
  ASSUME DataOK, NEW n \in Nodes, CheckResult(n)
  PROVE  /\ Grows(store')
         /\ disk' \in [results : [Nodes -> Results \cup {"none"}], digest : Nat]
         /\ disk' = disk \/ disk'.results = store'
         /\ store'[n] \in {store[n], "failed"}
         /\ \A m \in Nodes \ {n} : store'[m] = store[m]
  <1>1. "failed" \in Results /\ "failed" # "none"
    BY DEF Results
  <1>2. CASE UNCHANGED <<store, disk>>
    BY <1>2 DEF Grows, DataOK
  <1>3. CASE put(n, "failed")
    <2>1. disk' = disk \/ disk'.results = store'
      BY <1>3, PutDisk
    <2> QED BY <1>1, <1>3, <2>1, PutStore
  <1>4. CASE store' = [store EXCEPT ![n] = "failed"] /\ UNCHANGED disk
    BY <1>1, <1>4 DEF Grows, DataOK
  <1> QED BY <1>2, <1>3, <1>4 DEF CheckResult

\* The execution of a node ends and its result is stored.
LEMMA ExecuteBase ==
  ASSUME Base, NEW n \in Nodes, Execute(n)
  PROVE  /\ Base' /\ Told' = Told
         /\ store'[n] \in Results
         /\ disk' = disk \/ disk'.results = store'
         /\ \A m \in Nodes \ {n} : store'[m] = store[m] /\ stage'[m] = stage[m]
         /\ stage'[n] = "returned"
  <1>1. QueueOK /\ DataOK /\ Slot!IInv /\ Finished /\ RestoredStays /\ HoldsSlot /\ KeysMatch
    BY DEF Base
  <1>2. /\ UNCHANGED <<loop, race, interrupt, opened, ready, remaining, finished,
                      cache, spec, answered, digest, restored, starts>>
        /\ UNCHANGED lockVars
        /\ stage[n] = "executing" /\ Goto(n, "returned")
    BY DEF Execute, At, pauseVars, queueVars, runVars
  <1>3. /\ spec \in Specs /\ spec.writes \in SUBSET Nodes
        /\ spec.outcomes[n] \in SUBSET Results
    BY <1>1, SpecFacts DEF QueueOK
  <1>4. PICK r \in Results : put(n, r)
    BY <1>3 DEF Execute
  <1>5. /\ Grows(store')
        /\ disk' \in [results : [Nodes -> Results \cup {"none"}], digest : Nat]
        /\ store'[n] \in Results
        /\ \A m \in Nodes \ {n} : store'[m] = store[m]
    BY <1>1, <1>4, PutStore
  <1>6. disk' = disk \/ disk'.results = store'
    BY <1>4, PutDisk
  <1>7. /\ stage' \in [Nodes -> Stages]
        /\ stage'[n] = "returned"
        /\ \A m \in Nodes \ {n} : stage'[m] = stage[m]
    BY <1>1, <1>2, GotoStage DEF InFlight
  <1>8. n \notin finished /\ n \notin restored
    BY <1>1, <1>2 DEF Finished, RestoredStays
  <1>9. QueueOK' /\ Told' = Told
    <2>1. \A m \in Nodes : \/ stage'[m] = stage[m]
                           \/ /\ stage[m] \in InFlight
                              /\ stage'[m] # "idle"
                              /\ m \notin finished
      BY <1>2, <1>7, <1>8 DEF InFlight
    <2> QED BY <1>1, <1>2, <2>1, MoveQueue
  <1>10. workspace' \in Nat
    BY <1>1 DEF Execute, DataOK
  <1>11. DataOK'
    BY <1>1, <1>2, <1>5, <1>7, <1>10 DEF DataOK, Grows
  <1>12. Finished'
    BY <1>1, <1>2, <1>5, <1>7, <1>8 DEF Finished, Grows, DataOK
  <1>13. RestoredStays'
    BY <1>1, <1>2, <1>5, <1>7, <1>8 DEF RestoredStays, Grows, DataOK
  <1>14. Slot!IInv'
    BY <1>1, <1>2, SlotRests
  <1>15. HoldsSlot'
    BY <1>1, <1>2, <1>3, <1>7 DEF HoldsSlot, Slot!Holding, lockVars
  <1>16. KeysMatch'
    BY <1>1, <1>2 DEF KeysMatch, CacheEntry
  <1> QED BY <1>5, <1>6, <1>7, <1>9, <1>11, <1>12, <1>13, <1>14, <1>15, <1>16 DEF Base

\* A node takes up its result.
LEMMA ReturnBase ==
  ASSUME Base, NEW n \in Nodes, Return(n)
  PROVE  /\ Base' /\ Told' = Told
         /\ disk' = disk \/ disk'.results = store'
         /\ store'[n] \in {store[n], "failed"}
         /\ \A m \in Nodes \ {n} : store'[m] = store[m] /\ stage'[m] = stage[m]
         /\ stage'[n] = "settling"
  <1>1. QueueOK /\ DataOK /\ Slot!IInv /\ Finished /\ RestoredStays /\ HoldsSlot /\ KeysMatch
    BY DEF Base
  <1>2. /\ UNCHANGED <<loop, race, interrupt, opened, ready, remaining, finished,
                      workspace, spec, answered, digest, restored, starts>>
        /\ stage[n] = "returned" /\ Goto(n, "settling")
    BY DEF Return, At, pauseVars, queueVars, runVars
  <1>3. /\ spec \in Specs /\ spec.writes \in SUBSET Nodes
        /\ spec.key \in [Nodes -> Nodes]
    BY <1>1, SpecFacts DEF QueueOK
  <1>4. /\ Grows(store')
        /\ disk' \in [results : [Nodes -> Results \cup {"none"}], digest : Nat]
        /\ disk' = disk \/ disk'.results = store'
        /\ store'[n] \in {store[n], "failed"}
        /\ \A m \in Nodes \ {n} : store'[m] = store[m]
    BY <1>1, Checked DEF Return
  <1>5. /\ stage' \in [Nodes -> Stages]
        /\ stage'[n] = "settling"
        /\ \A m \in Nodes \ {n} : stage'[m] = stage[m]
    BY <1>1, <1>2, GotoStage DEF InFlight
  <1>6. n \notin finished /\ n \notin restored
    BY <1>1, <1>2 DEF Finished, RestoredStays
  <1>7. QueueOK' /\ Told' = Told
    <2>1. \A m \in Nodes : \/ stage'[m] = stage[m]
                           \/ /\ stage[m] \in InFlight
                              /\ stage'[m] # "idle"
                              /\ m \notin finished
      BY <1>2, <1>5, <1>6 DEF InFlight
    <2> QED BY <1>1, <1>2, <2>1, MoveQueue
  <1>8. /\ cache' \in [Nodes -> CacheEntries]
        /\ KeysMatch'
    <2>1. n \in 0 .. N + 1
      BY NIsNat DEF Nodes
    <2>2. UpdateCache(n)
      BY DEF Return
    <2>3. CASE cache' = cache
      BY <1>1, <1>2, <2>3 DEF DataOK, KeysMatch, CacheEntry
    <2>4. CASE cache' = NoCache
      BY <2>4, NoCacheFacts DEF KeysMatch, CacheEntry
    <2>5. CASE /\ store'[n] \in DoneResults
               /\ n \notin spec.writes
               /\ cache' = [cache EXCEPT ![spec.key[n]] = [node |-> n, result |-> store'[n]]]
      <3>1. cache' \in [Nodes -> CacheEntries]
        BY <1>1, <1>3, <2>1, <2>5 DEF DataOK, CacheEntries
      <3>2. cache'[spec.key[n]].node = n
        BY <1>1, <1>3, <2>5 DEF DataOK
      <3>3. \A k \in Nodes : k # spec.key[n] => cache'[k] = cache[k]
        BY <1>1, <1>3, <2>5 DEF DataOK
      <3>4. KeysMatch'
        BY <1>1, <1>2, <2>5, <3>2, <3>3 DEF KeysMatch, CacheEntry
      <3> QED BY <3>1, <3>4
    <2> QED BY <2>2, <2>3, <2>4, <2>5 DEF UpdateCache
  <1>9. workspace' \in Nat
    BY <1>1, <1>2 DEF DataOK
  <1>10. DataOK'
    BY <1>1, <1>2, <1>4, <1>5, <1>8, <1>9 DEF DataOK, Grows
  <1>11. Finished'
    BY <1>1, <1>2, <1>4, <1>5, <1>6 DEF Finished, Grows, DataOK
  <1>12. RestoredStays'
    BY <1>1, <1>2, <1>4, <1>5, <1>6 DEF RestoredStays, Grows, DataOK
  <1>13. Slot!IInv' /\ HoldsSlot'
    <2>1. CASE n \in spec.writes
      <3>1. Lock!Release(n)
        BY <2>1 DEF Return, ReleaseSlot
      <3>2. Slot!IInv' /\ \A m \in Nodes \ {n} : Slot!Holding(m) => Slot!Holding(m)'
        BY <1>1, <3>1, SlotRelease
      <3>3. HoldsSlot'
        BY <1>1, <1>2, <1>3, <1>5, <3>2 DEF HoldsSlot
      <3> QED BY <3>2, <3>3
    <2>2. CASE n \notin spec.writes
      <3>1. UNCHANGED lockVars
        BY <2>2 DEF Return, ReleaseSlot
      <3>2. HoldsSlot'
        BY <1>1, <1>2, <1>3, <1>5, <3>1 DEF HoldsSlot, Slot!Holding, lockVars
      <3> QED BY <1>1, <3>1, <3>2, SlotRests
    <2> QED BY <2>1, <2>2
  <1>14. KeysMatch'
    BY <1>8
  <1> QED BY <1>4, <1>5, <1>7, <1>10, <1>11, <1>12, <1>13, <1>14 DEF Base

\* The promise of a node settles.
LEMMA SettleBase ==
  ASSUME Base, NEW n \in Nodes, Settle(n)
  PROVE  /\ Base' /\ Told' = Told \cup {n}
         /\ \A m \in Nodes \ {n} : stage'[m] = stage[m]
         /\ stage'[n] = "over"
  <1>1. QueueOK /\ DataOK /\ Slot!IInv /\ Finished /\ RestoredStays /\ HoldsSlot /\ KeysMatch
    BY DEF Base
  <1>2. /\ UNCHANGED <<loop, interrupt, opened, store, disk, cache, workspace,
                      spec, answered, digest, restored, starts>>
        /\ UNCHANGED lockVars
        /\ stage[n] = "settling" /\ Goto(n, "over")
        /\ finished' = finished \cup {n}
        /\ onDependencyDone(n, ready)
        /\ Settled("resolved")
    BY DEF Settle, At, pauseVars, dataVars, runVars
  <1>3. /\ stage' \in [Nodes -> Stages]
        /\ stage'[n] = "over"
        /\ \A m \in Nodes \ {n} : stage'[m] = stage[m]
    BY <1>1, <1>2, GotoStage DEF InFlight
  <1>4. n \notin Told /\ n \notin Queued /\ remaining[n] = 0 /\ n \notin restored
    BY <1>1, <1>2 DEF Told, QueueOK, QueuedOnce, RestoredStays
  <1>5. /\ ready \in Seq(Nodes)
        /\ {ready[i] : i \in 1 .. Len(ready)} = Queued \ {n}
        /\ \A i, j \in 1 .. Len(ready) : ready[i] = ready[j] => i = j
    BY <1>1, <1>4 DEF QueueOK, QueuedOnce, Queued
  <1>6. QueueOK' /\ Told' = Told \cup {n}
    BY <1>1, <1>2, <1>3, <1>4, <1>5, Tell
  <1>7. DataOK'
    BY <1>1, <1>2, <1>3 DEF DataOK, Settled
  <1>8. Finished'
    BY <1>1, <1>2, <1>3 DEF Finished, DataOK
  <1>9. RestoredStays'
    BY <1>1, <1>2, <1>3, <1>4 DEF RestoredStays, DataOK
  <1>10. Slot!IInv'
    BY <1>1, <1>2, SlotRests
  <1>11. HoldsSlot'
    <2>1. spec.writes \in SUBSET Nodes
      BY <1>1, SpecFacts DEF QueueOK
    <2> QED BY <1>1, <1>2, <1>3, <2>1 DEF HoldsSlot, Slot!Holding, lockVars
  <1>12. KeysMatch'
    BY <1>1, <1>2 DEF KeysMatch, CacheEntry
  <1> QED BY <1>3, <1>6, <1>7, <1>8, <1>9, <1>10, <1>11, <1>12 DEF Base

\* The state a run starts from, its results and its cache.
StartState ==
  /\ loop = "fill"
  /\ race = "pending"
  /\ remaining = [n \in Nodes |-> Cardinality(spec.deps[n])]
  /\ ready = InOrder({n \in Nodes : spec.deps[n] = {}})
  /\ restored = {n \in Nodes : store[n] # "none"}
  /\ finished = restored
  /\ stage = [n \in Nodes |-> "idle"]
  /\ interrupt = 0
  /\ opened = [n \in Nodes |-> 0]

\* Its queue holds the nodes without dependencies.
LEMMA StartQueue ==
  ASSUME spec \in Specs, StartState
  PROVE  QueueOK /\ Told = {}
  <1> DEFINE first == {n \in Nodes : spec.deps[n] = {}}
  <1>1. /\ ready \in Seq(Nodes)
        /\ {ready[i] : i \in 1 .. Len(ready)} = first
        /\ \A i, j \in 1 .. Len(ready) : ready[i] = ready[j] => i = j
        /\ \A n \in Nodes : /\ Cardinality(spec.deps[n]) \in 0 .. N
                            /\ Cardinality(spec.deps[n]) = 0 <=> n \in first
    <2>1. first \in SUBSET Nodes /\ ready = InOrder(first)
      BY DEF StartState
    <2>2. \A n \in Nodes : spec.deps[n] \in SUBSET Nodes
      BY SpecFacts
    <2>3. \A n \in Nodes : /\ Cardinality(spec.deps[n]) \in 0 .. N
                           /\ Cardinality(spec.deps[n]) = 0 <=> n \in first
      BY <2>2, NodeSets
    <2> HIDE DEF first
    <2> QED BY <2>1, <2>3, InOrderLists
  <1>2. /\ remaining = [n \in Nodes |-> Cardinality(spec.deps[n])]
        /\ stage = [n \in Nodes |-> "idle"]
    BY DEF StartState
  <1>3. Queued = first
    BY <1>1 DEF Queued
  <1> HIDE DEF first
  <1>4. Told = {}
    BY <1>1, <1>2, <1>3 DEF Told
  <1>5. Countdown
    <2>1. \A n \in Nodes : spec.deps[n] \ Told = spec.deps[n]
      BY <1>4
    <2> QED BY <1>2, <2>1 DEF Countdown
  <1>6. QueuedOnce
    BY <1>1, <1>2, <1>3 DEF QueuedOnce
  <1>7. remaining \in [Nodes -> 0 .. N]
    BY <1>1, <1>2
  <1> QED BY <1>1, <1>4, <1>5, <1>6, <1>7 DEF QueueOK

\* ... with the workflow, the types, the slot and the cache as they should be.
StartOK == spec \in Specs /\ StartState /\ DataOK /\ Slot!IInv /\ KeysMatch

\* Such a start establishes the first layer.
LEMMA StartBase == StartOK => Base /\ Told = {}
  <1> SUFFICES ASSUME StartOK PROVE Base /\ Told = {}
    OBVIOUS
  <1> USE DEF StartOK
  <1>1. QueueOK /\ Told = {}
    BY StartQueue
  <1>2. Finished
    BY DEF Finished, StartState, Outcomes
  <1>3. RestoredStays
    BY DEF RestoredStays, StartState
  <1>4. HoldsSlot
    <2>1. spec.writes \in SUBSET Nodes
      BY SpecFacts
    <2> QED BY <2>1 DEF HoldsSlot, StartState
  <1> QED BY <1>1, <1>2, <1>3, <1>4 DEF Base

\* The same of the state after a step.
LEMMA StartBaseNext == StartOK' => Base' /\ (Told = {})'
  BY StartBase, PTL

\* A fresh controller.
LEMMA SlotInitNext == Slot!Init' => Slot!IInv'
  <1>1. Slot!Init => Slot!IInv
    BY NIsNat, Slot!InitIInv
  <1> QED BY <1>1, PTL

\* What an injected cache may hold.
LEMMA InjectedFacts ==
  \A k \in Nodes : \A e \in Injected[k] : e \in CacheEntries /\ CacheEntry(e, k)
  <1> SUFFICES ASSUME NEW k \in Nodes, NEW e \in Injected[k]
               PROVE  e \in CacheEntries /\ CacheEntry(e, k)
    OBVIOUS
  <1>1. CASE e = NoEntry
    BY <1>1, NoCacheFacts DEF CacheEntry
  <1>2. CASE e # NoEntry
    BY <1>2 DEF Injected, CacheEntry
  <1> QED BY <1>1, <1>2

\* The first run starts so.
LEMMA InitBase ==
  ASSUME Init
  PROVE  Base /\ StartState /\ Told = {}
  <1>1. \A n \in Nodes : store[n] = "none"
    BY DEF Init, NoResults
  <1>2. StartState
    BY <1>1 DEF Init, StartState
  <1>6. /\ cache \in [Nodes -> CacheEntries]
        /\ \A k \in Nodes : CacheEntry(cache[k], k)
        /\ spec \in Specs
    <2>1. \A k \in Nodes : cache[k] \in Injected[k]
      BY DEF Init, CachesFrom
    <2>2. \A k \in Nodes : cache[k] \in CacheEntries /\ CacheEntry(cache[k], k)
      BY <2>1, InjectedFacts
    <2>3. cache = [k \in Nodes |-> cache[k]]
      BY DEF Init, CachesFrom
    <2> QED BY <2>2, <2>3 DEF Init
  <1>3. DataOK
    <2>1. cache \in [Nodes -> CacheEntries]
      BY <1>6
    <2>2. NoResults \in [Nodes -> Results \cup {"none"}]
      BY DEF NoResults
    <2>3. disk \in [results : [Nodes -> Results \cup {"none"}], digest : Nat]
      BY <2>2 DEF Init
    <2>4. stage \in [Nodes -> Stages]
      BY DEF Init, Stages
    <2>5. starts \in 0 .. MaxStarts /\ 0 \in 0 .. N
      BY SchedulerAssumption DEF Init
    <2> QED BY <2>1, <2>2, <2>3, <2>4, <2>5 DEF Init, DataOK
  <1>4. Slot!Init
    BY DEF Init, Lock!Init, Slot!Init, Lock!NoCall, Slot!NoCall
  <1>5. Slot!IInv
    BY <1>4, NIsNat, Slot!InitIInv
  <1> QED BY <1>2, <1>3, <1>5, <1>6, StartBase DEF StartOK, KeysMatch

\* A run is started again, after a crash or to resume.
LEMMA StartRunBase ==
  ASSUME Base, NEW answer \in 0 .. N, NEW kept,
         \A k \in Nodes : \A e \in kept[k] : e \in CacheEntries /\ CacheEntry(e, k),
         StartRun(answer, kept)
  PROVE  /\ Base' /\ StartState' /\ Told' = {}
         /\ UNCHANGED <<spec, disk>>
         /\ store' = NoResults \/ store' = disk.results
  <1> DEFINE results == Restorable(workspace)
             S == [k \in Nodes |->
                     IF Refill(results, k) = {} THEN kept[k] ELSE Refill(results, k)]
  <1>1. DataOK /\ spec \in Specs
    BY DEF Base, QueueOK
  <1>2. results = NoResults \/ results = disk.results
    BY DEF Restorable
  <1>3. results \in [Nodes -> Results \cup {"none"}]
    BY <1>1, <1>2 DEF NoResults, DataOK
  <1>4. /\ spec' = spec /\ workspace' = workspace /\ disk' = disk
        /\ store' = results
        /\ starts < MaxStarts /\ starts' = starts + 1
        /\ answered' = answer /\ digest' = workspace
    BY DEF StartRun
  <1>5. cache' \in CachesFrom(S)
    BY DEF StartRun
  <1> HIDE DEF results
  <1>6. ASSUME NEW k \in Nodes
        PROVE  cache'[k] \in CacheEntries /\ CacheEntry(cache'[k], k)
    <2>1. cache'[k] \in S[k]
      BY <1>5 DEF CachesFrom
    <2>2. CASE Refill(results, k) = {}
      BY <2>1, <2>2
    <2>3. CASE Refill(results, k) # {}
      <3>1. PICK m \in Nodes \ spec.writes :
              /\ spec.key[m] = k /\ results[m] \in DoneResults
              /\ cache'[k] = [node |-> m, result |-> results[m]]
        BY <2>1, <2>3 DEF Refill
      <3>2. m \in 0 .. N + 1
        BY <3>1, NIsNat DEF Nodes
      <3> QED BY <3>1, <3>2 DEF CacheEntry, CacheEntries
    <2> QED BY <2>2, <2>3
  <1>7. cache' \in [Nodes -> CacheEntries]
    <2>1. cache' = [k \in Nodes |-> cache'[k]]
      BY <1>5 DEF CachesFrom
    <2> QED BY <1>6, <2>1
  <1>8. KeysMatch'
    BY <1>4, <1>6 DEF KeysMatch, CacheEntry
  <1>9. StartState'
    BY <1>4 DEF StartState, StartRun, results
  <1>10. DataOK'
    <2>1. starts' \in 0 .. MaxStarts
      BY <1>1, <1>4, SchedulerAssumption DEF DataOK
    <2>2. stage' \in [Nodes -> Stages] /\ opened' \in [Nodes -> Nat]
          /\ loop' = "fill" /\ race' = "pending" /\ interrupt' = 0
          /\ restored' \subseteq Nodes /\ finished' \subseteq Nodes
      BY <1>9 DEF StartState, Stages
    <2>3. 0 \in 0 .. N
      BY NIsNat
    <2> QED BY <1>1, <1>3, <1>4, <1>7, <2>1, <2>2, <2>3 DEF DataOK
  <1>11. Slot!IInv'
    <2>1. Slot!Init'
      BY DEF StartRun, Slot!Init, Lock!NoCall, Slot!NoCall
    <2> QED BY <2>1, SlotInitNext
  <1>12. StartOK'
    BY <1>1, <1>4, <1>8, <1>9, <1>10, <1>11 DEF StartOK
  <1> QED BY <1>2, <1>4, <1>9, <1>12, StartBaseNext

\* Crash and Resume start a run.
LEMMA RestartBase ==
  ASSUME Base, Crash \/ Resume
  PROVE  /\ Base' /\ StartState' /\ Told' = {} /\ starts' # starts
         /\ UNCHANGED <<spec, disk>>
         /\ store' = NoResults \/ store' = disk.results
  <1>1. DataOK /\ KeysMatch
    BY DEF Base
  <1>2. starts' # starts
    BY <1>1 DEF Crash, Resume, StartRun, DataOK
  <1>3. CASE Crash
    <2>1. 0 \in 0 .. N /\ StartRun(0, Injected)
      BY <1>3, NIsNat DEF Crash
    <2>2. PICK kept : kept = Injected
      OBVIOUS
    <2>3. /\ StartRun(0, kept)
          /\ \A k \in Nodes : \A e \in kept[k] : e \in CacheEntries /\ CacheEntry(e, k)
      BY <2>1, <2>2, InjectedFacts
    <2> QED BY <1>2, <2>1, <2>3, StartRunBase
  <1>4. CASE Resume
    <2> DEFINE kept == [k \in Nodes |-> {IF workspace = digest THEN cache[k] ELSE NoEntry}]
    <2>1. \A k \in Nodes : \A e \in kept[k] : e \in CacheEntries /\ CacheEntry(e, k)
      BY <1>1, NoCacheFacts DEF DataOK, KeysMatch, CacheEntry
    <2>2. interrupt \in 0 .. N /\ StartRun(interrupt, kept)
      BY <1>1, <1>4 DEF Resume, DataOK
    <2> HIDE DEF kept
    <2> QED BY <1>2, <2>1, <2>2, StartRunBase
  <1> QED BY <1>3, <1>4

\* What the launching steps put: the head of the queue leaves with a result
\* put under some node, or is only started.
LEMMA LaunchSteps ==
  ASSUME Base, RejectWrite \/ RefuseAgent \/ Replay \/ BeginNode
  PROVE  /\ Takes
         /\ evaluateReadiness(node) # "blocked"
         /\ \/ /\ Launch("reserving")
               /\ UNCHANGED <<store, disk>>
            \/ /\ Launch("settling")
               /\ \E r \in Results :
                    \/ put(node, r)
                    \/ ~SoleKeys /\ put(N + 1, r)
                    \/ ~SoleKeys /\ \E m \in Nodes : put(m, r)
  <1>1. /\ QueueOK /\ DataOK /\ KeysMatch /\ spec \in Specs
    BY DEF Base, QueueOK
  <1>2. Takes /\ evaluateReadiness(node) # "blocked"
    BY DEF RejectWrite, RefuseAgent, Replay, BeginNode, Runnable, Launchable
  <1>3. node \in Nodes
    BY <1>1, <1>2, TakeNode DEF Takes, CanTake
  <1>4. CASE RejectWrite \/ RefuseAgent
    <2>1. put(node, "failed") /\ Launch("settling")
      BY <1>4 DEF RejectWrite, RefuseAgent
    <2>2. "failed" \in Results
      BY DEF Results
    <2> QED BY <1>2, <1>3, <2>1, <2>2
  <1>5. CASE Replay
    <2> DEFINE hit == cache[spec.key[node]]
    <2>1. /\ put(hit.node, hit.result) /\ hit.node # 0 /\ Launch("settling")
          /\ node \notin spec.writes
      BY <1>5 DEF Replay, CacheHit
    <2>2. spec.key[node] \in Nodes
      BY <1>1, <1>3, SpecFacts
    <2>3. hit.result \in Results
      BY <1>1, <2>2 DEF DataOK, CacheEntries, Results
    <2>4. \/ hit.node = N + 1 /\ spec.shared
          \/ hit.node \in Nodes \ spec.writes /\ spec.key[hit.node] = spec.key[node]
      BY <1>1, <2>1, <2>2 DEF KeysMatch, CacheEntry
    <2> HIDE DEF hit
    <2>5. CASE hit.node = N + 1 /\ spec.shared
      <3>1. ~SoleKeys
        BY <1>1, <2>5 DEF SoleKeys
      <3> QED BY <1>2, <2>1, <2>3, <2>5, <3>1
    <2>6. CASE hit.node \in Nodes \ spec.writes /\ spec.key[hit.node] = spec.key[node]
      <3>1. SoleKeys => hit.node = node
        BY <1>1, <1>3, <2>1, <2>6 DEF SoleKeys
      <3> QED BY <1>2, <2>1, <2>3, <2>6, <3>1
    <2> QED BY <2>4, <2>5, <2>6
  <1>6. CASE BeginNode
    BY <1>2, <1>6 DEF BeginNode
  <1> QED BY <1>4, <1>5, <1>6

Closings == {"blocked", "failed"}

\* What the loop closes itself: a restored node, or one that is blocked or
\* denied.
LEMMA CloseSteps ==
  ASSUME Base, SkipRestored \/ Block \/ Deny
  PROVE  /\ CanTake
         /\ onDependencyDone(node, Tail(ready))
         /\ UNCHANGED <<loop, race, stage, pauseVars, cache, workspace, runVars, lockVars>>
         /\ \/ /\ UNCHANGED <<store, disk, finished>>
               /\ store[node] # "none"
            \/ /\ finished' = finished \cup {node}
               /\ store[node] = "none"
               /\ \E r \in Closings : put(node, r)
  <1>1. CASE SkipRestored
    BY <1>1 DEF SkipRestored, Takes, dataVars
  <1>2. CASE Block \/ Deny
    <2>1. "blocked" \in Closings /\ "failed" \in Closings
      BY DEF Closings
    <2>2. Takes /\ \E r \in Closings : CloseNode(r)
      BY <1>2, <2>1 DEF Block, Deny, Launchable
    <2> QED BY <2>2 DEF CloseNode, Takes
  <1> QED BY <1>1, <1>2

\* Every step preserves the first layer.
LEMMA BaseNext == Base /\ [Next]_vars => Base'
  <1> SUFFICES ASSUME Base, [Next]_vars PROVE Base'
    OBVIOUS
  <1>1. CASE SkipRestored \/ Block \/ Deny
    BY <1>1, CloseSteps, CloseBase DEF Closings, Results
  <1>2. CASE RejectWrite \/ RefuseAgent \/ Replay \/ BeginNode
    <2>1. /\ Takes
          /\ \/ Launch("reserving") /\ UNCHANGED <<store, disk>>
             \/ /\ Launch("settling")
                /\ \/ \E m \in Nodes : \E r \in Results : put(m, r)
                   \/ \E r \in Results : put(N + 1, r)
      <3>1. Takes => node \in Nodes
        BY TakeNode DEF Base, Takes, CanTake
      <3> QED BY <1>2, <3>1, LaunchSteps
    <2> QED BY <2>1, LaunchBase
  <1>3. CASE EndFill
    BY <1>3, EndFillBase
  <1>4. CASE Wake \/ Cancel \/ \E n \in Nodes : QuietStep(n)
    BY <1>4, QuietBase
  <1>5. CASE \E n \in Nodes : Execute(n) \/ Return(n)
    BY <1>5, ExecuteBase, ReturnBase
  <1>6. CASE \E n \in Nodes : Settle(n)
    BY <1>6, SettleBase
  <1>7. CASE Crash \/ Resume
    BY <1>7, RestartBase
  <1>8. CASE UNCHANGED vars
    <2>1. Slot!IInv' /\ HoldsSlot'
      BY <1>8, SlotRests DEF vars, runVars, lockVars, Base, HoldsSlot, Slot!Holding
    <2>2. Moves
      BY <1>8 DEF vars, Moves, Base, DataOK, pauseVars
    <2> QED BY <2>1, <2>2, MoveBase
  <1> QED BY <1>1, <1>2, <1>3, <1>4, <1>5, <1>6, <1>7, <1>8
          DEF Next, FillStep, NodeStep, QuietStep

-----------------------------------------------------------------------------
(***************************************************************************)
(* The first layer holds of every run of every workflow.                   *)
(***************************************************************************)
THEOREM BaseHolds == Spec => []Base
  <1>1. Init => Base
    BY InitBase
  <1> QED BY <1>1, BaseNext, PTL DEF Spec

(***************************************************************************)
(* Type correctness of the scheduler, the writer slot included.            *)
(***************************************************************************)
THEOREM TypeCorrect == Spec => []TypeOK
  <1>1. Base => TypeOK
    BY SlotType DEF Base, QueueOK, DataOK, TypeOK
  <1> QED BY <1>1, BaseHolds, PTL

(***************************************************************************)
(* At most one write node executes at a time, or has its result checked:   *)
(* it holds the slot meanwhile (Reserved, LockGranted, the finally of      *)
(* Return), and the slot has one holder, also after the run threw.         *)
(***************************************************************************)
THEOREM OneWriteAtATime == Spec => []SingleWriter
  <1>1. Base => SingleWriter
    <2> SUFFICES ASSUME Base PROVE SingleWriter
      OBVIOUS
    <2> DEFINE W == {n \in spec.writes : stage[n] \in {"executing", "returned"}}
    <2>1. spec.writes \in SUBSET Nodes
      BY SpecFacts DEF Base, QueueOK
    <2>2. \A m, n \in W : m = n
      BY <2>1 DEF Base, HoldsSlot, Slot!IInv, Slot!HolderOwns, Slot!TokensDrawn,
         Slot!TokensDistinct, Slot!Holding, Slot!Waiting
    <2>3. Cardinality(W) <= 1
      <3>1. CASE W = {}
        BY <3>1, FS_EmptySet
      <3>2. CASE W # {}
        <4>1. PICK n : W = {n}
          BY <2>2, <3>2
        <4> QED BY <4>1, FS_Singleton
      <3> QED BY <3>1, <3>2
    <2> QED BY <2>3 DEF SingleWriter
  <1> QED BY <1>1, BaseHolds, PTL

(***************************************************************************)
(* A node restored from the checkpoint is never launched again, although   *)
(* the queue, built before the checkpoint is read, offers it again.        *)
(***************************************************************************)
THEOREM RestoredStayPut == Spec => []RestoredNotReexecuted
  <1>1. Base => RestoredNotReexecuted
    BY DEF Base, RestoredStays, RestoredNotReexecuted
  <1> QED BY <1>1, BaseHolds, PTL

-----------------------------------------------------------------------------
(***************************************************************************)
(* The second layer, for workflows without shared cache keys.              *)
(***************************************************************************)

\* A step that changes the result of no finished node.
ResultsStay == \A n \in finished : store'[n] = store[n]

\* What a node was launched on, or is done on, stays true while the results
\* of the finished nodes stay.
LEMMA GroundedStays ==
  ASSUME Grounded, loop \notin Outcomes, spec' = spec,
         ResultsStay, finished \subseteq finished',
         \A n \in Nodes : stage'[n] \in Active \/ store'[n] \in DoneResults
                          => stage[n] \in Active \/ store[n] \in DoneResults \/ Ready(n)
  PROVE  Grounded'
  <1>1. \A n \in Nodes : Ready(n) => Ready(n)'
    BY DEF Ready, ResultsStay
  <1> QED BY <1>1 DEF Grounded

\* A checkpoint that copies such results is grounded.
LEMMA DiskStays ==
  ASSUME DiskGrounded, Grounded', ResultsInStep', loop' \notin Outcomes,
         spec \in Specs, spec' = spec,
         disk' = disk \/ disk'.results = store'
  PROVE  DiskGrounded'
  <1>1. CASE disk' = disk
    BY <1>1 DEF DiskGrounded
  <1>2. CASE disk'.results = store'
    <2> SUFFICES ASSUME NEW n \in Nodes, store'[n] \in DoneResults, NEW d \in spec.deps[n]
                 PROVE  store'[d] # "none" /\ dependencySatisfied(spec.when[n][d], store'[d])
      BY <1>2 DEF DiskGrounded
    <2>1. d \in Nodes
      BY SpecFacts
    <2>2. d \in finished' /\ dependencySatisfied(spec.when[n][d], store'[d])
      BY DEF Grounded, Ready
    <2> QED BY <2>1, <2>2 DEF ResultsInStep
  <1> QED BY <1>1, <1>2

\* A start, from a grounded checkpoint or from nothing.
StartUpperOK ==
  /\ spec \in Specs /\ StartState /\ DataOK /\ Told = {} /\ DiskGrounded
  /\ store = NoResults \/ store = disk.results

\* Such a start establishes the second layer.
LEMMA StartUpper == StartUpperOK => Upper
  <1> SUFFICES ASSUME StartUpperOK PROVE Upper
    OBVIOUS
  <1>1. /\ loop = "fill" /\ \A n \in Nodes : stage[n] = "idle"
        /\ finished = {n \in Nodes : store[n] # "none"}
    BY DEF StartState, StartUpperOK
  <1>2. ResultsInStep
    BY <1>1 DEF ResultsInStep
  <1>3. ASSUME NEW n \in Nodes, store[n] \in DoneResults PROVE Ready(n)
    <2>1. store # NoResults
      BY <1>3 DEF NoResults, DoneResults
    <2>2. store = disk.results
      BY <2>1 DEF StartUpperOK
    <2>3. \A d \in spec.deps[n] : store[d] # "none" /\ dependencySatisfied(spec.when[n][d], store[d])
      BY <1>3, <2>2 DEF StartUpperOK, DiskGrounded
    <2>4. spec.deps[n] \in SUBSET Nodes
      BY SpecFacts DEF StartUpperOK
    <2> QED BY <1>1, <2>3, <2>4 DEF Ready
  <1>4. Grounded
    BY <1>1, <1>3 DEF Grounded, Active
  <1> QED BY <1>1, <1>2, <1>4
          DEF Upper, ToldFinished, DeadlockOnlyAfterError, DoneMeansComplete, StartUpperOK

\* The same of the state after a step.
LEMMA StartUpperNext == StartUpperOK' => Upper'
  BY StartUpper, PTL

\* A moving node.
LEMMA MoveUpper ==
  ASSUME Base, Upper, Moves, Told' = Told
  PROVE  Upper' /\ ResultsStay
  <1>1. /\ UNCHANGED <<finished, store, disk, spec>>
        /\ loop' \in {"deadlock", "done"} => loop' = loop
        /\ loop' \notin Outcomes => loop \notin Outcomes
    BY DEF Moves, queueVars, dataVars, runVars, Outcomes
  <1>2. \A n \in Nodes : stage'[n] = stage[n] \/ Onward(stage[n], stage'[n])
    BY DEF Moves
  <1>3. ResultsStay
    BY <1>1 DEF ResultsStay
  <1>4. ResultsInStep'
    <2> SUFFICES ASSUME NEW n \in Nodes
                 PROVE
                   /\ stage'[n] \in {"reserving", "locking", "executing", "pausing", "throwing"}
                        => store[n] = "none"
                   /\ stage'[n] \in {"returned", "settling"} => store[n] # "none"
                   /\ n \in finished => store[n] # "none"
                   /\ store[n] # "none" /\ stage'[n] = "idle" => n \in finished
      BY <1>1 DEF ResultsInStep
    <2>1. CASE stage'[n] = stage[n]
      BY <2>1 DEF Upper, ResultsInStep
    <2>2. CASE Onward(stage[n], stage'[n])
      BY <2>2 DEF Upper, ResultsInStep, Onward, Unsettled, InFlight
    <2> QED BY <1>2, <2>1, <2>2
  <1>5. ToldFinished'
    BY <1>1 DEF Upper, ToldFinished
  <1>6. Grounded'
    <2>1. \A n \in Nodes : stage'[n] \in Active => stage[n] \in Active
      BY <1>2 DEF Onward
    <2>2. CASE loop \in Outcomes
      BY <1>1, <2>2 DEF Grounded
    <2>3. CASE loop \notin Outcomes
      BY <1>1, <1>3, <2>1, <2>3, GroundedStays DEF Upper
    <2> QED BY <2>2, <2>3
  <1>7. DeadlockOnlyAfterError'
    BY <1>1, <1>2 DEF Upper, DeadlockOnlyAfterError, Onward, Unsettled, InFlight
  <1>8. DoneMeansComplete' /\ DiskGrounded'
    BY <1>1 DEF Upper, DoneMeansComplete, DiskGrounded
  <1> QED BY <1>3, <1>4, <1>5, <1>6, <1>7, <1>8 DEF Upper

\* A node in flight is not finished, so its run has not ended.
LEMMA FlightFacts ==
  ASSUME Base, NEW n \in Nodes, stage[n] \in InFlight
  PROVE  n \notin finished /\ loop \notin Outcomes /\ spec \in Specs
  <1>1. n \notin finished
    BY DEF Base, Finished, InFlight
  <1> QED BY <1>1 DEF Base, QueueOK, Finished

\* A node stores its result or takes it up: the node is not finished, and no
\* other result changes.
LEMMA ReturnUpper ==
  ASSUME Base, Upper, NEW n \in Nodes, Execute(n) \/ Return(n)
  PROVE  Upper' /\ ResultsStay
  <1>1. /\ Told' = Told
        /\ disk' = disk \/ disk'.results = store'
        /\ \A m \in Nodes \ {n} : store'[m] = store[m] /\ stage'[m] = stage[m]
    BY ExecuteBase, ReturnBase
  <1>2. /\ UNCHANGED <<finished, spec, loop>>
        /\ stage[n] \in {"executing", "returned"}
    BY DEF Execute, Return, At, queueVars, runVars
  <1>3. n \notin finished /\ loop \notin Outcomes /\ spec \in Specs
    BY <1>2, FlightFacts DEF InFlight
  <1>4. stage'[n] \in {"returned", "settling"} /\ store'[n] # "none"
    <2>1. CASE Execute(n)
      BY <2>1, ExecuteBase DEF Results, DoneResults
    <2>2. CASE Return(n)
      <3>1. store[n] # "none"
        BY <2>2 DEF Return, At, Upper, ResultsInStep
      <3> QED BY <2>2, <3>1, ReturnBase
    <2> QED BY <2>1, <2>2
  <1>5. ResultsStay
    BY <1>1, <1>3 DEF ResultsStay, Base, DataOK
  <1>6. ResultsInStep'
    BY <1>1, <1>2, <1>3, <1>4 DEF Upper, ResultsInStep
  <1>7. ToldFinished'
    BY <1>1, <1>2 DEF Upper, ToldFinished
  <1>8. Grounded'
    <2>1. \A m \in Nodes : stage'[m] \in Active \/ store'[m] \in DoneResults
                           => stage[m] \in Active \/ store[m] \in DoneResults
      BY <1>1, <1>2 DEF Active
    <2> QED BY <1>2, <1>3, <1>5, <2>1, GroundedStays DEF Upper
  <1>9. DiskGrounded'
    BY <1>1, <1>2, <1>3, <1>6, <1>8, DiskStays DEF Upper
  <1>10. DeadlockOnlyAfterError'
    BY <1>1, <1>2 DEF Upper, DeadlockOnlyAfterError
  <1>11. DoneMeansComplete'
    BY <1>2, <1>3 DEF DoneMeansComplete, Outcomes
  <1> QED BY <1>5, <1>6, <1>7, <1>8, <1>9, <1>10, <1>11 DEF Upper

\* The settled node joins the finished ones with its result in place.
LEMMA SettleUpper ==
  ASSUME Base, Upper, NEW n \in Nodes, Settle(n)
  PROVE  Upper' /\ ResultsStay
  <1>1. /\ Told' = Told \cup {n}
        /\ \A m \in Nodes \ {n} : stage'[m] = stage[m]
        /\ stage'[n] = "over"
    BY SettleBase
  <1>2. /\ UNCHANGED <<spec, loop, store, disk>>
        /\ stage[n] = "settling"
        /\ finished' = finished \cup {n}
    BY DEF Settle, At, dataVars, runVars
  <1>3. store[n] # "none" /\ loop \notin Outcomes
    BY <1>2, FlightFacts DEF Upper, ResultsInStep, InFlight
  <1>4. ResultsStay
    BY <1>2 DEF ResultsStay
  <1>5. ResultsInStep'
    BY <1>1, <1>2, <1>3 DEF Upper, ResultsInStep
  <1>6. ToldFinished'
    BY <1>1, <1>2 DEF Upper, ToldFinished
  <1>7. Grounded'
    <2>1. \A m \in Nodes : stage'[m] \in Active => stage[m] \in Active
      BY <1>1 DEF Active
    <2> QED BY <1>2, <1>3, <1>4, <2>1, GroundedStays DEF Upper
  <1>8. DeadlockOnlyAfterError'
    BY <1>1, <1>2 DEF Upper, DeadlockOnlyAfterError
  <1>9. DoneMeansComplete' /\ DiskGrounded'
    BY <1>2 DEF Upper, DoneMeansComplete, DiskGrounded
  <1> QED BY <1>4, <1>5, <1>6, <1>7, <1>8, <1>9 DEF Upper

\* The loop closes the head of the queue.
LEMMA CloseUpper ==
  ASSUME Base, Upper, SkipRestored \/ Block \/ Deny
  PROVE  Upper' /\ ResultsStay
  <1>1. /\ CanTake
        /\ onDependencyDone(node, Tail(ready))
        /\ UNCHANGED <<loop, race, stage, pauseVars, cache, workspace, runVars, lockVars>>
        /\ \/ /\ UNCHANGED <<store, disk, finished>>
              /\ store[node] # "none"
           \/ /\ finished' = finished \cup {node}
              /\ store[node] = "none"
              /\ \E r \in Closings : put(node, r)
    BY CloseSteps
  <1>2. Told' = Told \cup {node}
    BY <1>1, CloseBase DEF Closings, Results
  <1>3. QueueOK /\ DataOK /\ spec \in Specs /\ ready # <<>> /\ loop = "fill"
    BY <1>1 DEF Base, QueueOK, CanTake
  <1>4. node \in Nodes /\ stage[node] = "idle"
    BY <1>3, TakeNode
  <1>5. UNCHANGED <<stage, spec, loop>>
    BY <1>1 DEF runVars
  <1>6. /\ store'[node] # "none"
        /\ node \in finished'
        /\ \A m \in Nodes \ {node} : /\ store'[m] = store[m]
                                     /\ m \in finished' <=> m \in finished
        /\ finished \subseteq finished'
        /\ ResultsStay
        /\ store'[node] \in DoneResults => store[node] \in DoneResults
        /\ disk' = disk \/ disk'.results = store'
    <2>1. CASE UNCHANGED <<store, disk, finished>> /\ store[node] # "none"
      <3>1. node \in finished
        BY <1>4, <2>1 DEF Upper, ResultsInStep
      <3> QED BY <2>1, <3>1 DEF ResultsStay
    <2>2. CASE /\ finished' = finished \cup {node}
               /\ store[node] = "none"
               /\ \E r \in Closings : put(node, r)
      <3>1. /\ store'[node] \in Closings
            /\ \A m \in Nodes \ {node} : store'[m] = store[m]
        BY <1>3, <1>4, <2>2, PutStore DEF Closings, Results
      <3>2. store'[node] # "none" /\ store'[node] \notin DoneResults
        BY <3>1 DEF Closings, DoneResults
      <3>3. node \notin finished
        BY <1>4, <2>2 DEF Upper, ResultsInStep
      <3>4. disk' = disk \/ disk'.results = store'
        BY <2>2, PutDisk
      <3>5. ResultsStay
        BY <1>3, <3>1, <3>3 DEF ResultsStay, DataOK
      <3> QED BY <2>2, <3>1, <3>2, <3>4, <3>5
    <2> QED BY <1>1, <2>1, <2>2
  <1>7. ResultsInStep'
    BY <1>4, <1>5, <1>6 DEF Upper, ResultsInStep
  <1>8. ToldFinished'
    BY <1>2, <1>6 DEF Upper, ToldFinished, Told
  <1>9. Grounded'
    <2>1. loop \notin Outcomes
      BY <1>3 DEF Outcomes
    <2>2. \A n \in Nodes : stage'[n] \in Active \/ store'[n] \in DoneResults
                           => stage[n] \in Active \/ store[n] \in DoneResults
      BY <1>5, <1>6
    <2> QED BY <1>5, <1>6, <2>1, <2>2, GroundedStays DEF Upper
  <1>10. DiskGrounded'
    BY <1>3, <1>5, <1>6, <1>7, <1>9, DiskStays DEF Upper, Outcomes
  <1>11. DeadlockOnlyAfterError' /\ DoneMeansComplete'
    BY <1>3, <1>5 DEF DeadlockOnlyAfterError, DoneMeansComplete
  <1> QED BY <1>6, <1>7, <1>8, <1>9, <1>10, <1>11 DEF Upper

\* The head of the queue is launched: its counter is down, so every
\* dependency has told and has a result.
LEMMA LaunchUpper ==
  ASSUME Base, Upper, SoleKeys, RejectWrite \/ RefuseAgent \/ Replay \/ BeginNode
  PROVE  Upper' /\ ResultsStay
  <1>1. /\ Takes
        /\ evaluateReadiness(node) # "blocked"
        /\ \/ /\ Launch("reserving")
              /\ UNCHANGED <<store, disk>>
           \/ /\ Launch("settling")
              /\ \E r \in Results : put(node, r)
    BY LaunchSteps
  <1>2. Told' = Told
    <2>1. node \in Nodes
      BY <1>1, TakeNode DEF Base, Takes, CanTake
    <2> QED BY <1>1, <2>1, LaunchBase
  <1>3. /\ QueueOK /\ DataOK /\ spec \in Specs
        /\ ready # <<>> /\ loop = "fill" /\ store[node] = "none"
    BY <1>1 DEF Base, QueueOK, Takes, CanTake
  <1>4. node \in Nodes /\ stage[node] = "idle" /\ remaining[node] = 0
    BY <1>3, TakeNode
  <1>5. /\ UNCHANGED <<spec, loop, finished>>
        /\ \A m \in Nodes \ {node} : stage'[m] = stage[m]
    BY <1>1, <1>3, <1>4 DEF Launch, runVars, DataOK
  <1>6. node \notin finished
    BY <1>3, <1>4 DEF Upper, ResultsInStep
  <1>7. \/ /\ stage'[node] = "reserving" /\ store' = store
           /\ disk' = disk
        \/ /\ stage'[node] = "settling" /\ store'[node] # "none"
           /\ \A m \in Nodes \ {node} : store'[m] = store[m]
           /\ disk' = disk \/ disk'.results = store'
    <2>1. CASE Launch("reserving") /\ UNCHANGED <<store, disk>>
      BY <1>3, <1>4, <2>1 DEF Launch, DataOK
    <2>2. CASE Launch("settling") /\ \E r \in Results : put(node, r)
      <3>1. /\ store'[node] \in Results
            /\ \A m \in Nodes \ {node} : store'[m] = store[m]
        BY <1>3, <1>4, <2>2, PutStore
      <3>2. store'[node] # "none"
        BY <3>1 DEF Results, DoneResults
      <3>3. stage'[node] = "settling"
        BY <1>3, <1>4, <2>2 DEF Launch, DataOK
      <3> QED BY <2>2, <3>1, <3>2, <3>3, PutDisk
    <2> QED BY <1>1, <2>1, <2>2
  <1>8. ResultsStay
    BY <1>3, <1>6, <1>7 DEF ResultsStay, DataOK
  <1>9. ResultsInStep'
    <2> SUFFICES ASSUME NEW n \in Nodes
                 PROVE
                   /\ stage'[n] \in {"reserving", "locking", "executing", "pausing", "throwing"}
                        => store'[n] = "none"
                   /\ stage'[n] \in {"returned", "settling"} => store'[n] # "none"
                   /\ n \in finished => store'[n] # "none"
                   /\ store'[n] # "none" /\ stage'[n] = "idle" => n \in finished
      BY <1>5 DEF ResultsInStep
    <2>1. CASE n = node
      BY <1>3, <1>6, <1>7, <2>1
    <2>2. CASE n # node
      BY <1>5, <1>7, <2>2 DEF Upper, ResultsInStep
    <2> QED BY <2>1, <2>2
  <1>10. ToldFinished'
    BY <1>2, <1>5 DEF Upper, ToldFinished
  <1>11. Ready(node)
    <2>1. spec.deps[node] \in SUBSET Nodes
      BY <1>3, <1>4, SpecFacts
    <2>2. spec.deps[node] \ Told = {}
      BY <1>3, <1>4, <2>1, NodeSets DEF QueueOK, Countdown
    <2>3. \A d \in spec.deps[node] : d \in finished /\ store[d] # "none"
      BY <2>1, <2>2 DEF Upper, ToldFinished, ResultsInStep
    <2> QED BY <1>1, <2>3 DEF evaluateReadiness, Ready
  <1>12. Grounded'
    <2>1. loop \notin Outcomes
      BY <1>3 DEF Outcomes
    <2>2. \A n \in Nodes : stage'[n] \in Active \/ store'[n] \in DoneResults
                           => stage[n] \in Active \/ store[n] \in DoneResults \/ Ready(n)
      BY <1>5, <1>7, <1>11
    <2> QED BY <1>5, <1>8, <2>1, <2>2, GroundedStays DEF Upper
  <1>13. DiskGrounded'
    BY <1>3, <1>5, <1>7, <1>9, <1>12, DiskStays DEF Upper, Outcomes
  <1>14. DeadlockOnlyAfterError' /\ DoneMeansComplete'
    BY <1>3, <1>5 DEF DeadlockOnlyAfterError, DoneMeansComplete
  <1> QED BY <1>8, <1>9, <1>10, <1>12, <1>13, <1>14 DEF Upper

\* The gate changes only a verification that ingested failures.
GateOnly ==
  \A n \in finished : store[n] # "doneFailing" => store'[n] = store[n]

\* The end of a filling round.  Without a way on, the least node that has not
\* told has only dependencies that told: it was launched and threw.
LEMMA EndFillUpper ==
  ASSUME Base, Upper, EndFill
  PROVE  Upper' /\ GateOnly
  <1>1. /\ QueueOK /\ DataOK /\ Finished /\ spec \in Specs
    BY DEF Base, QueueOK
  <1>2. /\ UNCHANGED <<stage, finished, spec>> /\ Told' = Told
        /\ loop = "fill" /\ ~CanTake
    BY EndFillBase DEF EndFill, queueVars, runVars
  <1>3. CASE finished # Nodes
    <2>1. /\ loop' # "done" /\ store' = store
          /\ loop' = "deadlock" => running = {} /\ interrupt = 0
      BY <1>3, EndFillFacts DEF Outcomes
    <2>2. ResultsStay /\ GateOnly
      BY <2>1 DEF ResultsStay, GateOnly
    <2>3. ResultsInStep'
      BY <1>2, <2>1 DEF Upper, ResultsInStep
    <2>4. ToldFinished'
      BY <1>2 DEF Upper, ToldFinished
    <2>5. Grounded' /\ DiskGrounded'
      <3>1. loop \notin Outcomes /\ disk' = disk
        BY <1>2 DEF Outcomes, EndFill
      <3>2. Grounded'
        BY <1>2, <2>1, <2>2, <3>1, GroundedStays DEF Upper
      <3> QED BY <1>2, <3>1, <3>2 DEF Upper, DiskGrounded
    <2>6. DeadlockOnlyAfterError'
      <3> SUFFICES ASSUME running = {}, interrupt = 0
                   PROVE  \E n \in Nodes : stage[n] = "over" /\ n \notin finished
        BY <1>2, <2>1 DEF DeadlockOnlyAfterError
      <3>1. ready = <<>>
        <4>1. Cardinality(running) < MaxParallel
          BY FS_EmptySet, SchedulerAssumption
        <4> QED BY <1>2, <4>1 DEF CanTake
      <3>2. Queued = {}
        BY <3>1, EmptySeq DEF Queued
      <3> DEFINE Untold == Nodes \ Told
      <3>3. Untold \in SUBSET Nat /\ Untold # {}
        <4>1. Told \subseteq finished /\ finished \subseteq Nodes
          BY <1>1 DEF Upper, ToldFinished, DataOK
        <4>2. Untold # {}
          BY <1>3, <4>1
        <4> QED BY <4>2 DEF Nodes
      <3>4. PICK n \in Untold : \A x \in Untold : n <= x
        <4> HIDE DEF Untold
        <4> QED BY <3>3, Least
      <3>5. n \in Nodes /\ n \notin Told
        OBVIOUS
      <3>6. \A d \in spec.deps[n] : d \in Nodes /\ d < n
        BY <1>1, <3>5, SpecFacts
      <3>7. \A d \in spec.deps[n] : d \in Told
        <4> SUFFICES ASSUME NEW d \in spec.deps[n], d \notin Told PROVE FALSE
          OBVIOUS
        <4>1. d \in Untold /\ d < n
          BY <3>6
        <4>2. n <= d
          BY <3>4, <4>1
        <4> QED BY <3>5, <3>6, <4>1, <4>2 DEF Nodes
      <3>8. remaining[n] = 0
        <4>1. spec.deps[n] \ Told = {}
          BY <3>7
        <4> QED BY <1>1, <3>5, <4>1, FS_EmptySet DEF QueueOK, Countdown
      <3>9. stage[n] \notin InFlight
        BY <3>5 DEF running
      <3>10. stage[n] \in {"idle", "over"}
        BY <1>1, <3>5, <3>9 DEF DataOK, Stages, InFlight
      <3>11. stage[n] = "over" /\ n \notin finished
        BY <3>2, <3>5, <3>8, <3>10 DEF Told
      <3> QED BY <3>5, <3>11
    <2>7. DoneMeansComplete'
      BY <2>1 DEF DoneMeansComplete
    <2> QED BY <2>2, <2>3, <2>4, <2>5, <2>6, <2>7 DEF Upper
  <1>4. CASE finished = Nodes
    <2>1. loop' = RunStatus /\ loop' \in Outcomes /\ store' = gated
      BY <1>4, EndFillFacts
    <2>2. \A n \in Nodes : /\ store[n] \in Results
                           /\ stage[n] \in {"idle", "over"}
                           /\ store'[n] = IF store[n] = "doneFailing" THEN "failed" ELSE store[n]
      BY <1>1, <1>4, <2>1 DEF Upper, ResultsInStep, Finished, gated, DataOK
    <2>3. GateOnly
      BY <1>4, <2>2 DEF GateOnly
    <2>4. \A n \in Nodes : store'[n] # "none" /\ store'[n] # "doneFailing"
      BY <2>2 DEF Results, DoneResults
    <2>5. ResultsInStep'
      BY <1>2, <1>4, <2>2, <2>4 DEF ResultsInStep
    <2>6. ToldFinished'
      BY <1>2 DEF Upper, ToldFinished
    <2>7. Grounded' /\ DiskGrounded'
      BY <1>2, <2>1 DEF Grounded, DiskGrounded, Upper, EndFill
    <2>8. DeadlockOnlyAfterError'
      BY <2>1 DEF DeadlockOnlyAfterError, Outcomes
    <2>9. DoneMeansComplete'
      <3> SUFFICES ASSUME RunStatus = "done"
                   PROVE  \A n \in Nodes :
                            /\ gated[n] \in DoneResults \ {"doneFailing"}
                            /\ \A d \in spec.deps[n] :
                                 dependencySatisfied(spec.when[n][d], gated[d])
        BY <1>2, <2>1 DEF DoneMeansComplete
      <3>1. \A n \in Nodes : gated[n] # "failed" /\ gated[n] # "blocked"
        BY DEF RunStatus
      <3>2. \A n \in Nodes : gated[n] \in DoneResults \ {"doneFailing"}
        BY <2>1, <2>2, <2>4, <3>1 DEF Results, DoneResults
      <3>3. \A n \in Nodes : gated[n] = store[n]
        BY <2>1, <2>2, <3>1
      <3>4. \A n \in Nodes : Ready(n) /\ spec.deps[n] \in SUBSET Nodes
        BY <1>1, <1>2, <3>2, <3>3, SpecFacts DEF Upper, Grounded, Outcomes
      <3> QED BY <3>2, <3>3, <3>4 DEF Ready
    <2> QED BY <2>3, <2>5, <2>6, <2>7, <2>8, <2>9 DEF Upper
  <1> QED BY <1>3, <1>4

\* Every step preserves the second layer, and all but a start or the gate
\* leave the results of finished nodes alone.
LEMMA UpperNext ==
  ASSUME Base, SoleKeys, Upper, [Next]_vars
  PROVE  Upper' /\ (starts' = starts => GateOnly)
  <1>1. CASE SkipRestored \/ Block \/ Deny
    BY <1>1, CloseUpper DEF ResultsStay, GateOnly
  <1>2. CASE RejectWrite \/ RefuseAgent \/ Replay \/ BeginNode
    BY <1>2, LaunchUpper DEF ResultsStay, GateOnly
  <1>3. CASE EndFill
    BY <1>3, EndFillUpper
  <1>4. CASE Wake \/ Cancel \/ \E n \in Nodes : QuietStep(n)
    BY <1>4, QuietBase, MoveUpper DEF ResultsStay, GateOnly
  <1>5. CASE \E n \in Nodes : Execute(n) \/ Return(n)
    BY <1>5, ReturnUpper DEF ResultsStay, GateOnly
  <1>6. CASE \E n \in Nodes : Settle(n)
    BY <1>6, SettleUpper DEF ResultsStay, GateOnly
  <1>7. CASE Crash \/ Resume
    <2>1. /\ Base' /\ StartState' /\ Told' = {} /\ starts' # starts
          /\ UNCHANGED <<spec, disk>>
          /\ store' = NoResults \/ store' = disk.results
      BY <1>7, RestartBase
    <2>2. DataOK' /\ spec' \in Specs /\ DiskGrounded' /\ NoResults' = NoResults
      BY <2>1 DEF Base, QueueOK, Upper, DiskGrounded, NoResults
    <2>3. StartUpperOK'
      BY <2>1, <2>2 DEF StartUpperOK
    <2> QED BY <2>1, <2>3, StartUpperNext
  <1>8. CASE UNCHANGED vars
    <2>1. Moves
      BY <1>8 DEF vars, Moves, Base, DataOK, pauseVars
    <2>2. Told' = Told
      BY <1>8 DEF vars, queueVars, Told, Queued
    <2> QED BY <2>1, <2>2, MoveUpper DEF ResultsStay, GateOnly
  <1> QED BY <1>1, <1>2, <1>3, <1>4, <1>5, <1>6, <1>7, <1>8
          DEF Next, FillStep, NodeStep, QuietStep

-----------------------------------------------------------------------------
(***************************************************************************)
(* The whole invariant.  SoleKeys speaks of constants only, so it may be   *)
(* used at every step.                                                     *)
(***************************************************************************)
THEOREM InvariantHolds == Spec => []IInv
  <1>1. Init => IInv
    <2> SUFFICES ASSUME Init PROVE IInv
      OBVIOUS
    <2>1. Base /\ StartState /\ Told = {}
      BY InitBase
    <2>2. store = NoResults /\ disk.results = NoResults
      BY DEF Init
    <2>3. DiskGrounded
      BY <2>2 DEF DiskGrounded, NoResults, DoneResults
    <2>4. Upper
      BY <2>1, <2>2, <2>3, StartUpper DEF Base, QueueOK, StartUpperOK
    <2> QED BY <2>1, <2>4 DEF IInv
  <1>2. IInv /\ [Next]_vars => IInv'
    <2> SUFFICES ASSUME IInv, [Next]_vars PROVE IInv'
      OBVIOUS
    <2>1. Base'
      BY BaseNext DEF IInv
    <2>2. ASSUME SoleKeys PROVE Upper'
      BY <2>2, UpperNext DEF IInv
    <2>3. SoleKeys' <=> SoleKeys
      BY DEF SoleKeys
    <2> QED BY <2>1, <2>2, <2>3 DEF IInv
  <1> QED BY <1>1, <1>2, PTL DEF Spec

(***************************************************************************)
(* When no two reads share a cache key, and no other workflow the cache, a *)
(* node runs only when each of its dependencies has a result that          *)
(* satisfies its condition.                                                *)
(***************************************************************************)
THEOREM DependenciesFirst == ASSUME SoleKeys PROVE Spec => []DependenciesHonoured
  <1>1. IInv => DependenciesHonoured
    <2> SUFFICES ASSUME Base, Upper, NEW n \in Nodes, stage[n] \in Active,
                        NEW d \in spec.deps[n]
                 PROVE  /\ store[d] # "none"
                        /\ dependencySatisfied(spec.when[n][d], store[d])
      BY DEF IInv, DependenciesHonoured, Active
    <2>1. loop \notin Outcomes
      BY FlightFacts DEF Active, InFlight
    <2>2. d \in Nodes
      BY SpecFacts DEF Base, QueueOK
    <2>3. d \in finished /\ dependencySatisfied(spec.when[n][d], store[d])
      BY <2>1 DEF Upper, Grounded, Ready
    <2> QED BY <2>2, <2>3 DEF Upper, ResultsInStep
  <1> QED BY <1>1, InvariantHolds, PTL

(***************************************************************************)
(* Then the loop also finds nothing to launch and nothing running only     *)
(* after the promise of a node threw: by the order of the nodes the least  *)
(* one whose dependents were not told must have been launched.             *)
(***************************************************************************)
THEOREM NoDeadlock == ASSUME SoleKeys PROVE Spec => []DeadlockOnlyAfterError
  <1>1. IInv => DeadlockOnlyAfterError
    BY DEF IInv, Upper
  <1> QED BY <1>1, InvariantHolds, PTL

(***************************************************************************)
(* A run that reports done has a done result of every node, and the        *)
(* conditions on all dependencies hold of these results, however many      *)
(* crashes and restarts from a checkpoint the run is made of.              *)
(***************************************************************************)
THEOREM DoneIsComplete == ASSUME SoleKeys PROVE Spec => []DoneMeansComplete
  <1>1. IInv => DoneMeansComplete
    BY DEF IInv, Upper
  <1> QED BY <1>1, InvariantHolds, PTL

(***************************************************************************)
(* Within a run the result of a finished node does not change, except that *)
(* the gate rewrites a verification that ingested failures: a result is    *)
(* rewritten only while its node is in flight.                             *)
(***************************************************************************)
THEOREM FinalResults == ASSUME SoleKeys PROVE Spec => ResultsAreFinal
  <1>1. IInv /\ [Next]_vars =>
          [\A n \in finished :
             starts' = starts /\ store[n] # "doneFailing" => store'[n] = store[n]]_vars
    BY UpperNext DEF IInv, GateOnly
  <1> QED BY <1>1, InvariantHolds, PTL DEF Spec, ResultsAreFinal
=============================================================================

-------------------------- MODULE KernelLoopProofs --------------------------
(***************************************************************************)
(* TLAPS proofs about KernelLoop: for every round budget, request cap,     *)
(* retry limit, stall limit, debt and number of turns a rollover keeps.    *)
(***************************************************************************)
EXTENDS KernelLoop, FiniteSetTheorems, SequenceTheorems, TLAPS

(***************************************************************************)
(* The inductive invariant.                                                *)
(***************************************************************************)

\* The messages from which the history is read: between two rounds and until
\* the tools run.
Settled == {"between", "opening", "request"}

\* Every call of h has its result next, every result its call before it.
Closed(h) ==
  \A i \in 1 .. Len(h) :
    /\ h[i] = "use" => i < Len(h) /\ h[i + 1] = "result"
    /\ h[i] = "result" => i > 1 /\ h[i - 1] = "use"

\* The same, but the calls of the last message are being executed.
OpenAtEnd(h) ==
  /\ Len(h) > 0 /\ h[Len(h)] = "use"
  /\ \A i \in 1 .. Len(h) :
       /\ h[i] = "use" => i = Len(h) \/ h[i + 1] = "result"
       /\ h[i] = "result" => i > 1 /\ h[i - 1] = "use"

\* A round never starts on an assistant message.
EndsWithUser(h) == Len(h) > 0 /\ h[Len(h)] \in {"ask", "result"}

Chains ==
  /\ pc \in Settled => EndsWithUser(history) /\ (~marred => Closed(history))
  /\ pc = "tools" /\ ~marred => OpenAtEnd(history)
  /\ pc = "preparing" => history = <<"ask">>

\* The supervisor's counters follow what the rounds really did.
Accounted ==
  /\ idle \in Nat /\ truncated = ladder
  /\ streak < StallRounds /\ ladder < LadderLimit
  /\ idle <= streak + 1
  /\ ~judged => idle = 0 /\ streak = 0

InBudget == pc \in {"opening", "request", "tools"} => round < MaxRounds

HookOnce == pc # "stopped" => hooks = 0

\* What a run holds on its way: nothing, what buildRunContext made, or everything
\* once tools ran; and past buildRunContext the loop has the context.
Furnished ==
  /\ pc # "stopped" => ~threw /\ held \in {{}, {"shell", "sandbox"}, Resources}
  /\ pc # "stopped" /\ held = Resources => ctx
  /\ pc \in Settled \cup {"preparing", "tools"} => ctx
  /\ pc \in {"start", "building"} => held = {} /\ ~ctx
  /\ pc = "stopped" => WoundUp

ResourceType == held \subseteq Resources /\ ctx \in BOOLEAN /\ threw \in BOOLEAN

IInv ==
  /\ TypeOK
  /\ Chains
  /\ Accounted
  /\ InBudget
  /\ HookOnce
  /\ Furnished

(***************************************************************************)
(* Facts about indices.                                                    *)
(***************************************************************************)

\* A set of naturals has a least element.
LEMMA Least ==
  ASSUME NEW S \in SUBSET Nat, S # {}
  PROVE  \E m \in S : \A x \in S : m <= x
  <1> DEFINE R == OpToRel(<, Nat)
  <1>1. IsWellFoundedOn(R, Nat)
    BY NatLessThanWellFounded
  <1>2. \A x, y \in Nat : x < y => <<x, y>> \in R
    BY DEF OpToRel
  <1> HIDE DEF R
  <1>3. PICK m \in S : \A x \in S : ~(<<x, m>> \in R)
    BY <1>1, WFMin
  <1>4. ASSUME NEW x \in S PROVE m <= x
    <2>1. x \in Nat /\ m \in Nat /\ <<x, m>> \notin R
      BY <1>3
    <2>2. ~(x < m)
      BY <1>2, <2>1
    <2> QED BY <2>1, <2>2
  <1> QED BY <1>4

\* Of at least k of the indices 1 .. n one has exactly k from itself on.
LEMMA KthFromTheEnd ==
  ASSUME NEW n \in Nat, NEW T \in SUBSET (1 .. n), NEW k \in Nat \ {0}, Cardinality(T) >= k
  PROVE  \E i \in T : Cardinality({j \in T : j >= i}) = k
  <1> DEFINE After(i) == {j \in T : j >= i}
             S == {i \in T : Cardinality(After(i)) >= k}
             D == {n - i : i \in S}
  <1>1. IsFiniteSet(T)
    <2>1. IsFiniteSet(1 .. n)
      BY FS_Interval
    <2> QED BY <2>1, FS_Subset
  <1>2. Cardinality(T) \in Nat /\ T # {}
    BY <1>1, FS_CardinalityType, FS_EmptySet
  <1>3. PICK first \in T : \A j \in T : first <= j
    BY <1>2, Least
  <1>4. After(first) = T
    BY <1>3
  <1>5. D \in SUBSET Nat /\ D # {}
    <2>1. first \in S
      BY <1>4
    <2> HIDE DEF After
    <2> QED BY <2>1
  <1>6. PICK d \in D : \A x \in D : d <= x
    BY <1>5, Least
  <1>7. PICK i \in S : d = n - i
    BY <1>6
  <1>8. \A x \in S : x <= i
    <2> SUFFICES ASSUME NEW x \in S PROVE x <= i
      OBVIOUS
    <2>1. n - x \in D /\ x \in 1 .. n /\ i \in 1 .. n
      OBVIOUS
    <2>2. n - i <= n - x
      BY <1>6, <1>7, <2>1
    <2> QED BY <2>1, <2>2
  <1>9. IsFiniteSet(After(i)) /\ Cardinality(After(i)) \in Nat
    BY <1>1, FS_Subset, FS_CardinalityType
  <1>10. ASSUME Cardinality(After(i)) > k PROVE FALSE
    <2> DEFINE U == After(i) \ {i}
    <2>1. IsFiniteSet(U) /\ Cardinality(U) = Cardinality(After(i)) - 1
      <3>1. i \in After(i)
        BY <1>7
      <3> HIDE DEF After
      <3> QED BY <3>1, <1>9, FS_RemoveElement
    <2>2. U # {} /\ Cardinality(U) >= k
      BY <2>1, <1>9, <1>10, FS_EmptySet
    <2>3. PICK m \in U : \A x \in U : m <= x
      BY <2>2, Least
    <2>4. After(m) = U
      <3>1. m \in T /\ m > i /\ T \subseteq Int
        BY <2>3, <1>7
      <3>2. \A j \in T : j >= m <=> j >= i /\ j # i
        BY <2>3, <3>1
      <3> QED BY <3>2
    <2>5. m \in S /\ m > i
      BY <2>2, <2>3, <2>4, <1>7
    <2> QED BY <2>5, <1>7, <1>8
  <1>11. Cardinality(After(i)) = k
    BY <1>7, <1>9, <1>10
  <1> QED BY <1>11, <1>7

(***************************************************************************)
(* Facts about histories.                                                  *)
(***************************************************************************)

\* Closed pieces make a closed history, and its end is the end of the last.
LEMMA ConcatFacts ==
  ASSUME NEW h \in Seq(Kinds), NEW t \in Seq(Kinds)
  PROVE  /\ h \o t \in Seq(Kinds)
         /\ Closed(h) /\ Closed(t) => Closed(h \o t)
         /\ EndsWithUser(t) => EndsWithUser(h \o t)
         /\ t = <<>> => h \o t = h
  <1>1. /\ h \o t \in Seq(Kinds) /\ Len(h \o t) = Len(h) + Len(t)
        /\ Len(h) \in Nat /\ Len(t) \in Nat
        /\ \A i \in 1 .. Len(h) + Len(t) : (h \o t)[i] = IF i <= Len(h) THEN h[i] ELSE t[i - Len(h)]
    BY ConcatProperties, LenProperties
  <1>2. ASSUME Closed(h), Closed(t) PROVE Closed(h \o t)
    <2> SUFFICES ASSUME NEW i \in 1 .. Len(h) + Len(t)
                 PROVE  /\ (h \o t)[i] = "use" => i < Len(h) + Len(t) /\ (h \o t)[i + 1] = "result"
                        /\ (h \o t)[i] = "result" => i > 1 /\ (h \o t)[i - 1] = "use"
      BY <1>1 DEF Closed
    <2>1. CASE i <= Len(h)
      BY <1>1, <1>2, <2>1 DEF Closed
    <2>2. CASE i > Len(h)
      <3>1. i - Len(h) \in 1 .. Len(t) /\ (h \o t)[i] = t[i - Len(h)]
        BY <1>1, <2>2
      <3>2. t[i - Len(h)] = "use" =>
              i < Len(h) + Len(t) /\ (h \o t)[i + 1] = t[(i - Len(h)) + 1] /\ t[(i - Len(h)) + 1] = "result"
        BY <1>1, <1>2, <3>1 DEF Closed
      <3>3. t[i - Len(h)] = "result" =>
              i - Len(h) > 1 /\ (h \o t)[i - 1] = t[(i - Len(h)) - 1] /\ t[(i - Len(h)) - 1] = "use"
        BY <1>1, <1>2, <3>1 DEF Closed
      <3> QED BY <1>1, <3>1, <3>2, <3>3
    <2> QED BY <1>1, <2>1, <2>2
  <1>3. EndsWithUser(t) => EndsWithUser(h \o t)
    BY <1>1 DEF EndsWithUser
  <1>4. t = <<>> => h \o t = h
    BY ConcatEmptySeq
  <1> QED BY <1>1, <1>2, <1>3, <1>4

LEMMA OpenClosed ==
  ASSUME NEW h \in Seq(Kinds), OpenAtEnd(h)
  PROVE  Closed(h \o <<"result">>)
  <1> DEFINE g == h \o <<"result">>
  <1>1. /\ Len(h) \in Nat /\ Len(g) = Len(h) + 1
        /\ g[Len(h) + 1] = "result"
        /\ \A i \in 1 .. Len(h) : g[i] = h[i]
    <2>1. <<"result">> \in Seq(Kinds) /\ Len(<<"result">>) = 1
      BY DEF Kinds
    <2> QED BY <2>1, ConcatProperties, LenProperties
  <1> HIDE DEF g
  <1>2. Closed(g)
    <2> SUFFICES ASSUME NEW i \in 1 .. Len(h) + 1
                 PROVE  /\ g[i] = "use" => i < Len(h) + 1 /\ g[i + 1] = "result"
                        /\ g[i] = "result" => i > 1 /\ g[i - 1] = "use"
      BY <1>1 DEF Closed
    <2>1. CASE i = Len(h) + 1
      BY <1>1, <2>1 DEF OpenAtEnd
    <2>2. CASE i = Len(h)
      BY <1>1, <2>2 DEF OpenAtEnd
    <2>3. CASE i < Len(h)
      BY <1>1, <2>3 DEF OpenAtEnd
    <2> QED BY <1>1, <2>1, <2>2, <2>3
  <1> QED BY <1>2 DEF g

\* The calls of an answer follow a closed history.
LEMMA CallsOpen ==
  ASSUME NEW h \in Seq(Kinds), Closed(h)
  PROVE  OpenAtEnd(Append(h, "use"))
  <1>1. /\ Len(h) \in Nat /\ Len(Append(h, "use")) = Len(h) + 1
        /\ Append(h, "use")[Len(h) + 1] = "use"
        /\ \A i \in 1 .. Len(h) : Append(h, "use")[i] = h[i]
    BY LenProperties DEF Kinds
  <1> QED BY <1>1 DEF Closed, OpenAtEnd

\* The pieces a round may add.
LEMMA Pieces ==
  /\ <<>> \in Seq(Kinds) /\ Closed(<<>>)
  /\ <<"ask">> \in Seq(Kinds) /\ Closed(<<"ask">>) /\ EndsWithUser(<<"ask">>)
  /\ <<"say">> \in Seq(Kinds) /\ Closed(<<"say">>)
  /\ <<"say", "ask">> \in Seq(Kinds) /\ Closed(<<"say", "ask">>) /\ EndsWithUser(<<"say", "ask">>)
  /\ <<"result">> \in Seq(Kinds) /\ EndsWithUser(<<"result">>)
  /\ <<"ask", "result">> \in Seq(Kinds) /\ EndsWithUser(<<"ask", "result">>)
  <1>1. <<>> \in Seq(Kinds) /\ Closed(<<>>)
    BY DEF Closed
  <1>2. <<"ask">> \in Seq(Kinds) /\ Closed(<<"ask">>) /\ EndsWithUser(<<"ask">>)
    BY DEF Closed, EndsWithUser, Kinds
  <1>3. <<"say">> \in Seq(Kinds) /\ Closed(<<"say">>)
    BY DEF Closed, Kinds
  <1>4. <<"say", "ask">> \in Seq(Kinds) /\ Closed(<<"say", "ask">>) /\ EndsWithUser(<<"say", "ask">>)
    <2>1. <<"say", "ask">> \in Seq(Kinds) /\ Len(<<"say", "ask">>) = 2
      BY DEF Kinds
    <2>2. \A i \in 1 .. 2 : <<"say", "ask">>[i] \in {"say", "ask"}
      OBVIOUS
    <2> QED BY <2>1, <2>2 DEF Closed, EndsWithUser
  <1>5. <<"result">> \in Seq(Kinds) /\ EndsWithUser(<<"result">>)
    BY DEF EndsWithUser, Kinds
  <1>6. <<"ask", "result">> \in Seq(Kinds) /\ EndsWithUser(<<"ask", "result">>)
    BY DEF EndsWithUser, Kinds
  <1> QED BY <1>1, <1>2, <1>3, <1>4, <1>5, <1>6

(***************************************************************************)
(* A rollover keeps a tail that starts at an assistant turn, so it cuts    *)
(* between a call and its result only when there were too few turns.       *)
(***************************************************************************)
LEMMA TailFacts ==
  ASSUME NEW h \in Seq(Kinds), EndsWithUser(h)
  PROVE  /\ EpochTail(h) \in Seq(Kinds) /\ EndsWithUser(EpochTail(h))
         /\ Closed(h) /\ ~(Cardinality(Turns(h)) < KeepRecent /\ Head(EpochTail(h)) = "result")
              => Closed(EpochTail(h))
  <1> DEFINE n     == Len(h)
             start == CHOOSE i \in Turns(h) : Cardinality({j \in Turns(h) : j >= i}) = KeepRecent
             many  == Cardinality(Turns(h)) >= KeepRecent
             cut   == IF many THEN start ELSE n + 1
             kept  == n + 1 - cut
             from  == IF kept >= 2 THEN cut ELSE IF n > 2 THEN n - 1 ELSE 1
  <1>1. n \in Nat /\ n > 0 /\ h \in [1 .. n -> Kinds] /\ DOMAIN h = 1 .. n
    BY LenProperties DEF EndsWithUser
  <1>2. Turns(h) \in SUBSET (1 .. n) /\ \A i \in Turns(h) : i \in 1 .. n /\ h[i] \in {"say", "use"}
    BY <1>1 DEF Turns
  <1>3. IsFiniteSet(Turns(h)) /\ Cardinality(Turns(h)) \in Nat
    <2>1. IsFiniteSet(1 .. n)
      BY <1>1, FS_Interval
    <2> QED BY <1>2, <2>1, FS_Subset, FS_CardinalityType
  <1>4. many => start \in Turns(h)
    <2> SUFFICES ASSUME many PROVE start \in Turns(h)
      OBVIOUS
    <2>1. \E i \in Turns(h) : Cardinality({j \in Turns(h) : j >= i}) = KeepRecent
      <3>1. n \in Nat /\ Turns(h) \in SUBSET (1 .. n) /\ KeepRecent \in Nat \ {0}
            /\ Cardinality(Turns(h)) >= KeepRecent
        BY <1>1, <1>2, BoundsAssumption
      <3> HIDE DEF n
      <3> QED BY <3>1, KthFromTheEnd, Zenon
    <2> QED BY <2>1
  <1>5. many => start < n
    <2>1. h[n] \notin {"say", "use"}
      BY DEF EndsWithUser
    <2> HIDE DEF start
    <2> QED BY <1>1, <1>2, <1>4, <2>1
  <1>6. EpochTail(h) = SubSeq(h, from, n)
    BY DEF EpochTail
  <1> HIDE DEF start, many
  <1>7. /\ from \in 1 .. n
        /\ many => from = start
        /\ ~many => Cardinality(Turns(h)) < KeepRecent
    <2>1. ~many => Cardinality(Turns(h)) < KeepRecent
      BY <1>3, BoundsAssumption DEF many
    <2>2. CASE many
      BY <1>1, <1>2, <1>4, <1>5, <2>1, <2>2
    <2>3. CASE ~many
      BY <1>1, <2>1, <2>3
    <2> QED BY <2>2, <2>3
  <1> HIDE DEF from, n
  <1>8. /\ SubSeq(h, from, n) \in Seq(Kinds) /\ Len(SubSeq(h, from, n)) = n - from + 1
        /\ \A i \in 1 .. n - from + 1 : SubSeq(h, from, n)[i] = h[from + i - 1]
    <2>1. \A i \in from .. n : h[i] \in Kinds
      BY <1>1, <1>7
    <2>2. from \in Int /\ n \in Int /\ from <= n
      BY <1>1, <1>7
    <2> QED BY <2>1, <2>2, SubSeqProperties
  <1>9. Head(SubSeq(h, from, n)) = h[from]
    <2>1. n = Len(h)
      BY DEF n
    <2> QED BY <1>1, <1>7, <2>1, HeadTailOfSubSeq
  <1>10. EndsWithUser(SubSeq(h, from, n))
    <2>1. h[n] \in {"ask", "result"}
      BY DEF EndsWithUser, n
    <2> QED BY <1>1, <1>7, <1>8, <2>1 DEF EndsWithUser
  <1>11. ASSUME Closed(h), h[from] # "result" PROVE Closed(SubSeq(h, from, n))
    <2> SUFFICES ASSUME NEW i \in 1 .. n - from + 1
                 PROVE  /\ SubSeq(h, from, n)[i] = "use"
                             => i < n - from + 1 /\ SubSeq(h, from, n)[i + 1] = "result"
                        /\ SubSeq(h, from, n)[i] = "result"
                             => i > 1 /\ SubSeq(h, from, n)[i - 1] = "use"
      BY <1>8 DEF Closed
    <2>1. from + i - 1 \in 1 .. n /\ SubSeq(h, from, n)[i] = h[from + i - 1]
      BY <1>1, <1>7, <1>8
    <2>2. /\ h[from + i - 1] = "use" => from + i - 1 < n /\ h[(from + i - 1) + 1] = "result"
          /\ h[from + i - 1] = "result" => h[(from + i - 1) - 1] = "use"
      BY <1>11, <2>1 DEF Closed, n
    <2>3. h[from + i - 1] = "use" => i < n - from + 1 /\ SubSeq(h, from, n)[i + 1] = "result"
      <3> SUFFICES ASSUME h[from + i - 1] = "use"
                   PROVE  i < n - from + 1 /\ SubSeq(h, from, n)[i + 1] = "result"
        OBVIOUS
      <3>1. i + 1 \in 1 .. n - from + 1 /\ from + (i + 1) - 1 = (from + i - 1) + 1
        BY <1>1, <1>7, <2>2
      <3> QED BY <1>1, <1>7, <1>8, <2>2, <3>1
    <2>4. h[from + i - 1] = "result" => i > 1 /\ SubSeq(h, from, n)[i - 1] = "use"
      <3> SUFFICES ASSUME h[from + i - 1] = "result"
                   PROVE  i > 1 /\ SubSeq(h, from, n)[i - 1] = "use"
        OBVIOUS
      <3>1. i # 1
        BY <1>11, <1>7
      <3>2. i - 1 \in 1 .. n - from + 1 /\ from + (i - 1) - 1 = (from + i - 1) - 1
        BY <1>1, <1>7, <3>1
      <3> QED BY <1>8, <2>2, <3>2
    <2> QED BY <2>1, <2>3, <2>4
  <1>12. many => h[from] # "result"
    BY <1>2, <1>4, <1>7
  <1> QED BY <1>6, <1>7, <1>8, <1>9, <1>10, <1>11, <1>12

(***************************************************************************)
(* Steps.                                                                  *)
(***************************************************************************)
\* The resources by name.
LEMMA ResourceNames == Resources = {"ripple", "patch", "shell", "sandbox"}
  BY DEF Resources, CleanupOrder

StopReasons == {"aborted", "completed", "paused", "stalled", "error", "blocked"}

\* The rounds are over: nothing of them is left to be wrong.
LEMMA OverStep ==
  ASSUME IInv, pc # "stopped", pc' \in {"exit", "finally"}, RoundsOver,
         decision' \in Reasons, stop' \in StopReasons,
         repaired' \in BOOLEAN, marred' \in BOOLEAN, ResourceType', Furnished',
         UNCHANGED <<aborted, hooks, physical, transport>>
  PROVE  IInv'
  <1>1. TypeOK'
    <2>1. /\ judged' \in BOOLEAN /\ owed' \in BOOLEAN /\ aborted' \in BOOLEAN
      BY Zenon DEF IInv, TypeOK, RoundsOver
    <2> QED BY <2>1, BoundsAssumption
            DEF IInv, TypeOK, RoundsOver, Phases, StopReasons, ResourceType
  <1>2. Chains' /\ InBudget'
    BY DEF Chains, Settled, InBudget
  <1>3. Accounted'
    BY BoundsAssumption DEF Accounted, RoundsOver
  <1>4. HookOnce'
    BY DEF IInv, HookOnce
  <1> QED BY <1>1, <1>2, <1>3, <1>4 DEF IInv

\* A step that keeps the resources, on the way to the end.
LEMMA FurnishedKept ==
  ASSUME IInv, pc # "stopped", UNCHANGED resources,
         \/ pc' \in {"exit", "finally"} \/ pc' = pc
         \/ pc' \in Settled \cup {"preparing", "tools"} /\ ctx
  PROVE  ResourceType' /\ Furnished'
  <1>1. ResourceType'
    BY Zenon DEF IInv, TypeOK, ResourceType, resources
  <1> QED BY <1>1 DEF IInv, Furnished, Settled, resources

LEMMA LeaveStep ==
  ASSUME IInv, pc # "stopped", NEW reason \in Reasons, Leave(reason),
         repaired' \in BOOLEAN, UNCHANGED <<marred, physical, transport>>
  PROVE  IInv'
  <1>1. /\ pc' = "exit" /\ RoundsOver /\ decision' = reason
        /\ UNCHANGED <<aborted, stop, resources, hooks>>
    BY DEF Leave
  <1>2. stop' \in StopReasons /\ marred' \in BOOLEAN
    BY <1>1 DEF IInv, TypeOK, StopReasons
  <1> QED BY <1>1, <1>2, FurnishedKept, OverStep

\* The actions that do nothing but end the rounds.
LEMMA LeavingSteps ==
  ASSUME IInv,
         \/ RoundBudget \/ ContextBudget \/ RequestNotIssued \/ ProviderFails \/ AbortSeen
         \/ OrchestratorEnds \/ EmptyRound \/ ToolBatchAborted \/ ToolsEnd
  PROVE  IInv'
  <1>1. PICK reason \in Reasons : Leave(reason)
    BY DEF RoundBudget, ContextBudget, RequestNotIssued, ProviderFails, AbortSeen,
           OrchestratorEnds, EmptyRound, ToolBatchAborted, ToolsEnd, Reasons
  <1>2. pc # "stopped" /\ UNCHANGED <<marred, authority>>
    BY DEF RoundBudget, ContextBudget, RequestNotIssued, ProviderFails, AbortSeen,
           OrchestratorEnds, EmptyRound, ToolBatchAborted, ToolsEnd
  <1>3. repaired' \in BOOLEAN /\ UNCHANGED <<marred, physical, transport>>
    BY <1>2 DEF authority, IInv, TypeOK
  <1> QED BY <1>1, <1>2, <1>3, LeaveStep

LEMMA ThrowCloseStep ==
  ASSUME IInv, Throw \/ Close
  PROVE  IInv'
  <1>1. /\ pc # "stopped" /\ pc' = "finally" /\ RoundsOver
        /\ UNCHANGED <<aborted, marred, authority, decision, resources, hooks>>
        /\ stop' \in {"error", stop}
    BY DEF Throw, Close, lifecycle
  <1>2. /\ repaired' \in BOOLEAN /\ marred' \in BOOLEAN /\ decision' \in Reasons /\ stop' \in StopReasons
        /\ UNCHANGED <<aborted, hooks, physical, transport>>
    BY <1>1 DEF authority, IInv, TypeOK, StopReasons
  <1> QED BY <1>1, <1>2, FurnishedKept, OverStep

\* A step that leaves the supervisor's counters alone keeps their meaning.
LEMMA AccountedKept ==
  ASSUME IInv, UNCHANGED <<supervision, observed>>
  PROVE  Accounted'
  BY DEF IInv, Accounted, supervision, observed

(***************************************************************************)
(* Another round: the supervisor counts what the ghosts count.             *)
(***************************************************************************)
LEMMA CommitmentFacts ==
  ASSUME TypeOK, NEW tools \in BOOLEAN, NEW promises \in BOOLEAN, NEW pays \in BOOLEAN
  PROVE  /\ Commitment(tools, promises, pays).owed \in BOOLEAN
         /\ Commitment(tools, promises, pays).debt \in 0 .. DebtCap + 1
  BY BoundsAssumption DEF TypeOK, Commitment

LEMMA SuperviseStep ==
  ASSUME IInv, pc \in {"request", "tools"},
         NEW messages \in Seq(Kinds), EndsWithUser(messages), ~marred' => Closed(messages),
         NEW tools \in BOOLEAN, NEW cut \in BOOLEAN, NEW effective \in BOOLEAN,
         NEW promises \in BOOLEAN, NEW pays \in BOOLEAN,
         superviseNextRound(messages, tools, cut, effective, promises, pays),
         repaired' \in BOOLEAN, marred' \in BOOLEAN, UNCHANGED <<physical, transport>>
  PROVE  IInv'
  <1> DEFINE commitment == Commitment(tools, promises, pays)
             s == IF ~judged THEN streak ELSE IF effective THEN 0 ELSE streak + 1
             l == IF effective \/ ~cut THEN 0 ELSE ladder + 1
             verdict == Verdict(commitment, effective, s, l)
  <1>1. CASE /\ verdict = "stalled"
             /\ pc' = "exit" /\ decision' = "progress_stalled" /\ stop' = "stalled"
             /\ RoundsOver
             /\ UNCHANGED <<aborted, resources, hooks>>
    BY <1>1, FurnishedKept, OverStep DEF Reasons, StopReasons
  <1>2. CASE /\ verdict # "stalled"
             /\ judged' = TRUE /\ streak' = s /\ ladder' = l
             /\ owed' = commitment.owed /\ debt' = commitment.debt
             /\ history' = messages \o (IF verdict = "prompt" THEN <<"ask">> ELSE <<>>)
             /\ GoesOn(cut, effective)
    <2>1. s \in Nat /\ l \in Nat /\ s < StallRounds /\ l < LadderLimit
      BY <1>2, BoundsAssumption DEF Verdict, IInv, TypeOK
    <2>2. commitment.owed \in BOOLEAN /\ commitment.debt \in 0 .. DebtCap + 1
      BY CommitmentFacts DEF IInv
    <2>3. /\ history' \in Seq(Kinds) /\ EndsWithUser(history') /\ (~marred' => Closed(history'))
      <3>1. CASE verdict = "prompt"
        BY <1>2, <3>1, Pieces, ConcatFacts
      <3>2. CASE verdict # "prompt"
        BY <1>2, <3>2, Pieces, ConcatFacts
      <3> QED BY <3>1, <3>2
    <2>4. /\ pc' = "between" /\ round' = round + 1
          /\ idle' = (IF effective THEN 0 ELSE idle + 1)
          /\ truncated' = (IF cut /\ ~effective THEN truncated + 1 ELSE 0)
          /\ UNCHANGED <<aborted, lifecycle>>
      BY <1>2 DEF GoesOn
    <2>5. round' \in 0 .. MaxRounds
      BY <2>4, BoundsAssumption DEF IInv, TypeOK, InBudget
    <2>6. Accounted'
      <3>1. idle' \in Nat /\ truncated' = l
        BY <2>4 DEF IInv, Accounted
      <3>2. idle' <= s + 1
        BY <2>4, <2>1 DEF IInv, Accounted
      <3> QED BY <1>2, <2>1, <3>1, <3>2 DEF Accounted
    <2> HIDE DEF commitment, s, l, verdict
    <2>7. TypeOK'
      <3>1. streak' \in 0 .. StallRounds /\ ladder' \in 0 .. LadderLimit
        BY <1>2, <2>1, BoundsAssumption
      <3>2. /\ judged' \in BOOLEAN /\ owed' \in BOOLEAN /\ aborted' \in BOOLEAN
        BY <1>2, <2>2, <2>4, Zenon DEF IInv, TypeOK, lifecycle
      <3>4. ResourceType'
        BY <2>4, FurnishedKept DEF lifecycle, IInv, Furnished, Settled
      <3>3. debt' \in 0 .. DebtCap + 1 /\ pc' \in Phases
        BY <1>2, <2>2, <2>4 DEF Phases
      <3> QED BY <2>3, <2>4, <2>5, <3>1, <3>2, <3>3, <3>4 DEF IInv, TypeOK, lifecycle, ResourceType
    <2>8. Chains' /\ InBudget' /\ HookOnce'
      BY <2>3, <2>4 DEF Chains, Settled, InBudget, HookOnce, IInv, lifecycle
    <2>9. Furnished'
      BY <2>4, FurnishedKept DEF lifecycle, IInv, Furnished, Settled
    <2> QED BY <2>6, <2>7, <2>8, <2>9 DEF IInv
  <1> QED BY <1>1, <1>2 DEF superviseNextRound

\* The answers that ask for another round without tools.
LEMMA ContinueSteps ==
  ASSUME IInv, ToolProtocolError \/ OrchestratorContinues \/ TruncatedRound
  PROVE  IInv'
  <1>1. /\ pc = "request" /\ history \in Seq(Kinds) /\ marred \in BOOLEAN
        /\ UNCHANGED <<marred, physical, transport>>
        /\ repaired' \in BOOLEAN
    BY DEF ToolProtocolError, OrchestratorContinues, TruncatedRound, authority, IInv, TypeOK
  <1>2. ~marred => Closed(history)
    BY <1>1 DEF IInv, Chains, Settled
  <1>3. CASE ToolProtocolError
    <2>1. CASE Leave("provider_failure")
      BY <1>1, <2>1, LeaveStep DEF Reasons
    <2>2. CASE \E effective, promises \in BOOLEAN :
                 superviseNextRound(Append(history, "ask"), FALSE, FALSE, effective, promises, FALSE)
      <3>1. PICK effective, promises \in BOOLEAN :
              superviseNextRound(Append(history, "ask"), FALSE, FALSE, effective, promises, FALSE)
        BY <2>2
      <3>2. Append(history, "ask") = history \o <<"ask">>
        BY <1>1, AppendIsConcat DEF Kinds
      <3>3. /\ Append(history, "ask") \in Seq(Kinds) /\ EndsWithUser(Append(history, "ask"))
            /\ ~marred => Closed(Append(history, "ask"))
        BY <1>1, <1>2, <3>2, Pieces, ConcatFacts
      <3> QED BY <1>1, <3>1, <3>3, SuperviseStep
    <2> QED BY <1>3, <2>1, <2>2 DEF ToolProtocolError
  <1>4. CASE OrchestratorContinues
    <2>1. PICK injected \in {<<"ask">>, <<"say", "ask">>}, effective, promises \in BOOLEAN :
            superviseNextRound(history \o injected, FALSE, FALSE, effective, promises, FALSE)
      BY <1>4 DEF OrchestratorContinues
    <2>2. /\ history \o injected \in Seq(Kinds) /\ EndsWithUser(history \o injected)
          /\ ~marred => Closed(history \o injected)
      BY <1>1, <1>2, Pieces, ConcatFacts
    <2> QED BY <1>1, <2>1, <2>2, SuperviseStep
  <1>5. CASE TruncatedRound
    <2>1. PICK said \in {<<>>, <<"say">>}, tail \in TailPrompts, cut, effective, promises \in BOOLEAN :
            superviseNextRound(history \o said \o <<"ask">> \o tail, FALSE, cut, effective, promises, FALSE)
      BY <1>5 DEF TruncatedRound
    <2>2. history \o said \in Seq(Kinds) /\ (~marred => Closed(history \o said))
      BY <1>1, <1>2, Pieces, ConcatFacts
    <2> DEFINE asked == history \o said \o <<"ask">>
    <2>3. asked \in Seq(Kinds) /\ EndsWithUser(asked) /\ (~marred => Closed(asked))
      BY <2>2, Pieces, ConcatFacts
    <2> HIDE DEF asked
    <2>4. asked \o tail \in Seq(Kinds) /\ EndsWithUser(asked \o tail) /\ (~marred => Closed(asked \o tail))
      BY <2>3, Pieces, ConcatFacts DEF TailPrompts
    <2>5. superviseNextRound(asked \o tail, FALSE, cut, effective, promises, FALSE)
      BY <2>1 DEF asked
    <2> QED BY <1>1, <2>4, <2>5, SuperviseStep
  <1> QED BY <1>3, <1>4, <1>5

\* The results of the tools close the chain before the next round.
LEMMA ToolSteps ==
  ASSUME IInv, ToolsDone \/ NarrowEditBlocked
  PROVE  IInv'
  <1>1. /\ pc = "tools" /\ history \in Seq(Kinds)
        /\ UNCHANGED <<physical, transport>>
        /\ repaired' \in BOOLEAN /\ marred' \in BOOLEAN
    BY DEF ToolsDone, NarrowEditBlocked, authority, IInv, TypeOK
  <1>2. CASE ToolsDone
    <2>1. PICK tail \in TailPrompts, effective, pays \in BOOLEAN :
            superviseNextRound(history \o <<"result">> \o tail, TRUE, FALSE, effective, FALSE, pays)
      BY <1>2 DEF ToolsDone
    <2>2. marred' = marred
      BY <1>2 DEF ToolsDone
    <2> DEFINE closed == history \o <<"result">>
    <2>3. closed \in Seq(Kinds) /\ EndsWithUser(closed)
      BY <1>1, Pieces, ConcatFacts
    <2>4. ~marred => Closed(closed)
      BY <1>1, OpenClosed DEF IInv, Chains
    <2>5. superviseNextRound(closed \o tail, TRUE, FALSE, effective, FALSE, pays)
      BY <2>1
    <2> HIDE DEF closed
    <2>6. closed \o tail \in Seq(Kinds) /\ EndsWithUser(closed \o tail) /\ (~marred' => Closed(closed \o tail))
      BY <2>2, <2>3, <2>4, Pieces, ConcatFacts DEF TailPrompts
    <2> QED BY <1>1, <2>5, <2>6, SuperviseStep
  <1>3. CASE NarrowEditBlocked
    <2>1. PICK tail \in TailPrompts, effective, pays \in BOOLEAN :
            superviseNextRound(history \o <<"ask", "result">> \o tail, TRUE, FALSE, effective, FALSE, pays)
      BY <1>3 DEF NarrowEditBlocked
    <2>2. marred'
      BY <1>3 DEF NarrowEditBlocked
    <2> DEFINE closed == history \o <<"ask", "result">>
    <2>3. closed \in Seq(Kinds) /\ EndsWithUser(closed)
      BY <1>1, Pieces, ConcatFacts
    <2>4. superviseNextRound(closed \o tail, TRUE, FALSE, effective, FALSE, pays)
      BY <2>1
    <2> HIDE DEF closed
    <2>5. closed \o tail \in Seq(Kinds) /\ EndsWithUser(closed \o tail)
      BY <2>3, Pieces, ConcatFacts DEF TailPrompts
    <2> QED BY <1>1, <2>2, <2>4, <2>5, SuperviseStep
  <1> QED BY <1>2, <1>3

(***************************************************************************)
(* The way into a round.                                                   *)
(***************************************************************************)
LEMMA BeforeRounds ==
  ASSUME IInv, AbortAtStart \/ StartRun \/ BuildContext \/ BuildThrows \/ PrepareRun
  PROVE  IInv'
  <1>1. CASE AbortAtStart \/ StartRun
    <2>1. /\ pc = "start" /\ pc' \in {"stopped", "building"} /\ hooks' \in 0 .. 1
          /\ pc' = "building" => hooks' = hooks
          /\ pc' = "stopped" => hooks' = 1
          /\ UNCHANGED <<round, aborted, conversation, authority, supervision, decision, stop, resources, observed>>
      BY <1>1 DEF AbortAtStart, StartRun, lifecycle, IInv, HookOnce
    <2>2. TypeOK'
      BY <2>1 DEF IInv, TypeOK, conversation, authority, supervision, resources, Phases
    <2>3. Accounted'
      BY <2>1, AccountedKept
    <2>4. Furnished'
      BY <2>1 DEF IInv, Furnished, Settled, WoundUp, resources
    <2> QED BY <2>1, <2>2, <2>3, <2>4 DEF IInv, Chains, Settled, InBudget, HookOnce
  <1>2. CASE BuildContext
    <2>1. CASE Leave("prompt_blocked") /\ UNCHANGED <<marred, authority>>
      <3>1. pc # "stopped" /\ repaired' \in BOOLEAN /\ UNCHANGED <<marred, physical, transport>>
        BY <1>2, <2>1 DEF BuildContext, authority, IInv, TypeOK
      <3> QED BY <2>1, <3>1, LeaveStep DEF Reasons
    <2>2. CASE /\ pc' = "preparing" /\ history' = <<"ask">>
               /\ held' = {"shell", "sandbox"} /\ ctx' = TRUE
               /\ UNCHANGED <<round, aborted, marred, authority, supervision, decision, stop, threw, hooks, observed>>
      <3>1. TypeOK'
        BY <2>2, Pieces, ResourceNames DEF IInv, TypeOK, authority, supervision, Phases
      <3>2. Accounted'
        BY <2>2, AccountedKept
      <3>3. Furnished'
        BY <1>2, <2>2, ResourceNames DEF BuildContext, IInv, Furnished, Settled
      <3> QED BY <1>2, <2>2, <3>1, <3>2, <3>3 DEF BuildContext, IInv, Chains, Settled, InBudget, HookOnce
    <2> QED BY <1>2, <2>1, <2>2 DEF BuildContext
  <1>4. CASE BuildThrows
    <2>1. /\ pc = "building" /\ pc' = "finally" /\ RoundsOver /\ stop' = "error"
          /\ held' = {"shell", "sandbox"}
          /\ UNCHANGED <<aborted, marred, authority, decision, ctx, threw, hooks>>
      BY <1>4 DEF BuildThrows
    <2>2. /\ repaired' \in BOOLEAN /\ marred' \in BOOLEAN /\ decision' \in Reasons /\ stop' \in StopReasons
          /\ UNCHANGED <<aborted, hooks, physical, transport>>
      BY <2>1 DEF authority, IInv, TypeOK, StopReasons
    <2>3. ResourceType'
      <3>1. ctx' \in BOOLEAN /\ threw' \in BOOLEAN
        BY <2>1, Zenon DEF IInv, TypeOK
      <3> QED BY <2>1, <3>1, ResourceNames DEF ResourceType
    <2>4. Furnished'
      BY <2>1, ResourceNames DEF IInv, Furnished, Settled
    <2> QED BY <2>1, <2>2, <2>3, <2>4, OverStep
  <1>3. CASE PrepareRun
    <2>1. CASE Leave("clarification") /\ UNCHANGED <<marred, authority>>
      <3>1. pc # "stopped" /\ repaired' \in BOOLEAN /\ UNCHANGED <<marred, physical, transport>>
        BY <1>3, <2>1 DEF PrepareRun, authority, IInv, TypeOK
      <3> QED BY <2>1, <3>1, LeaveStep DEF Reasons
    <2>2. CASE /\ pc' = "between"
               /\ UNCHANGED <<round, aborted, conversation, authority, supervision, lifecycle, observed>>
      <3>1. TypeOK'
        BY <2>2 DEF IInv, TypeOK, conversation, authority, supervision, lifecycle, resources, Phases
      <3>2. Accounted'
        BY <2>2, AccountedKept
      <3>3. Chains'
        BY <1>3, <2>2, Pieces DEF PrepareRun, IInv, Chains, Settled, conversation
      <3>4. Furnished'
        BY <1>3, <2>2, FurnishedKept DEF PrepareRun, IInv, Furnished, Settled, lifecycle
      <3> QED BY <1>3, <2>2, <3>1, <3>2, <3>3, <3>4 DEF PrepareRun, IInv, InBudget, HookOnce, lifecycle
    <2> QED BY <1>3, <2>1, <2>2 DEF PrepareRun
  <1> QED BY <1>1, <1>2, <1>3, <1>4

LEMMA RoundStarts ==
  ASSUME IInv, StartRound \/ EpochRollover
  PROVE  IInv'
  <1>1. /\ pc = "between" /\ round < MaxRounds /\ pc' = "opening"
        /\ UNCHANGED <<round, aborted, authority, supervision, lifecycle, observed>>
        /\ history \in Seq(Kinds) /\ EndsWithUser(history) /\ (~marred => Closed(history))
    BY DEF StartRound, EpochRollover, IInv, TypeOK, Chains, Settled
  <1>2. /\ history' \in Seq(Kinds) /\ EndsWithUser(history') /\ (~marred' => Closed(history'))
        /\ marred' \in BOOLEAN
    <2>1. CASE StartRound
      BY <1>1, <2>1 DEF StartRound, conversation, IInv, TypeOK
    <2>2. CASE EpochRollover
      <3> DEFINE cutsChain == Cardinality(Turns(history)) < KeepRecent /\ Head(EpochTail(history)) = "result"
      <3>1. history' = <<"ask">> \o EpochTail(history) /\ marred' = (marred \/ cutsChain)
        BY <2>2 DEF EpochRollover
      <3>2. /\ EpochTail(history) \in Seq(Kinds) /\ EndsWithUser(EpochTail(history))
            /\ Closed(history) /\ ~cutsChain => Closed(EpochTail(history))
        BY <1>1, TailFacts
      <3> HIDE DEF cutsChain
      <3>3. ~marred' => Closed(EpochTail(history))
        BY <1>1, <3>1, <3>2
      <3>4. history' \in Seq(Kinds) /\ EndsWithUser(history') /\ (~marred' => Closed(history'))
        BY <3>1, <3>2, <3>3, Pieces, ConcatFacts
      <3> QED BY <3>1, <3>4
    <2> QED BY <2>1, <2>2
  <1>3. TypeOK'
    BY <1>1, <1>2 DEF IInv, TypeOK, authority, supervision, lifecycle, resources, Phases
  <1>4. Accounted'
    BY <1>1, AccountedKept
  <1>5. Furnished'
    BY <1>1, FurnishedKept DEF IInv, Furnished, Settled, lifecycle
  <1> QED BY <1>1, <1>2, <1>3, <1>4, <1>5 DEF IInv, Chains, Settled, InBudget, HookOnce, lifecycle

\* Requests, retries and side requests stay within the cap.
LEMMA RequestSteps ==
  ASSUME IInv, IssueRequest \/ RetryRequest \/ SideRequest
  PROVE  IInv'
  <1>1. /\ physical < MaxPhysical /\ physical' = physical + 1
        /\ transport' = transport \/ (transport < TransportLimit /\ transport' = transport + 1)
        /\ \/ pc = "opening" /\ pc' = "request"
           \/ pc # "stopped" /\ pc' = pc
        /\ UNCHANGED <<round, aborted, conversation, repaired, supervision, lifecycle, observed>>
    BY DEF IssueRequest, RetryRequest, SideRequest, canRetry
  <1>2. physical' \in 0 .. MaxPhysical /\ transport' \in 0 .. TransportLimit
    BY <1>1, BoundsAssumption DEF IInv, TypeOK
  <1>3. TypeOK'
    BY <1>1, <1>2 DEF IInv, TypeOK, conversation, supervision, lifecycle, resources, Phases
  <1>4. Accounted'
    BY <1>1, AccountedKept
  <1>5. Furnished'
    BY <1>1, FurnishedKept DEF IInv, Furnished, Settled, lifecycle
  <1> QED BY <1>1, <1>3, <1>4, <1>5 DEF IInv, Chains, Settled, InBudget, HookOnce, lifecycle, conversation

LEMMA ToolCallsStep ==
  ASSUME IInv, ToolCalls
  PROVE  IInv'
  <1>1. /\ pc = "request" /\ pc' = "tools" /\ history' = Append(history, "use")
        /\ held' = Resources
        /\ UNCHANGED <<round, aborted, marred, authority, supervision, decision, stop, ctx, threw, hooks, observed>>
    BY DEF ToolCalls
  <1>2. history \in Seq(Kinds) /\ history' \in Seq(Kinds)
    BY <1>1 DEF IInv, TypeOK, Kinds
  <1>3. TypeOK'
    BY <1>1, <1>2 DEF IInv, TypeOK, authority, supervision, Phases
  <1>4. ~marred' => OpenAtEnd(history')
    BY <1>1, <1>2, CallsOpen DEF IInv, Chains, Settled
  <1>5. Accounted'
    BY <1>1, AccountedKept
  <1>6. Furnished'
    BY <1>1, ResourceNames DEF IInv, Furnished, Settled
  <1> QED BY <1>1, <1>3, <1>4, <1>5, <1>6 DEF IInv, Chains, Settled, InBudget, HookOnce

(***************************************************************************)
(* The end of the run.                                                     *)
(***************************************************************************)
LEMMA FinalizeStep ==
  ASSUME IInv, Finalize
  PROVE  IInv'
  <1>1. /\ pc = "exit" /\ pc' = "finally" /\ stop' \in StopReasons
        /\ UNCHANGED <<round, aborted, conversation, authority, supervision, decision,
                       resources, hooks, observed>>
    BY DEF Finalize, StopReason, StopReasons
  <1>2. TypeOK'
    BY <1>1 DEF IInv, TypeOK, conversation, authority, supervision, resources, Phases,
                StopReasons
  <1>3. Accounted'
    BY <1>1, AccountedKept
  <1>4. Furnished'
    BY <1>1, FurnishedKept
  <1> QED BY <1>1, <1>2, <1>3, <1>4 DEF IInv, Chains, Settled, InBudget, HookOnce

\* The clean-up gives back a prefix of its order: all of it unless a release threw.
LEMMA StopRunStep ==
  ASSUME IInv, StopRun
  PROVE  IInv'
  <1>1. PICK n \in 0 .. Len(CleanupOrder) :
          held' = held \ Released(n) /\ threw' = (n < Len(CleanupOrder))
    BY DEF StopRun
  <1>2. /\ pc = "finally" /\ pc' = "stopped" /\ hooks' = 1
        /\ UNCHANGED <<round, aborted, conversation, authority, supervision, decision,
                       stop, ctx, observed>>
    BY DEF StopRun, IInv, HookOnce
  <1>3. Len(CleanupOrder) = 4
    BY DEF CleanupOrder
  <1>4. /\ n = 4 => Released(n) = IF ctx THEN Resources ELSE Resources \ {"sandbox"}
        /\ "sandbox" \in Released(n) => "shell" \in Released(n)
    <2>1. \A m \in 0 .. 4 : "sandbox" \in {CleanupOrder[i] : i \in 1 .. m} => m = 4
      BY DEF CleanupOrder
    <2>2. {CleanupOrder[i] : i \in 1 .. 4} = Resources /\ "shell" \in Resources
      BY DEF CleanupOrder, Resources
    <2> QED BY <1>1, <1>3, <2>1, <2>2 DEF Released
  <1>5. held \in {{}, {"shell", "sandbox"}, Resources} /\ (held = Resources => ctx)
    BY <1>2 DEF IInv, Furnished
  <1>6. WoundUp'
    <2>1. "shell" \in held' => "sandbox" \in held'
      BY <1>1, <1>4, <1>5, ResourceNames
    <2>4. ~(n < Len(CleanupOrder)) => n = 4
      BY <1>3
    <2>2. ~threw' => n = 4
      BY <1>1, <2>4, Zenon
    <2>3. n = 4 => held' = {} \/ (held' = {"sandbox"} /\ ~ctx')
      BY <1>1, <1>2, <1>4, <1>5, ResourceNames
    <2> QED BY <1>2, <2>1, <2>2, <2>3 DEF WoundUp
  <1>7. TypeOK'
    <2>1. threw' \in BOOLEAN
      <3>1. (n < Len(CleanupOrder)) \in BOOLEAN
        BY <1>3
      <3> QED BY <1>1, <3>1, Zenon
    <2>2. held' \subseteq Resources
      BY <1>1 DEF IInv, TypeOK
    <2>3. ctx' \in BOOLEAN
      BY <1>2, Zenon DEF IInv, TypeOK
    <2> QED BY <1>2, <2>1, <2>2, <2>3
            DEF IInv, TypeOK, conversation, authority, supervision, Phases
  <1>8. Accounted'
    BY <1>2, AccountedKept
  <1>9. Furnished'
    BY <1>2, <1>6 DEF Furnished, Settled
  <1> QED BY <1>2, <1>7, <1>8, <1>9 DEF IInv, Chains, Settled, InBudget, HookOnce

LEMMA AbortStep ==
  ASSUME IInv, Abort \/ UNCHANGED vars
  PROVE  IInv'
  <1>1. /\ aborted' \in BOOLEAN
        /\ UNCHANGED <<pc, round, conversation, authority, supervision, lifecycle, observed>>
    BY DEF Abort, vars, IInv, TypeOK
  <1>2. TypeOK'
    BY <1>1 DEF IInv, TypeOK, conversation, authority, supervision, lifecycle, resources
  <1>3. Accounted'
    BY <1>1, AccountedKept
  <1>4. Furnished'
    BY <1>1 DEF IInv, Furnished, WoundUp, lifecycle, resources
  <1> QED BY <1>1, <1>2, <1>3, <1>4 DEF IInv, Chains, Settled, InBudget, HookOnce, lifecycle, conversation

(***************************************************************************)
(* The invariant.                                                          *)
(***************************************************************************)
LEMMA InitInv ==
  ASSUME Init
  PROVE  IInv
  <1>1. TypeOK
    <2>1. /\ repaired \in BOOLEAN /\ judged \in BOOLEAN /\ owed \in BOOLEAN
          /\ aborted \in BOOLEAN /\ ctx \in BOOLEAN /\ threw \in BOOLEAN /\ marred \in BOOLEAN
      BY Zenon DEF Init
    <2> QED BY <2>1, BoundsAssumption, Pieces DEF Init, TypeOK, Phases, Reasons
  <1>2. Accounted
    BY BoundsAssumption DEF Init, Accounted
  <1>3. Furnished
    <2>1. ~threw /\ ~ctx
      BY Zenon DEF Init
    <2> QED BY <2>1, ResourceNames DEF Init, Furnished, Settled
  <1> QED BY <1>1, <1>2, <1>3 DEF Init, IInv, Chains, Settled, InBudget, HookOnce

LEMMA NextInv ==
  ASSUME IInv, [Next]_vars
  PROVE  IInv'
  <1>1. CASE Step
    BY <1>1, BeforeRounds, LeavingSteps, RoundStarts, RequestSteps, ContinueSteps, ToolCallsStep,
       ToolSteps, FinalizeStep, StopRunStep, Zenon DEF Step
  <1> QED BY <1>1, BeforeRounds, RequestSteps, ThrowCloseStep, AbortStep, Zenon DEF Next

LEMMA Invariant == Spec => []IInv
  BY InitInv, NextInv, PTL DEF Spec

(***************************************************************************)
(* The state of a run is well formed, and no budget of the request         *)
(* authority (coordinator.ts) or of the supervisor is overdrawn.           *)
(***************************************************************************)
THEOREM TypeCorrect == Spec => []TypeOK
  <1>1. IInv => TypeOK
    BY DEF IInv
  <1> QED BY <1>1, Invariant, PTL

(***************************************************************************)
(* Every request carries closed tool chains (round.ts), whatever mix of    *)
(* recoveries, truncations, prompts and rollovers came before it, for      *)
(* every length of the conversation and every number of turns kept.        *)
(***************************************************************************)
THEOREM ChainsClosed == Spec => []ClosedChains
  <1>1. IInv => ClosedChains
    <2> SUFFICES ASSUME IInv, pc = "request", ~marred
                 PROVE  \A i \in DOMAIN history :
                          /\ history[i] = "use" => i < Len(history) /\ history[i + 1] = "result"
                          /\ history[i] = "result" => i > 1 /\ history[i - 1] = "use"
      BY DEF ClosedChains
    <2>1. Closed(history) /\ DOMAIN history = 1 .. Len(history)
      BY LenProperties DEF IInv, Chains, Settled, TypeOK
    <2> QED BY <2>1 DEF Closed
  <1> QED BY <1>1, Invariant, PTL

(***************************************************************************)
(* Every way into another round is supervised (loop-supervisor.ts): no run *)
(* goes on after StallRounds idle or LadderLimit truncated rounds.         *)
(***************************************************************************)
THEOREM StallCaught == Spec => []StallIsCaught
  <1>1. IInv => StallIsCaught
    BY BoundsAssumption DEF IInv, TypeOK, Accounted, StallIsCaught
  <1> QED BY <1>1, Invariant, PTL

(***************************************************************************)
(* A stopped run has dispatched one Stop hook and kept no resource, unless *)
(* a release of its finally or buildRunContext threw (loop.ts:204-219);    *)
(* and its shell never points at a sandbox that was disposed of.           *)
(***************************************************************************)
THEOREM StoppedRunIsWoundUp == Spec => [](pc = "stopped" => WoundUp)
  <1>1. IInv => (pc = "stopped" => WoundUp)
    BY DEF IInv, Furnished
  <1> QED BY <1>1, Invariant, PTL

=============================================================================

----------------------------- MODULE WriteMutex -----------------------------
(***************************************************************************)
(* What the workflow scheduler may rely on about its write slot            *)
(* (concurrency-controller.ts:3-16), without tokens, timers or flags.  One *)
(* caller is inside at most.  Who finds the slot taken waits and becomes   *)
(* the heir.  When the caller inside leaves, a slot with an heir goes to   *)
(* the heir in that very step and is not free in between; a slot without   *)
(* one becomes free.  A caller that gave up is never let in, and one that  *)
(* waits gets in as the heir only.  WriteLock.tla is shown to implement    *)
(* this specification.                                                     *)
(***************************************************************************)
CONSTANT Callers

VARIABLES
  inside,     \* the callers that own the write slot
  waiting,    \* the callers that asked for it and have no answer yet
  heir        \* the waiting caller that the next release serves, if any

Init ==
  /\ inside = {}
  /\ waiting = {}
  /\ heir = {}

Enter(c) ==
  /\ inside = {}
  /\ c \notin waiting
  /\ inside' = {c}
  /\ UNCHANGED <<waiting, heir>>

Ask(c) ==
  /\ inside # {}
  /\ c \notin inside \cup waiting
  /\ waiting' = waiting \cup {c}
  /\ heir' = {c}
  /\ UNCHANGED inside

GiveUp(S) ==
  /\ waiting' = waiting \ S
  /\ heir' = heir \ S
  /\ UNCHANGED inside

Leave(c) ==
  /\ inside = {c}
  /\ heir = {}
  /\ inside' = {}
  /\ UNCHANGED <<waiting, heir>>

HandOver(c, d) ==
  /\ inside = {c}
  /\ heir = {d}
  /\ inside' = {d}
  /\ waiting' = waiting \ {d}
  /\ heir' = {}

Next ==
  \/ \E c \in Callers : Enter(c) \/ Ask(c) \/ Leave(c)
  \/ \E c, d \in Callers : HandOver(c, d)
  \/ \E S \in SUBSET waiting : GiveUp(S)

Spec == Init /\ [][Next]_<<inside, waiting, heir>>

=============================================================================

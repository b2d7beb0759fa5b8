--------------------------- MODULE EventDelivery ----------------------------
(***************************************************************************)
(* What the outbox promises: an event that a business transaction appended *)
(* is settled in the end, either handled, with its effect exactly once, or *)
(* given up with exactly one dead letter - or lost, without either, and    *)
(* then for good.  Relays, messages, retries and row locks are not part of *)
(* the promise.                                                            *)
(***************************************************************************)
EXTENDS Integers

CONSTANT Events

VARIABLES
  stage,      \* of each event
  effects,    \* how often its handler took effect
  letters     \* dead letters written for it

edVars == <<stage, effects, letters>>

Stage == {"none", "open", "handled", "given up", "lost"}

Init ==
  /\ stage = [e \in Events |-> "none"]
  /\ effects = [e \in Events |-> 0]
  /\ letters = [e \in Events |-> 0]

Open(e) ==
  /\ stage[e] = "none"
  /\ stage' = [stage EXCEPT ![e] = "open"]
  /\ UNCHANGED <<effects, letters>>

Take(e) ==
  /\ stage[e] = "open"
  /\ stage' = [stage EXCEPT ![e] = "handled"]
  /\ effects' = [effects EXCEPT ![e] = @ + 1]
  /\ UNCHANGED letters

GiveUp(e) ==
  /\ stage[e] = "open"
  /\ stage' = [stage EXCEPT ![e] = "given up"]
  /\ letters' = [letters EXCEPT ![e] = @ + 1]
  /\ UNCHANGED effects

Settle(e) == Take(e) \/ GiveUp(e)

\* The last messages of several events may turn out to be gone at once.
Lose(gone) ==
  /\ gone # {} /\ \A e \in gone : stage[e] = "open"
  /\ stage' = [e \in Events |-> IF e \in gone THEN "lost" ELSE stage[e]]
  /\ UNCHANGED <<effects, letters>>

Next ==
  \/ \E e \in Events : Open(e) \/ Settle(e)
  \/ \E gone \in SUBSET Events : Lose(gone)

\* What ends the wait for e.
End(e) == Settle(e) \/ \E gone \in SUBSET Events : e \in gone /\ Lose(gone)

SafeSpec == Init /\ [][Next]_edVars

Spec == SafeSpec /\ \A e \in Events : WF_edVars(End(e))
=============================================================================

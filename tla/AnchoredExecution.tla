------------------------- MODULE AnchoredExecution -------------------------
(***************************************************************************)
(* What the decision lifecycle promises, without HTTP handlers, wallets,   *)
(* databases or failures: a decision is first anchored, publicly and for   *)
(* good, to one body, and only then acted upon, at most once, by the       *)
(* request that body came from.  DecisionLifecycle implements this         *)
(* specification.                                                          *)
(***************************************************************************)
CONSTANTS
  Keys,     \* identities of decisions: an agent and its decision id
  Bodies,   \* the bodies offered for them
  NoBody    \* none of them

VARIABLES
  anchor,   \* Keys -> Bodies \cup {NoBody}
  acts      \* the pairs <<key, body>> acted upon

vars == <<anchor, acts>>

Init ==
  /\ anchor = [k \in Keys |-> NoBody]
  /\ acts = {}

\* A body becomes the public record of a decision; no second body ever does.
Anchor(k, b) ==
  /\ anchor[k] = NoBody
  /\ anchor' = [anchor EXCEPT ![k] = b]
  /\ UNCHANGED acts

\* An anchored decision reaches the outside world.
Act(k, b) ==
  /\ anchor[k] = b
  /\ <<k, b>> \notin acts
  /\ acts' = acts \cup {<<k, b>>}
  /\ UNCHANGED anchor

Next == \E k \in Keys, b \in Bodies : Anchor(k, b) \/ Act(k, b)

Spec == Init /\ [][Next]_vars
=============================================================================

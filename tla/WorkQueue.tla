------------------------------ MODULE WorkQueue ------------------------------
(***************************************************************************)
(* What the main agent and its todo list promise together, without saying  *)
(* how: every submitted item is served at most once and never comes back;  *)
(* only an agent that is serving retires items; and a service period       *)
(* begins only when there is an item the model has not been shown yet, so  *)
(* a list the model cannot clear burns no further model calls.             *)
(* MainAgent implements this specification.                                *)
(***************************************************************************)
CONSTANT Items  \* every item that can ever be submitted

VARIABLES
    fresh,      \* submitted items the model has not been shown
    known,      \* pending items the model has been shown
    retired,    \* items removed from the queue
    serving     \* is the agent in an activation?

vars == <<fresh, known, retired, serving>>

Unused == Items \ (fresh \cup known \cup retired)

Init ==
    /\ fresh = {}
    /\ known = {}
    /\ retired = {}
    /\ serving = FALSE

Submit ==
    \E i \in Unused :
        /\ fresh' = fresh \cup {i}
        /\ UNCHANGED <<known, retired, serving>>

Begin ==
    /\ ~ serving
    /\ fresh # {}
    /\ serving' = TRUE
    /\ UNCHANGED <<fresh, known, retired>>

Inform ==
    /\ serving
    /\ known' = known \cup fresh
    /\ fresh' = {}
    /\ UNCHANGED <<retired, serving>>

\* The model takes a note of its own; it sees the whole queue in return.
Note ==
    /\ serving
    /\ \E i \in Unused : known' = known \cup fresh \cup {i}
    /\ fresh' = {}
    /\ UNCHANGED <<retired, serving>>

\* The model completes an item and sees what is left of the queue.
Finish ==
    /\ serving
    /\ \E i \in fresh \cup known :
          /\ retired' = retired \cup {i}
          /\ known' = (known \cup fresh) \ {i}
    /\ fresh' = {}
    /\ UNCHANGED serving

\* The agent gives up on an item behind the model's back.
Drop ==
    /\ serving
    /\ \E i \in fresh \cup known :
          /\ retired' = retired \cup {i}
          /\ known' = known \ {i}
          /\ fresh' = fresh \ {i}
    /\ UNCHANGED serving

End ==
    /\ serving
    /\ serving' = FALSE
    /\ UNCHANGED <<fresh, known, retired>>

Next == Submit \/ Begin \/ Inform \/ Note \/ Finish \/ Drop \/ End

Spec == Init /\ [][Next]_vars
=============================================================================

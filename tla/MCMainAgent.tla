----------------------------- MODULE MCMainAgent -----------------------------
(***************************************************************************)
(* MainAgent with a language model that never fails: every round succeeds, *)
(* after completing all that its prompt lists.                             *)
(***************************************************************************)
EXTENDS MainAgent

CompletePrompted == \E i \in prompt : ToolComplete(i)

\* The round ends well, once everything the prompt listed is completed.
FinishRound == prompt \cap Pending = {} /\ RoundSucceeds

PerfectNext == Produce \/ CompletePrompted \/ FinishRound \/ Loop

PerfectSpec ==
    /\ Init /\ [][PerfectNext]_vars
    /\ WF_vars(Loop) /\ WF_vars(CompletePrompted) /\ WF_vars(FinishRound)

-----------------------------------------------------------------------------
\* The package comment (agent.go:2-3): "producers [...] push work items into
\* the queue, and the agent loop processes whatever it finds there".  With a
\* model that never fails, every item should be handled.
EveryItemServed ==
    \A i \in 1..MaxAdds : (i \in Pending) ~> (i \notin Pending)

=============================================================================

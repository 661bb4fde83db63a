----------------------------- MODULE MCModelCalls -----------------------------
(***************************************************************************)
(* The three users of the language model that share nothing, checked side  *)
(* by side: the tagging service, the moderator (a program of its own) and  *)
(* the memory that the main agent's conversation keeps.  A behaviour is    *)
(* one of theirs; the state of the others stays as it is.                  *)
(***************************************************************************)
EXTENDS Tagging, MCModerator, Conversation, TLC

VARIABLE part   \* whose behaviour it is

MCInit ==
    /\ Init
    /\ ModeratorInit
    /\ ConversationInit
    /\ part \in {"tagging", "moderator", "conversation"}
    /\ part # "moderator" => comment = <<>>

MCNext ==
    /\ \/ part = "tagging" /\ Next /\ UNCHANGED <<modVars, memoryVars>>
       \/ part = "moderator" /\ ModeratorNext /\ UNCHANGED <<vars, memoryVars>>
       \/ part = "conversation" /\ ConversationNext /\ UNCHANGED <<vars, modVars>>
    /\ UNCHANGED part

MCSpec == MCInit /\ [][MCNext]_<<part, vars, modVars, memoryVars>>

\* Clients, tag names, rules and call ids are alike.
Symmetric == Permutations(Clients) \cup Permutations(TagNames)
             \cup Permutations(Rules) \cup Permutations(CallIDs)
=============================================================================

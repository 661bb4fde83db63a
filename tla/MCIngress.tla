------------------------------ MODULE MCIngress ------------------------------
(***************************************************************************)
(* An instance of Ingress after eight items have been handled, so that the *)
(* next ones are "item-9", "item-10" and "item-11" and the ids of the list *)
(* change their length.  The QQ messages differ in where they were written *)
(* and in the mention; each bad request has one thing wrong with it.       *)
(***************************************************************************)
EXTENDS Ingress, TLC

ChatTargets == [type : {"private", "group"}, id : 1..2]

AllEvents == {e \in Event : e.written # {}}

Good == [token |-> TRUE, complete |-> TRUE, gone |-> FALSE, qq |-> TRUE,
         blank |-> FALSE, numeric |-> TRUE, target |-> 1]
AllRequests ==
    {Good, [Good EXCEPT !.token = FALSE], [Good EXCEPT !.complete = FALSE],
     [Good EXCEPT !.gone = TRUE], [Good EXCEPT !.qq = FALSE],
     [Good EXCEPT !.blank = TRUE], [Good EXCEPT !.numeric = FALSE],
     [Good EXCEPT !.target = 0], [Good EXCEPT !.target = -1]}

AfterEight ==
    /\ items = [i \in {} |-> NoTarget] /\ nextID = 8 /\ clock = 0
    /\ origin = [i \in 1..8 |-> "qq"] /\ asked = <<>>
    /\ call = [c \in Callers |-> NoCall]
    /\ connected = FALSE /\ loaded = FALSE /\ report = NoReport

MCSpec == AfterEight /\ [][IngressNext]_ingressVars

\* The callers send the same requests.
AnyOrderOfCallers == Permutations(Callers)
=============================================================================

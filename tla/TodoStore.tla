------------------------------ MODULE TodoStore ------------------------------
(***************************************************************************)
(* The in-memory todo list of internal/tool/todo/store.go: the work queue   *)
(* between the producers (NapCat client, HTTP messaging service, scheduler) *)
(* and the main agent.                                                     *)
(*                                                                         *)
(* Every method takes the store's lock for its whole body, so each one is  *)
(* a single action here.  An item is identified by the number n of its     *)
(* id "item-n"; of its fields only the reply target and the creation       *)
(* second matter to the rest of the system.                                *)
(***************************************************************************)
EXTENDS Integers, Sequences, Functions

CONSTANTS
    Targets,    \* reply targets a producer records (target_type and target_id)
    NoTarget,   \* the zero value: an item that came without a source
    MaxAdds,    \* bound: number of Add calls
    MaxClock    \* bound: last second of the wall clock

ASSUME BoundsAssumption == MaxAdds \in Nat /\ MaxClock \in Nat

VARIABLES
    items,      \* Store.items, as a function from item numbers to items
    nextID,     \* Store.nextID: the number of Add calls so far
    clock       \* time.Now().Unix(), read by Add

storeVars == <<items, nextID, clock>>

Item == [target : Targets \cup {NoTarget}, createdAt : 0..MaxClock]

Pending == DOMAIN items
Retired == (1..nextID) \ Pending

-----------------------------------------------------------------------------
(* The order of List: creation second first, then the id as a string.      *)

\* fmt.Sprintf("item-%d", n): the decimal digits of n, most significant first.
digits[n \in Nat] == IF n < 10 THEN <<n>> ELSE Append(digits[n \div 10], n % 10)

\* Go's < on strings, for two ids that share the prefix "item-".
IdLess(m, n) ==
    LET s == digits[m]
        t == digits[n]
    IN  \E k \in 1..Len(t) :
            /\ Len(s) >= k - 1
            /\ \A p \in 1..(k - 1) : s[p] = t[p]
            /\ Len(s) >= k => s[k] < t[k]

\* Mutant of Precedes: newest first.
PrecedesNewestFirst(m, n) ==
    \/ items[m].createdAt > items[n].createdAt
    \/ items[m].createdAt = items[n].createdAt /\ IdLess(m, n)

Precedes(m, n) ==
    \/ items[m].createdAt < items[n].createdAt
    \/ items[m].createdAt = items[n].createdAt /\ IdLess(m, n)

\* List()[0] and List()[len-1].
IsFirst(i) == i \in Pending /\ \A j \in Pending \ {i} : Precedes(i, j)
IsLast(i)  == i \in Pending /\ \A j \in Pending \ {i} : Precedes(j, i)

IsEmpty == Pending = {}
Version == nextID

-----------------------------------------------------------------------------
StoreInit ==
    /\ items = [i \in {} |-> NoTarget]
    /\ nextID = 0
    /\ clock = 0

\* Mutant of Add: the counter is not incremented.
AddUncounted(t) ==
    /\ nextID < MaxAdds
    /\ items' = [i \in Pending \cup {nextID + 1} |->
                    IF i \in Pending THEN items[i]
                    ELSE [target |-> t, createdAt |-> clock]]
    /\ UNCHANGED <<nextID, clock>>

Add(t) ==
    /\ nextID < MaxAdds
    /\ nextID' = nextID + 1
    /\ items' = [i \in Pending \cup {nextID + 1} |->
                    IF i \in Pending THEN items[i]
                    ELSE [target |-> t, createdAt |-> clock]]
    /\ UNCHANGED clock

\* Complete of a missing id changes nothing, so only the other case is a step.
Complete(i) ==
    /\ i \in Pending
    /\ items' = Restrict(items, Pending \ {i})
    /\ UNCHANGED <<nextID, clock>>

Tick ==
    /\ clock < MaxClock
    /\ clock' = clock + 1
    /\ UNCHANGED <<items, nextID>>

StoreNext ==
    \/ \E t \in Targets \cup {NoTarget} : Add(t)
    \/ \E i \in Pending : Complete(i)
    \/ Tick

StoreSpec == StoreInit /\ [][StoreNext]_storeVars

-----------------------------------------------------------------------------
\* The store's values have their types, and every listed item was added.
StoreTypeOK ==
    /\ nextID \in 0..MaxAdds
    /\ clock \in 0..MaxClock
    /\ Pending \subseteq 1..nextID
    /\ items \in [Pending -> Item]
    /\ \A i \in Pending : items[i].createdAt <= clock

\* The comparison given to sort.Slice is a strict total order on what is stored.
ListOrderIsTotal ==
    \A i, j, k \in Pending :
        /\ ~ Precedes(i, i)
        /\ i # j => (Precedes(i, j) <=> ~ Precedes(j, i))
        /\ Precedes(i, j) /\ Precedes(j, k) => Precedes(i, k)

\* "List returns all todos ordered by creation time from earliest to latest"
\* (store.go:52).  The order is total, but within one second the list is
\* first-in first-out only among ids of one length: the string "item-10" comes
\* before "item-9".
FifoWithinIdLength ==
    /\ ListOrderIsTotal
    /\ \A i, j \in Pending :
          i < j /\ Len(digits[i]) = Len(digits[j]) => Precedes(i, j)
=============================================================================

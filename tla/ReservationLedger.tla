------------------------- MODULE ReservationLedger -------------------------
(***************************************************************************)
(* What the capital gate promises the strategies, without handlers,         *)
(* channels, executors or chain: an operation holds capital at most once,   *)
(* together the operations never hold more than a cap, and what one holds   *)
(* goes when it is closed, when it is overdue, or with the process.         *)
(* CapitalRefinement shows that the pipeline keeps this promise.            *)
(***************************************************************************)
EXTENDS Integers, FiniteSetsExt

CONSTANTS
    Ids,      \* the operations
    Assets,   \* what they may hold
    Cap       \* per asset, the most that may be held of it at one time

VARIABLES
    held,     \* the amounts held: [id, token, amount, due]
    status    \* of each operation: "new", "open" or "closed"

Sum(S, t) == SumFunctionOnSet([r \in S |-> r.amount], {r \in S : r.token = t})

InTime == {r \in held : ~r.due}

Init ==
    /\ held = {}
    /\ status = [o \in Ids |-> "new"]

\* o opens holding an amount that fits under the cap; the overdue ones are gone.
Hold(o, t, amount) ==
    /\ status[o] = "new"
    /\ Sum(InTime, t) + amount <= Cap[t]
    /\ held' = InTime \cup {[id |-> o, token |-> t, amount |-> amount, due |-> FALSE]}
    /\ status' = [status EXCEPT ![o] = "open"]

\* o opens and needs no capital of its own.
Open(o) ==
    /\ status[o] = "new"
    /\ status' = [status EXCEPT ![o] = "open"]
    /\ UNCHANGED held

\* o is closed before it held anything; the overdue ones may go with it.
Refuse(o) ==
    /\ status[o] = "new"
    /\ status' = [status EXCEPT ![o] = "closed"]
    /\ held' \in {held, InTime}

\* o is closed and what it held is free again; nothing else changes.
Close(o) ==
    /\ status[o] = "open"
    /\ status' = [status EXCEPT ![o] = "closed"]
    /\ held' = {r \in held : r.id # o}

\* Time passes: some of the amounts held become overdue, never the reverse.
Age(S) ==
    /\ held' = {[r EXCEPT !.due = @ \/ r \in S] : r \in held}
    /\ UNCHANGED status

\* The process dies: nothing is held, and what it was working on is closed.
Crash ==
    /\ held' = {}
    /\ \E S \in SUBSET Ids :
           status' = [o \in Ids |-> IF o \in S THEN "closed" ELSE status[o]]

Next ==
    \/ \E o \in Ids, t \in Assets : \E amount \in 1..Cap[t] : Hold(o, t, amount)
    \/ \E o \in Ids : Open(o) \/ Refuse(o) \/ Close(o)
    \/ \E S \in SUBSET held : Age(S)
    \/ Crash

Spec == Init /\ [][Next]_<<held, status>>
=============================================================================

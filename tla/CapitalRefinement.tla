------------------------- MODULE CapitalRefinement -------------------------
(***************************************************************************)
(* CapitalPipeline implements ReservationLedger: the promise of the capital *)
(* gate survives handlers that interleave, actions that are overwritten,    *)
(* retries, detached confirmation polls and restarts.                       *)
(***************************************************************************)
EXTENDS CapitalPipeline

\* The reservations, with overdue in place of an age.
HeldAbs ==
    {[id |-> r.id, token |-> r.token, amount |-> r.amount, due |-> r.age >= ReservationTtl] :
        r \in reservations}

\* An operation is open from the action that carries its hook to the run of the
\* hook. An action the channel dropped stays open: its hook never runs.
StatusAbs ==
    [o \in Ops |->
        IF stage[o] \in {"unused", "planning"} THEN "new"
        ELSE IF stage[o] \in Pending \cup {"dropped"} THEN "open"
        ELSE "closed"]

\* What the strategies may ever spend: the wallet at the start less the margin.
CapAbs == [t \in Tokens |-> Spendable(InitialWallet[t], t)]

Ledger == INSTANCE ReservationLedger WITH
    Ids <- Ops, Assets <- Tokens, Cap <- CapAbs, held <- HeldAbs, status <- StatusAbs

\* Every step of the pipeline is a step of the abstract ledger or leaves it alone:
\* an operation holds capital at most once, under a cap that counts everything in
\* time, its hook frees exactly what it held, and only overdue entries go with
\* the operation of another (liquidator_capital.rs reserve, release; the settle
\* hooks of stellar_tx.rs).
ImplementsReservationLedger == Ledger!Spec
=============================================================================

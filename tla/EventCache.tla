----------------------------- MODULE EventCache -----------------------------
(***************************************************************************)
(* How the keeper's picture of the obligations of one market follows the    *)
(* chain: the event collector with its cursor (collect/stellar_event.rs),   *)
(* the two bounded broadcast channels behind it, the liquidator's event     *)
(* handler with its map and its SQLite rows, the bad-debt initiator's sweep *)
(* that deletes rows, and restarts from what SQLite holds.                  *)
(*                                                                          *)
(* An event is named by its position in the market's history, and each is   *)
(* in a ledger of its own; an obligation's content is the position of the   *)
(* last event that changed it, or Gone.                                     *)
(***************************************************************************)
EXTENDS Integers, Sequences, FiniteSets, FiniteSetsExt

CONSTANTS
    Keys,            \* obligation keys
    NoKey,           \* no key
    StartLedger,     \* config: event_collector_start_ledger
    StreamCapacity,  \* the collector's broadcast channel (512 in the code)
    EventCapacity,   \* the reactor's event channel (1024 in the code)
    MaxEvents,       \* events the market emits (bound)
    MaxFaults        \* failed calls, lost writes and restarts (bound)

ASSUME ConstantsAssumption ==
    /\ NoKey \notin Keys
    /\ StartLedger = 1
    /\ StreamCapacity \in Nat \ {0}
    /\ EventCapacity \in Nat \ {0}
    /\ MaxEvents \in Nat
    /\ MaxFaults \in Nat

VARIABLES
    log,        \* the market's events: kind, obligations changed, and those closed
    oldest,     \* the first event the RPC node still serves
    saved,      \* SQLite: the row of event_cursor
    db,         \* SQLite: the rows of obligations
    collector,  \* the collector's task
    stream,     \* its broadcast channel
    queue,      \* the event channel, as the liquidator sees it
    liquidator, \* the liquidator's event handler
    mem,        \* Liquidator.obligations
    sweep,      \* the initiator's pass over the rows it loaded
    faults,     \* faults so far
    memMissed,  \* history: events whose last delivery never reached mem
    dbMissed    \* history: events whose last delivery never reached db

persistent == <<saved, db>>
missed == <<memMissed, dbMissed>>
vars == <<log, oldest, persistent, collector, stream, queue, liquidator, mem, sweep, faults, missed>>

Gone == 0
NoCursor == 0
Positions == 1..Len(log)

\* A "snapshot" event carries the obligations it changed (two for Liquidate);
\* an "issue" event (IssueCoverBadDebt) names its obligation and carries none.
Events == [kind : {"snapshot", "issue"}, keys : SUBSET Keys, closed : SUBSET Keys]

Cursors == [cursor : Nat, ledger : Nat]
NoRow == [cursor |-> NoCursor, ledger |-> StartLedger]
Idle == [at |-> "recv", pos |-> 0, answer |-> Gone]
NoSweep == [loaded |-> {}, gone |-> NoKey]

TypeOK ==
    /\ log \in Seq(Events)
    /\ oldest \in 1..(Len(log) + 1)
    /\ saved \in Cursors
    /\ db \in [Keys -> Nat]
    /\ collector \in [at : {"poll", "save", "ended"}, cursor : Nat, ledger : Nat,
                      first : BOOLEAN, sent : Nat]
    /\ stream \in Seq(Nat) /\ Len(stream) <= StreamCapacity
    /\ queue \in Seq(Nat) /\ Len(queue) <= EventCapacity
    /\ liquidator \in [at : {"recv", "reread", "answer", "save"}, pos : Nat, answer : Nat]
    /\ mem \in [Keys -> Nat]
    /\ sweep \in [loaded : SUBSET Keys, gone : Keys \cup {NoKey}]
    /\ faults \in 0..MaxFaults
    /\ memMissed \subseteq Nat
    /\ dbMissed \subseteq Nat

\* try_new: resume from the row, or from the configured ledger when there is none.
\* `sent` is history: the last position this process need not send any more.
Resumed(row) ==
    [at |-> "poll", cursor |-> row.cursor, ledger |-> row.ledger, first |-> TRUE,
     sent |-> IF row.cursor = NoCursor THEN row.ledger - 1 ELSE row.cursor]

Init ==
    /\ log = <<>>
    /\ oldest = 1
    /\ saved = NoRow
    /\ db = [k \in Keys |-> Gone]
    /\ collector = Resumed(NoRow)
    /\ stream = <<>>
    /\ queue = <<>>
    /\ liquidator = Idle
    /\ mem = [k \in Keys |-> Gone]
    /\ sweep = NoSweep
    /\ faults = 0
    /\ memMissed = {}
    /\ dbMissed = {}

Fault ==
    /\ faults < MaxFaults
    /\ faults' = faults + 1

-----------------------------------------------------------------------------
(* The chain and the RPC node (external). *)

\* The obligation of k as event p leaves it, and as it is on the chain.
After(p, k) == IF k \in log[p].closed THEN Gone ELSE p
LastEvent(k) == Max({0} \cup {p \in Positions : k \in log[p].keys})
Chain(k) == IF LastEvent(k) = 0 THEN Gone ELSE After(LastEvent(k), k)

\* The market emits an event that changes the obligations of S, closing those of
\* closed. An issue event names one obligation that has debt.
Emit(kind, S, closed) ==
    /\ Len(log) < MaxEvents
    /\ kind = "issue" => \E k \in S : S = {k} /\ Chain(k) # Gone
    /\ log' = Append(log, [kind |-> kind, keys |-> S, closed |-> closed])
    /\ UNCHANGED <<oldest, persistent, collector, stream, queue, liquidator, mem, sweep, faults, missed>>

\* The node's retention window moves on.
Prune ==
    /\ oldest <= Len(log)
    /\ oldest' = oldest + 1
    /\ UNCHANGED <<log, persistent, collector, stream, queue, liquidator, mem, sweep, faults, missed>>

-----------------------------------------------------------------------------
(* The collector. *)

\* EventStart: after the cursor, or from a ledger on.
Start == IF collector.cursor = NoCursor THEN collector.ledger ELSE collector.cursor + 1

\* Mutant of Newest: the channel holds one event more than its capacity.
NewestAndOneMore(xs, capacity) ==
    SubSeq(xs, IF Len(xs) > capacity + 1 THEN Len(xs) - capacity ELSE 1, Len(xs))

\* What a broadcast channel keeps of xs, and what it overwrites.
Newest(xs, capacity) ==
    SubSeq(xs, IF Len(xs) > capacity THEN Len(xs) - capacity + 1 ELSE 1, Len(xs))
Overwritten(xs, capacity) == {xs[i] : i \in 1..(Len(xs) - capacity)}

Miss(P) ==
    /\ memMissed' = memMissed \cup P
    /\ dbMissed' = dbMissed \cup P

\* get_events answers with a page: every event is sent into the stream, then the
\* cursor in memory moves to the end of the page.
PollOk(end) ==
    /\ collector.at = "poll"
    /\ Start >= oldest
    /\ end <= Len(log) /\ end >= Start - 1
    /\ Start <= Len(log) => end >= Start
    /\ LET sent == stream \o [i \in 1..(end - Start + 1) |-> Start + i - 1]
       IN  /\ stream' = Newest(sent, StreamCapacity)
           /\ Miss(Overwritten(sent, StreamCapacity))
    /\ collector' = [at |-> "save", cursor |-> end,
                     ledger |-> IF end >= Start THEN end ELSE collector.ledger,
                     first |-> FALSE, sent |-> Max({end, collector.sent})]
    /\ UNCHANGED <<log, oldest, persistent, queue, liquidator, mem, sweep, faults>>

\* Mutant of SaveCursor: the node's latest ledger is saved instead of the page's end.
SaveLatest ==
    /\ collector.at = "save"
    /\ saved' = [cursor |-> Len(log), ledger |-> Len(log)]
    /\ collector' = [collector EXCEPT !.at = "poll"]
    /\ UNCHANGED <<log, oldest, db, stream, queue, liquidator, mem, sweep, faults, missed>>

\* The cursor of the page goes to SQLite; a failed write is only counted.
SaveCursor ==
    /\ collector.at = "save"
    /\ \/ saved' = [cursor |-> collector.cursor, ledger |-> collector.ledger] /\ UNCHANGED faults
       \/ UNCHANGED saved /\ Fault
    /\ collector' = [collector EXCEPT !.at = "poll"]
    /\ UNCHANGED <<log, oldest, db, stream, queue, liquidator, mem, sweep, missed>>

\* A transient error: try again from the same place, no longer on the first poll.
PollTransient ==
    /\ collector.at = "poll"
    /\ Fault
    /\ collector' = [collector EXCEPT !.first = FALSE]
    /\ UNCHANGED <<log, oldest, persistent, stream, queue, liquidator, mem, sweep, missed>>

\* The node no longer has the start position: fatal on the first poll.
PollTerminalFirst ==
    /\ collector.at = "poll"
    /\ Start < oldest
    /\ collector.first
    /\ collector' = [collector EXCEPT !.at = "ended"]
    /\ UNCHANGED <<log, oldest, persistent, stream, queue, liquidator, mem, sweep, faults, missed>>

\* Mutant of ResetToHead: only a start by ledger is reset, an expired cursor stays.
ResetKeepsCursor(head) ==
    /\ head \in {Len(log), Len(log) + 1}
    /\ IF collector.cursor # NoCursor
       THEN UNCHANGED <<collector, missed>>
       ELSE /\ collector' = [collector EXCEPT !.ledger = head, !.sent = Max({@, head - 1})]
            /\ Miss((collector.sent + 1)..(head - 1))
    /\ UNCHANGED faults

\* Later, the collector forgets its cursor and goes on from the latest ledger,
\* which may hold the last event or come after it; whatever it had not sent
\* before that ledger is passed over.
ResetToHead(head) ==
    /\ head \in {Len(log), Len(log) + 1}
    /\ collector' = [collector EXCEPT !.cursor = NoCursor, !.ledger = head,
                                      !.sent = Max({@, head - 1})]
    /\ Miss((collector.sent + 1)..(head - 1))
    /\ UNCHANGED faults

\* The latest ledger could not be read either: the ledger stays.
ResetFails ==
    /\ collector' = [collector EXCEPT !.cursor = NoCursor]
    /\ Fault
    /\ UNCHANGED missed

PollTerminal ==
    /\ collector.at = "poll"
    /\ Start < oldest
    /\ ~collector.first
    /\ (\E head \in {Len(log), Len(log) + 1} : ResetToHead(head)) \/ ResetFails
    /\ UNCHANGED <<log, oldest, persistent, stream, queue, liquidator, mem, sweep>>

\* The collector's task of the reactor moves an event into the event channel.
Forward ==
    /\ stream # <<>>
    /\ LET sent == Append(queue, Head(stream))
       IN  /\ queue' = Newest(sent, EventCapacity)
           /\ Miss(Overwritten(sent, EventCapacity))
    /\ stream' = Tail(stream)
    /\ UNCHANGED <<log, oldest, persistent, collector, liquidator, mem, sweep, faults>>

-----------------------------------------------------------------------------
(* The liquidator's event handler. *)

\* f with the obligations of S as `content` has them.
Over(f, S, content) == [k \in Keys |-> IF k \in S THEN content[k] ELSE f[k]]

\* Mutant of Written: a deleted obligation leaves the map and keeps its row.
WrittenRowKept(p, parsed, content) ==
    /\ mem' = Over(mem, parsed, content)
    /\ db' = Over(db, {k \in parsed : content[k] # Gone}, content)
    /\ memMissed' = IF parsed = log[p].keys THEN memMissed \ {p} ELSE memMissed \cup {p}
    /\ dbMissed' = IF parsed = log[p].keys THEN dbMissed \ {p} ELSE dbMissed \cup {p}
    /\ IF parsed = log[p].keys THEN UNCHANGED faults ELSE Fault

\* upsert_obligation and delete_obligation for the keys of event p whose snapshot
\* could be parsed: each row is written, which may fail, then the map. `content`
\* has the obligations to write.
Written(p, parsed, content) ==
    \E stored \in SUBSET parsed :
        /\ mem' = Over(mem, parsed, content)
        /\ db' = Over(db, stored, content)
        /\ memMissed' = IF parsed = log[p].keys THEN memMissed \ {p} ELSE memMissed \cup {p}
        /\ dbMissed' = IF stored = log[p].keys THEN dbMissed \ {p} ELSE dbMissed \cup {p}
        /\ IF stored = log[p].keys THEN UNCHANGED faults ELSE Fault

\* An event that carries its obligations. One that cannot be parsed is passed
\* over, and the cursor is written all the same.
ApplySnapshot(parsed) ==
    /\ liquidator.at = "recv"
    /\ queue # <<>>
    /\ log[Head(queue)].kind = "snapshot"
    /\ parsed \subseteq log[Head(queue)].keys
    /\ Written(Head(queue), parsed, [k \in parsed |-> After(Head(queue), k)])
    /\ liquidator' = [Idle EXCEPT !.at = "save", !.pos = Head(queue)]
    /\ queue' = Tail(queue)
    /\ UNCHANGED <<log, oldest, saved, collector, stream, sweep>>

\* An event whose operation or key cannot be decoded: the handler returns at once.
Undecodable ==
    /\ liquidator.at = "recv"
    /\ queue # <<>>
    /\ Fault
    /\ Miss({Head(queue)})
    /\ queue' = Tail(queue)
    /\ UNCHANGED <<log, oldest, persistent, collector, stream, liquidator, mem, sweep>>

\* Mutant of AskObligation: the issue event is passed over, as it carries nothing.
PassOverIssue ==
    /\ liquidator.at = "recv"
    /\ queue # <<>>
    /\ log[Head(queue)].kind = "issue"
    /\ liquidator' = [Idle EXCEPT !.at = "save", !.pos = Head(queue)]
    /\ queue' = Tail(queue)
    /\ UNCHANGED <<log, oldest, persistent, collector, stream, mem, sweep, faults, missed>>

\* An issue event: ask the chain what has become of the obligation.
AskObligation ==
    /\ liquidator.at = "recv"
    /\ queue # <<>>
    /\ log[Head(queue)].kind = "issue"
    /\ liquidator' = [Idle EXCEPT !.at = "reread", !.pos = Head(queue)]
    /\ queue' = Tail(queue)
    /\ UNCHANGED <<log, oldest, persistent, collector, stream, mem, sweep, faults, missed>>

\* reread_obligation: the node answers with the obligation of now, not of the
\* event; by the time the handler writes it, it may be the obligation of then.
RereadAnswered ==
    /\ liquidator.at = "reread"
    /\ \E k \in log[liquidator.pos].keys :
           liquidator' = [liquidator EXCEPT !.at = "answer", !.answer = Chain(k)]
    /\ UNCHANGED <<log, oldest, persistent, collector, stream, queue, mem, sweep, faults, missed>>

Reread ==
    /\ liquidator.at = "answer"
    /\ Written(liquidator.pos, log[liquidator.pos].keys, [k \in Keys |-> liquidator.answer])
    /\ liquidator' = [liquidator EXCEPT !.at = "save", !.answer = Gone]
    /\ UNCHANGED <<log, oldest, saved, collector, stream, queue, sweep>>

RereadFails ==
    /\ liquidator.at = "reread"
    /\ Fault
    /\ Miss({liquidator.pos})
    /\ liquidator' = [liquidator EXCEPT !.at = "save"]
    /\ UNCHANGED <<log, oldest, persistent, collector, stream, queue, mem, sweep>>

\* The handler writes the cursor of its event over the collector's.
SaveEventCursor ==
    /\ liquidator.at = "save"
    /\ \/ saved' = [cursor |-> liquidator.pos, ledger |-> liquidator.pos] /\ UNCHANGED faults
       \/ UNCHANGED saved /\ Fault
    /\ liquidator' = Idle
    /\ UNCHANGED <<log, oldest, db, collector, stream, queue, mem, sweep, missed>>

-----------------------------------------------------------------------------
(* The initiator's sweep. *)

SweepLoad ==
    /\ sweep = NoSweep
    /\ \E k \in Keys : db[k] # Gone
    /\ sweep' = [sweep EXCEPT !.loaded = {k \in Keys : db[k] # Gone}]
    /\ UNCHANGED <<log, oldest, persistent, collector, stream, queue, liquidator, mem, faults, missed>>

\* The row is not eligible, or its re-read fails or finds the obligation.
SweepPasses(k) ==
    /\ k \in sweep.loaded /\ sweep.gone = NoKey
    /\ sweep' = [sweep EXCEPT !.loaded = @ \ {k}]
    /\ UNCHANGED <<log, oldest, persistent, collector, stream, queue, liquidator, mem, faults, missed>>

\* The chain says that the obligation of an eligible row does not exist.
SweepFindsGone(k) ==
    /\ k \in sweep.loaded /\ sweep.gone = NoKey
    /\ Chain(k) = Gone
    /\ sweep' = [loaded |-> sweep.loaded \ {k}, gone |-> k]
    /\ UNCHANGED <<log, oldest, persistent, collector, stream, queue, liquidator, mem, faults, missed>>

\* By the time the answer is there the obligation may exist again. A delete
\* that fails leaves the row for the next sweep.
SweepDelete ==
    /\ sweep.gone # NoKey
    /\ \/ /\ db' = [db EXCEPT ![sweep.gone] = Gone]
          /\ dbMissed' = IF Chain(sweep.gone) = Gone THEN dbMissed
                         ELSE dbMissed \cup {LastEvent(sweep.gone)}
          /\ UNCHANGED faults
       \/ UNCHANGED <<db, dbMissed>> /\ Fault
    /\ sweep' = [sweep EXCEPT !.gone = NoKey]
    /\ UNCHANGED <<log, oldest, saved, collector, stream, queue, liquidator, mem, memMissed>>

-----------------------------------------------------------------------------

InTransit ==
    {stream[i] : i \in 1..Len(stream)} \cup {queue[i] : i \in 1..Len(queue)}
        \cup (IF liquidator.at \in {"reread", "answer"} THEN {liquidator.pos} ELSE {})

\* The process dies and is started again: sync_state loads the rows, or nothing
\* when that fails, and the collector resumes from the saved cursor. What was in
\* transit and lies behind that cursor will not be sent again.
Restart ==
    /\ Fault
    /\ collector' = Resumed(saved)
    /\ LET lost == {p \in InTransit : p <= collector'.sent}
       IN  /\ dbMissed' = dbMissed \cup lost
           /\ \/ mem' = db /\ memMissed' = dbMissed \cup lost
              \/ mem' = [k \in Keys |-> Gone] /\ memMissed' = dbMissed \cup 1..collector'.sent
    /\ stream' = <<>>
    /\ queue' = <<>>
    /\ liquidator' = Idle
    /\ sweep' = NoSweep
    /\ UNCHANGED <<log, oldest, persistent>>

Collect ==
    \/ \E end \in 0..Len(log) : PollOk(end)
    \/ SaveCursor \/ PollTransient \/ PollTerminalFirst \/ PollTerminal

Handle ==
    \/ \E parsed \in SUBSET Keys : ApplySnapshot(parsed)
    \/ Undecodable \/ AskObligation \/ RereadAnswered \/ Reread \/ RereadFails
    \/ SaveEventCursor

Sweep ==
    \/ SweepLoad
    \/ \E k \in Keys : SweepPasses(k) \/ SweepFindsGone(k)
    \/ SweepDelete

Next ==
    \/ \E kind \in {"snapshot", "issue"}, S \in SUBSET Keys \ {{}} :
           \E closed \in SUBSET S : Emit(kind, S, closed)
    \/ Prune
    \/ Collect
    \/ Forward
    \/ Handle
    \/ Sweep
    \/ Restart

Spec == Init /\ [][Next]_vars

\* The tasks that the tokio scheduler keeps running. Faults are finite by MaxFaults:
\* the RPC node and the disk answer in the end.
Fairness == WF_vars(Collect) /\ WF_vars(Forward) /\ WF_vars(Handle)

FairSpec == Spec /\ Fairness

-----------------------------------------------------------------------------
(* Properties. *)

\* The event is still to come to the handler.
Coming(p) == p > collector.sent \/ p \in InTransit

\* Once the last event of an obligation is through, the liquidator's map holds the
\* obligation as it is on the chain, unless that event was lost in a way the
\* keeper counts or logs: lag, a reset, a crash behind the cursor, a failed read.
\* Replays, duplicates and re-reads that run ahead of the queue do not matter.
CacheCurrent ==
    \A k \in Keys : LET p == LastEvent(k)
                    IN  p > 0 /\ ~Coming(p) /\ p \notin memMissed => mem[k] = Chain(k)

\* The same of the rows in SQLite, which a restart and the initiator start from:
\* here a failed write and a sweep that raced a new obligation count as losses.
RowsCurrent ==
    \A k \in Keys : LET p == LastEvent(k)
                    IN  p > 0 /\ ~Coming(p) /\ p \notin dbMissed => db[k] = Chain(k)

\* The saved cursor is never ahead of what the collector has sent: an event that
\* no channel ever held is not passed over by a restart. Two tasks write the row.
SavedBehindSent == saved.cursor <= collector.sent

\* Every event gets through to the handler or is lost in a counted way, or the
\* collector has shut down: no sequence of errors and resets stalls it for good.
EventsArrive ==
    \A p \in 1..MaxEvents : p <= Len(log) ~> ~Coming(p) \/ collector.at = "ended"

\* stellar/errors.rs of an expired cursor: "the caller must reset to a fresh head
\* ledger". The shutdown is documented for a bad event_collector_start_ledger only.
ExpiredCursorResets == collector.at = "ended" => saved = NoRow
=============================================================================

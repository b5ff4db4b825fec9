-------------------------- MODULE EventCacheProofs --------------------------
(***************************************************************************)
(* Proofs about EventCache, for any set of keys and any channel capacities: *)
(* the liquidator's map and the SQLite rows follow the chain unless an      *)
(* event was lost in a counted way.                                         *)
(***************************************************************************)
EXTENDS EventCache, NumberLemmas

-----------------------------------------------------------------------------
(* The inductive invariant. *)

\* An issue event names one obligation.
LogShape == \A p \in Positions : log[p].kind = "issue" => \E k \in Keys : log[p].keys = {k}

\* The collector resumes at the event after the last it sent, or, when a reset
\* landed on a ledger whose event was sent already, at that event once more. A
\* start that the node no longer serves may be anywhere: it is never polled.
CursorOK ==
    /\ collector.ledger >= 1
    /\ collector.cursor # NoCursor => collector.ledger <= collector.cursor + 1
    /\ collector.sent <= Len(log)
    /\ Start >= oldest => Start \in {collector.sent, collector.sent + 1}
    /\ collector.at = "save" => /\ collector.cursor = collector.sent
                                /\ collector.cursor = NoCursor => collector.ledger = 1

\* A row without a cursor is the configured start.
SavedOK ==
    /\ saved.ledger >= 1
    /\ saved.cursor # NoCursor => saved.ledger <= saved.cursor + 1
    /\ saved.cursor = NoCursor => saved.ledger = 1

Rereading == liquidator.at \in {"reread", "answer"}

\* Positions never go back on their way to the handler, although one may be sent
\* twice.
Ordered ==
    /\ \A i \in 1..Len(stream) : stream[i] \in 1..collector.sent
    /\ \A i \in 1..Len(queue) : queue[i] \in 1..collector.sent
    /\ \A i, j \in 1..Len(stream) : i <= j => stream[i] <= stream[j]
    /\ \A i, j \in 1..Len(queue) : i <= j => queue[i] <= queue[j]
    /\ \A i \in 1..Len(queue), j \in 1..Len(stream) : queue[i] <= stream[j]
    /\ liquidator.at # "recv" => liquidator.pos \in 1..collector.sent
    /\ Rereading => \A p \in InTransit : liquidator.pos <= p

\* What was sent after an event that is in transit is in transit or was lost: an
\* older event cannot be applied over a newer one unless the newer is to come.
NoGap ==
    \A p \in InTransit : \A q \in (p + 1)..collector.sent :
        q \in InTransit \/ (q \in memMissed /\ q \in dbMissed)

\* The answer to a re-read is the obligation of now, if the event is its last.
AnswerOK ==
    /\ Rereading => log[liquidator.pos].kind = "issue"
    /\ liquidator.at = "answer" =>
           \A k \in log[liquidator.pos].keys :
               LastEvent(k) = liquidator.pos => liquidator.answer = Chain(k)

IndInv ==
    /\ TypeOK
    /\ LogShape
    /\ CursorOK
    /\ SavedOK
    /\ Ordered
    /\ NoGap
    /\ AnswerOK
    /\ CacheCurrent
    /\ RowsCurrent
    /\ SavedBehindSent

-----------------------------------------------------------------------------
(* The operators. *)

\* A broadcast channel drops the oldest d of its events and keeps the others.
LEMMA ChannelParts ==
  ASSUME NEW xs \in Seq(Nat), NEW capacity \in Nat \ {0}
  PROVE  \E d \in 0..Len(xs) :
             /\ Newest(xs, capacity) \in Seq(Nat)
             /\ Len(Newest(xs, capacity)) = Len(xs) - d
             /\ Len(xs) - d <= capacity
             /\ \A i \in 1..(Len(xs) - d) : Newest(xs, capacity)[i] = xs[i + d]
             /\ Overwritten(xs, capacity) = {xs[i] : i \in 1..d}
  <1> DEFINE d == IF Len(xs) > capacity THEN Len(xs) - capacity ELSE 0
  <1>1. d \in 0..Len(xs) /\ Len(xs) - d <= capacity
    OBVIOUS
  <1>2. Newest(xs, capacity) = SubSeq(xs, d + 1, Len(xs))
    BY DEF Newest
  <1>3. Overwritten(xs, capacity) = {xs[i] : i \in 1..d}
    <2>1. 1..(Len(xs) - capacity) = 1..d
      OBVIOUS
    <2> HIDE DEF d
    <2> QED
      BY <2>1 DEF Overwritten
  <1> HIDE DEF d
  <1>4. /\ SubSeq(xs, d + 1, Len(xs)) \in Seq(Nat)
        /\ Len(SubSeq(xs, d + 1, Len(xs))) = Len(xs) - d
        /\ \A i \in 1..(Len(xs) - d) : SubSeq(xs, d + 1, Len(xs))[i] = xs[i + d]
    BY <1>1
  <1> QED
    BY <1>1, <1>2, <1>3, <1>4

\* ys is xs without its first elements.
EndOf(ys, xs) == \E d \in Nat : \A j \in 1..Len(ys) : j + d \in 1..Len(xs) /\ ys[j] = xs[j + d]

\* What a channel keeps and what it overwrites is what it held.
LEMMA ChannelKeepsAll ==
  ASSUME NEW xs \in Seq(Nat), NEW capacity \in Nat \ {0}
  PROVE  /\ Newest(xs, capacity) \in Seq(Nat)
         /\ Len(Newest(xs, capacity)) <= capacity
         /\ Overwritten(xs, capacity) \subseteq Nat
         /\ \A i \in 1..Len(xs) : \/ xs[i] \in Overwritten(xs, capacity)
                                  \/ \E j \in 1..Len(Newest(xs, capacity)) : Newest(xs, capacity)[j] = xs[i]
         /\ EndOf(Newest(xs, capacity), xs)
  <1> DEFINE ys == Newest(xs, capacity)
  <1>1. PICK d \in 0..Len(xs) :
             /\ ys \in Seq(Nat)
             /\ Len(ys) = Len(xs) - d
             /\ Len(xs) - d <= capacity
             /\ \A i \in 1..(Len(xs) - d) : ys[i] = xs[i + d]
             /\ Overwritten(xs, capacity) = {xs[i] : i \in 1..d}
    BY ChannelParts
  <1> HIDE DEF ys
  <1>2. ASSUME NEW i \in 1..Len(xs)
        PROVE  xs[i] \in Overwritten(xs, capacity) \/ \E j \in 1..Len(ys) : ys[j] = xs[i]
    <2>1. CASE i <= d
      BY <1>1, <2>1
    <2>2. CASE i > d
      <3>1. i - d \in 1..Len(ys) /\ ys[i - d] = xs[i]
        BY <1>1, <2>2
      <3> QED
        BY <3>1
    <2> QED
      BY <2>1, <2>2
  <1>3. \A j \in 1..Len(ys) : j + d \in 1..Len(xs) /\ ys[j] = xs[j + d]
    BY <1>1
  <1>4. ys \in Seq(Nat) /\ Len(ys) <= capacity
    BY <1>1
  <1>5. Overwritten(xs, capacity) \subseteq Nat
    <2>1. \A i \in 1..d : xs[i] \in Nat
      OBVIOUS
    <2> QED
      BY <1>1, <2>1
  <1>6. EndOf(ys, xs)
    <2>1. d \in Nat
      OBVIOUS
    <2> QED
      BY <1>3, <2>1, Zenon DEF EndOf
  <1> QED
    BY <1>2, <1>4, <1>5, <1>6, Zenon DEF ys

\* Appending a page to the stream.
LEMMA ConcatParts ==
  ASSUME NEW xs \in Seq(Nat), NEW ys \in Seq(Nat)
  PROVE  /\ xs \o ys \in Seq(Nat) /\ Len(xs \o ys) = Len(xs) + Len(ys)
         /\ \A i \in 1..Len(xs) : (xs \o ys)[i] = xs[i]
         /\ \A i \in 1..Len(ys) : (xs \o ys)[Len(xs) + i] = ys[i]
  <1>1. xs \o ys \in Seq(Nat) /\ Len(xs \o ys) = Len(xs) + Len(ys)
    OBVIOUS
  <1>2. \A i \in 1..Len(xs) : (xs \o ys)[i] = xs[i]
    OBVIOUS
  <1>3. ASSUME NEW i \in 1..Len(ys) PROVE (xs \o ys)[Len(xs) + i] = ys[i]
    <2>1. Len(xs) + i \in 1..(Len(xs) + Len(ys)) /\ Len(xs) + i > Len(xs) /\ (Len(xs) + i) - Len(xs) = i
      OBVIOUS
    <2> QED
      BY <2>1
  <1> QED
    BY <1>1, <1>2, <1>3

\* The last event of an obligation, in a log l.
LEMMA LastIn ==
  ASSUME NEW l \in Seq(Events), NEW k, NEW m,
         m = Max({0} \cup {p \in 1..Len(l) : k \in l[p].keys})
  PROVE  /\ m \in 0..Len(l)
         /\ m # 0 => k \in l[m].keys
         /\ \A p \in 1..Len(l) : k \in l[p].keys => p <= m
  <1> DEFINE T == {0} \cup {p \in 1..Len(l) : k \in l[p].keys}
  <1>1. T \in SUBSET Nat /\ T # {} /\ Len(l) \in Nat /\ \A x \in T : x <= Len(l)
    OBVIOUS
  <1>2. Max(T) \in T /\ \A y \in T : Max(T) >= y
    <2> HIDE DEF T
    <2> QED
      BY <1>1, MaxProperties
  <1> QED
    BY <1>1, <1>2

\* The last event of an obligation is one of its events, and none is later.
LEMMA LastEventParts ==
  ASSUME log \in Seq(Events), NEW k
  PROVE  /\ LastEvent(k) \in 0..Len(log)
         /\ LastEvent(k) # 0 => k \in log[LastEvent(k)].keys
         /\ \A p \in Positions : k \in log[p].keys => p <= LastEvent(k)
  BY LastIn DEF LastEvent, Positions

\* The same after a step.
LEMMA LastEventPartsNext ==
  ASSUME log' \in Seq(Events), NEW k
  PROVE  /\ LastEvent(k)' \in 0..Len(log')
         /\ LastEvent(k)' # 0 => k \in log'[LastEvent(k)'].keys
         /\ \A p \in Positions' : k \in log'[p].keys => p <= LastEvent(k)'
  BY LastIn DEF LastEvent, Positions

\* What the chain holds of an obligation is a position, or Gone.
LEMMA ChainType ==
  ASSUME log \in Seq(Events), NEW k
  PROVE  Chain(k) \in Nat
  BY LastEventParts DEF Chain, After, Gone

-----------------------------------------------------------------------------
(* What the actions have in common. *)

\* The chain is read the same after a step that emits nothing.
LEMMA LogKept ==
  ASSUME log' = log
  PROVE  /\ Positions' = Positions
         /\ \A k : LastEvent(k)' = LastEvent(k) /\ Chain(k)' = Chain(k)
  <1>1. Positions' = Positions
    BY DEF Positions
  <1>2. \A k : LastEvent(k)' = LastEvent(k)
    BY <1>1 DEF LastEvent
  <1> QED
    BY <1>1, <1>2 DEF Chain, After

\* A step that writes neither the map nor the rows keeps them current when every
\* event that was to come still is, or is lost.
LEMMA CurrentKept ==
  ASSUME log \in Seq(Events), log' = log, mem' = mem, db' = db,
         memMissed \subseteq memMissed', dbMissed \subseteq dbMissed',
         \A p \in Positions : Coming(p) => Coming(p)' \/ (p \in memMissed' /\ p \in dbMissed'),
         CacheCurrent, RowsCurrent
  PROVE  CacheCurrent' /\ RowsCurrent'
  <1>1. \A k : LastEvent(k)' = LastEvent(k) /\ Chain(k)' = Chain(k)
    BY LogKept
  <1>2. \A k : LastEvent(k) > 0 => LastEvent(k) \in Positions
    BY LastEventParts DEF Positions
  <1> USE DEF CacheCurrent, RowsCurrent
  <1> SUFFICES ASSUME NEW k \in Keys, LastEvent(k) > 0, ~Coming(LastEvent(k))'
               PROVE  /\ LastEvent(k) \notin memMissed' => mem'[k] = Chain(k)
                      /\ LastEvent(k) \notin dbMissed' => db'[k] = Chain(k)
    BY <1>1 DEF Coming
  <1>3. Coming(LastEvent(k)) => LastEvent(k) \in memMissed' /\ LastEvent(k) \in dbMissed'
    BY <1>1, <1>2 DEF Coming
  <1> QED
    BY <1>3

\* f, a map or the rows, has what the chain has of every obligation whose last
\* event is through and is not in M. CurrentNext is the same after a step.
Current(f, M) ==
    \A k \in Keys : LastEvent(k) > 0 /\ ~Coming(LastEvent(k)) /\ LastEvent(k) \notin M => f[k] = Chain(k)
CurrentNext(f, M) ==
    \A k \in Keys : LastEvent(k)' > 0 /\ ~Coming(LastEvent(k))' /\ LastEvent(k)' \notin M => f[k] = Chain(k)'

\* The two properties say the same of the map and of the rows.
LEMMA CurrentIs ==
  /\ CacheCurrent <=> Current(mem, memMissed)
  /\ RowsCurrent <=> Current(db, dbMissed)
  /\ CacheCurrent' <=> CurrentNext(mem', memMissed')
  /\ RowsCurrent' <=> CurrentNext(db', dbMissed')
  BY DEF CacheCurrent, RowsCurrent, Current, CurrentNext

\* What is lost after event p was written for the obligations of S.
Losses(M, p, S) == IF S = log[p].keys THEN M \ {p} ELSE M \cup {p}

\* The handler writes event p over the obligations of S, and whatever came after p
\* is in transit or lost.
LEMMA WriteKeeps ==
  ASSUME log \in Seq(Events), log' = log, collector.sent \in Nat, collector' = collector,
         NEW p \in Positions, NEW S \in SUBSET log[p].keys, NEW content, NEW f, NEW M, Current(f, M),
         \A q \in (p + 1)..collector.sent : q \in InTransit \/ q \in M,
         \A q \in InTransit : q # p => q \in InTransit',
         \A k \in S : LastEvent(k) = p => content[k] = Chain(k)
  PROVE  CurrentNext(Over(f, S, content), Losses(M, p, S))
  <1>a. \A k : LastEvent(k)' = LastEvent(k) /\ Chain(k)' = Chain(k)
    BY LogKept
  <1> SUFFICES ASSUME NEW k \in Keys, LastEvent(k) > 0, LastEvent(k) <= collector.sent,
                      LastEvent(k) \notin InTransit', LastEvent(k) \notin Losses(M, p, S)
               PROVE  Over(f, S, content)[k] = Chain(k)
    BY <1>a, LastEventParts DEF CurrentNext, Coming
  <1>0. /\ LastEvent(k) \in Nat /\ p \in Nat
        /\ \A q \in Positions : k \in log[q].keys => q <= LastEvent(k)
        /\ k \in log[LastEvent(k)].keys
    BY LastEventParts DEF Positions
  <1>1. LastEvent(k) # p => LastEvent(k) \notin InTransit /\ LastEvent(k) \notin M
    BY DEF Losses
  <1>2. CASE k \in S
    <2>1. p <= LastEvent(k)
      BY <1>0, <1>2
    <2>2. ~ LastEvent(k) > p
      BY <1>0, <1>1
    <2>3. LastEvent(k) = p
      BY <1>0, <2>1, <2>2
    <2> QED
      BY <1>2, <2>3 DEF Over
  <1>3. CASE k \notin S
    <2>1. LastEvent(k) # p
      BY <1>0, <1>3 DEF Losses
    <2>2. ~Coming(LastEvent(k))
      BY <1>0, <1>1, <2>1 DEF Coming
    <2>3. f[k] = Chain(k)
      BY <1>1, <2>1, <2>2 DEF Current
    <2> QED
      BY <1>3, <2>3 DEF Over
  <1> QED
    BY <1>2, <1>3

\* Written, at the first event in transit, keeps the map and the rows current.
LEMMA WrittenKeeps ==
  ASSUME IndInv, log' = log, collector' = collector,
         NEW p \in InTransit, p \in Positions, NEW parsed \in SUBSET log[p].keys, NEW content,
         \A k \in parsed : content[k] \in Nat /\ (LastEvent(k) = p => content[k] = Chain(k)),
         Written(p, parsed, content),
         \A q \in InTransit : q # p => q \in InTransit'
  PROVE  /\ CacheCurrent' /\ RowsCurrent'
         /\ mem' \in [Keys -> Nat] /\ db' \in [Keys -> Nat] /\ faults' \in 0..MaxFaults
         /\ memMissed' \subseteq Nat /\ dbMissed' \subseteq Nat
         /\ \A q : q \in memMissed /\ q # p => q \in memMissed'
         /\ \A q : q \in dbMissed /\ q # p => q \in dbMissed'
  <1> USE DEF IndInv
  <1>0. log \in Seq(Events) /\ collector.sent \in Nat /\ p \in Nat
    BY DEF TypeOK, Positions
  <1>1. PICK stored \in SUBSET parsed :
             /\ mem' = Over(mem, parsed, content)
             /\ db' = Over(db, stored, content)
             /\ memMissed' = IF parsed = log[p].keys THEN memMissed \ {p} ELSE memMissed \cup {p}
             /\ dbMissed' = IF stored = log[p].keys THEN dbMissed \ {p} ELSE dbMissed \cup {p}
             /\ IF stored = log[p].keys THEN UNCHANGED faults ELSE Fault
    BY DEF Written
  <1>2. /\ \A q \in (p + 1)..collector.sent : q \in InTransit \/ q \in memMissed
        /\ \A q \in (p + 1)..collector.sent : q \in InTransit \/ q \in dbMissed
    BY DEF NoGap
  <1>3. CacheCurrent'
    <2>1. Current(mem, memMissed) /\ \A k \in parsed : LastEvent(k) = p => content[k] = Chain(k)
      BY CurrentIs
    <2>2. CurrentNext(Over(mem, parsed, content), Losses(memMissed, p, parsed))
      BY <1>0, <1>2, <2>1, WriteKeeps
    <2>3. memMissed' = Losses(memMissed, p, parsed)
      BY <1>1 DEF Losses
    <2> QED
      BY <1>1, <2>2, <2>3, CurrentIs, Zenon
  <1>4. RowsCurrent'
    <2>1. Current(db, dbMissed) /\ \A k \in stored : LastEvent(k) = p => content[k] = Chain(k)
      BY CurrentIs
    <2>a. stored \in SUBSET log[p].keys
      OBVIOUS
    <2>2. CurrentNext(Over(db, stored, content), Losses(dbMissed, p, stored))
      BY <1>0, <1>2, <2>1, <2>a, WriteKeeps
    <2>3. dbMissed' = Losses(dbMissed, p, stored)
      BY <1>1 DEF Losses
    <2> QED
      BY <1>1, <2>2, <2>3, CurrentIs, Zenon
  <1>5. mem' \in [Keys -> Nat] /\ db' \in [Keys -> Nat]
    BY <1>1 DEF Over, TypeOK
  <1>6. faults' \in 0..MaxFaults
    BY <1>1, ConstantsAssumption, SMTT(30) DEF Fault, TypeOK
  <1>7. memMissed' \subseteq Nat /\ dbMissed' \subseteq Nat
    BY <1>0, <1>1 DEF TypeOK
  <1> QED
    BY <1>1, <1>3, <1>4, <1>5, <1>6, <1>7

-----------------------------------------------------------------------------
(* The actions. *)

\* A fresh database, an empty map and no event: nothing is behind.
LEMMA InitKeeps == Init => IndInv
  <1> SUFFICES ASSUME Init PROVE IndInv
    OBVIOUS
  <1> USE DEF Init, NoRow, Resumed, Idle, NoSweep, NoCursor, Gone
  <1>1. log \in Seq(Events) /\ Len(log) = 0 /\ stream \in Seq(Nat) /\ queue \in Seq(Nat)
        /\ Len(stream) = 0 /\ Len(queue) = 0
    OBVIOUS
  <1>2. TypeOK
    BY <1>1, ConstantsAssumption DEF TypeOK, Cursors
  <1>3. LogShape /\ CursorOK /\ SavedOK /\ Ordered /\ AnswerOK /\ SavedBehindSent
    BY <1>1, ConstantsAssumption
    DEF LogShape, Positions, CursorOK, Start, SavedOK, Ordered, Rereading, AnswerOK, SavedBehindSent
  <1>4. InTransit = {}
    BY <1>1 DEF InTransit
  <1>5. NoGap
    BY <1>4 DEF NoGap
  <1>6. CacheCurrent /\ RowsCurrent
    <2>1. \A k : LastEvent(k) = 0
      BY <1>1, LastEventParts
    <2> QED
      BY <2>1 DEF CacheCurrent, RowsCurrent
  <1> QED
    BY <1>2, <1>3, <1>5, <1>6 DEF IndInv

\* The chain goes on: what is emitted is still to come to the handler.
LEMMA EmitKeeps ==
  ASSUME IndInv, NEW kind \in {"snapshot", "issue"}, NEW S \in SUBSET Keys, NEW closed \in SUBSET S,
         Emit(kind, S, closed)
  PROVE  IndInv'
  <1> DEFINE e == [kind |-> kind, keys |-> S, closed |-> closed]
  <1> USE DEF IndInv
  <1>1. e \in Events
    BY DEF Events
  <1>2. /\ log \in Seq(Events) /\ log' = Append(log, e)
        /\ log' \in Seq(Events) /\ Len(log') = Len(log) + 1 /\ Len(log) \in Nat
        /\ log'[Len(log) + 1] = e
        /\ \A p \in 1..Len(log) : log'[p] = log[p]
    BY <1>1 DEF Emit, TypeOK
  <1> HIDE DEF e
  <1>3. UNCHANGED <<oldest, saved, db, collector, stream, queue, liquidator, mem, sweep, faults, memMissed, dbMissed>>
    BY DEF Emit, persistent, missed
  <1>4. TypeOK'
    BY <1>2, <1>3, SMTT(30) DEF TypeOK
  <1>5. LogShape'
    <2>1. ASSUME NEW p \in 1..Len(log'), log'[p].kind = "issue"
          PROVE  \E k \in Keys : log'[p].keys = {k}
      <3>1. CASE p \in 1..Len(log)
        BY <1>2, <2>1, <3>1 DEF LogShape, Positions
      <3>2. CASE p = Len(log) + 1
        BY <1>2, <2>1, <3>2 DEF Emit, e
      <3> QED
        BY <1>2, <3>1, <3>2
    <2> QED
      BY <2>1 DEF LogShape, Positions
  <1>6. CursorOK' /\ SavedOK' /\ SavedBehindSent'
    BY <1>2, <1>3 DEF TypeOK, CursorOK, Start, SavedOK, SavedBehindSent
  <1>7. InTransit' = InTransit
    BY <1>3 DEF InTransit
  <1>8. Ordered' /\ NoGap'
    BY <1>3, <1>7 DEF Ordered, Rereading, NoGap
  <1>9. \A k : \/ LastEvent(k)' = Len(log) + 1
               \/ LastEvent(k)' = LastEvent(k) /\ Chain(k)' = Chain(k)
    <2> SUFFICES ASSUME NEW k, LastEvent(k)' # Len(log) + 1
                 PROVE  LastEvent(k)' = LastEvent(k) /\ Chain(k)' = Chain(k)
      OBVIOUS
    <2>1. /\ LastEvent(k)' \in 0..Len(log')
          /\ LastEvent(k)' # 0 => k \in log'[LastEvent(k)'].keys
          /\ \A p \in Positions' : k \in log'[p].keys => p <= LastEvent(k)'
      BY <1>2, LastEventPartsNext
    <2>2. /\ LastEvent(k) \in 0..Len(log)
          /\ LastEvent(k) # 0 => k \in log[LastEvent(k)].keys
          /\ \A p \in Positions : k \in log[p].keys => p <= LastEvent(k)
      BY <1>2, LastEventParts
    <2>3. LastEvent(k)' <= LastEvent(k)
      BY <1>2, <2>1, <2>2 DEF Positions
    <2>4. LastEvent(k) <= LastEvent(k)'
      BY <1>2, <2>1, <2>2 DEF Positions
    <2>5. LastEvent(k)' = LastEvent(k)
      BY <1>2, <2>1, <2>2, <2>3, <2>4
    <2> QED
      BY <1>2, <2>2, <2>5 DEF Chain, After
  <1>10. AnswerOK'
    <2>1. liquidator.at # "recv" => liquidator.pos \in 1..Len(log)
      BY <1>2 DEF Ordered, CursorOK, TypeOK
    <2> QED
      BY <1>2, <1>3, <1>9, <2>1 DEF AnswerOK, Rereading
  <1>11. CacheCurrent' /\ RowsCurrent'
    <2>1. \A p : Coming(p)' <=> Coming(p)
      BY <1>3, <1>7 DEF Coming
    <2>2. Len(log) + 1 > collector.sent
      BY <1>2 DEF CursorOK, TypeOK
    <2>3. Coming(Len(log) + 1)
      BY <2>2 DEF Coming
    <2>4. \A k \in Keys : LastEvent(k)' = Len(log) + 1 => Coming(LastEvent(k))'
      BY <1>3, <2>2 DEF Coming
    <2>5. \A k \in Keys : ~Coming(LastEvent(k))' =>
              LastEvent(k)' = LastEvent(k) /\ Chain(k)' = Chain(k) /\ ~Coming(LastEvent(k))
      BY <1>3, <1>7, <1>9, <2>4 DEF Coming
    <2> QED
      BY <1>3, <2>5 DEF CacheCurrent, RowsCurrent
  <1> QED
    BY <1>4, <1>5, <1>6, <1>8, <1>10, <1>11

\* The node forgets events; those not delivered become losses at the next poll.
LEMMA PruneKeeps == ASSUME IndInv, Prune PROVE IndInv'
  <1> USE DEF IndInv
  <1>1. UNCHANGED <<log, saved, db, collector, stream, queue, liquidator, mem, sweep, faults, memMissed, dbMissed>>
        /\ oldest' = oldest + 1 /\ oldest <= Len(log)
    BY DEF Prune, persistent, missed
  <1>2. TypeOK'
    BY <1>1, SMTT(30) DEF TypeOK
  <1>3. LogShape'
    BY <1>1, LogKept DEF LogShape
  <1>8. CursorOK' /\ SavedOK' /\ SavedBehindSent'
    BY <1>1 DEF TypeOK, CursorOK, Start, SavedOK, SavedBehindSent
  <1>4. InTransit' = InTransit
    BY <1>1 DEF InTransit
  <1>5. Ordered' /\ NoGap'
    BY <1>1, <1>4 DEF Ordered, Rereading, NoGap
  <1>6. AnswerOK'
    BY <1>1, LogKept DEF AnswerOK, Rereading
  <1>7. CacheCurrent' /\ RowsCurrent'
    BY <1>1, <1>4, CurrentKept DEF TypeOK, Coming
  <1> QED
    BY <1>2, <1>3, <1>5, <1>6, <1>7, <1>8

\* What lies before the handler is the same when the channels, the handler and
\* the number of events sent are.
LEMMA TransitKept ==
  ASSUME UNCHANGED <<stream, queue, liquidator>>, collector'.sent = collector.sent,
         memMissed \subseteq memMissed', dbMissed \subseteq dbMissed', Ordered, NoGap
  PROVE  InTransit' = InTransit /\ Ordered' /\ NoGap' /\ \A p : Coming(p)' <=> Coming(p)
  <1>1. InTransit' = InTransit
    BY DEF InTransit
  <1> QED
    BY <1>1 DEF Ordered, Rereading, NoGap, Coming

\* A page is sent: every event up to its end is in the stream or was overwritten.
LEMMA PollOkKeeps ==
  ASSUME IndInv, NEW end \in 0..Len(log), PollOk(end)
  PROVE  IndInv'
  <1> USE DEF IndInv
  <1> DEFINE page == [i \in 1..(end - Start + 1) |-> Start + i - 1]
             all == stream \o page
  <1>0. /\ UNCHANGED <<log, oldest, saved, db, queue, liquidator, mem, sweep, faults>>
        /\ collector.at = "poll" /\ Start >= oldest
        /\ end <= Len(log) /\ end >= Start - 1 /\ (Start <= Len(log) => end >= Start)
        /\ stream' = Newest(all, StreamCapacity)
        /\ memMissed' = memMissed \cup Overwritten(all, StreamCapacity)
        /\ dbMissed' = dbMissed \cup Overwritten(all, StreamCapacity)
        /\ collector' = [at |-> "save", cursor |-> end,
                         ledger |-> IF end >= Start THEN end ELSE collector.ledger,
                         first |-> FALSE, sent |-> Max({end, collector.sent})]
    BY DEF PollOk, Miss, persistent
  <1>1. /\ Start \in Nat /\ Start >= 1 /\ end \in Nat /\ collector.sent \in Nat
        /\ Start \in {collector.sent, collector.sent + 1}
        /\ collector.sent <= Len(log) /\ Len(log) \in Nat
        /\ collector.cursor \in Nat /\ collector.ledger \in Nat
    <2>1. collector.cursor \in Nat /\ collector.ledger \in Nat /\ collector.sent \in Nat /\ end \in Nat
          /\ Len(log) \in Nat
      BY DEF TypeOK
    <2>2. Start \in Nat /\ Start >= 1
      BY <2>1 DEF CursorOK, Start, NoCursor
    <2> QED
      BY <1>0, <2>1, <2>2 DEF CursorOK
  <1>2. /\ collector'.sent = IF end >= collector.sent THEN end ELSE collector.sent
        /\ collector'.cursor = end /\ collector'.at = "save"
        /\ collector'.ledger = IF end >= Start THEN end ELSE collector.ledger
        /\ collector' \in [at : {"poll", "save", "ended"}, cursor : Nat, ledger : Nat,
                           first : BOOLEAN, sent : Nat]
    BY <1>0, <1>1, MaxOfTwo
  <1>3. end >= collector.sent
    BY <1>0, <1>1
  <1>4. collector'.sent = end
    BY <1>2, <1>3
  <1>5. /\ page \in Seq(Nat) /\ Len(page) = end - Start + 1
        /\ \A i \in 1..Len(page) : page[i] = Start + i - 1
    <2>1. end - Start + 1 \in Nat
      BY <1>0, <1>1
    <2>2. \A i \in 1..(end - Start + 1) : Start + i - 1 \in Nat
      BY <1>1, <2>1
    <2> QED
      BY <2>1, <2>2
  <1> HIDE DEF page
  <1>6. /\ stream \in Seq(Nat) /\ Len(stream) \in Nat
        /\ all \in Seq(Nat) /\ Len(all) = Len(stream) + Len(page)
        /\ \A i \in 1..Len(stream) : all[i] = stream[i]
        /\ \A i \in 1..Len(page) : all[Len(stream) + i] = page[i]
    <2>1. stream \in Seq(Nat) /\ Len(stream) \in Nat
      BY DEF TypeOK
    <2> QED
      BY <1>5, <2>1, ConcatParts
  <1> HIDE DEF all
  <1>7. /\ \A i \in 1..Len(all) : all[i] \in 1..end
        /\ \A i, j \in 1..Len(all) : i <= j => all[i] <= all[j]
        /\ \A i \in 1..Len(all) : i > Len(stream) => all[i] >= collector.sent
    <2>1. ASSUME NEW i \in 1..Len(all)
          PROVE  \/ i \in 1..Len(stream) /\ all[i] = stream[i] /\ stream[i] \in 1..collector.sent
                 \/ i > Len(stream) /\ all[i] = Start + (i - Len(stream)) - 1 /\ all[i] \in 1..end /\ all[i] >= Start
      <3>1. CASE i \in 1..Len(stream)
        BY <1>6, <3>1 DEF Ordered
      <3>2. CASE i > Len(stream)
        <4> DEFINE n == i - Len(stream)
        <4>0. n \in 1..Len(page) /\ Len(stream) + n = i
          BY <1>5, <1>6, <3>2
        <4>1. n \in 1..Len(page) /\ all[i] = page[n]
          BY <1>6, <4>0
        <4>2. all[i] = Start + (i - Len(stream)) - 1
          BY <1>5, <4>1
        <4> QED
          BY <1>1, <1>5, <3>2, <4>1, <4>2
      <3> QED
        BY <1>6, <3>1, <3>2
    <2>2. \A i \in 1..Len(all) : all[i] \in 1..end
      BY <1>1, <1>3, <2>1
    <2>3. \A i \in 1..Len(all) : i > Len(stream) => all[i] >= collector.sent
      BY <1>1, <1>6, <2>1, <2>2, SMTT(30)
    <2>4. ASSUME NEW i \in 1..Len(all), NEW j \in 1..Len(all), i <= j PROVE all[i] <= all[j]
      <3>1. CASE j \in 1..Len(stream)
        <4>1. i \in 1..Len(stream)
          BY <1>6, <2>4, <3>1
        <4> QED
          BY <1>6, <2>4, <3>1, <4>1 DEF Ordered
      <3>2. CASE j > Len(stream)
        <4>1. all[j] = Start + (j - Len(stream)) - 1 /\ all[j] >= Start
          BY <1>6, <2>1, <3>2
        <4>2. CASE i \in 1..Len(stream)
          <5>1. all[i] \in 1..collector.sent
            BY <1>6, <4>2 DEF Ordered
          <5> QED
            BY <1>1, <4>1, <5>1, <2>2, SMTT(30)
        <4>3. CASE i > Len(stream)
          <5>1. all[i] = Start + (i - Len(stream)) - 1
            BY <1>6, <2>1, <4>3
          <5> QED
            BY <1>1, <1>6, <2>4, <4>1, <5>1
        <4> QED
          BY <1>6, <4>2, <4>3
      <3> QED
        BY <1>6, <3>1, <3>2
    <2> QED
      BY <2>2, <2>3, <2>4
  <1>8. \A q \in Start..end : \E i \in 1..Len(all) : all[i] = q
    <2> SUFFICES ASSUME NEW q \in Start..end PROVE \E i \in 1..Len(all) : all[i] = q
      OBVIOUS
    <2> DEFINE n == q - Start + 1
    <2>1. n \in 1..Len(page) /\ page[n] = q
      BY <1>1, <1>5
    <2> HIDE DEF n
    <2>2. Len(stream) + n \in 1..Len(all) /\ all[Len(stream) + n] = q
      BY <1>5, <1>6, <2>1, SMTT(30)
    <2> QED
      BY <2>2
  <1>9. StreamCapacity \in Nat \ {0}
    BY ConstantsAssumption
  <1>10. /\ stream' \in Seq(Nat) /\ Len(stream') <= StreamCapacity
         /\ Overwritten(all, StreamCapacity) \subseteq Nat
         /\ \A i \in 1..Len(all) : \/ all[i] \in Overwritten(all, StreamCapacity)
                                   \/ \E j \in 1..Len(stream') : stream'[j] = all[i]
    BY <1>0, <1>6, <1>9, ChannelKeepsAll
  <1>11. PICK d \in Nat : \A j \in 1..Len(stream') : j + d \in 1..Len(all) /\ stream'[j] = all[j + d]
    <2>1. EndOf(stream', all)
      BY <1>0, <1>6, <1>9, ChannelKeepsAll
    <2> QED
      BY <2>1, Zenon DEF EndOf
  <1>12. TypeOK'
    BY <1>0, <1>2, <1>10 DEF TypeOK
  <1>13. LogShape'
    BY <1>0, LogKept DEF LogShape
  <1>14. CursorOK'
    BY <1>0, <1>1, <1>2, <1>3, <1>4 DEF CursorOK, Start, NoCursor
  <1>15. SavedOK' /\ SavedBehindSent'
    BY <1>0, <1>1, <1>3, <1>4 DEF SavedOK, SavedBehindSent, TypeOK, Cursors
  <1>16. \A p : p \in InTransit => p \in InTransit' \/ (p \in memMissed' /\ p \in dbMissed')
    <2>1. \A i \in 1..Len(stream) : \/ stream[i] \in Overwritten(all, StreamCapacity)
                                    \/ \E j \in 1..Len(stream') : stream'[j] = stream[i]
      BY <1>6, <1>10, SMTT(30)
    <2> QED
      BY <1>0, <2>1 DEF InTransit
  <1>17. \A q \in Start..end : q \in InTransit' \/ (q \in memMissed' /\ q \in dbMissed')
    <2> SUFFICES ASSUME NEW q \in Start..end, q \notin Overwritten(all, StreamCapacity)
                 PROVE  q \in InTransit'
      BY <1>0
    <2>1. \E j \in 1..Len(stream') : stream'[j] = q
      BY <1>8, <1>10
    <2> QED
      BY <2>1 DEF InTransit
  <1>18. \A p \in InTransit' : p \in InTransit \/ (p \in Nat /\ p >= collector.sent /\ p >= Start)
    <2>1. ASSUME NEW j \in 1..Len(stream')
          PROVE  stream'[j] \in InTransit \/ (stream'[j] \in Nat /\ stream'[j] >= collector.sent /\ stream'[j] >= Start)
      <3>1. j + d \in 1..Len(all) /\ stream'[j] = all[j + d]
        BY <1>11
      <3>2. CASE j + d \in 1..Len(stream)
        BY <1>6, <3>1, <3>2 DEF InTransit
      <3>3. CASE j + d > Len(stream)
        <4> DEFINE n == j + d - Len(stream)
        <4>1. n \in 1..Len(page) /\ Len(stream) + n = j + d
          BY <1>5, <1>6, <3>1, <3>3
        <4> HIDE DEF n
        <4>2. all[j + d] = Start + n - 1
          BY <1>5, <1>6, <4>1
        <4>3. Start \in Nat /\ collector.sent \in Nat /\ Start >= collector.sent /\ n \in Nat \ {0}
          BY <1>1, <1>5, <4>1, SMTT(30)
        <4>4. Start + n - 1 \in Nat /\ Start + n - 1 >= collector.sent /\ Start + n - 1 >= Start
          BY ONLY <4>3
        <4> QED
          BY <3>1, <4>2, <4>4
      <3> QED
        BY <1>6, <3>1, <3>2, <3>3
    <2> QED
      BY <1>0, <2>1 DEF InTransit
  <1>19. Ordered'
    <2>1. /\ \A i \in 1..Len(stream') : stream'[i] \in 1..end
          /\ \A i, j \in 1..Len(stream') : i <= j => stream'[i] <= stream'[j]
      BY <1>7, <1>11
    <2>2. \A i \in 1..Len(queue) : queue[i] \in 1..end
      BY <1>1, <1>3 DEF Ordered
    <2>3. \A i, j \in 1..Len(queue) : i <= j => queue[i] <= queue[j]
      BY DEF Ordered
    <2>4. ASSUME NEW i \in 1..Len(queue), NEW j \in 1..Len(stream') PROVE queue[i] <= stream'[j]
      <3>1. j + d \in 1..Len(all) /\ stream'[j] = all[j + d]
        BY <1>11
      <3>2. CASE j + d \in 1..Len(stream)
        BY <1>6, <3>1, <3>2 DEF Ordered
      <3>3. CASE j + d > Len(stream)
        <4>1. all[j + d] >= collector.sent /\ all[j + d] \in Nat
          BY <1>7, <3>1, <3>3
        <4>2. queue[i] \in 1..collector.sent
          BY DEF Ordered
        <4> QED
          BY <1>1, <3>1, <4>1, <4>2
      <3> QED
        BY <1>6, <3>1, <3>2, <3>3
    <2>5. liquidator.at # "recv" => liquidator.pos \in 1..end
      BY <1>1, <1>3 DEF Ordered
    <2>6. Rereading => \A p \in InTransit' : liquidator.pos <= p
      <3> SUFFICES ASSUME Rereading, NEW p \in InTransit' PROVE liquidator.pos <= p
        OBVIOUS
      <3>1. liquidator.pos \in 1..collector.sent
        BY DEF Ordered, Rereading
      <3> QED
        BY <1>1, <1>18, <3>1 DEF Ordered
    <2> QED
      BY <1>0, <1>4, <2>1, <2>2, <2>3, <2>4, <2>5, <2>6 DEF Ordered, Rereading
  <1>20. NoGap'
    <2> SUFFICES ASSUME NEW p \in InTransit', NEW q \in (p + 1)..end
                 PROVE  q \in InTransit' \/ (q \in memMissed' /\ q \in dbMissed')
      BY <1>4 DEF NoGap
    <2>0. p \in Nat
      <3>1. p \in 1..end
        BY <1>1, <1>4, <1>19, <1>10 DEF InTransit, Ordered, Rereading
      <3> QED
        BY <3>1
    <2>1. CASE q >= Start
      BY <1>1, <1>17, <2>0, <2>1
    <2>2. CASE q < Start
      <3>1. q <= collector.sent
        BY <1>1, <2>0, <2>2
      <3>2. p \in InTransit
        BY <1>1, <1>18, <2>0, <2>2
      <3>3. q \in InTransit \/ (q \in memMissed /\ q \in dbMissed)
        BY <1>1, <2>0, <3>1, <3>2 DEF NoGap
      <3> QED
        BY <1>0, <1>16, <3>3
    <2> QED
      BY <1>1, <2>0, <2>1, <2>2
  <1>21. AnswerOK'
    BY <1>0, LogKept DEF AnswerOK, Rereading
  <1>22. CacheCurrent' /\ RowsCurrent'
    <2>1. ASSUME NEW p \in Positions, Coming(p)
          PROVE  Coming(p)' \/ (p \in memMissed' /\ p \in dbMissed')
      <3>1. CASE p \in InTransit
        BY <1>16, <3>1 DEF Coming
      <3>2. CASE p > collector.sent /\ p <= end
        BY <1>1, <1>17, <3>2 DEF Coming, Positions
      <3>3. CASE p > end
        BY <1>4, <3>3 DEF Coming
      <3> QED
        BY <1>1, <2>1, <3>1, <3>2, <3>3 DEF Coming, Positions
    <2>2. memMissed \subseteq memMissed' /\ dbMissed \subseteq dbMissed'
      BY <1>0
    <2> QED
      BY <1>0, <2>1, <2>2, CurrentKept DEF TypeOK
  <1> QED
    BY <1>12, <1>13, <1>14, <1>15, <1>19, <1>20, <1>21, <1>22

\* The number of faults keeps its type.
LEMMA FaultsKept ==
  ASSUME TypeOK, Fault \/ UNCHANGED faults
  PROVE  faults' \in 0..MaxFaults
  <1>1. faults \in 0..MaxFaults
    BY DEF TypeOK
  <1> QED
    BY <1>1, ConstantsAssumption DEF Fault

\* What is under way are positions.
LEMMA TransitType == ASSUME TypeOK PROVE InTransit \subseteq Nat
  <1>0. stream \in Seq(Nat) /\ queue \in Seq(Nat) /\ liquidator.pos \in Nat
    BY DEF TypeOK
  <1>1. /\ \A i \in 1..Len(stream) : stream[i] \in Nat
        /\ \A i \in 1..Len(queue) : queue[i] \in Nat
        /\ liquidator.pos \in Nat
    BY <1>0
  <1> QED
    BY <1>1 DEF InTransit

\* The steps of the collector that send nothing.
LEMMA SaveCursorKeeps == ASSUME IndInv, SaveCursor PROVE IndInv'
  <1> USE DEF IndInv
  <1>1. /\ UNCHANGED <<log, oldest, db, stream, queue, liquidator, mem, sweep, memMissed, dbMissed>>
        /\ collector.at = "save" /\ collector' = [collector EXCEPT !.at = "poll"]
        /\ \/ saved' = [cursor |-> collector.cursor, ledger |-> collector.ledger] /\ UNCHANGED faults
           \/ UNCHANGED saved /\ Fault
    BY DEF SaveCursor, missed
  <1>2. /\ collector' \in [at : {"poll", "save", "ended"}, cursor : Nat, ledger : Nat, first : BOOLEAN, sent : Nat]
        /\ collector'.at = "poll" /\ collector'.cursor = collector.cursor
        /\ collector'.ledger = collector.ledger /\ collector'.sent = collector.sent
        /\ collector.cursor \in Nat /\ collector.ledger \in Nat
    BY <1>1 DEF TypeOK
  <1>3. TypeOK'
    <2>1. faults' \in 0..MaxFaults
      BY <1>1, FaultsKept
    <2>2. saved' \in Cursors
      BY <1>1, <1>2 DEF TypeOK, Cursors
    <2> QED
      BY <1>1, <1>2, <2>1, <2>2 DEF TypeOK
  <1>4. LogShape' /\ AnswerOK'
    BY <1>1, LogKept DEF LogShape, AnswerOK, Rereading
  <1>5. CursorOK'
    BY <1>1, <1>2 DEF CursorOK, Start
  <1>6. SavedOK' /\ SavedBehindSent'
    BY <1>1, <1>2 DEF CursorOK, SavedOK, SavedBehindSent, TypeOK
  <1>7. Ordered' /\ NoGap' /\ \A p : Coming(p)' <=> Coming(p)
    BY <1>1, <1>2, TransitKept
  <1>8. CacheCurrent' /\ RowsCurrent'
    BY <1>1, <1>7, CurrentKept DEF TypeOK
  <1> QED
    BY <1>3, <1>4, <1>5, <1>6, <1>7, <1>8

\* A poll that fails moves nothing.
LEMMA PollFailsKeeps == ASSUME IndInv, PollTransient \/ PollTerminalFirst PROVE IndInv'
  <1> USE DEF IndInv
  <1>1. /\ UNCHANGED <<log, oldest, saved, db, stream, queue, liquidator, mem, sweep, memMissed, dbMissed>>
        /\ collector.at = "poll"
        /\ \/ collector' = [collector EXCEPT !.first = FALSE]
           \/ collector' = [collector EXCEPT !.at = "ended"]
        /\ UNCHANGED faults \/ Fault
    BY DEF PollTransient, PollTerminalFirst, missed, persistent
  <1>2. /\ collector' \in [at : {"poll", "save", "ended"}, cursor : Nat, ledger : Nat, first : BOOLEAN, sent : Nat]
        /\ collector'.at # "save" /\ collector'.cursor = collector.cursor
        /\ collector'.ledger = collector.ledger /\ collector'.sent = collector.sent
    BY <1>1 DEF TypeOK
  <1>3. TypeOK'
    <2>1. faults' \in 0..MaxFaults
      BY <1>1, FaultsKept
    <2> QED
      BY <1>1, <1>2, <2>1 DEF TypeOK
  <1>4. LogShape' /\ AnswerOK'
    BY <1>1, LogKept DEF LogShape, AnswerOK, Rereading
  <1>5. CursorOK' /\ SavedOK' /\ SavedBehindSent'
    BY <1>1, <1>2 DEF CursorOK, Start, SavedOK, SavedBehindSent
  <1>7. Ordered' /\ NoGap' /\ \A p : Coming(p)' <=> Coming(p)
    BY <1>1, <1>2, TransitKept
  <1>8. CacheCurrent' /\ RowsCurrent'
    BY <1>1, <1>7, CurrentKept DEF TypeOK
  <1> QED
    BY <1>3, <1>4, <1>5, <1>7, <1>8

\* A reset: what lies between the last event sent and the new start is lost.
LEMMA PollTerminalKeeps == ASSUME IndInv, PollTerminal PROVE IndInv'
  <1> USE DEF IndInv
  <1>1. /\ UNCHANGED <<log, oldest, saved, db, stream, queue, liquidator, mem, sweep>>
        /\ collector.at = "poll" /\ Start < oldest
    BY DEF PollTerminal, persistent
  <1>2. /\ collector.cursor \in Nat /\ collector.ledger \in Nat /\ collector.sent \in Nat /\ Len(log) \in Nat
        /\ oldest \in Nat /\ oldest <= Len(log) + 1 /\ collector.sent <= Len(log) /\ collector.ledger >= 1
    BY DEF TypeOK, CursorOK
  <1>3. Start \in Nat /\ Start >= 1
    BY <1>2 DEF Start, NoCursor, CursorOK
  <1>4. LogShape' /\ AnswerOK'
    BY <1>1, LogKept DEF LogShape, AnswerOK, Rereading
  <1>5. CASE ResetFails
    <2>1. /\ UNCHANGED <<memMissed, dbMissed>> /\ Fault
          /\ collector' = [collector EXCEPT !.cursor = NoCursor]
      BY <1>5 DEF ResetFails, missed
    <2>2. /\ collector' \in [at : {"poll", "save", "ended"}, cursor : Nat, ledger : Nat, first : BOOLEAN, sent : Nat]
          /\ collector'.at = "poll" /\ collector'.cursor = NoCursor
          /\ collector'.ledger = collector.ledger /\ collector'.sent = collector.sent
      BY <1>1, <2>1 DEF TypeOK, NoCursor
    <2>3. TypeOK'
      <3>1. faults' \in 0..MaxFaults
        BY <2>1, FaultsKept
      <3> QED
        BY <1>1, <2>1, <2>2, <3>1 DEF TypeOK
    <2>4. Start' = collector.ledger /\ collector.ledger <= Start
      BY <1>2, <2>2 DEF Start, CursorOK
    <2>5. CursorOK' /\ SavedOK' /\ SavedBehindSent'
      BY <1>1, <1>2, <1>3, <2>2, <2>4 DEF CursorOK, SavedOK, SavedBehindSent
    <2>6. Ordered' /\ NoGap' /\ \A p : Coming(p)' <=> Coming(p)
      BY <1>1, <2>1, <2>2, TransitKept
    <2>7. CacheCurrent' /\ RowsCurrent'
      BY <1>1, <2>1, <2>6, CurrentKept DEF TypeOK
    <2> QED
      BY <1>4, <2>3, <2>5, <2>6, <2>7
  <1>6. ASSUME NEW head \in {Len(log), Len(log) + 1}, ResetToHead(head) PROVE IndInv'
    <2>1. /\ collector' = [collector EXCEPT !.cursor = NoCursor, !.ledger = head,
                                            !.sent = Max({@, head - 1})]
          /\ memMissed' = memMissed \cup (collector.sent + 1)..(head - 1)
          /\ dbMissed' = dbMissed \cup (collector.sent + 1)..(head - 1)
          /\ UNCHANGED faults
      BY <1>6 DEF ResetToHead, Miss
    <2>2. head \in Nat /\ head >= 1 /\ head - 1 \in Nat /\ head <= Len(log) + 1 /\ head >= Len(log)
      BY <1>1, <1>2, <1>3
    <2>3. /\ collector' \in [at : {"poll", "save", "ended"}, cursor : Nat, ledger : Nat, first : BOOLEAN, sent : Nat]
          /\ collector'.at = "poll" /\ collector'.cursor = NoCursor
          /\ collector'.ledger = head
          /\ collector'.sent = IF collector.sent >= head - 1 THEN collector.sent ELSE head - 1
      <3>1. Max({collector.sent, head - 1}) = IF collector.sent >= head - 1 THEN collector.sent ELSE head - 1
        BY <1>2, <2>2, MaxOfTwo
      <3> HIDE DEF Max
      <3> QED
        BY <1>1, <1>2, <2>1, <2>2, <3>1 DEF TypeOK, NoCursor
    <2>4. TypeOK'
      <3>1. (collector.sent + 1)..(head - 1) \subseteq Nat
        BY <1>2, <2>2
      <3>2. memMissed' \subseteq Nat /\ dbMissed' \subseteq Nat
        BY <2>1, <3>1 DEF TypeOK
      <3> QED
        BY <1>1, <2>1, <2>3, <3>2 DEF TypeOK
    <2>5. CursorOK'
      BY <1>1, <1>2, <2>2, <2>3 DEF CursorOK, Start, NoCursor
    <2>6. SavedOK' /\ SavedBehindSent'
      BY <1>1, <1>2, <2>2, <2>3 DEF SavedOK, SavedBehindSent, TypeOK, Cursors
    <2>7. InTransit' = InTransit
      BY <1>1 DEF InTransit
    <2>8. collector.sent <= collector'.sent
      BY <1>2, <2>2, <2>3
    <2>9. Ordered'
      <3>1. \A x \in 1..collector.sent : x \in 1..collector'.sent
        BY <1>2, <2>2, <2>3
      <3> QED
        BY <1>1, <2>7, <3>1 DEF Ordered, Rereading
    <2>10. NoGap'
      <3> SUFFICES ASSUME NEW p \in InTransit, NEW q \in (p + 1)..collector'.sent
                   PROVE  q \in InTransit \/ (q \in memMissed' /\ q \in dbMissed')
        BY <2>7 DEF NoGap
      <3>1. p \in Nat
        BY TransitType
      <3>2. CASE q <= collector.sent
        BY <1>2, <2>1, <3>1, <3>2 DEF NoGap
      <3>3. CASE q > collector.sent
        BY <1>2, <2>1, <2>2, <2>3, <3>1, <3>3
      <3> QED
        BY <1>2, <2>2, <2>3, <3>1, <3>2, <3>3
    <2>11. CacheCurrent' /\ RowsCurrent'
      <3>1. ASSUME NEW p \in Positions, Coming(p)
            PROVE  Coming(p)' \/ (p \in memMissed' /\ p \in dbMissed')
        BY <1>2, <2>1, <2>2, <2>3, <2>7, <3>1 DEF Coming, Positions
      <3>2. memMissed \subseteq memMissed' /\ dbMissed \subseteq dbMissed'
        BY <2>1
      <3> QED
        BY <1>1, <3>1, <3>2, CurrentKept DEF TypeOK
    <2> QED
      BY <1>4, <2>4, <2>5, <2>6, <2>9, <2>10, <2>11
  <1> QED
    BY <1>5, <1>6 DEF PollTerminal

\* An event moves from the stream into the event channel.
LEMMA ForwardKeeps == ASSUME IndInv, Forward PROVE IndInv'
  <1> USE DEF IndInv
  <1> DEFINE all == Append(queue, Head(stream))
  <1>0. /\ UNCHANGED <<log, oldest, saved, db, collector, liquidator, mem, sweep, faults>>
        /\ stream # <<>> /\ stream' = Tail(stream)
        /\ queue' = Newest(all, EventCapacity)
        /\ memMissed' = memMissed \cup Overwritten(all, EventCapacity)
        /\ dbMissed' = dbMissed \cup Overwritten(all, EventCapacity)
    BY DEF Forward, Miss, persistent
  <1>1. /\ stream \in Seq(Nat) /\ Len(stream) \in Nat \ {0} /\ Head(stream) = stream[1] /\ Head(stream) \in Nat
        /\ stream' \in Seq(Nat) /\ Len(stream') = Len(stream) - 1
        /\ \A i \in 1..Len(stream') : i + 1 \in 1..Len(stream) /\ stream'[i] = stream[i + 1]
    BY <1>0, SMTT(30) DEF TypeOK
  <1>2. /\ queue \in Seq(Nat) /\ Len(queue) \in Nat
        /\ all \in Seq(Nat) /\ Len(all) = Len(queue) + 1
        /\ \A i \in 1..Len(queue) : all[i] = queue[i]
        /\ all[Len(queue) + 1] = stream[1]
    BY <1>1, SMTT(30) DEF TypeOK
  <1> HIDE DEF all
  <1>3. EventCapacity \in Nat \ {0}
    BY ConstantsAssumption
  <1>4. /\ queue' \in Seq(Nat) /\ Len(queue') <= EventCapacity
        /\ Overwritten(all, EventCapacity) \subseteq Nat
        /\ \A i \in 1..Len(all) : \/ all[i] \in Overwritten(all, EventCapacity)
                                  \/ \E j \in 1..Len(queue') : queue'[j] = all[i]
        /\ EndOf(queue', all)
    <2>1. all \in Seq(Nat) /\ queue' = Newest(all, EventCapacity)
      BY <1>0, <1>2
    <2> QED
      BY ONLY <1>3, <2>1, ChannelKeepsAll
  <1>5. PICK d \in Nat : \A j \in 1..Len(queue') : j + d \in 1..Len(all) /\ queue'[j] = all[j + d]
    BY <1>4, Zenon DEF EndOf
  <1>6. TypeOK'
    <2>1. memMissed' \subseteq Nat /\ dbMissed' \subseteq Nat
      BY <1>0, <1>4 DEF TypeOK
    <2>2. Len(stream') <= StreamCapacity
      BY <1>1, ConstantsAssumption DEF TypeOK
    <2> QED
      BY <1>0, <1>1, <1>4, <2>1, <2>2 DEF TypeOK
  <1>7. LogShape' /\ AnswerOK'
    BY <1>0, LogKept DEF LogShape, AnswerOK, Rereading
  <1>8. CursorOK' /\ SavedOK' /\ SavedBehindSent'
    BY <1>0 DEF CursorOK, Start, SavedOK, SavedBehindSent
  <1>9. /\ \A i \in 1..Len(all) : all[i] \in 1..collector.sent
        /\ \A i, j \in 1..Len(all) : i <= j => all[i] <= all[j]
        /\ \A i \in 1..Len(all), j \in 1..Len(stream) : all[i] <= stream[j]
    <2>1. \A i \in 1..Len(all) : \/ i \in 1..Len(queue) /\ all[i] = queue[i]
                                 \/ i = Len(queue) + 1 /\ all[i] = stream[1]
      BY <1>2
    <2>2. 1 \in 1..Len(stream) /\ \A j \in 1..Len(stream) : stream[1] <= stream[j]
      BY <1>1 DEF Ordered
    <2>3. \A i \in 1..Len(all) : all[i] \in 1..collector.sent
      BY <2>1, <2>2 DEF Ordered
    <2>4. \A i \in 1..Len(all), j \in 1..Len(stream) : all[i] <= stream[j]
      BY <2>1, <2>2 DEF Ordered
    <2>5. ASSUME NEW i \in 1..Len(all), NEW j \in 1..Len(all), i <= j PROVE all[i] <= all[j]
      <3>1. CASE j \in 1..Len(queue)
        <4>1. i \in 1..Len(queue)
          BY <1>2, <2>5, <3>1
        <4> QED
          BY <1>2, <2>5, <3>1, <4>1 DEF Ordered
      <3>2. CASE j = Len(queue) + 1
        <4>1. all[j] = stream[1]
          BY <1>2, <3>2
        <4> QED
          BY <2>2, <2>4, <4>1
      <3> QED
        BY <1>2, <3>1, <3>2
    <2> QED
      BY <2>3, <2>4, <2>5
  <1>10. \A p : p \in InTransit => p \in InTransit' \/ (p \in memMissed' /\ p \in dbMissed')
    <2>1. ASSUME NEW i \in 1..Len(queue)
          PROVE  queue[i] \in InTransit' \/ (queue[i] \in memMissed' /\ queue[i] \in dbMissed')
      <3>1. i \in 1..Len(all) /\ all[i] = queue[i]
        BY <1>2
      <3> QED
        BY <1>0, <1>4, <3>1 DEF InTransit
    <2>2. ASSUME NEW i \in 1..Len(stream)
          PROVE  stream[i] \in InTransit' \/ (stream[i] \in memMissed' /\ stream[i] \in dbMissed')
      <3>1. CASE i = 1
        <4>1. Len(queue) + 1 \in 1..Len(all) /\ all[Len(queue) + 1] = stream[i]
          BY <1>2, <3>1
        <4> QED
          BY <1>0, <1>4, <4>1 DEF InTransit
      <3>2. CASE i > 1
        <4> DEFINE n == i - 1
        <4>1. n \in 1..Len(stream') /\ n + 1 = i
          BY <1>1, <3>2
        <4>2. stream'[n] = stream[i]
          BY <1>1, <4>1
        <4> QED
          BY <4>1, <4>2 DEF InTransit
      <3> QED
        BY <1>1, <3>1, <3>2
    <2> QED
      BY <1>0, <2>1, <2>2, SMTT(30) DEF InTransit
  <1>11. \A p \in InTransit' : p \in InTransit
    <2>1. \A i \in 1..Len(queue') : queue'[i] \in InTransit
      <3>0. 1 \in 1..Len(stream)
        BY <1>1
      <3>2. stream[1] \in InTransit /\ \A i \in 1..Len(queue) : queue[i] \in InTransit
        BY <3>0 DEF InTransit
      <3>1. \A i \in 1..Len(all) : all[i] \in InTransit
        BY <1>2, <3>2
      <3> QED
        BY <1>5, <3>1
    <2>2. \A i \in 1..Len(stream') : stream'[i] \in InTransit
      BY <1>1 DEF InTransit
    <2> QED
      BY <1>0, <2>1, <2>2, ZenonT(30) DEF InTransit
  <1>12. Ordered'
    <2>1. /\ \A i \in 1..Len(queue') : queue'[i] \in 1..collector.sent
          /\ \A i, j \in 1..Len(queue') : i <= j => queue'[i] <= queue'[j]
      BY <1>5, <1>9
    <2>2. /\ \A i \in 1..Len(stream') : stream'[i] \in 1..collector.sent
          /\ \A i, j \in 1..Len(stream') : i <= j => stream'[i] <= stream'[j]
      <3>1. \A i, j \in 1..Len(stream') : i <= j => i + 1 <= j + 1
        OBVIOUS
      <3>2. /\ \A i \in 1..Len(stream) : stream[i] \in 1..collector.sent
            /\ \A i, j \in 1..Len(stream) : i <= j => stream[i] <= stream[j]
        BY DEF Ordered
      <3> QED
        BY <1>1, <3>1, <3>2
    <2>3. \A i \in 1..Len(queue'), j \in 1..Len(stream') : queue'[i] <= stream'[j]
      BY <1>1, <1>5, <1>9
    <2> QED
      BY <1>0, <1>11, <2>1, <2>2, <2>3 DEF Ordered, Rereading
  <1>13. NoGap'
    <2>1. memMissed \subseteq memMissed' /\ dbMissed \subseteq dbMissed'
      BY <1>0
    <2> QED
      BY <1>0, <1>10, <1>11, <2>1 DEF NoGap
  <1>14. CacheCurrent' /\ RowsCurrent'
    <2>1. memMissed \subseteq memMissed' /\ dbMissed \subseteq dbMissed'
      BY <1>0
    <2>2. \A p : Coming(p) => Coming(p)' \/ (p \in memMissed' /\ p \in dbMissed')
      BY <1>0, <1>10 DEF Coming
    <2> QED
      BY <1>0, <2>1, <2>2, CurrentKept DEF TypeOK
  <1> QED
    BY <1>6, <1>7, <1>8, <1>12, <1>13, <1>14

-----------------------------------------------------------------------------
(* The handler. *)

\* The event the handler takes is the first of those in transit, and nothing else
\* leaves the channels with it.
LEMMA TakeHead ==
  ASSUME IndInv, queue # <<>>, liquidator.at = "recv", queue' = Tail(queue), stream' = stream
  PROVE  /\ Head(queue) \in InTransit /\ Head(queue) \in Positions
         /\ Head(queue) \in 1..collector.sent /\ Head(queue) \in Nat
         /\ queue' \in Seq(Nat) /\ Len(queue') <= EventCapacity
         /\ \A p \in InTransit : Head(queue) <= p
         /\ \A p \in InTransit : p # Head(queue) => p \in InTransit'
         /\ \A i \in 1..Len(queue') : i + 1 \in 1..Len(queue) /\ queue'[i] = queue[i + 1]
         /\ liquidator'.at \notin {"reread", "answer"} => \A p \in InTransit' : p \in InTransit
  <1> USE DEF IndInv
  <1>1. /\ queue \in Seq(Nat) /\ Len(queue) \in Nat \ {0} /\ Head(queue) = queue[1]
        /\ Len(queue) <= EventCapacity
        /\ queue' \in Seq(Nat) /\ Len(queue') = Len(queue) - 1
        /\ \A i \in 1..Len(queue') : i + 1 \in 1..Len(queue) /\ queue'[i] = queue[i + 1]
        /\ collector.sent \in Nat /\ Len(log) \in Nat
    BY DEF TypeOK
  <1>2. 1 \in 1..Len(queue)
    BY <1>1
  <1>3. queue[1] \in InTransit /\ queue[1] \in 1..collector.sent
    BY <1>2 DEF InTransit, Ordered
  <1>4. queue[1] \in Positions
    BY <1>1, <1>3 DEF CursorOK, Positions
  <1>5. \A p \in InTransit : queue[1] <= p
    <2>1. \A i \in 1..Len(queue) : queue[1] <= queue[i]
      BY <1>2 DEF Ordered
    <2>2. \A i \in 1..Len(stream) : queue[1] <= stream[i]
      BY <1>2 DEF Ordered
    <2> QED
      BY <2>1, <2>2 DEF InTransit
  <1>6. \A p \in InTransit : p # queue[1] => p \in InTransit'
    <2>1. ASSUME NEW i \in 1..Len(queue), i # 1 PROVE \E j \in 1..Len(queue') : queue'[j] = queue[i]
      <3> DEFINE n == i - 1
      <3>1. n \in 1..Len(queue') /\ n + 1 = i
        BY <1>1, <2>1
      <3>2. queue'[n] = queue[i]
        BY <1>1, <3>1
      <3> QED
        BY <3>1, <3>2
    <2> SUFFICES ASSUME NEW p \in InTransit, p # queue[1] PROVE p \in InTransit'
      OBVIOUS
    <2>2. CASE \E i \in 1..Len(stream) : p = stream[i]
      BY <2>2 DEF InTransit
    <2>3. CASE \E i \in 1..Len(queue) : p = queue[i]
      <3>1. PICK i \in 1..Len(queue) : p = queue[i]
        BY <2>3
      <3>2. PICK j \in 1..Len(queue') : queue'[j] = p
        BY <2>1, <3>1
      <3> QED
        BY <3>2 DEF InTransit
    <2> QED
      BY <2>2, <2>3 DEF InTransit
  <1>7. liquidator'.at \notin {"reread", "answer"} => \A p \in InTransit' : p \in InTransit
    BY <1>1 DEF InTransit
  <1>8. Len(queue') <= EventCapacity /\ queue[1] \in Nat
    BY <1>1, <1>3, ConstantsAssumption
  <1> QED
    BY <1>1, <1>3, <1>4, <1>5, <1>6, <1>7, <1>8

\* The first in transit may go: what comes after it is where it was.
LEMMA GapKept ==
  ASSUME IndInv, collector' = collector, NEW p \in Nat,
         \A q \in InTransit : p <= q /\ (q # p => q \in InTransit'),
         \A q \in InTransit' : q \in InTransit,
         \A q : q \in memMissed /\ q # p => q \in memMissed',
         \A q : q \in dbMissed /\ q # p => q \in dbMissed'
  PROVE  NoGap'
  <1> SUFFICES ASSUME NEW r \in InTransit, r \in InTransit', NEW q \in (r + 1)..collector.sent
               PROVE  q \in InTransit' \/ (q \in memMissed' /\ q \in dbMissed')
    BY DEF NoGap
  <1>1. r \in Nat /\ collector.sent \in Nat
    BY TransitType DEF IndInv, TypeOK
  <1>2. q # p
    BY <1>1
  <1>3. q \in InTransit \/ (q \in memMissed /\ q \in dbMissed)
    BY DEF IndInv, NoGap
  <1> QED
    BY <1>2, <1>3

\* The channels stay in order when the handler takes the head of the queue.
LEMMA QueueKept ==
  ASSUME IndInv, queue # <<>>, liquidator.at = "recv", queue' = Tail(queue), stream' = stream,
         collector' = collector,
         liquidator'.at = "recv" \/ liquidator'.pos = Head(queue)
  PROVE  Ordered'
  <1> USE DEF IndInv
  <1>1. /\ Head(queue) \in 1..collector.sent
        /\ \A p \in InTransit : Head(queue) <= p
        /\ \A i \in 1..Len(queue') : i + 1 \in 1..Len(queue) /\ queue'[i] = queue[i + 1]
    BY TakeHead
  <1>2. \A i, j \in 1..Len(queue') : i <= j => i + 1 <= j + 1
    <2>1. Len(queue') \in Nat
      BY TakeHead
    <2> QED
      BY <2>1
  <1>3. /\ \A i \in 1..Len(queue') : queue'[i] \in 1..collector.sent
        /\ \A i, j \in 1..Len(queue') : i <= j => queue'[i] <= queue'[j]
        /\ \A i \in 1..Len(queue'), j \in 1..Len(stream) : queue'[i] <= stream[j]
    <2>1. /\ \A i \in 1..Len(queue) : queue[i] \in 1..collector.sent
          /\ \A i, j \in 1..Len(queue) : i <= j => queue[i] <= queue[j]
          /\ \A i \in 1..Len(queue), j \in 1..Len(stream) : queue[i] <= stream[j]
      BY DEF Ordered
    <2> QED
      BY <1>1, <1>2, <2>1
  <1>4. Rereading' => \A p \in InTransit' : liquidator'.pos <= p
    <2> SUFFICES ASSUME Rereading', NEW p \in InTransit' PROVE liquidator'.pos <= p
      OBVIOUS
    <2>1. liquidator'.pos = Head(queue) /\ Head(queue) \in Nat
      BY <1>1 DEF Rereading
    <2>2. p \in InTransit \/ p = Head(queue)
      BY <1>1, <2>1 DEF InTransit
    <2> QED
      BY <1>1, <2>1, <2>2
  <1> QED
    BY <1>1, <1>3, <1>4 DEF Ordered

\* A delivered snapshot is written to the map, and to the rows unless SQLite fails.
LEMMA ApplySnapshotKeeps ==
  ASSUME IndInv, NEW parsed \in SUBSET Keys, ApplySnapshot(parsed)
  PROVE  IndInv'
  <1> USE DEF IndInv
  <1> DEFINE p == Head(queue)
             content == [k \in parsed |-> After(p, k)]
  <1>0. /\ UNCHANGED <<log, oldest, saved, collector, stream, sweep>>
        /\ liquidator.at = "recv" /\ queue # <<>> /\ queue' = Tail(queue)
        /\ parsed \in SUBSET log[p].keys
        /\ Written(p, parsed, content)
        /\ liquidator' = [at |-> "save", pos |-> p, answer |-> 0]
    BY DEF ApplySnapshot, Idle, Gone
  <1>1. /\ p \in InTransit /\ p \in Positions
        /\ p \in 1..collector.sent /\ p \in Nat
        /\ queue' \in Seq(Nat) /\ Len(queue') <= EventCapacity
        /\ \A q \in InTransit : p <= q
        /\ \A q \in InTransit : q # p => q \in InTransit'
        /\ \A i \in 1..Len(queue') : i + 1 \in 1..Len(queue) /\ queue'[i] = queue[i + 1]
        /\ \A q \in InTransit' : q \in InTransit
    BY <1>0, TakeHead
  <1>2. \A k \in parsed : content[k] \in Nat /\ (LastEvent(k) = p => content[k] = Chain(k))
    <2>1. p # 0
      BY <1>1
    <2> QED
      BY <1>1, <2>1 DEF After, Gone, Chain
  <1> HIDE DEF p, content
  <1>3. /\ CacheCurrent' /\ RowsCurrent'
        /\ mem' \in [Keys -> Nat] /\ db' \in [Keys -> Nat] /\ faults' \in 0..MaxFaults
        /\ memMissed' \subseteq Nat /\ dbMissed' \subseteq Nat
        /\ \A q : q \in memMissed /\ q # p => q \in memMissed'
        /\ \A q : q \in dbMissed /\ q # p => q \in dbMissed'
    <2>1. log' = log /\ collector' = collector /\ parsed \in SUBSET log[p].keys /\ Written(p, parsed, content)
      BY <1>0
    <2> QED
      BY <1>1, <1>2, <2>1, WrittenKeeps, ZenonT(60)
  <1>4. TypeOK'
    <2>1. liquidator' \in [at : {"recv", "reread", "answer", "save"}, pos : Nat, answer : Nat]
      BY <1>0, <1>1
    <2> QED
      BY <1>0, <1>1, <1>3, <2>1 DEF TypeOK
  <1>5. LogShape'
    BY <1>0, LogKept DEF LogShape
  <1>6. CursorOK' /\ SavedOK' /\ SavedBehindSent' /\ AnswerOK'
    BY <1>0 DEF CursorOK, Start, SavedOK, SavedBehindSent, AnswerOK, Rereading
  <1>7. NoGap'
    BY <1>0, <1>1, <1>3, GapKept
  <1>8. Ordered'
    BY <1>0, QueueKept DEF p
  <1> QED
    BY <1>3, <1>4, <1>5, <1>6, <1>7, <1>8

\* An event that cannot be decoded is lost, and counted as lost.
LEMMA UndecodableKeeps == ASSUME IndInv, Undecodable PROVE IndInv'
  <1> USE DEF IndInv
  <1> DEFINE p == Head(queue)
  <1>0. /\ UNCHANGED <<log, oldest, saved, db, collector, stream, liquidator, mem, sweep>>
        /\ liquidator.at = "recv" /\ queue # <<>> /\ queue' = Tail(queue) /\ Fault
        /\ memMissed' = memMissed \cup {p} /\ dbMissed' = dbMissed \cup {p}
    BY DEF Undecodable, persistent, Miss
  <1>1. /\ p \in Nat
        /\ queue' \in Seq(Nat) /\ Len(queue') <= EventCapacity
        /\ \A q \in InTransit : p <= q
        /\ \A q \in InTransit : q # p => q \in InTransit'
        /\ \A q \in InTransit' : q \in InTransit
    BY <1>0, TakeHead
  <1>2. Ordered'
    BY <1>0, QueueKept
  <1> HIDE DEF p
  <1>3. TypeOK'
    <2>1. faults' \in 0..MaxFaults
      BY <1>0, FaultsKept
    <2>2. memMissed' \subseteq Nat /\ dbMissed' \subseteq Nat
      BY <1>0, <1>1 DEF TypeOK
    <2> QED
      BY <1>0, <1>1, <2>1, <2>2 DEF TypeOK
  <1>4. LogShape' /\ AnswerOK'
    BY <1>0, LogKept DEF LogShape, AnswerOK, Rereading
  <1>5. CursorOK' /\ SavedOK' /\ SavedBehindSent'
    BY <1>0 DEF CursorOK, Start, SavedOK, SavedBehindSent
  <1>6. NoGap'
    BY <1>0, <1>1, GapKept
  <1>7. CacheCurrent' /\ RowsCurrent'
    <2>1. memMissed \subseteq memMissed' /\ dbMissed \subseteq dbMissed'
      BY <1>0
    <2>2. \A q : Coming(q) => Coming(q)' \/ (q \in memMissed' /\ q \in dbMissed')
      BY <1>0, <1>1 DEF Coming
    <2> QED
      BY <1>0, <2>1, <2>2, CurrentKept DEF TypeOK
  <1> QED
    BY <1>2, <1>3, <1>4, <1>5, <1>6, <1>7

\* The handler asks the chain for the obligation an event names.
LEMMA AskObligationKeeps == ASSUME IndInv, AskObligation PROVE IndInv'
  <1> USE DEF IndInv
  <1> DEFINE p == Head(queue)
  <1>0. /\ UNCHANGED <<log, oldest, saved, db, collector, stream, mem, sweep, faults, memMissed, dbMissed>>
        /\ liquidator.at = "recv" /\ queue # <<>> /\ queue' = Tail(queue) /\ log[p].kind = "issue"
        /\ liquidator' = [at |-> "reread", pos |-> p, answer |-> 0]
    BY DEF AskObligation, persistent, missed, Idle, Gone
  <1>1. /\ p \in Nat /\ p \in InTransit
        /\ queue' \in Seq(Nat) /\ Len(queue') <= EventCapacity
        /\ \A q \in InTransit : p <= q
        /\ \A q \in InTransit : q # p => q \in InTransit'
        /\ \A i \in 1..Len(queue') : i + 1 \in 1..Len(queue) /\ queue'[i] = queue[i + 1]
    BY <1>0, TakeHead
  <1>2. Ordered'
    BY <1>0, QueueKept
  <1> HIDE DEF p
  <1>3. TypeOK'
    <2>1. liquidator' \in [at : {"recv", "reread", "answer", "save"}, pos : Nat, answer : Nat]
      BY <1>0, <1>1
    <2> QED
      BY <1>0, <1>1, <2>1 DEF TypeOK
  <1>4. LogShape'
    BY <1>0, LogKept DEF LogShape
  <1>5. CursorOK' /\ SavedOK' /\ SavedBehindSent' /\ AnswerOK'
    BY <1>0 DEF CursorOK, Start, SavedOK, SavedBehindSent, AnswerOK, Rereading
  <1>6. \A q : q \in InTransit' <=> q \in InTransit
    <2>1. p \in InTransit'
      BY <1>0 DEF InTransit
    <2>2. \A q \in InTransit' : q = p \/ q \in InTransit
      BY <1>0, <1>1 DEF InTransit
    <2> QED
      BY <1>1, <2>1, <2>2
  <1>7. NoGap' /\ \A q : Coming(q)' <=> Coming(q)
    BY <1>0, <1>6 DEF NoGap, Coming
  <1>8. CacheCurrent' /\ RowsCurrent'
    BY <1>0, <1>7, CurrentKept DEF TypeOK
  <1> QED
    BY <1>2, <1>3, <1>4, <1>5, <1>7, <1>8

\* An issue event has one key, so that the answer is the obligation of that key.
LEMMA RereadAnsweredKeeps == ASSUME IndInv, RereadAnswered PROVE IndInv'
  <1> USE DEF IndInv
  <1>0. /\ UNCHANGED <<log, oldest, saved, db, collector, stream, queue, mem, sweep, faults, memMissed, dbMissed>>
        /\ liquidator.at = "reread"
    BY DEF RereadAnswered, persistent, missed
  <1>1. PICK k \in log[liquidator.pos].keys :
             liquidator' = [liquidator EXCEPT !.at = "answer", !.answer = Chain(k)]
    BY DEF RereadAnswered
  <1>2. Chain(k) \in Nat
    BY ChainType DEF TypeOK
  <1>3. /\ liquidator' \in [at : {"recv", "reread", "answer", "save"}, pos : Nat, answer : Nat]
        /\ liquidator'.at = "answer" /\ liquidator'.pos = liquidator.pos /\ liquidator'.answer = Chain(k)
    BY <1>1, <1>2 DEF TypeOK
  <1>4. TypeOK'
    BY <1>0, <1>3 DEF TypeOK
  <1>5. LogShape'
    BY <1>0, LogKept DEF LogShape
  <1>6. CursorOK' /\ SavedOK' /\ SavedBehindSent'
    BY <1>0 DEF CursorOK, Start, SavedOK, SavedBehindSent
  <1>7. AnswerOK'
    <2>1. liquidator.pos \in Positions
      <3>1. liquidator.pos \in 1..collector.sent
        BY <1>0 DEF Ordered
      <3>2. collector.sent \in Nat /\ Len(log) \in Nat /\ collector.sent <= Len(log)
        BY DEF TypeOK, CursorOK
      <3> QED
        BY <3>1, <3>2 DEF Positions
    <2>2. log[liquidator.pos].kind = "issue"
      BY <1>0 DEF AnswerOK, Rereading
    <2>3. log[liquidator.pos].keys = {k}
      BY <2>1, <2>2 DEF LogShape
    <2> QED
      BY <1>0, <1>3, <2>2, <2>3, LogKept DEF AnswerOK, Rereading
  <1>8. InTransit' = InTransit
    BY <1>0, <1>3 DEF InTransit
  <1>9. NoGap' /\ Ordered' /\ \A q : Coming(q)' <=> Coming(q)
    <2>1. Rereading /\ liquidator.at # "recv"
      BY <1>0 DEF Rereading
    <2> QED
      BY <1>0, <1>3, <1>8, <2>1 DEF NoGap, Ordered, Coming
  <1>10. CacheCurrent' /\ RowsCurrent'
    BY <1>0, <1>9, CurrentKept DEF TypeOK
  <1> QED
    BY <1>4, <1>5, <1>6, <1>7, <1>9, <1>10

\* The event being re-read is the first in transit; the answer is written.
LEMMA RereadKeeps == ASSUME IndInv, Reread PROVE IndInv'
  <1> USE DEF IndInv
  <1> DEFINE p == liquidator.pos
             content == [k \in Keys |-> liquidator.answer]
  <1>0. /\ UNCHANGED <<log, oldest, saved, collector, stream, queue, sweep>>
        /\ liquidator.at = "answer"
        /\ Written(p, log[p].keys, content)
        /\ liquidator' = [liquidator EXCEPT !.at = "save", !.answer = Gone]
    BY DEF Reread
  <1>1. /\ liquidator' \in [at : {"recv", "reread", "answer", "save"}, pos : Nat, answer : Nat]
        /\ liquidator'.at = "save" /\ liquidator'.pos = p /\ p \in Nat /\ liquidator.answer \in Nat
    BY <1>0 DEF TypeOK, Gone
  <1>2. /\ p \in InTransit /\ p \in 1..collector.sent
        /\ \A q \in InTransit : p <= q
        /\ \A q \in InTransit : q # p => q \in InTransit'
        /\ \A q \in InTransit' : q \in InTransit
    BY <1>0, <1>1 DEF InTransit, Ordered, Rereading
  <1>3. p \in Positions
    <2>1. collector.sent \in Nat /\ Len(log) \in Nat /\ collector.sent <= Len(log)
      BY DEF TypeOK, CursorOK
    <2> QED
      BY <1>2, <2>1 DEF Positions
  <1>4. log[p].keys \in SUBSET Keys
    <2>1. log \in Seq(Events)
      BY DEF TypeOK
    <2>2. log[p] \in Events
      BY <1>3, <2>1 DEF Positions
    <2> QED
      BY <2>2 DEF Events
  <1>5. \A k \in log[p].keys : content[k] \in Nat /\ (LastEvent(k) = p => content[k] = Chain(k))
    BY <1>0, <1>1, <1>4 DEF AnswerOK
  <1> HIDE DEF p, content
  <1>6. /\ CacheCurrent' /\ RowsCurrent'
        /\ mem' \in [Keys -> Nat] /\ db' \in [Keys -> Nat] /\ faults' \in 0..MaxFaults
        /\ memMissed' \subseteq Nat /\ dbMissed' \subseteq Nat
        /\ \A q : q \in memMissed /\ q # p => q \in memMissed'
        /\ \A q : q \in dbMissed /\ q # p => q \in dbMissed'
    BY <1>0, <1>2, <1>3, <1>5, WrittenKeeps
  <1>7. TypeOK'
    BY <1>0, <1>1, <1>6 DEF TypeOK
  <1>8. LogShape'
    BY <1>0, LogKept DEF LogShape
  <1>9. CursorOK' /\ SavedOK' /\ SavedBehindSent' /\ AnswerOK'
    BY <1>0, <1>1 DEF CursorOK, Start, SavedOK, SavedBehindSent, AnswerOK, Rereading
  <1>10. NoGap'
    BY <1>0, <1>1, <1>2, <1>6, GapKept
  <1>11. Ordered'
    BY <1>0, <1>1, <1>2 DEF Ordered, Rereading
  <1> QED
    BY <1>6, <1>7, <1>8, <1>9, <1>10, <1>11

\* The answer does not come: the event is lost, and counted as lost.
LEMMA RereadFailsKeeps == ASSUME IndInv, RereadFails PROVE IndInv'
  <1> USE DEF IndInv
  <1> DEFINE p == liquidator.pos
  <1>0. /\ UNCHANGED <<log, oldest, saved, db, collector, stream, queue, mem, sweep>>
        /\ liquidator.at = "reread" /\ Fault
        /\ memMissed' = memMissed \cup {p} /\ dbMissed' = dbMissed \cup {p}
        /\ liquidator' = [liquidator EXCEPT !.at = "save"]
    BY DEF RereadFails, persistent, Miss
  <1>1. /\ liquidator' \in [at : {"recv", "reread", "answer", "save"}, pos : Nat, answer : Nat]
        /\ liquidator'.at = "save" /\ liquidator'.pos = p /\ p \in Nat
    BY <1>0 DEF TypeOK
  <1>2. /\ p \in InTransit /\ p \in 1..collector.sent
        /\ \A q \in InTransit : p <= q
        /\ \A q \in InTransit : q # p => q \in InTransit'
        /\ \A q \in InTransit' : q \in InTransit
    BY <1>0, <1>1 DEF InTransit, Ordered, Rereading
  <1> HIDE DEF p
  <1>3. TypeOK'
    <2>1. faults' \in 0..MaxFaults
      BY <1>0, FaultsKept
    <2>2. memMissed' \subseteq Nat /\ dbMissed' \subseteq Nat
      BY <1>0, <1>1 DEF TypeOK
    <2> QED
      BY <1>0, <1>1, <2>1, <2>2 DEF TypeOK
  <1>4. LogShape'
    BY <1>0, LogKept DEF LogShape
  <1>5. CursorOK' /\ SavedOK' /\ SavedBehindSent' /\ AnswerOK'
    BY <1>0, <1>1 DEF CursorOK, Start, SavedOK, SavedBehindSent, AnswerOK, Rereading
  <1>6. NoGap'
    BY <1>0, <1>1, <1>2, GapKept
  <1>7. Ordered'
    BY <1>0, <1>1, <1>2 DEF Ordered, Rereading
  <1>8. CacheCurrent' /\ RowsCurrent'
    <2>1. memMissed \subseteq memMissed' /\ dbMissed \subseteq dbMissed'
      BY <1>0
    <2>2. \A q : Coming(q) => Coming(q)' \/ (q \in memMissed' /\ q \in dbMissed')
      BY <1>0, <1>2 DEF Coming
    <2> QED
      BY <1>0, <2>1, <2>2, CurrentKept DEF TypeOK
  <1> QED
    BY <1>3, <1>4, <1>5, <1>6, <1>7, <1>8

\* The cursor that is saved is the position of the event just handled.
LEMMA SaveEventCursorKeeps == ASSUME IndInv, SaveEventCursor PROVE IndInv'
  <1> USE DEF IndInv
  <1>0. /\ UNCHANGED <<log, oldest, db, collector, stream, queue, mem, sweep, memMissed, dbMissed>>
        /\ liquidator.at = "save"
        /\ \/ saved' = [cursor |-> liquidator.pos, ledger |-> liquidator.pos] /\ UNCHANGED faults
           \/ UNCHANGED saved /\ Fault
        /\ liquidator' = [at |-> "recv", pos |-> 0, answer |-> 0]
    BY DEF SaveEventCursor, missed, Idle, Gone
  <1>1. liquidator.pos \in 1..collector.sent /\ liquidator.pos \in Nat
    BY <1>0 DEF Ordered, TypeOK
  <1>2. TypeOK'
    <2>1. faults' \in 0..MaxFaults
      BY <1>0, FaultsKept
    <2>2. saved' \in Cursors
      BY <1>0, <1>1 DEF TypeOK, Cursors
    <2>3. liquidator' \in [at : {"recv", "reread", "answer", "save"}, pos : Nat, answer : Nat]
      BY <1>0
    <2> QED
      BY <1>0, <2>1, <2>2, <2>3 DEF TypeOK
  <1>3. LogShape' /\ AnswerOK'
    BY <1>0, LogKept DEF LogShape, AnswerOK, Rereading
  <1>4. CursorOK'
    BY <1>0 DEF CursorOK, Start
  <1>5. SavedOK' /\ SavedBehindSent'
    BY <1>0, <1>1 DEF SavedOK, SavedBehindSent, NoCursor, TypeOK
  <1>6. InTransit' = InTransit
    BY <1>0 DEF InTransit
  <1>7. Ordered' /\ NoGap' /\ \A q : Coming(q)' <=> Coming(q)
    BY <1>0, <1>6 DEF Ordered, Rereading, NoGap, Coming
  <1>8. CacheCurrent' /\ RowsCurrent'
    BY <1>0, <1>7, CurrentKept DEF TypeOK
  <1> QED
    BY <1>2, <1>3, <1>4, <1>5, <1>7, <1>8

-----------------------------------------------------------------------------
(* The sweep and the restart. *)

\* The initiator reads rows; only its delete writes.
LEMMA SweepKeeps ==
  ASSUME IndInv, SweepLoad \/ \E k \in Keys : SweepPasses(k) \/ SweepFindsGone(k)
  PROVE  IndInv'
  <1> USE DEF IndInv
  <1>0. /\ UNCHANGED <<log, oldest, saved, db, collector, stream, queue, liquidator, mem, faults, memMissed, dbMissed>>
        /\ sweep' \in [loaded : SUBSET Keys, gone : Keys \cup {NoKey}]
    BY DEF SweepLoad, SweepPasses, SweepFindsGone, persistent, missed, TypeOK
  <1>1. TypeOK'
    BY <1>0 DEF TypeOK
  <1>2. LogShape' /\ AnswerOK'
    BY <1>0, LogKept DEF LogShape, AnswerOK, Rereading
  <1>3. CursorOK' /\ SavedOK' /\ SavedBehindSent'
    BY <1>0 DEF CursorOK, Start, SavedOK, SavedBehindSent
  <1>4. Ordered' /\ NoGap' /\ \A q : Coming(q)' <=> Coming(q)
    BY <1>0, TransitKept
  <1>5. CacheCurrent' /\ RowsCurrent'
    BY <1>0, <1>4, CurrentKept DEF TypeOK
  <1> QED
    BY <1>1, <1>2, <1>3, <1>4, <1>5

\* A row is deleted when the chain has none, or the deletion counts as a loss.
LEMMA SweepDeleteKeeps == ASSUME IndInv, SweepDelete PROVE IndInv'
  <1> USE DEF IndInv
  <1> DEFINE k == sweep.gone
  <1>0. /\ UNCHANGED <<log, oldest, saved, collector, stream, queue, liquidator, mem, memMissed>>
        /\ k # NoKey
        /\ sweep' = [sweep EXCEPT !.gone = NoKey]
        /\ \/ /\ db' = [db EXCEPT ![k] = Gone]
              /\ dbMissed' = IF Chain(k) = Gone THEN dbMissed ELSE dbMissed \cup {LastEvent(k)}
              /\ UNCHANGED faults
           \/ UNCHANGED <<db, dbMissed>> /\ Fault
    BY DEF SweepDelete
  <1>1. k \in Keys /\ sweep' \in [loaded : SUBSET Keys, gone : Keys \cup {NoKey}]
    BY <1>0 DEF TypeOK
  <1> HIDE DEF k
  <1>2. LastEvent(k) \in Nat
    BY LastEventParts DEF TypeOK
  <1>3. TypeOK'
    <2>1. faults' \in 0..MaxFaults
      BY <1>0, FaultsKept
    <2>2. dbMissed' \subseteq Nat
      BY <1>0, <1>2 DEF TypeOK
    <2>3. db' \in [Keys -> Nat]
      <3>1. db \in [Keys -> Nat] /\ Gone \in Nat
        BY DEF TypeOK, Gone
      <3> QED
        BY <1>0, <3>1
    <2> QED
      BY <1>0, <1>1, <2>1, <2>2, <2>3 DEF TypeOK
  <1>4. LogShape' /\ AnswerOK'
    BY <1>0, LogKept DEF LogShape, AnswerOK, Rereading
  <1>5. CursorOK' /\ SavedOK' /\ SavedBehindSent'
    BY <1>0 DEF CursorOK, Start, SavedOK, SavedBehindSent
  <1>6. dbMissed \subseteq dbMissed'
    BY <1>0
  <1>7. Ordered' /\ NoGap' /\ \A q : Coming(q)' <=> Coming(q)
    BY <1>0, <1>6, TransitKept
  <1>8. \A j : LastEvent(j)' = LastEvent(j) /\ Chain(j)' = Chain(j)
    BY <1>0, LogKept
  <1>9. CacheCurrent'
    BY <1>0, <1>7, <1>8 DEF CacheCurrent, Coming
  <1>10. RowsCurrent'
    <2> SUFFICES ASSUME NEW j \in Keys, LastEvent(j) > 0, ~Coming(LastEvent(j)), LastEvent(j) \notin dbMissed'
                 PROVE  db'[j] = Chain(j)
      <3>1. \A j : Coming(LastEvent(j))' <=> Coming(LastEvent(j))
        BY <1>0, <1>7, <1>8, TransitKept, <1>6 DEF Coming
      <3> QED
        BY <1>8, <3>1 DEF RowsCurrent
    <2>1. db[j] = Chain(j)
      BY <1>6 DEF RowsCurrent
    <2>2. db \in [Keys -> Nat]
      BY DEF TypeOK
    <2> QED
      BY <1>0, <1>1, <2>1, <2>2
  <1> QED
    BY <1>3, <1>4, <1>5, <1>7, <1>9, <1>10

\* The process starts again from the rows and the saved cursor.
LEMMA RestartKeeps == ASSUME IndInv, Restart PROVE IndInv'
  <1> USE DEF IndInv
  <1> DEFINE lost == {p \in InTransit : p <= collector'.sent}
  <1>0. /\ UNCHANGED <<log, oldest, saved, db>> /\ Fault
        /\ collector' = Resumed(saved)
        /\ stream' = <<>> /\ queue' = <<>> /\ liquidator' = [at |-> "recv", pos |-> 0, answer |-> 0]
        /\ sweep' = NoSweep
        /\ dbMissed' = dbMissed \cup lost
        /\ \/ mem' = db /\ memMissed' = dbMissed \cup lost
           \/ mem' = [k \in Keys |-> Gone] /\ memMissed' = dbMissed \cup 1..collector'.sent
    BY DEF Restart, persistent, Idle, Gone
  <1>1. saved.cursor \in Nat /\ saved.ledger \in Nat /\ Len(log) \in Nat /\ collector.sent \in Nat
    BY DEF TypeOK, Cursors
  <1>2. /\ collector' \in [at : {"poll", "save", "ended"}, cursor : Nat, ledger : Nat, first : BOOLEAN, sent : Nat]
        /\ collector'.at = "poll" /\ collector'.cursor = saved.cursor /\ collector'.ledger = saved.ledger
        /\ collector'.sent = saved.cursor /\ collector'.sent \in Nat
    BY <1>0, <1>1 DEF Resumed, NoCursor, SavedOK
  <1>3. /\ stream' \in Seq(Nat) /\ queue' \in Seq(Nat) /\ Len(stream') = 0 /\ Len(queue') = 0
        /\ InTransit' = {}
    BY <1>0 DEF InTransit
  <1>4. collector'.sent <= collector.sent
    BY <1>2 DEF SavedBehindSent
  <1>5. TypeOK'
    <2>1. faults' \in 0..MaxFaults
      BY <1>0, FaultsKept
    <2>2. lost \subseteq Nat /\ 1..collector'.sent \subseteq Nat
      BY <1>2, TransitType
    <2>3. dbMissed' \subseteq Nat /\ memMissed' \subseteq Nat
      <3> HIDE DEF lost
      <3> QED
        BY <1>0, <2>2 DEF TypeOK
    <2>4. mem' \in [Keys -> Nat]
      BY <1>0, SMTT(30) DEF TypeOK, Gone
    <2>5. sweep' \in [loaded : SUBSET Keys, gone : Keys \cup {NoKey}]
      BY <1>0 DEF NoSweep
    <2>6. liquidator' \in [at : {"recv", "reread", "answer", "save"}, pos : Nat, answer : Nat]
      BY <1>0
    <2>7. Len(stream') <= StreamCapacity /\ Len(queue') <= EventCapacity
      BY <1>3, ConstantsAssumption
    <2> QED
      BY <1>0, <1>2, <1>3, <2>1, <2>3, <2>4, <2>5, <2>6, <2>7 DEF TypeOK
  <1>6. LogShape'
    BY <1>0, LogKept DEF LogShape
  <1>7. AnswerOK'
    BY <1>0 DEF AnswerOK, Rereading
  <1>8. CursorOK'
    BY <1>0, <1>1, <1>2, <1>4 DEF CursorOK, Start, NoCursor, SavedOK
  <1>9. SavedOK' /\ SavedBehindSent'
    BY <1>0, <1>1, <1>2 DEF SavedOK, SavedBehindSent
  <1>10. Ordered' /\ NoGap'
    BY <1>0, <1>3 DEF Ordered, Rereading, NoGap
  <1>11. ASSUME NEW k \in Keys, LastEvent(k)' > 0, ~Coming(LastEvent(k))'
         PROVE  /\ LastEvent(k)' = LastEvent(k) /\ Chain(k)' = Chain(k)
                /\ LastEvent(k) > 0 /\ LastEvent(k) \in Nat /\ LastEvent(k) <= collector'.sent
                /\ Coming(LastEvent(k)) => LastEvent(k) \in lost
    <2>1. LastEvent(k)' = LastEvent(k) /\ Chain(k)' = Chain(k)
      BY <1>0, LogKept
    <2>2. LastEvent(k) \in Nat
      BY LastEventParts DEF TypeOK
    <2>3. LastEvent(k) <= collector'.sent
      BY <1>2, <1>11, <2>1, <2>2 DEF Coming
    <2>4. Coming(LastEvent(k)) => LastEvent(k) \in InTransit
      BY <1>1, <1>2, <1>4, <2>2, <2>3 DEF Coming
    <2> QED
      BY <1>11, <2>1, <2>2, <2>3, <2>4
  <1> HIDE DEF lost
  <1>12. RowsCurrent'
    BY <1>0, <1>11 DEF RowsCurrent
  <1>13. CacheCurrent'
    <2>1. CASE mem' = db /\ memMissed' = dbMissed \cup lost
      BY <1>0, <1>11, <2>1 DEF RowsCurrent, CacheCurrent
    <2>2. CASE memMissed' = dbMissed \cup 1..collector'.sent
      BY <1>2, <1>11, <2>2 DEF CacheCurrent
    <2> QED
      BY <1>0, <2>1, <2>2
  <1> QED
    BY <1>5, <1>6, <1>7, <1>8, <1>9, <1>10, <1>12, <1>13

-----------------------------------------------------------------------------
(* The theorems. *)

\* Every step keeps the inductive invariant.
LEMMA NextKeeps == ASSUME IndInv, [Next]_vars PROVE IndInv'
  <1>1. CASE UNCHANGED vars
    <2>1. UNCHANGED <<log, oldest, saved, db, collector, stream, queue, liquidator, mem, sweep, faults, memMissed, dbMissed>>
      BY <1>1 DEF vars, persistent, missed
    <2>2. InTransit' = InTransit
      BY <2>1 DEF InTransit
    <2>3. TypeOK' /\ LogShape' /\ AnswerOK'
      BY <2>1, LogKept DEF IndInv, TypeOK, LogShape, AnswerOK, Rereading
    <2>5. CursorOK' /\ SavedOK' /\ Ordered' /\ NoGap' /\ SavedBehindSent'
      BY <2>1, <2>2 DEF IndInv, CursorOK, Start, SavedOK, Ordered, Rereading, NoGap, SavedBehindSent
    <2>4. CacheCurrent' /\ RowsCurrent'
      BY <2>1, <2>2, CurrentKept DEF IndInv, TypeOK, Coming
    <2> QED
      BY <2>3, <2>4, <2>5 DEF IndInv
  <1>2. CASE \E kind \in {"snapshot", "issue"}, S \in SUBSET Keys \ {{}} :
                 \E closed \in SUBSET S : Emit(kind, S, closed)
    BY <1>2, EmitKeeps
  <1>3. CASE Prune
    BY <1>3, PruneKeeps
  <1>4. CASE Collect
    BY <1>4, PollOkKeeps, SaveCursorKeeps, PollFailsKeeps, PollTerminalKeeps DEF Collect
  <1>5. CASE Forward
    BY <1>5, ForwardKeeps
  <1>6. CASE Handle
    BY <1>6, ApplySnapshotKeeps, UndecodableKeeps, AskObligationKeeps, RereadAnsweredKeeps, RereadKeeps,
       RereadFailsKeeps, SaveEventCursorKeeps DEF Handle
  <1>7. CASE Sweep
    BY <1>7, SweepKeeps, SweepDeleteKeeps DEF Sweep
  <1>8. CASE Restart
    BY <1>8, RestartKeeps
  <1> QED
    BY <1>1, <1>2, <1>3, <1>4, <1>5, <1>6, <1>7, <1>8 DEF Next

\* The inductive invariant holds in every reachable state.
THEOREM Invariance == Spec => []IndInv
  BY InitKeeps, NextKeeps, PTL DEF Spec

\* Every variable keeps its type, and neither channel outgrows its capacity.
THEOREM EventTypeCorrect == Spec => []TypeOK
  BY Invariance, PTL DEF IndInv

\* The liquidator's map follows the chain through lag, resets, replays, re-reads
\* and restarts, unless the last event of an obligation was lost in a counted way.
THEOREM MapFollowsChain == Spec => []CacheCurrent
  BY Invariance, PTL DEF IndInv

\* So do the SQLite rows, which the sweep deletes from and a restart reads.
THEOREM RowsFollowChain == Spec => []RowsCurrent
  BY Invariance, PTL DEF IndInv

\* The row of event_cursor, which two tasks write, is never ahead of what was sent.
THEOREM SavedCursorBehind == Spec => []SavedBehindSent
  BY Invariance, PTL DEF IndInv
=============================================================================

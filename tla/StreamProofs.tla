---------------------------- MODULE StreamProofs ----------------------------
(***************************************************************************)
(* Proofs about EventStream, for any number of events and faults, any page *)
(* size and page cap, any live buffer and any window of seen ids: no       *)
(* cursor runs ahead of the tape, the consumer implements EventTape, and   *)
(* from a cursor within retention nothing is lost.                         *)
(***************************************************************************)
EXTENDS MCEventStream, FiniteSetTheorems, TLAPS

Settled == applied \cup skipped

\* Positions in the log, and the sets of them.
Placed ==
  /\ head \in 0..MaxEvents
  /\ cursor \in 0..head /\ stored \in 0..head
  /\ joined \in 0..head /\ read \in joined..head
  /\ pend \in [Flushers -> 0..head \cup {None}]
  /\ seen \in Seq(Events)
  /\ applied \subseteq 1..head /\ skipped \subseteq 1..head /\ shown \in 0..head
  /\ more \in BOOLEAN /\ reader \in BOOLEAN

\* An id in the window was applied: only an accepted event stays there.
SeenIsApplied == \A i \in DOMAIN seen : seen[i] \in applied

\* The page holds the events right behind what is settled.
PageFollows ==
  \E lo \in 1..(MaxEvents + 1), hi \in 0..head : page = lo..hi /\ 1..(lo - 1) \subseteq Settled

\* The backlog ends with the last frame read: while replay runs it goes back
\* to the moment the socket came up, afterwards to what is settled.
BacklogFollows ==
  /\ phase = "replay" => buffer = (joined + 1)..read
  /\ phase = "drain" => \E lo \in 1..(MaxEvents + 1) :
       buffer = lo..read /\ lo <= read + 1 /\ 1..(lo - 1) \subseteq Settled

\* A short page reached the events the socket brings.
ReplayReaches == phase = "replay" /\ ~more => 1..joined \subseteq Settled \cup page

LiveFollows == phase = "live" /\ reader => 1..read \subseteq Settled

IInv ==
  /\ Placed /\ CursorBehindTape /\ SeenIsApplied
  /\ PageFollows /\ BacklogFollows /\ ReplayReaches /\ LiveFollows

-----------------------------------------------------------------------------
\* The least of an interval is its first number.
LEMMA LeastOfInterval ==
  ASSUME NEW lo \in Nat, NEW hi \in Nat, lo <= hi
  PROVE  Least(lo..hi) = lo
<1>1. lo \in lo..hi /\ \A o \in lo..hi : lo <= o
  OBVIOUS
<1>2. \A e \in lo..hi : (\A o \in lo..hi : e <= o) => e = lo
  OBVIOUS
<1>3. QED  BY <1>1, <1>2 DEF Least

\* Without its first number an interval is the next interval.
LEMMA RestOfInterval ==
  ASSUME NEW lo \in Nat, NEW hi \in Nat, lo <= hi
  PROVE  (lo..hi) \ {lo} = (lo + 1)..hi
  OBVIOUS

\* Making room for an id and adding it bring no other id into the window.
LEMMA WindowKeeps ==
  ASSUME seen \in Seq(Events), NEW e \in Events
  PROVE  /\ Evicted \in Seq(Events)
         /\ \A i \in DOMAIN Evicted : \E j \in DOMAIN seen : Evicted[i] = seen[j]
         /\ Append(Evicted, e) \in Seq(Events)
         /\ \A i \in DOMAIN Append(Evicted, e) :
              Append(Evicted, e)[i] = e \/ \E j \in DOMAIN seen : Append(Evicted, e)[i] = seen[j]
<1>1. Evicted \in Seq(Events) /\ \A i \in DOMAIN Evicted : \E j \in DOMAIN seen : Evicted[i] = seen[j]
  <2>1. CASE Len(seen) < SeenCap
    BY <2>1 DEF Evicted
  <2>2. CASE ~(Len(seen) < SeenCap)
    <3>1. seen # <<>> /\ Evicted = Tail(seen)
      BY <2>2, StreamIsSized DEF Evicted, StreamAssumption
    <3>2. Tail(seen) \in Seq(Events)
      BY <3>1
    <3>3. ASSUME NEW i \in DOMAIN Tail(seen)
          PROVE  i + 1 \in DOMAIN seen /\ Tail(seen)[i] = seen[i + 1]
      BY <3>1
    <3>4. QED  BY <3>1, <3>2, <3>3
  <2>3. QED  BY <2>1, <2>2
<1>2. ASSUME NEW i \in DOMAIN Append(Evicted, e)
      PROVE  Append(Evicted, e)[i] = e \/ (i \in DOMAIN Evicted /\ Append(Evicted, e)[i] = Evicted[i])
  BY <1>1
<1>3. QED  BY <1>1, <1>2

-----------------------------------------------------------------------------
(* process *)

Processing(e) == Duplicate(e) \/ Apply(e) \/ Defer(e)

\* Whatever process does with an event whose predecessors are settled, the
\* cursor stays behind what is settled and the window within what is applied.
LEMMA ProcessKeeps ==
  ASSUME Placed, SeenIsApplied, CursorBehindTape,
         NEW e \in 1..head, 1..(e - 1) \subseteq Settled, Processing(e), skipped' = skipped
  PROVE  /\ cursor' \in 0..head /\ 1..cursor' \subseteq Settled'
         /\ seen' \in Seq(Events) /\ SeenIsApplied'
         /\ applied \subseteq applied' /\ applied' \subseteq 1..head /\ shown' \in 0..head
         /\ Duplicate(e) \/ Apply(e) => e \in applied'
<1>1. 1..cursor \subseteq Settled
  BY StreamIsSized DEF CursorBehindTape, Settled, Placed, StreamAssumption
<1>2. e \in Events /\ e \in Nat
  BY StreamIsSized DEF Placed, Events, StreamAssumption
<1>3. CASE Duplicate(e)
  BY <1>1, <1>3 DEF Duplicate, consumer, Known, SeenIsApplied, Placed, Settled
<1>4. CASE Apply(e)
  <2>1. seen' = Append(Evicted, e) /\ applied' = applied \cup {e} /\ shown' = e /\ cursor' = e
    BY <1>4 DEF Apply
  <2>2. seen' \in Seq(Events) /\ SeenIsApplied'
    BY <1>2, <2>1, WindowKeeps DEF Placed, SeenIsApplied
  <2>3. 1..e \subseteq Settled'
    BY <2>1 DEF Settled
  <2>4. QED  BY <2>1, <2>2, <2>3 DEF Placed
<1>5. CASE Defer(e)
  <2>1. seen' = Evicted /\ UNCHANGED <<cursor, applied, shown>>
    BY <1>5 DEF Defer
  <2>2. seen' \in Seq(Events) /\ SeenIsApplied'
    BY <1>2, <2>1, WindowKeeps DEF Placed, SeenIsApplied
  <2>3. ~Duplicate(e) /\ ~Apply(e)
    BY <1>5, <2>1 DEF Defer, Duplicate, Apply, Fault, consumer
  <2>4. QED  BY <1>1, <2>1, <2>2, <2>3 DEF Placed, Settled
<1>6. QED  BY <1>3, <1>4, <1>5 DEF Processing

\* Replay works on the first event of the page, Drain on the first of the
\* backlog, Live on the next frame: each has its predecessors settled.
LEMMA ReplayTakesFirst ==
  ASSUME Placed, PageFollows, Replay
  PROVE  \E lo \in 1..head, hi \in 0..head :
           /\ page = lo..hi /\ 1..(lo - 1) \subseteq Settled
           /\ \/ (Duplicate(lo) \/ Apply(lo)) /\ page' = (lo + 1)..hi /\ phase' = "replay"
              \/ Defer(lo) /\ page' = page /\ phase' = "closing"
<1>1. PICK lo \in 1..(MaxEvents + 1), hi \in 0..head :
        page = lo..hi /\ 1..(lo - 1) \subseteq Settled
  BY DEF PageFollows
<1>2. lo \in Nat /\ hi \in Nat /\ head \in Nat
  BY StreamIsSized DEF StreamAssumption, Placed
<1>3. lo <= hi
  BY <1>1, <1>2 DEF Replay
<1>4. Least(page) = lo /\ page \ {lo} = (lo + 1)..hi
  BY <1>1, <1>2, <1>3, LeastOfInterval, RestOfInterval
<1>5. \/ (Duplicate(lo) \/ Apply(lo)) /\ page' = page \ {lo} /\ phase' = "replay"
      \/ Defer(lo) /\ page' = page /\ phase' = "closing"
  BY <1>4 DEF Replay
<1>6. lo \in 1..head
  BY <1>2, <1>3
<1>7. QED  BY <1>1, <1>4, <1>5, <1>6

LEMMA DrainTakesFirst ==
  ASSUME Placed, BacklogFollows, Drain
  PROVE  \E lo \in 1..head :
           /\ buffer = lo..read /\ lo <= read /\ 1..(lo - 1) \subseteq Settled
           /\ \/ (Duplicate(lo) \/ Apply(lo)) /\ buffer' = (lo + 1)..read /\ phase' = "drain"
              \/ Defer(lo) /\ buffer' = buffer /\ phase' = "closing"
<1>1. PICK lo \in 1..(MaxEvents + 1) :
        buffer = lo..read /\ lo <= read + 1 /\ 1..(lo - 1) \subseteq Settled
  BY DEF BacklogFollows, Drain
<1>2. lo \in Nat /\ read \in Nat /\ head \in Nat /\ read <= head
  BY StreamIsSized DEF StreamAssumption, Placed
<1>3. lo <= read
  BY <1>1, <1>2 DEF Drain
<1>4. Least(buffer) = lo /\ buffer \ {lo} = (lo + 1)..read
  BY <1>1, <1>2, <1>3, LeastOfInterval, RestOfInterval
<1>5. \/ (Duplicate(lo) \/ Apply(lo)) /\ buffer' = buffer \ {lo} /\ phase' = "drain"
      \/ Defer(lo) /\ buffer' = buffer /\ phase' = "closing"
  BY <1>4 DEF Drain
<1>6. lo \in 1..head
  BY <1>2, <1>3
<1>7. QED  BY <1>1, <1>3, <1>4, <1>5, <1>6

LEMMA LiveTakesNext ==
  ASSUME Placed, LiveFollows, Live
  PROVE  /\ read + 1 \in 1..head /\ 1..((read + 1) - 1) \subseteq Settled
         /\ read' = read + 1
         /\ \/ (Duplicate(read + 1) \/ Apply(read + 1)) /\ reader' = reader
            \/ Defer(read + 1) /\ reader' = FALSE
<1>1. read \in Nat /\ head \in Nat /\ read < head /\ 1..read \subseteq Settled
  BY StreamIsSized DEF StreamAssumption, Placed, LiveFollows, Live
<1>2. read + 1 \in 1..head /\ (read + 1) - 1 = read
  BY <1>1
<1>3. read' = read + 1
  BY DEF Live
<1>4. \/ (Duplicate(read + 1) \/ Apply(read + 1)) /\ reader' = reader
      \/ Defer(read + 1) /\ reader' = FALSE
  BY Zenon DEF Live
<1>5. QED  BY <1>1, <1>2, <1>3, <1>4

\* A page that came back short reached the end of the log.
LEMMA ShortPage ==
  ASSUME Placed, FetchPage
  PROVE  \E hi \in 0..head :
           /\ page' = (cursor + 1)..hi
           /\ ~more' => hi = head
<1>1. cursor \in Nat /\ head \in Nat /\ Page \in Nat \ {0} /\ cursor <= head
  BY StreamIsSized DEF StreamAssumption, Placed
<1>2. page' = {e \in (cursor + 1)..head : e <= cursor + Page} /\ more' = (Cardinality(page') = Page)
  BY DEF FetchPage
<1>3. CASE head < cursor + Page
  BY <1>1, <1>2, <1>3
<1>4. CASE head >= cursor + Page
  <2>1. page' = (cursor + 1)..(cursor + Page)
    BY <1>1, <1>2, <1>4
  <2>2. Cardinality(page') = Page
    BY <1>1, <2>1, FS_Interval
  <2>3. cursor + Page \in 0..head
    BY <1>1, <1>4
  <2>4. more'
    BY <1>2, <2>2
  <2>5. QED  BY <2>1, <2>3, <2>4
<1>5. QED  BY <1>1, <1>3, <1>4

-----------------------------------------------------------------------------
(* The invariant *)

USE DEF market, consumer, flush, session, vars

LEMMA InitIInv == Init => IInv
<1> SUFFICES ASSUME Init PROVE IInv
  OBVIOUS
<1>1. stored \in 0..MaxEvents /\ head \in stored..MaxEvents /\ MaxEvents \in Nat
  BY StreamIsSized DEF Init, StreamAssumption
<1>2. Placed /\ SeenIsApplied
  <2>1. seen = <<>> /\ seen \in Seq(Events)
    BY DEF Init
  <2>2. applied \subseteq 1..head /\ skipped \subseteq 1..head /\ shown \in 0..head
    BY <1>1 DEF Init
  <2>3. pend \in [Flushers -> 0..head \cup {None}]
    BY DEF Init
  <2>4. SeenIsApplied
    BY <2>1 DEF SeenIsApplied
  <2>5. more \in BOOLEAN /\ reader \in BOOLEAN /\ joined = 0 /\ read = 0 /\ cursor = stored
    BY DEF Init
  <2>6. QED  BY <1>1, <2>1, <2>2, <2>3, <2>4, <2>5 DEF Placed
<1>3. CursorBehindTape
  BY <1>1 DEF Init, CursorBehindTape
<1>4. PageFollows
  <2>1. page = 1..0 /\ 1..(1 - 1) \subseteq Settled
    BY DEF Init
  <2>2. 1 \in 1..(MaxEvents + 1) /\ 0 \in 0..head
    BY <1>1
  <2>3. QED  BY <2>1, <2>2 DEF PageFollows
<1>5. BacklogFollows /\ ReplayReaches /\ LiveFollows
  BY DEF Init, BacklogFollows, ReplayReaches, LiveFollows
<1>6. QED  BY <1>2, <1>3, <1>4, <1>5 DEF IInv

\* What process leaves behind when a step of the session calls it.
LEMMA SessionProcesses ==
  ASSUME IInv, Replay \/ Drain \/ Live
  PROVE  \E e \in 1..head : /\ 1..(e - 1) \subseteq Settled /\ Processing(e)
                            /\ UNCHANGED <<head, skipped, stored, pend, joined, more>>
<1>1. CASE Replay
  BY <1>1, ReplayTakesFirst DEF IInv, Processing, Replay
<1>2. CASE Drain
  BY <1>2, DrainTakesFirst DEF IInv, Processing, Drain
<1>3. CASE Live
  BY <1>3, LiveTakesNext DEF IInv, Processing, Live
<1>4. QED  BY <1>1, <1>2, <1>3

\* Steps that neither ask the handler nor move the cursor or the window.
Quiet ==
  \/ Dial \/ ReplayEnds \/ FetchPage \/ PageFails \/ Buffer \/ GoLive \/ SessionEnds
  \/ StartFlush \/ LastFlush \/ EndFlush("run") \/ EndFlush("loop")
  \/ Publish \/ Expire \/ SocketDies \/ UNCHANGED vars

LEMMA StepKinds ==
  ASSUME [Next]_vars
  PROVE  Quiet \/ Replay \/ Drain \/ Live \/ CursorExpired \/ Restart
BY DEF Next, Consume, Quiet

LEMMA QuietKeeps ==
  ASSUME Quiet
  PROVE  UNCHANGED <<cursor, seen, applied, shown>>
BY DEF Quiet, Dial, ReplayEnds, FetchPage, PageFails, Buffer, GoLive, SessionEnds, StartFlush,
  LastFlush, EndFlush, Publish, Expire, SocketDies

\* The log, what was applied and what was written off only grow.
LEMMA StepGrows ==
  ASSUME IInv, [Next]_vars
  PROVE  /\ head' \in head..MaxEvents
         /\ applied \subseteq applied' /\ skipped \subseteq skipped' /\ Settled \subseteq Settled'
         /\ applied' \subseteq 1..head' /\ skipped' \subseteq 1..head'
<1>1. head \in 0..MaxEvents /\ MaxEvents \in Nat /\ joined \in 0..head
  BY StreamIsSized DEF IInv, Placed, StreamAssumption
<1>2. applied \subseteq 1..head /\ skipped \subseteq 1..head
  BY DEF IInv, Placed
<1>3. CASE Replay \/ Drain \/ Live
  <2>1. PICK e \in 1..head : /\ 1..(e - 1) \subseteq Settled /\ Processing(e)
                            /\ UNCHANGED <<head, skipped>>
    BY <1>3, SessionProcesses
  <2>2. applied \subseteq applied' /\ applied' \subseteq 1..head
    BY <2>1, ProcessKeeps DEF IInv
  <2>3. QED  BY <1>1, <1>2, <2>1, <2>2 DEF Settled
<1>4. CASE Quiet
  <2>1. applied' = applied
    BY <1>4, QuietKeeps
  <2>2. head' = head \/ (head < MaxEvents /\ head' = head + 1)
    BY <1>4 DEF Quiet, Dial, ReplayEnds, FetchPage, PageFails, Buffer, GoLive, SessionEnds,
      StartFlush, LastFlush, EndFlush, Publish, Expire, SocketDies
  <2>3. skipped' = skipped \/ (skipped' = skipped \cup (1..joined \ applied) /\ head' = head)
    BY <1>4 DEF Quiet, Dial, ReplayEnds, FetchPage, PageFails, Buffer, GoLive, SessionEnds,
      StartFlush, LastFlush, EndFlush, Publish, Expire, SocketDies, WriteOff
  <2>4. head' \in head..MaxEvents
    BY <1>1, <2>2
  <2>5. applied' \subseteq 1..head' /\ skipped' \subseteq 1..head'
    <3>1. 1..head \subseteq 1..head' /\ 1..joined \subseteq 1..head
      BY <1>1, <2>2
    <3>2. QED  BY <1>2, <2>1, <2>3, <3>1
  <2>6. QED  BY <2>1, <2>3, <2>4, <2>5 DEF Settled
<1>5. CASE CursorExpired
  BY <1>1, <1>2, <1>5 DEF CursorExpired, WriteOff, Settled
<1>6. CASE Restart
  BY <1>1, <1>2, <1>6 DEF Restart, Settled
<1>7. QED  BY <1>3, <1>4, <1>5, <1>6, StepKinds

LEMMA PlacedStep ==
  ASSUME IInv, [Next]_vars
  PROVE  Placed'
<1>1. /\ MaxEvents \in Nat /\ head \in 0..MaxEvents /\ joined \in 0..head /\ read \in joined..head
      /\ cursor \in 0..head /\ stored \in 0..head /\ shown \in 0..head
      /\ pend \in [Flushers -> 0..head \cup {None}] /\ seen \in Seq(Events)
      /\ more \in BOOLEAN /\ reader \in BOOLEAN
  BY StreamIsSized DEF IInv, Placed, StreamAssumption
<1>2. head' \in 0..MaxEvents /\ head <= head' /\ applied' \subseteq 1..head' /\ skipped' \subseteq 1..head'
  BY <1>1, StepGrows
<1>3. None \notin Nat
  BY StreamIsSized DEF StreamAssumption
<1>4. joined' \in 0..head' /\ read' \in joined'..head'
  BY <1>1, <1>2 DEF Next, Consume, Dial, ReplayEnds, FetchPage, CursorExpired, PageFails, Replay,
    Buffer, Drain, GoLive, Live, SessionEnds, StartFlush, LastFlush, EndFlush, Publish, Expire,
    SocketDies, Restart
<1>5. more' \in BOOLEAN /\ reader' \in BOOLEAN
  BY <1>1 DEF Next, Consume, Dial, ReplayEnds, FetchPage, CursorExpired, PageFails, Replay,
    Buffer, Drain, GoLive, Live, SessionEnds, StartFlush, LastFlush, EndFlush, Publish, Expire,
    SocketDies, Restart
<1>6. pend' \in [Flushers -> 0..head' \cup {None}] /\ stored' \in 0..head'
  BY <1>1, <1>2, <1>3 DEF Next, Consume, Dial, ReplayEnds, FetchPage, CursorExpired, PageFails,
    Replay, Buffer, Drain, GoLive, Live, SessionEnds, StartFlush, LastFlush, EndFlush, Publish,
    Expire, SocketDies, Restart, Flushers
<1>7. cursor' \in 0..head' /\ seen' \in Seq(Events) /\ shown' \in 0..head'
  <2>1. CASE Replay \/ Drain \/ Live
    <3>1. PICK e \in 1..head : /\ 1..(e - 1) \subseteq Settled /\ Processing(e)
                              /\ UNCHANGED <<head, skipped>>
      BY <2>1, SessionProcesses
    <3>2. QED  BY <1>1, <3>1, ProcessKeeps DEF IInv
  <2>2. CASE Quiet
    BY <1>1, <1>2, <2>2, QuietKeeps
  <2>3. CASE CursorExpired
    BY <1>1, <1>2, <2>3 DEF CursorExpired
  <2>4. CASE Restart
    <3>1. cursor' \in {stored, 0} /\ seen' = <<>> /\ UNCHANGED <<head, shown>>
      BY <2>4 DEF Restart
    <3>2. <<>> \in Seq(Events)
      OBVIOUS
    <3>3. QED  BY <1>1, <3>1, <3>2
  <2>5. QED  BY <2>1, <2>2, <2>3, <2>4, StepKinds
<1>8. QED  BY <1>2, <1>4, <1>5, <1>6, <1>7 DEF Placed

\* Cursors: memory follows process, the store follows memory.
LEMMA CursorStep ==
  ASSUME IInv, [Next]_vars
  PROVE  CursorBehindTape'
<1>1. Settled \subseteq Settled'
  BY StepGrows
<1>2. 1..0 \subseteq Settled' /\ None \notin Nat
  BY StreamIsSized DEF StreamAssumption
<1>3. /\ 1..cursor \subseteq Settled /\ 1..stored \subseteq Settled
      /\ \A f \in Flushers : pend[f] # None => 1..pend[f] \subseteq Settled
      /\ cursor \in Nat /\ stored \in Nat
  <2>1. cursor \in Nat /\ stored \in Nat /\ cursor # None /\ stored # None
    BY <1>2 DEF IInv, Placed
  <2>2. \A c \in {cursor, stored} \cup {pend[f] : f \in Flushers} :
          c # None => 1..c \subseteq Settled
    BY DEF IInv, CursorBehindTape, Settled
  <2>3. QED  BY <2>1, <2>2
<1>4. 1..cursor' \subseteq Settled'
  <2>1. CASE Replay \/ Drain \/ Live
    <3>1. PICK e \in 1..head : /\ 1..(e - 1) \subseteq Settled /\ Processing(e)
                              /\ UNCHANGED <<head, skipped>>
      BY <2>1, SessionProcesses
    <3>2. QED  BY <3>1, ProcessKeeps DEF IInv
  <2>2. CASE Quiet
    BY <1>1, <1>3, <2>2, QuietKeeps
  <2>3. CASE CursorExpired \/ Restart
    <3>1. cursor' \in {stored, 0}
      BY <2>3 DEF CursorExpired, Restart
    <3>2. QED  BY <1>1, <1>2, <1>3, <3>1
  <2>4. QED  BY <2>1, <2>2, <2>3, StepKinds
<1>5. stored' = stored \/ \E f \in Flushers : pend[f] # None /\ stored' = pend[f]
  BY DEF Next, Consume, Dial, ReplayEnds, FetchPage, CursorExpired, PageFails, Replay,
    Buffer, Drain, GoLive, Live, SessionEnds, StartFlush, LastFlush, EndFlush, Publish, Expire,
    SocketDies, Restart, Flushers
<1>6. ASSUME NEW f \in Flushers
      PROVE  pend'[f] \in {pend[f], cursor, None}
  BY DEF IInv, Placed, Next, Consume, Dial, ReplayEnds, FetchPage, CursorExpired, PageFails,
    Replay, Buffer, Drain, GoLive, Live, SessionEnds, StartFlush, LastFlush, EndFlush, Publish,
    Expire, SocketDies, Restart, Flushers
<1>7. QED  BY <1>1, <1>3, <1>4, <1>5, <1>6 DEF CursorBehindTape, Settled

LEMMA CursorSettled ==
  ASSUME IInv
  PROVE  cursor \in 0..head /\ 1..cursor \subseteq Settled
<1>1. cursor \in 0..head /\ cursor # None
  BY StreamIsSized DEF IInv, Placed, StreamAssumption
<1>2. QED  BY <1>1 DEF IInv, CursorBehindTape, Settled

LEMMA SeenStep ==
  ASSUME IInv, [Next]_vars
  PROVE  SeenIsApplied'
<1>1. CASE Replay \/ Drain \/ Live
  <2>1. PICK e \in 1..head : /\ 1..(e - 1) \subseteq Settled /\ Processing(e)
                            /\ UNCHANGED <<head, skipped>>
    BY <1>1, SessionProcesses
  <2>2. QED  BY <2>1, ProcessKeeps DEF IInv
<1>2. CASE Quiet
  BY <1>2, QuietKeeps DEF IInv, SeenIsApplied
<1>3. CASE CursorExpired
  BY <1>3 DEF CursorExpired, IInv, SeenIsApplied
<1>4. CASE Restart
  <2>1. seen' = <<>>
    BY <1>4 DEF Restart
  <2>2. QED  BY <2>1 DEF SeenIsApplied
<1>5. QED  BY <1>1, <1>2, <1>3, <1>4, StepKinds

LEMMA PageStep ==
  ASSUME IInv, [Next]_vars
  PROVE  PageFollows'
<1>1. /\ head \in Nat /\ head' \in Nat /\ head <= head' /\ head <= MaxEvents /\ MaxEvents \in Nat
      /\ Settled \subseteq Settled'
  BY StreamIsSized, StepGrows DEF IInv, Placed, StreamAssumption
<1>2. CASE FetchPage
  <2>1. PICK hi \in 0..head : page' = (cursor + 1)..hi
    BY <1>2, ShortPage DEF IInv
  <2>2. 1..cursor \subseteq Settled /\ cursor \in 0..head
    BY CursorSettled
  <2>3. cursor + 1 \in 1..(MaxEvents + 1) /\ (cursor + 1) - 1 = cursor /\ hi \in 0..head'
    BY <1>1, <2>2
  <2>4. QED  BY <1>1, <2>1, <2>2, <2>3 DEF PageFollows
<1>3. CASE Replay
  <2>1. PICK lo \in 1..head, hi \in 0..head :
          /\ page = lo..hi /\ 1..(lo - 1) \subseteq Settled
          /\ \/ (Duplicate(lo) \/ Apply(lo)) /\ page' = (lo + 1)..hi
             \/ Defer(lo) /\ page' = page
    BY <1>3, ReplayTakesFirst DEF IInv
  <2>2. hi \in 0..head' /\ lo + 1 \in 1..(MaxEvents + 1) /\ lo \in 1..(MaxEvents + 1)
    BY <1>1
  <2>3. CASE Defer(lo) /\ page' = page
    BY <1>1, <2>1, <2>2, <2>3 DEF PageFollows
  <2>4. CASE (Duplicate(lo) \/ Apply(lo)) /\ page' = (lo + 1)..hi
    <3>1. lo \in Settled' /\ skipped' = skipped
      BY <1>3, <2>1, <2>4, ProcessKeeps DEF Replay, IInv, Processing, Settled
    <3>2. 1..((lo + 1) - 1) \subseteq Settled'
      BY <1>1, <2>1, <3>1
    <3>3. QED  BY <2>2, <2>4, <3>2 DEF PageFollows
  <2>5. QED  BY <2>1, <2>3, <2>4
<1>4. CASE Dial \/ Restart
  <2>1. page' = 1..0 /\ 1..(1 - 1) \subseteq Settled'
    BY <1>4 DEF Dial, Restart
  <2>2. 1 \in 1..(MaxEvents + 1) /\ 0 \in 0..head'
    BY <1>1
  <2>3. QED  BY <2>1, <2>2 DEF PageFollows
<1>5. CASE page' = page
  <2>1. PICK lo \in 1..(MaxEvents + 1), hi \in 0..head :
          page = lo..hi /\ 1..(lo - 1) \subseteq Settled
    BY DEF IInv, PageFollows
  <2>2. hi \in 0..head'
    BY <1>1
  <2>3. QED  BY <1>1, <1>5, <2>1, <2>2 DEF PageFollows
<1>6. QED
  BY <1>2, <1>3, <1>4, <1>5 DEF Next, Consume, ReplayEnds, CursorExpired, PageFails, Buffer,
    Drain, GoLive, Live, SessionEnds, StartFlush, LastFlush, EndFlush, Publish, Expire, SocketDies

\* The backlog starts where the socket came up and is drained from its front.
LEMMA BacklogStep ==
  ASSUME IInv, [Next]_vars
  PROVE  BacklogFollows'
<1>1. /\ head \in Nat /\ head <= MaxEvents /\ MaxEvents \in Nat
      /\ joined \in 0..head /\ read \in joined..head /\ Settled \subseteq Settled'
  BY StreamIsSized, StepGrows DEF IInv, Placed, StreamAssumption
<1>2. CASE Dial
  BY <1>1, <1>2 DEF Dial, BacklogFollows
<1>3. CASE ReplayEnds \/ CursorExpired
  <2>1. buffer' = (joined + 1)..read /\ read' = read /\ phase' = "drain"
    BY <1>3 DEF ReplayEnds, CursorExpired, Asking, IInv, BacklogFollows
  <2>2. 1..joined \subseteq Settled'
    <3>1. CASE more \/ CursorExpired
      BY <1>3, <3>1 DEF ReplayEnds, CursorExpired, WriteOff, Settled
    <3>2. CASE ~more /\ ~CursorExpired
      BY <1>1, <1>3, <3>2 DEF ReplayEnds, IInv, ReplayReaches
    <3>3. QED  BY <3>1, <3>2
  <2>3. joined + 1 \in 1..(MaxEvents + 1) /\ joined + 1 <= read + 1 /\ (joined + 1) - 1 = joined
    BY <1>1
  <2>4. QED  BY <2>1, <2>2, <2>3 DEF BacklogFollows
<1>4. CASE Buffer
  <2>1. phase' = "replay" /\ joined' = joined /\ buffer = (joined + 1)..read
    BY <1>4 DEF Buffer, IInv, BacklogFollows
  <2>2. \/ read' = read /\ buffer' = buffer
        \/ read' = read + 1 /\ buffer' = buffer \cup {read + 1}
    BY <1>4 DEF Buffer
  <2>3. buffer' = (joined + 1)..read'
    <3>1. ((joined + 1)..read) \cup {read + 1} = (joined + 1)..(read + 1)
      BY <1>1
    <3>2. QED  BY <2>1, <2>2, <3>1
  <2>4. QED  BY <2>1, <2>3 DEF BacklogFollows
<1>5. CASE Drain
  <2>1. PICK lo \in 1..head :
          /\ buffer = lo..read /\ lo <= read /\ 1..(lo - 1) \subseteq Settled
          /\ \/ (Duplicate(lo) \/ Apply(lo)) /\ buffer' = (lo + 1)..read /\ phase' = "drain"
             \/ Defer(lo) /\ buffer' = buffer /\ phase' = "closing"
    BY <1>5, DrainTakesFirst DEF IInv
  <2>2. CASE Defer(lo) /\ phase' = "closing"
    BY <2>2 DEF BacklogFollows
  <2>3. CASE (Duplicate(lo) \/ Apply(lo)) /\ buffer' = (lo + 1)..read /\ phase' = "drain"
    <3>1. lo \in Settled' /\ read' = read
      BY <1>5, <2>1, <2>3, ProcessKeeps DEF Drain, IInv, Processing, Settled
    <3>2. 1..((lo + 1) - 1) \subseteq Settled'
      BY <1>1, <2>1, <3>1
    <3>3. lo + 1 \in 1..(MaxEvents + 1) /\ lo + 1 <= read + 1
      BY <1>1, <2>1
    <3>4. QED  BY <2>3, <3>1, <3>2, <3>3 DEF BacklogFollows
  <2>4. QED  BY <2>1, <2>2, <2>3
<1>6. CASE phase' \notin {"replay", "drain"}
  BY <1>6 DEF BacklogFollows
<1>7. CASE phase' = phase /\ UNCHANGED <<joined, read, buffer>>
  BY <1>1, <1>7 DEF IInv, BacklogFollows
<1>8. CASE phase # "replay" /\ phase # "drain" /\ phase' = phase
  BY <1>8 DEF BacklogFollows
<1>9. QED
  BY <1>2, <1>3, <1>4, <1>5, <1>6, <1>7, <1>8 DEF Next, Consume, FetchPage, PageFails, Replay,
    GoLive, Live, SessionEnds, StartFlush, LastFlush, EndFlush, Publish, Expire, SocketDies, Restart

\* Replay stops asking only behind the point where the socket came up.
LEMMA ReachStep ==
  ASSUME IInv, [Next]_vars
  PROVE  ReplayReaches'
<1>1. /\ joined \in 0..head /\ head \in Nat /\ cursor \in 0..head
      /\ 1..cursor \subseteq Settled /\ Settled \subseteq Settled'
  BY StreamIsSized, StepGrows, CursorSettled DEF IInv, Placed, StreamAssumption
<1>2. CASE FetchPage
  <2>1. PICK hi \in 0..head : page' = (cursor + 1)..hi /\ (~more' => hi = head)
    BY <1>2, ShortPage DEF IInv
  <2>2. joined' = joined
    BY <1>2 DEF FetchPage
  <2>3. QED  BY <1>1, <2>1, <2>2 DEF ReplayReaches
<1>3. CASE Replay
  <2>1. PICK lo \in 1..head, hi \in 0..head :
          /\ page = lo..hi /\ 1..(lo - 1) \subseteq Settled
          /\ \/ (Duplicate(lo) \/ Apply(lo)) /\ page' = (lo + 1)..hi
             \/ Defer(lo) /\ phase' = "closing"
    BY <1>3, ReplayTakesFirst DEF IInv
  <2>2. CASE Defer(lo) /\ phase' = "closing"
    BY <2>2 DEF ReplayReaches
  <2>3. CASE (Duplicate(lo) \/ Apply(lo)) /\ page' = (lo + 1)..hi
    <3>1. lo \in Settled' /\ more' = more /\ joined' = joined /\ phase = "replay"
      BY <1>3, <2>1, <2>3, ProcessKeeps DEF Replay, IInv, Processing, Settled
    <3>2. page \subseteq page' \cup {lo}
      BY <1>1, <2>1, <2>3
    <3>3. QED  BY <1>1, <3>1, <3>2 DEF IInv, ReplayReaches
  <2>4. QED  BY <2>1, <2>2, <2>3
<1>4. CASE more' \/ phase' # "replay"
  BY <1>4 DEF ReplayReaches
<1>5. CASE phase' = phase /\ UNCHANGED <<joined, page, more>>
  BY <1>1, <1>5 DEF IInv, ReplayReaches
<1>6. QED
  BY <1>2, <1>3, <1>4, <1>5 DEF Next, Consume, Dial, ReplayEnds, CursorExpired, PageFails, Buffer,
    Drain, GoLive, Live, SessionEnds, StartFlush, LastFlush, EndFlush, Publish, Expire, SocketDies,
    Restart

\* A live reader has left nothing unsettled behind it.
LEMMA LiveStep ==
  ASSUME IInv, [Next]_vars
  PROVE  LiveFollows'
<1>1. read \in Nat /\ Settled \subseteq Settled'
  BY StreamIsSized, StepGrows DEF IInv, Placed, StreamAssumption
<1>2. CASE GoLive
  <2>1. PICK lo \in 1..(MaxEvents + 1) :
          buffer = lo..read /\ lo <= read + 1 /\ 1..(lo - 1) \subseteq Settled
    BY <1>2 DEF GoLive, IInv, BacklogFollows
  <2>2. lo = read + 1
    BY <1>1, <1>2, <2>1, StreamIsSized DEF GoLive, StreamAssumption
  <2>3. 1..read \subseteq Settled' /\ read' = read
    BY <1>1, <1>2, <2>1, <2>2 DEF GoLive
  <2>4. QED  BY <2>3 DEF LiveFollows
<1>3. CASE Live
  <2>1. CASE Defer(read + 1) /\ reader' = FALSE
    BY <2>1 DEF LiveFollows
  <2>2. CASE Duplicate(read + 1) \/ Apply(read + 1)
    <3>1. 1..read \subseteq Settled /\ skipped' = skipped
      BY <1>3 DEF Live, IInv, LiveFollows
    <3>2. read + 1 \in 1..head /\ 1..((read + 1) - 1) \subseteq Settled
      BY <1>3, LiveTakesNext DEF IInv
    <3>3. read + 1 \in Settled'
      BY <2>2, <3>1, <3>2, ProcessKeeps DEF IInv, Processing, Settled
    <3>4. read' = read + 1
      BY <1>3, LiveTakesNext DEF IInv
    <3>5. QED  BY <1>1, <3>1, <3>3, <3>4 DEF LiveFollows
  <2>3. QED  BY <1>3, <2>1, <2>2, LiveTakesNext DEF IInv
<1>4. CASE phase' # "live"
  BY <1>4 DEF LiveFollows
<1>5. CASE phase' = phase /\ read' = read /\ reader' = reader
  BY <1>1, <1>5 DEF IInv, LiveFollows
<1>6. CASE Publish \/ SocketDies
  <2>1. CASE reader
    BY <1>1, <1>6, <2>1 DEF Publish, SocketDies, IInv, LiveFollows
  <2>2. CASE ~reader
    BY <1>6, <2>2 DEF Publish, SocketDies, LiveFollows
  <2>3. QED  BY <2>1, <2>2
<1>7. QED
  BY <1>2, <1>3, <1>4, <1>5, <1>6 DEF Next, Consume, Dial, ReplayEnds, FetchPage, CursorExpired,
    PageFails, Replay, Buffer, Drain, SessionEnds, StartFlush, LastFlush, EndFlush, Expire, Restart

LEMMA StepIInv == IInv /\ [Next]_vars => IInv'
BY PlacedStep, CursorStep, SeenStep, PageStep, BacklogStep, ReachStep, LiveStep DEF IInv

LEMMA Inductive == Spec => []IInv
BY InitIInv, StepIInv, PTL DEF Spec

-----------------------------------------------------------------------------
(* Theorems *)

\* No cursor, in memory, in flight or stored, is past an event neither applied
\* nor written off: wherever the process stops, a restart leaves no hole.
THEOREM NoHole == Spec => []CursorBehindTape
<1>1. IInv => CursorBehindTape
  BY DEF IInv
<1>2. QED  BY <1>1, Inductive, PTL

\* A step of the session that calls process applies the next event of the
\* tape, or leaves the tape alone.
LEMMA ProcessOnTape ==
  ASSUME IInv, NEW e \in 1..head, 1..(e - 1) \subseteq Settled, Processing(e),
         UNCHANGED <<head, skipped>>
  PROVE  [Tape!Next]_(Tape!tape)
<1>1. e \in 1..MaxEvents /\ e <= head
  BY StreamIsSized DEF IInv, Placed, StreamAssumption
<1>2. CASE Duplicate(e) \/ Defer(e)
  BY <1>2 DEF Duplicate, Defer, Tape!tape
<1>3. CASE Apply(e)
  <2>1. Tape!Apply(e)
    BY <1>1, <1>3 DEF Apply, Tape!Apply, Tape!Settled, Settled
  <2>2. QED  BY <1>1, <2>1 DEF Tape!Next
<1>4. QED  BY <1>2, <1>3 DEF Processing

\* Giving up the gap writes off a prefix of the tape.
LEMMA WriteOffOnTape ==
  ASSUME IInv, WriteOff, UNCHANGED <<head, applied, shown>>
  PROVE  [Tape!Next]_(Tape!tape)
<1>1. joined \in Nat /\ joined <= head /\ head <= MaxEvents /\ head \in Nat /\ MaxEvents \in Nat
  BY StreamIsSized DEF IInv, Placed, StreamAssumption
<1>2. CASE joined = 0
  <2>1. skipped' = skipped
    BY <1>2 DEF WriteOff
  <2>2. QED  BY <2>1 DEF Tape!tape
<1>3. CASE joined # 0
  <2>1. joined \in 1..MaxEvents /\ Tape!WriteOff(joined)
    BY <1>1, <1>3 DEF WriteOff, Tape!WriteOff
  <2>2. QED  BY <2>1 DEF Tape!Next
<1>4. QED  BY <1>2, <1>3

\* The consumer implements the tape: every step of the session, of a flush, of
\* the marketplace and of a restart is a step of EventTape or none at all.
THEOREM StreamImplementsTape == Spec => AppliedInOrder
<1>1. Init => Tape!Init
  <2> SUFFICES ASSUME Init PROVE Tape!Init
    OBVIOUS
  <2>1. stored \in 0..MaxEvents /\ head \in stored..MaxEvents /\ MaxEvents \in Nat
    BY StreamIsSized DEF Init, StreamAssumption
  <2>2. QED  BY <2>1 DEF Init, Tape!Init
<1>2. IInv /\ [Next]_vars => [Tape!Next]_(Tape!tape)
  <2> SUFFICES ASSUME IInv, [Next]_vars PROVE [Tape!Next]_(Tape!tape)
    OBVIOUS
  <2>1. CASE Replay \/ Drain \/ Live
    BY <2>1, SessionProcesses, ProcessOnTape
  <2>2. CASE ReplayEnds
    BY <2>2, WriteOffOnTape DEF ReplayEnds, Tape!tape
  <2>3. CASE CursorExpired
    BY <2>3, WriteOffOnTape DEF CursorExpired
  <2>4. CASE Publish
    BY <2>4 DEF Publish, Tape!Publish, Tape!Next
  <2>5. CASE UNCHANGED <<head, applied, skipped, shown>>
    BY <2>5 DEF Tape!tape
  <2>6. QED
    BY <2>1, <2>2, <2>3, <2>4, <2>5 DEF Next, Consume, Dial, FetchPage, PageFails, Buffer, GoLive,
      SessionEnds, StartFlush, LastFlush, EndFlush, Expire, SocketDies, Restart
<1>3. QED  BY <1>1, <1>2, Inductive, PTL DEF Spec, AppliedInOrder, Tape!Spec

-----------------------------------------------------------------------------
(* Nothing lost from a stored cursor *)

\* The store holds a cursor that can be read and is within retention, the page
\* cap covers the log, and a reader the server keeps owes no more frames than
\* the window of seen ids holds.
Kept ==
  /\ 0 \notin Stored /\ "expire" \notin Faults /\ "load" \notin Faults
  /\ MaxPages * Page >= MaxEvents
  /\ Lag <= SeenCap

\* An id in the window is above the cursor: redelivery has moved the cursor back.
Ahead == \E i \in DOMAIN seen : seen[i] > cursor

\* The window ends with a run of ids up to the cursor.  The j ids before the run
\* are older arrivals with larger numbers, all to be evicted before the cursor
\* comes to them; they are there only if the window was full.
InWindow(s, c, j) ==
  /\ j \in 0..Len(s) /\ Len(s) <= SeenCap
  /\ \A i \in (j + 1)..Len(s) : s[i] = c - (Len(s) - i)
  /\ \A i \in 1..j : s[i] > c + i /\ (Len(s) < SeenCap => s[i] > c + i + 1)
  /\ j > 0 => Len(s) + 1 >= SeenCap

WindowOrder == \E j \in Nat : InWindow(seen, cursor, j)

\* Cursors are set, nothing expires, nothing is written off, and the gifts show
\* at least what the cursor confirms.
Untouched ==
  /\ expired = 0 /\ skipped = {} /\ cursor > 0 /\ stored > 0 /\ shown >= cursor
  /\ \A f \in Flushers : pend[f] # None => pend[f] > 0

Joining == phase \in {"replay", "drain"}
Reading == phase = "live" /\ reader

\* The cursor never returns behind what was stored or is being stored.
StoreBehind ==
  /\ stored <= cursor /\ \A f \in Flushers : pend[f] # None => pend[f] <= cursor
  /\ Joining => stored <= joined /\ \A f \in Flushers : pend[f] # None => pend[f] <= joined

\* A window with room left still knows everything since the socket came up.
WindowReaches ==
  Joining \/ Reading => (~Ahead /\ Len(seen) < SeenCap => cursor - Len(seen) <= joined)

\* The page in hand starts right behind the cursor, and full pages have come far.
ReplayCloses ==
  phase = "replay" =>
    /\ \E hi \in cursor..head :
         page = (cursor + 1)..hi /\ (more => hi > pages * Page) /\ (~more => hi >= joined)
    /\ \A i \in DOMAIN seen : seen[i] <= cursor \/ seen[i] <= joined

\* The backlog starts at or before the cursor, and right behind it once
\* redelivery has moved the cursor back.
DrainCloses ==
  phase = "drain" => \E lo \in (joined + 1)..(read + 1) :
    buffer = lo..read /\ cursor >= joined /\ cursor >= lo - 1 /\ (Ahead => cursor = lo - 1)

LiveCloses == Reading => cursor >= read /\ (Ahead => cursor = read)

ReaderOwes == (reader => head <= read + Lag) /\ pages \in Nat

KInv ==
  /\ IInv /\ Untouched /\ WindowOrder /\ StoreBehind /\ WindowReaches
  /\ ReplayCloses /\ DrainCloses /\ LiveCloses /\ ReaderOwes

LEMMA Sizes ==
  /\ MaxEvents \in Nat /\ Page \in Nat /\ Page > 0 /\ MaxPages \in Nat
  /\ SeenCap \in Nat /\ SeenCap > 0 /\ Lag \in Nat
  /\ Stored \subseteq 0..MaxEvents /\ None \notin Nat
BY StreamIsSized DEF StreamAssumption

\* Making room: the ids move one place to the front once the window is full.
LEMMA Room ==
  ASSUME seen \in Seq(Events), Len(seen) <= SeenCap
  PROVE  /\ Evicted \in Seq(Events)
         /\ Len(seen) < SeenCap => Evicted = seen
         /\ Len(seen) = SeenCap =>
              /\ Len(Evicted) = SeenCap - 1
              /\ \A i \in 1..(SeenCap - 1) : Evicted[i] = seen[i + 1]
<1>1. CASE Len(seen) < SeenCap
  BY <1>1, Sizes DEF Evicted
<1>2. CASE Len(seen) = SeenCap
  <2>1. seen # <<>> /\ Evicted = Tail(seen)
    BY <1>2, Sizes DEF Evicted
  <2>2. Tail(seen) \in Seq(Events) /\ Len(Tail(seen)) = SeenCap - 1
    BY <1>2, <2>1
  <2>3. \A i \in 1..(SeenCap - 1) : Tail(seen)[i] = seen[i + 1]
    BY <1>2, <2>1
  <2>4. QED  BY <1>2, <2>1, <2>2, <2>3
<1>3. QED  BY <1>1, <1>2, Sizes

\* The window with its next id.
LEMMA AppendedWindow ==
  ASSUME seen \in Seq(Events), Len(seen) <= SeenCap, NEW e \in Events
  PROVE  LET w == Append(Evicted, e) IN
         /\ w \in Seq(Events) /\ Len(w) = Len(Evicted) + 1 /\ w[Len(w)] = e
         /\ \A i \in 1..Len(Evicted) : w[i] = Evicted[i]
         /\ Len(Evicted) = IF Len(seen) < SeenCap THEN Len(seen) ELSE SeenCap - 1
<1>1. Evicted \in Seq(Events)
  BY Room
<1>2. Len(Evicted) = IF Len(seen) < SeenCap THEN Len(seen) ELSE SeenCap - 1
  BY Room, Sizes
<1>3. QED  BY <1>1, <1>2

\* The id behind the cursor is not in the window.
LEMMA NextIsNew ==
  ASSUME seen \in Seq(Events), cursor \in Nat, WindowOrder
  PROVE  ~Known(cursor + 1)
<1>1. PICK j \in Nat : InWindow(seen, cursor, j)
  BY DEF WindowOrder
<1>2. SUFFICES ASSUME NEW i \in DOMAIN seen, seen[i] = cursor + 1 PROVE FALSE
  BY DEF Known
<1>3. i \in 1..Len(seen) /\ Len(seen) \in Nat
  OBVIOUS
<1>4. CASE i <= j
  BY <1>1, <1>2, <1>3, <1>4 DEF InWindow
<1>5. CASE i > j
  BY <1>1, <1>2, <1>3, <1>5 DEF InWindow
<1>6. QED  BY <1>1, <1>3, <1>4, <1>5

\* Ids above the cursor are the ones before the run.
LEMMA AheadIsFront ==
  ASSUME NEW s \in Seq(Events), NEW c \in Nat, NEW j \in Nat, InWindow(s, c, j)
  PROVE  (\E i \in DOMAIN s : s[i] > c) <=> j > 0
<1>1. Len(s) \in Nat /\ DOMAIN s = 1..Len(s)
  OBVIOUS
<1>2. CASE j > 0
  <2>1. 1 \in DOMAIN s /\ s[1] > c + 1 /\ s[1] \in Nat
    BY <1>1, <1>2, Sizes DEF InWindow, Events
  <2>2. QED  BY <1>2, <2>1
<1>3. CASE j = 0
  BY <1>1, <1>3 DEF InWindow
<1>4. QED  BY <1>2, <1>3

\* Applying the event behind the cursor, for a window s that becomes w.
LEMMA NextPushed ==
  ASSUME NEW s \in Seq(Events), NEW w \in Seq(Events), NEW c \in Nat, NEW j \in Nat,
         InWindow(s, c, j), NEW m \in Nat,
         m = (IF Len(s) < SeenCap THEN Len(s) ELSE SeenCap - 1),
         Len(w) = m + 1, w[m + 1] = c + 1,
         \A i \in 1..m : w[i] = IF Len(s) < SeenCap THEN s[i] ELSE s[i + 1]
  PROVE  \E k \in Nat :
           /\ InWindow(w, c + 1, k)
           /\ k > 0 => j > 0
           /\ k = 0 /\ Len(w) < SeenCap => j = 0 /\ Len(s) < SeenCap /\ Len(w) = Len(s) + 1
<1>1. Len(s) \in Nat /\ Len(s) <= SeenCap /\ j <= Len(s)
  BY DEF InWindow
<1>2. CASE Len(s) < SeenCap
  <2>1. \A i \in (j + 1)..(m + 1) : w[i] = (c + 1) - ((m + 1) - i)
    BY <1>1, <1>2 DEF InWindow
  <2>2. \A i \in 1..j : w[i] > (c + 1) + i
    BY <1>1, <1>2 DEF InWindow
  <2>3. j > 0 => m + 1 >= SeenCap
    BY <1>2 DEF InWindow
  <2>4. InWindow(w, c + 1, j)
    BY <1>1, <1>2, <2>1, <2>2, <2>3, Sizes DEF InWindow
  <2>5. QED  BY <1>2, <2>4
<1>3. CASE Len(s) = SeenCap /\ j = 0
  <2>1. \A i \in 1..(m + 1) : w[i] = (c + 1) - ((m + 1) - i)
    BY <1>1, <1>3, Sizes DEF InWindow
  <2>2. InWindow(w, c + 1, 0)
    BY <1>1, <1>3, <2>1, Sizes DEF InWindow
  <2>3. QED  BY <1>3, <2>2, Sizes
<1>4. CASE Len(s) = SeenCap /\ j > 0
  <2>1. \A i \in j..(m + 1) : w[i] = (c + 1) - ((m + 1) - i)
    BY <1>1, <1>4, Sizes DEF InWindow
  <2>2. \A i \in 1..(j - 1) : w[i] > (c + 1) + i
    BY <1>1, <1>4, Sizes DEF InWindow
  <2>3. InWindow(w, c + 1, j - 1)
    BY <1>1, <1>4, <2>1, <2>2, Sizes DEF InWindow
  <2>4. QED  BY <1>4, <2>3, Sizes
<1>5. QED  BY <1>1, <1>2, <1>3, <1>4, Sizes

\* Applying again an event that a full window has forgotten.
LEMMA OldPushed ==
  ASSUME NEW s \in Seq(Events), NEW w \in Seq(Events), NEW c \in Nat, NEW e \in Nat,
         InWindow(s, c, 0), Len(s) = SeenCap, e <= c - SeenCap,
         Len(w) = SeenCap, w[SeenCap] = e,
         \A i \in 1..(SeenCap - 1) : w[i] = s[i + 1]
  PROVE  InWindow(w, e, SeenCap - 1)
<1>1. \A i \in 1..(SeenCap - 1) : w[i] > e + i
  BY Sizes DEF InWindow
<1>2. \A i \in SeenCap..SeenCap : w[i] = e - (SeenCap - i)
  BY Sizes
<1>3. QED  BY <1>1, <1>2, Sizes DEF InWindow

\* Making room without filling it.
LEMMA Roomed ==
  ASSUME NEW s \in Seq(Events), NEW w \in Seq(Events), NEW c \in Nat, NEW j \in Nat,
         InWindow(s, c, j), Len(s) = SeenCap, Len(w) = SeenCap - 1,
         \A i \in 1..(SeenCap - 1) : w[i] = s[i + 1]
  PROVE  \E k \in Nat : InWindow(w, c, k)
<1>1. CASE j = 0
  <2>1. InWindow(w, c, 0)
    BY <1>1, Sizes DEF InWindow
  <2>2. QED  BY <2>1
<1>2. CASE j > 0
  <2>1. \A i \in 1..(j - 1) : w[i] > c + i + 1
    BY <1>2, Sizes DEF InWindow
  <2>2. \A i \in j..(SeenCap - 1) : w[i] = c - ((SeenCap - 1) - i)
    BY <1>2, Sizes DEF InWindow
  <2>3. j - 1 \in Nat /\ (j - 1) + 1 = j /\ j - 1 \in 0..Len(w) /\ Len(w) <= SeenCap /\ Len(w) + 1 >= SeenCap
    BY <1>2, Sizes DEF InWindow
  <2>4. ASSUME NEW i \in 1..(j - 1)
        PROVE  w[i] > c + i
    <3>1. i \in 1..Len(w) /\ w[i] \in Nat
      BY <2>3, Sizes, SMTT(60) DEF Events
    <3>2. QED  BY <2>1, <3>1
  <2>5. InWindow(w, c, j - 1)
    BY <2>1, <2>2, <2>3, <2>4 DEF InWindow
  <2>6. QED  BY <2>3, <2>5
<1>3. QED  BY <1>1, <1>2

\* The three outcomes of process, as the window and the cursor see them.
LEMMA NextInWindow ==
  ASSUME seen \in Seq(Events), cursor \in Nat, cursor + 1 \in Events, WindowOrder,
         Apply(cursor + 1)
  PROVE  /\ WindowOrder'
         /\ Ahead' => Ahead
         /\ ~Ahead' /\ Len(seen') < SeenCap =>
              ~Ahead /\ Len(seen) < SeenCap /\ cursor' - Len(seen') = cursor - Len(seen)
<1>1. PICK j \in Nat : InWindow(seen, cursor, j)
  BY DEF WindowOrder
<1>2. Len(seen) \in Nat /\ Len(seen) <= SeenCap
  BY <1>1 DEF InWindow
<1>3. PICK w, d : w = seen' /\ d = cursor'
  OBVIOUS
<1>4. w = Append(Evicted, cursor + 1) /\ d = cursor + 1
  BY <1>3 DEF Apply
<1>5. PICK m \in Nat :
        /\ m = (IF Len(seen) < SeenCap THEN Len(seen) ELSE SeenCap - 1)
        /\ w \in Seq(Events) /\ Len(w) = m + 1 /\ w[m + 1] = cursor + 1
        /\ \A i \in 1..m : w[i] = IF Len(seen) < SeenCap THEN seen[i] ELSE seen[i + 1]
  <2>1. Len(Evicted) \in Nat /\ Len(Evicted) = IF Len(seen) < SeenCap THEN Len(seen) ELSE SeenCap - 1
    BY <1>2, AppendedWindow, Sizes
  <2>2. \A i \in 1..Len(Evicted) : w[i] = IF Len(seen) < SeenCap THEN seen[i] ELSE seen[i + 1]
    BY <1>2, <1>4, <2>1, AppendedWindow, Room, Sizes
  <2>3. QED  BY <1>2, <1>4, <2>1, <2>2, AppendedWindow
<1>6. PICK k \in Nat :
        /\ InWindow(w, cursor + 1, k)
        /\ k > 0 => j > 0
        /\ k = 0 /\ Len(w) < SeenCap => j = 0 /\ Len(seen) < SeenCap /\ Len(w) = Len(seen) + 1
  BY <1>1, <1>5, NextPushed
<1>7. (\E i \in DOMAIN w : w[i] > d) <=> k > 0
  <2>1. d \in Nat /\ InWindow(w, d, k) /\ w \in Seq(Events)
    BY <1>4, <1>5, <1>6
  <2>2. QED  BY <2>1, AheadIsFront
<1>8. Ahead <=> j > 0
  BY <1>1, AheadIsFront DEF Ahead
<1>9. Ahead' <=> k > 0
  BY <1>3, <1>7 DEF Ahead
<1>10. WindowOrder'
  BY <1>3, <1>4, <1>6 DEF WindowOrder
<1>11. ASSUME ~Ahead', Len(seen') < SeenCap
       PROVE  ~Ahead /\ Len(seen) < SeenCap /\ cursor' - Len(seen') = cursor - Len(seen)
  BY <1>2, <1>3, <1>4, <1>6, <1>8, <1>9, <1>11
<1>12. QED  BY <1>6, <1>8, <1>9, <1>10, <1>11

LEMMA OldInWindow ==
  ASSUME seen \in Seq(Events), cursor \in Nat, NEW e \in Events, e \in Nat, WindowOrder, ~Ahead,
         Len(seen) = SeenCap, e <= cursor - SeenCap, Apply(e)
  PROVE  WindowOrder' /\ Len(seen') = SeenCap
<1>1. PICK j \in Nat : InWindow(seen, cursor, j)
  BY DEF WindowOrder
<1>2. j = 0
  BY <1>1, AheadIsFront DEF Ahead
<1>3. PICK w, d : w = seen' /\ d = cursor'
  OBVIOUS
<1>4. w = Append(Evicted, e) /\ d = e
  BY <1>3 DEF Apply
<1>5. Len(Evicted) = SeenCap - 1 /\ \A i \in 1..(SeenCap - 1) : Evicted[i] = seen[i + 1]
  BY Room, Sizes
<1>6. /\ w \in Seq(Events) /\ Len(w) = SeenCap /\ w[SeenCap] = e
      /\ \A i \in 1..(SeenCap - 1) : w[i] = seen[i + 1]
  BY <1>4, <1>5, AppendedWindow, Sizes
<1>7. InWindow(w, e, SeenCap - 1)
  BY <1>1, <1>2, <1>6, OldPushed
<1>8. QED  BY <1>3, <1>4, <1>6, <1>7, Sizes DEF WindowOrder

LEMMA DeferInWindow ==
  ASSUME seen \in Seq(Events), cursor \in Nat, WindowOrder, NEW e, Defer(e)
  PROVE  WindowOrder'
<1>1. PICK j \in Nat : InWindow(seen, cursor, j)
  BY DEF WindowOrder
<1>2. Len(seen) \in Nat /\ Len(seen) <= SeenCap
  BY <1>1 DEF InWindow
<1>3. PICK w : w = seen'
  OBVIOUS
<1>4. w = Evicted /\ cursor' = cursor
  BY <1>3 DEF Defer
<1>5. \E k \in Nat : InWindow(w, cursor, k)
  <2>1. CASE Len(seen) < SeenCap
    BY <1>1, <1>2, <1>4, <2>1, Room
  <2>2. CASE Len(seen) = SeenCap
    <3>1. /\ w \in Seq(Events) /\ Len(w) = SeenCap - 1
          /\ \A i \in 1..(SeenCap - 1) : w[i] = seen[i + 1]
      BY <1>2, <1>4, <2>2, Room
    <3>2. QED  BY <1>1, <2>2, <3>1, Roomed
  <2>3. QED  BY <1>2, <2>1, <2>2, Sizes
<1>6. QED  BY <1>3, <1>4, <1>5 DEF WindowOrder

\* Without redelivery behind it the window holds every id of its length.
LEMMA RunIsKnown ==
  ASSUME seen \in Seq(Events), cursor \in Nat, WindowOrder, ~Ahead,
         NEW e \in Nat, e <= cursor, e > cursor - Len(seen)
  PROVE  Known(e)
<1>1. PICK j \in Nat : InWindow(seen, cursor, j)
  BY DEF WindowOrder
<1>2. j = 0 /\ Len(seen) \in Nat
  BY <1>1, AheadIsFront DEF Ahead
<1>3. Len(seen) - (cursor - e) \in 1..Len(seen)
  BY <1>2
<1>4. seen[Len(seen) - (cursor - e)] = e
  BY <1>1, <1>2, <1>3 DEF InWindow
<1>5. QED  BY <1>3, <1>4 DEF Known

-----------------------------------------------------------------------------
(* What a step does to cursor, window and work in hand *)

LEMMA Positions ==
  ASSUME KInv
  PROVE  /\ head \in Nat /\ head <= MaxEvents /\ joined \in Nat /\ joined <= read /\ read \in Nat
         /\ read <= head /\ cursor \in Nat /\ cursor <= head /\ cursor > 0 /\ pages \in Nat
         /\ stored \in Nat /\ shown \in Nat /\ shown <= head
         /\ pend \in [Flushers -> 0..head \cup {None}]
         /\ seen \in Seq(Events) /\ Len(seen) \in Nat /\ Len(seen) <= SeenCap
<1>1. Len(seen) <= SeenCap
  BY DEF KInv, WindowOrder, InWindow
<1>2. QED  BY <1>1, Sizes DEF KInv, IInv, Placed, Untouched, ReaderOwes

\* Replay takes the event behind the cursor, and it is new.
LEMMA ReplayMoves ==
  ASSUME KInv, Replay
  PROVE  \E hi \in (cursor + 1)..head :
           /\ page = (cursor + 1)..hi /\ (more => hi > pages * Page) /\ (~more => hi >= joined)
           /\ \/ Apply(cursor + 1) /\ page' = (cursor + 2)..hi /\ phase' = "replay"
              \/ Defer(cursor + 1) /\ phase' = "closing"
<1>1. PICK hi \in cursor..head :
        page = (cursor + 1)..hi /\ (more => hi > pages * Page) /\ (~more => hi >= joined)
  BY DEF KInv, ReplayCloses, Replay
<1>2. hi \in Nat /\ cursor + 1 <= hi
  BY <1>1, Positions DEF Replay
<1>3. Least(page) = cursor + 1 /\ page \ {cursor + 1} = (cursor + 2)..hi
  BY <1>1, <1>2, Positions, LeastOfInterval, RestOfInterval
<1>4. ~Duplicate(cursor + 1)
  BY NextIsNew, Positions DEF Duplicate, KInv
<1>5. \/ Apply(cursor + 1) /\ page' = (cursor + 2)..hi /\ phase' = "replay"
      \/ Defer(cursor + 1) /\ phase' = "closing"
  BY <1>3, <1>4 DEF Replay
<1>6. hi \in (cursor + 1)..head
  BY <1>1, <1>2, Positions
<1>7. QED  BY <1>1, <1>5, <1>6

\* Drain takes an event it knows, the one behind the cursor, or one so old that
\* a full window has forgotten it.
LEMMA DrainMoves ==
  ASSUME KInv, Drain
  PROVE  \E lo \in (joined + 1)..read :
           /\ buffer = lo..read /\ cursor >= joined
           /\ \/ /\ Duplicate(lo) /\ lo <= cursor /\ ~Ahead
                 /\ buffer' = (lo + 1)..read /\ phase' = "drain"
              \/ /\ Apply(lo) /\ buffer' = (lo + 1)..read /\ phase' = "drain"
                 /\ \/ lo = cursor + 1
                    \/ ~Ahead /\ Len(seen) = SeenCap /\ lo <= cursor - SeenCap
              \/ Defer(lo) /\ phase' = "closing"
<1>1. PICK lo \in (joined + 1)..(read + 1) :
        buffer = lo..read /\ cursor >= joined /\ cursor >= lo - 1 /\ (Ahead => cursor = lo - 1)
  BY DEF KInv, DrainCloses, Drain
<1>2. lo \in Nat /\ lo <= read
  BY <1>1, Positions DEF Drain
<1>3. Least(buffer) = lo /\ buffer \ {lo} = (lo + 1)..read
  BY <1>1, <1>2, Positions, LeastOfInterval, RestOfInterval
<1>4. \/ (Duplicate(lo) \/ Apply(lo)) /\ buffer' = (lo + 1)..read /\ phase' = "drain"
      \/ Defer(lo) /\ phase' = "closing"
  BY <1>3 DEF Drain
<1>5. ASSUME Duplicate(lo)
      PROVE  lo <= cursor /\ ~Ahead
  <2>1. lo # cursor + 1
    BY <1>5, NextIsNew, Positions DEF Duplicate, KInv
  <2>2. QED  BY <1>1, <1>2, <2>1, Positions
<1>6. ASSUME Apply(lo), lo # cursor + 1
      PROVE  ~Ahead /\ Len(seen) = SeenCap /\ lo <= cursor - SeenCap
  <2>1. lo <= cursor /\ ~Ahead /\ lo > joined
    BY <1>1, <1>2, <1>6, Positions
  <2>2. lo <= cursor - Len(seen)
    <3>1. ~Known(lo)
      BY <1>6 DEF Apply
    <3>2. QED  BY <1>2, <2>1, <3>1, RunIsKnown, Positions DEF KInv
  <2>3. Len(seen) = SeenCap
    BY <2>1, <2>2, <1>2, Positions, Sizes DEF KInv, WindowReaches, Joining, Drain
  <2>4. QED  BY <2>1, <2>2, <2>3
<1>7. lo \in (joined + 1)..read
  BY <1>1, <1>2
<1>8. QED  BY <1>1, <1>4, <1>5, <1>6, <1>7

\* Live takes an event it knows or the one behind the cursor: the reader owes no
\* more frames than the window holds.
LEMMA LiveMoves ==
  ASSUME Kept, KInv, Live
  PROVE  /\ read' = read + 1
         /\ \/ Duplicate(read + 1) /\ read + 1 <= cursor /\ ~Ahead /\ reader'
            \/ Apply(cursor + 1) /\ cursor = read /\ reader'
            \/ Defer(read + 1) /\ ~reader'
<1>1. cursor >= read /\ (Ahead => cursor = read) /\ head <= read + Lag /\ reader
  BY DEF KInv, LiveCloses, Reading, ReaderOwes, Live
<1>2. /\ read' = read + 1
      /\ \/ (Duplicate(read + 1) \/ Apply(read + 1)) /\ reader'
         \/ Defer(read + 1) /\ ~reader'
  BY <1>1, LiveTakesNext DEF KInv, IInv
<1>3. ASSUME Duplicate(read + 1)
      PROVE  read + 1 <= cursor /\ ~Ahead
  <2>1. read + 1 # cursor + 1
    BY <1>3, NextIsNew, Positions DEF Duplicate, KInv
  <2>2. QED  BY <1>1, <2>1, Positions
<1>4. ASSUME Apply(read + 1)
      PROVE  cursor = read
  <2>1. SUFFICES ASSUME cursor # read PROVE FALSE
    OBVIOUS
  <2>2. read + 1 <= cursor /\ ~Ahead
    BY <1>1, <2>1, Positions
  <2>3. read + 1 > cursor - Len(seen)
    BY <1>1, <2>2, Positions, Sizes DEF Kept, KInv, WindowReaches, Reading, Live
  <2>4. Known(read + 1)
    BY <2>2, <2>3, RunIsKnown, Positions DEF KInv
  <2>5. QED  BY <1>4, <2>4 DEF Apply
<1>5. QED  BY <1>2, <1>3, <1>4

\* A full page goes beyond the pages before it, so the cap ends no replay, and
\* no cursor is lost.
LEMMA NeverGivesUp ==
  ASSUME Kept, KInv, [Next]_vars
  PROVE  /\ expired' = 0 /\ skipped' = {} /\ ~CursorExpired
         /\ ReplayEnds => ~more
         /\ Restart => cursor' = stored
<1>1. ~CursorExpired
  BY Positions DEF CursorExpired, KInv, Untouched
<1>2. ASSUME ReplayEnds, more
      PROVE  FALSE
  <2>1. PICK hi \in cursor..head : page = (cursor + 1)..hi /\ hi > pages * Page
    BY <1>2 DEF KInv, ReplayCloses, ReplayEnds
  <2>2. pages = MaxPages
    BY <1>2, Positions DEF ReplayEnds
  <2>3. MaxPages * Page \in Nat
    BY Sizes
  <2>4. QED  BY <2>1, <2>2, <2>3, Positions, Sizes DEF Kept
<1>3. ~Expire
  BY DEF Expire, Fault, Kept
<1>4. expired' = 0
  BY <1>1, <1>3 DEF KInv, Untouched, Next, Consume, Dial, ReplayEnds, FetchPage, PageFails, Replay,
    Buffer, Drain, GoLive, Live, SessionEnds, StartFlush, LastFlush, EndFlush, Publish, SocketDies, Restart
<1>5. skipped' = {}
  BY <1>1, <1>2, <1>3 DEF KInv, Untouched, Next, Consume, Dial, ReplayEnds, FetchPage, PageFails, Replay,
    Buffer, Drain, GoLive, Live, SessionEnds, StartFlush, LastFlush, EndFlush, Publish, SocketDies, Restart
<1>6. Restart => cursor' = stored
  BY DEF Restart, Kept
<1>7. QED  BY <1>1, <1>2, <1>4, <1>5, <1>6

\* The cursor stays, goes on by one, goes back while the backlog is drained, or
\* comes back from the store.
LEMMA CursorMoves ==
  ASSUME Kept, KInv, [Next]_vars
  PROVE  \/ UNCHANGED <<cursor, seen, shown>>
         \/ cursor + 1 \in Events /\ Apply(cursor + 1)
         \/ /\ Drain /\ ~Ahead /\ Len(seen) = SeenCap
            /\ \E e \in Events : e > joined /\ e <= cursor - SeenCap /\ Apply(e)
         \/ ~Joining' /\ ~Reading' /\ \E e \in Events : Defer(e)
         \/ Restart /\ cursor' = stored
<1>1. CASE Replay
  <2>1. PICK hi \in (cursor + 1)..head :
          (Apply(cursor + 1) /\ phase' = "replay") \/ (Defer(cursor + 1) /\ phase' = "closing")
    BY <1>1, ReplayMoves
  <2>2. cursor + 1 \in Events
    BY Positions, Sizes DEF Events
  <2>3. QED  BY <2>1, <2>2 DEF Joining, Reading
<1>2. CASE Drain
  <2>1. PICK lo \in (joined + 1)..read :
          \/ Duplicate(lo)
          \/ Apply(lo) /\ (lo = cursor + 1 \/ (~Ahead /\ Len(seen) = SeenCap /\ lo <= cursor - SeenCap))
          \/ Defer(lo) /\ phase' = "closing"
    BY <1>2, DrainMoves
  <2>2. lo \in Events /\ lo > joined
    BY Positions, Sizes DEF Events
  <2>3. QED  BY <1>2, <2>1, <2>2 DEF Duplicate, Joining, Reading
<1>3. CASE Live
  <2>1. phase' = "live" /\ read + 1 \in Events
    BY <1>3, Positions, Sizes DEF Live, Events
  <2>2. \/ Duplicate(read + 1)
        \/ Apply(cursor + 1) /\ cursor = read
        \/ Defer(read + 1) /\ ~reader'
    BY <1>3, LiveMoves
  <2>3. QED  BY <2>1, <2>2 DEF Duplicate, Joining, Reading
<1>4. QED  BY <1>1, <1>2, <1>3, StepKinds, QuietKeeps, NeverGivesUp

\* A session that is joining or reading has just dialled, or was before.
LEMMA SessionGoesOn ==
  ASSUME KInv, [Next]_vars
  PROVE  /\ Joining' => (Joining /\ joined' = joined) \/ Dial
         /\ Reading' => (Joining \/ Reading) /\ joined' = joined
<1>1. Joining' => (Joining /\ joined' = joined) \/ Dial
  <2>1. joined' = joined \/ Dial
    BY DEF Next, Consume, ReplayEnds, FetchPage, CursorExpired, PageFails, Replay,
      Buffer, Drain, GoLive, Live, SessionEnds, StartFlush, LastFlush, EndFlush, Publish, Expire,
      SocketDies, Restart
  <2>2. phase' \in {"replay", "drain"} => Dial \/ phase \in {"replay", "drain"}
    BY DEF Next, Consume, ReplayEnds, FetchPage, CursorExpired, Asking, PageFails, Replay,
      Buffer, Drain, GoLive, Live, SessionEnds, StartFlush, LastFlush, EndFlush, Publish, Expire,
      SocketDies, Restart
  <2>3. QED  BY <2>1, <2>2 DEF Joining
<1>2. phase' = "live" => phase \in {"drain", "live"} /\ joined' = joined
  BY DEF Next, Consume, Dial, ReplayEnds, FetchPage, CursorExpired, PageFails, Replay,
    Buffer, Drain, GoLive, Live, SessionEnds, StartFlush, LastFlush, EndFlush, Publish, Expire, SocketDies,
    Restart
<1>3. ASSUME phase' = "live", phase = "live", reader'
      PROVE  reader
  <2>1. Publish \/ SocketDies \/ Live \/ reader' = reader
    BY <1>3 DEF Next, Consume, Dial, ReplayEnds, FetchPage, CursorExpired, PageFails, Replay,
      Buffer, Drain, GoLive, SessionEnds, StartFlush, LastFlush, EndFlush, Expire, Restart
  <2>2. CASE Publish \/ SocketDies \/ Live
    BY <1>3, <2>2 DEF Publish, SocketDies, Live
  <2>3. QED  BY <1>3, <2>1, <2>2
<1>4. QED  BY <1>1, <1>2, <1>3 DEF Joining, Reading

-----------------------------------------------------------------------------
(* The parts of KInv, one by one *)

LEMMA WindowStep ==
  ASSUME Kept, KInv, [Next]_vars
  PROVE  WindowOrder'
<1>1. seen \in Seq(Events) /\ cursor \in Nat /\ WindowOrder
  BY Positions DEF KInv
<1>2. CASE UNCHANGED <<cursor, seen, shown>>
  BY <1>1, <1>2 DEF WindowOrder
<1>3. CASE Restart
  <2>1. seen' = <<>>
    BY <1>3 DEF Restart
  <2>2. \A c : InWindow(<<>>, c, 0)
    BY Sizes DEF InWindow
  <2>3. QED  BY <2>1, <2>2 DEF WindowOrder
<1>4. QED
  BY <1>1, <1>2, <1>3, CursorMoves, NextInWindow, OldInWindow, DeferInWindow, Sizes DEF Events

LEMMA ReachesStep ==
  ASSUME Kept, KInv, [Next]_vars
  PROVE  WindowReaches'
<1>1. SUFFICES ASSUME Joining' \/ Reading', ~Ahead', Len(seen') < SeenCap
               PROVE  cursor' - Len(seen') <= joined'
  BY DEF WindowReaches
<1>2. CASE Dial
  <2>1. joined' = head /\ cursor' = cursor /\ seen' = seen
    BY <1>2 DEF Dial
  <2>2. QED  BY <2>1, Positions
<1>3. CASE ~Dial
  <2>1. (Joining \/ Reading) /\ joined' = joined
    BY <1>1, <1>3, SessionGoesOn DEF Joining
  <2>2. CASE UNCHANGED <<cursor, seen, shown>>
    <3>1. ~Ahead
      BY <1>1, <2>2 DEF Ahead
    <3>2. QED  BY <1>1, <2>1, <2>2, <3>1 DEF KInv, WindowReaches
  <2>3. CASE cursor + 1 \in Events /\ Apply(cursor + 1)
    <3>1. ~Ahead /\ Len(seen) < SeenCap /\ cursor' - Len(seen') = cursor - Len(seen)
      BY <1>1, <2>3, NextInWindow, Positions DEF KInv
    <3>2. QED  BY <2>1, <3>1 DEF KInv, WindowReaches
  <2>4. ASSUME NEW e \in Events, ~Ahead, Len(seen) = SeenCap, e <= cursor - SeenCap, Apply(e)
        PROVE  FALSE
    BY <1>1, <2>4, OldInWindow, Positions, Sizes DEF KInv, Events
  <2>5. ~Restart
    BY <1>1 DEF Restart, Joining, Reading
  <2>6. QED  BY <1>1, <2>2, <2>3, <2>4, <2>5, CursorMoves
<1>4. QED  BY <1>2, <1>3

LEMMA StoreStep ==
  ASSUME Kept, KInv, [Next]_vars
  PROVE  StoreBehind'
<1> DEFINE Held(c) == c = stored \/ \E f \in Flushers : pend[f] # None /\ c = pend[f]
<1>1. \A c : Held(c) => c \in Nat /\ c <= cursor /\ (Joining => c <= joined)
  <2>1. \A f \in Flushers : pend[f] # None => pend[f] \in Nat
    BY Positions
  <2>2. QED  BY <2>1, Positions DEF KInv, StoreBehind
<1>2. Held(stored') /\ \A f \in Flushers : pend'[f] # None => Held(pend'[f]) \/ (pend'[f] = cursor /\ ~Joining /\ ~Joining')
  <2>1. Held(stored')
    BY DEF Next, Consume, Dial, ReplayEnds, FetchPage, CursorExpired, PageFails, Replay,
      Buffer, Drain, GoLive, Live, SessionEnds, StartFlush, LastFlush, EndFlush, Publish, Expire,
      SocketDies, Restart, Flushers
  <2>2. ASSUME NEW f \in Flushers, pend'[f] # None
        PROVE  pend'[f] = pend[f] \/ (pend'[f] = cursor /\ ~Joining /\ ~Joining')
    BY <2>2, Positions DEF Next, Consume, Dial, ReplayEnds, FetchPage, CursorExpired, PageFails, Replay,
      Buffer, Drain, GoLive, Live, SessionEnds, StartFlush, LastFlush, EndFlush, Publish, Expire,
      SocketDies, Restart, Flushers, Joining
  <2>3. QED  BY <2>1, <2>2
<1>3. ASSUME NEW c, Held(c) \/ (c = cursor /\ ~Joining /\ ~Joining'), ~Restart
      PROVE  c <= cursor' /\ (Joining' => c <= joined')
  <2>1. c \in Nat /\ c <= cursor /\ (Joining => c <= joined)
    BY <1>1, <1>3, Positions
  <2> HIDE DEF Held
  <2>2. c <= cursor'
    <3>1. CASE cursor' = cursor \/ cursor' = cursor + 1
      BY <2>1, <3>1, Positions
    <3>2. ASSUME NEW e \in Events, Drain, e > joined, e <= cursor - SeenCap, Apply(e)
          PROVE  c <= cursor'
      <4>1. cursor' = e /\ e \in Nat
        BY <3>2, Sizes DEF Apply, Events
      <4>2. Joining
        BY <3>2 DEF Drain, Joining
      <4>3. QED  BY <2>1, <3>2, <4>1, <4>2, Positions, Sizes DEF Events
    <3>3. ASSUME NEW e \in Events, Defer(e)
          PROVE  cursor' = cursor
      BY <3>3 DEF Defer
    <3>4. Apply(cursor + 1) => cursor' = cursor + 1
      BY DEF Apply
    <3>5. \/ cursor' = cursor \/ cursor' = cursor + 1
          \/ \E e \in Events : Drain /\ e > joined /\ e <= cursor - SeenCap /\ Apply(e)
      BY <1>3, <3>3, <3>4, CursorMoves
    <3>6. QED  BY <3>1, <3>2, <3>5
  <2>3. ASSUME Joining'
        PROVE  c <= joined'
    <3>1. CASE Dial
      <4>1. joined' = head
        BY <3>1 DEF Dial
      <4>2. QED  BY <2>1, <4>1, Positions
    <3>2. QED  BY <2>1, <2>3, <3>1, SessionGoesOn
  <2>4. QED  BY <2>2, <2>3
<1>4. CASE Restart
  <2>1. cursor' = stored /\ stored' = stored /\ ~Joining'
    BY <1>4, NeverGivesUp DEF Restart, Joining
  <2>2. \A f \in Flushers : pend'[f] = None
    BY <1>4 DEF Restart
  <2>3. QED  BY <2>1, <2>2, Positions DEF StoreBehind
<1>5. CASE ~Restart
  <2> HIDE DEF Held
  <2>1. QED  BY <1>2, <1>3, <1>5 DEF StoreBehind
<1>6. QED  BY <1>4, <1>5

LEMMA UntouchedStep ==
  ASSUME Kept, KInv, [Next]_vars
  PROVE  Untouched'
<1>1. expired' = 0 /\ skipped' = {}
  BY NeverGivesUp
<1>2. stored' > 0
  BY DEF KInv, Untouched, Next, Consume, Dial, ReplayEnds, FetchPage, CursorExpired, PageFails, Replay,
    Buffer, Drain, GoLive, Live, SessionEnds, StartFlush, LastFlush, EndFlush, Publish, Expire,
    SocketDies, Restart, Flushers
<1>3. ASSUME NEW f \in Flushers, pend'[f] # None
      PROVE  pend'[f] > 0
  <2>1. pend'[f] \in {pend[f], cursor}
    BY <1>3 DEF KInv, IInv, Placed, Next, Consume, Dial, ReplayEnds, FetchPage, CursorExpired, PageFails,
      Replay, Buffer, Drain, GoLive, Live, SessionEnds, StartFlush, LastFlush, EndFlush, Publish,
      Expire, SocketDies, Restart, Flushers
  <2>2. QED  BY <1>3, <2>1 DEF KInv, Untouched
<1>4. cursor' > 0 /\ shown' >= cursor'
  <2>1. \A e \in Events : Apply(e) => cursor' = e /\ shown' = e /\ e \in Nat /\ e > 0
    BY Sizes DEF Apply, Events
  <2>2. \A e \in Events : Defer(e) => cursor' = cursor /\ shown' = shown
    BY DEF Defer
  <2>3. CASE Restart /\ cursor' = stored
    <3>1. shown' = shown /\ stored <= cursor /\ stored > 0 /\ shown >= cursor
      BY <2>3 DEF Restart, KInv, Untouched, StoreBehind
    <3>2. QED  BY <2>3, <3>1, Positions
  <2>4. cursor > 0 /\ shown >= cursor
    BY DEF KInv, Untouched
  <2>5. ASSUME NEW e \in Events, Apply(e)
        PROVE  cursor' > 0 /\ shown' >= cursor'
    BY <2>1, <2>5
  <2>6. QED  BY <2>2, <2>3, <2>4, <2>5, CursorMoves
<1>5. QED  BY <1>1, <1>2, <1>3, <1>4 DEF Untouched

\* Steps that leave the work in hand alone.
Idles == UNCHANGED <<cursor, seen, joined, read, buffer, page, more, pages>> /\ phase' \in {phase, "closing", "down", "flushing"}

LEMMA Others ==
  ASSUME Kept, KInv, [Next]_vars
  PROVE  \/ Dial \/ ReplayEnds \/ FetchPage \/ Replay \/ Buffer \/ Drain \/ GoLive \/ Live
         \/ Restart \/ Idles
<1>1. ~CursorExpired
  BY NeverGivesUp
<1>2. CASE PageFails \/ SessionEnds \/ LastFlush
  BY <1>2 DEF PageFails, SessionEnds, LastFlush, Idles
<1>3. CASE StartFlush \/ EndFlush("loop") \/ EndFlush("run") \/ Publish \/ Expire \/ SocketDies \/ UNCHANGED vars
  BY <1>3 DEF StartFlush, EndFlush, Publish, Expire, SocketDies, Idles
<1>4. QED  BY <1>1, <1>2, <1>3 DEF Next, Consume

\* A full page is Page events long, a short one reaches the end of the log.
LEMMA FetchedPage ==
  ASSUME Placed, FetchPage
  PROVE  \E h \in cursor..head :
           page' = (cursor + 1)..h /\ (more' => h = cursor + Page) /\ (~more' => h = head)
<1>1. cursor \in Nat /\ head \in Nat /\ Page \in Nat \ {0} /\ cursor <= head
  BY StreamIsSized DEF StreamAssumption, Placed
<1>2. page' = {e \in (cursor + 1)..head : e <= cursor + Page} /\ more' = (Cardinality(page') = Page)
  BY DEF FetchPage
<1>3. CASE head < cursor + Page
  <2>1. page' = (cursor + 1)..head
    BY <1>1, <1>2, <1>3
  <2>2. Cardinality(page') = head - cursor
    <3>1. CASE cursor + 1 <= head
      BY <1>1, <2>1, <3>1, FS_Interval
    <3>2. CASE cursor = head
      <4>1. page' = {}
        BY <1>1, <2>1, <3>2
      <4>2. QED  BY <1>1, <3>2, <4>1, FS_EmptySet
    <3>3. QED  BY <1>1, <3>1, <3>2
  <2>3. Cardinality(page') # Page
    BY <1>1, <1>3, <2>2
  <2>4. ~more'
    BY <1>2, <2>3
  <2>5. QED  BY <1>1, <2>1, <2>4
<1>4. CASE head >= cursor + Page
  <2>1. page' = (cursor + 1)..(cursor + Page)
    BY <1>1, <1>2, <1>4
  <2>2. Cardinality(page') = Page
    BY <1>1, <2>1, FS_Interval
  <2>3. cursor + Page \in cursor..head
    BY <1>1, <1>4
  <2>4. QED  BY <1>2, <2>1, <2>2, <2>3
<1>5. QED  BY <1>1, <1>3, <1>4

LEMMA ReplayClosesStep ==
  ASSUME Kept, KInv, [Next]_vars
  PROVE  ReplayCloses'
<1>1. head' \in Nat /\ head <= head' /\ head \in Nat /\ cursor \in Nat /\ cursor <= head
  BY StepGrows, Positions, Sizes DEF KInv
<1>2. CASE Dial
  <2>1. /\ page' = (cursor + 1)..cursor /\ more' /\ pages' = 0 /\ joined' = head
        /\ cursor' = cursor /\ seen' = seen /\ head' = head
    BY <1>1, <1>2 DEF Dial
  <2>2. cursor > pages' * Page
    BY <2>1, Positions, Sizes
  <2>3. \A i \in DOMAIN seen : seen[i] <= head
    <3>1. \A i \in DOMAIN seen : seen[i] \in 1..head
      BY DEF KInv, IInv, SeenIsApplied, Placed
    <3>2. QED  BY <1>1, <3>1
  <2>4. cursor \in cursor'..head'
    BY <1>1, <2>1
  <2>5. QED  BY <2>1, <2>2, <2>3, <2>4 DEF ReplayCloses
<1>3. CASE FetchPage
  <2>1. PICK hi \in cursor..head :
          page = (cursor + 1)..hi /\ hi > pages * Page
    BY <1>3 DEF KInv, ReplayCloses, FetchPage, Asking
  <2>2. hi = cursor
    BY <1>1, <1>3, <2>1 DEF FetchPage, Asking
  <2>3. \E h \in cursor..head :
          page' = (cursor + 1)..h /\ (more' => h = cursor + Page) /\ (~more' => h = head)
    BY <1>1, <1>3, FetchedPage DEF KInv, IInv
  <2>4. PICK h \in cursor..head :
          page' = (cursor + 1)..h /\ (more' => h = cursor + Page) /\ (~more' => h = head)
    BY <2>3
  <2>5. pages' = pages + 1 /\ UNCHANGED <<head, cursor, seen, joined>>
    BY <1>3 DEF FetchPage
  <2>6. cursor + Page > (pages + 1) * Page
    <3>1. (pages + 1) * Page = pages * Page + Page /\ pages * Page \in Nat
      BY Positions, Sizes
    <3>2. QED  BY <1>1, <2>1, <2>2, <3>1, Sizes
  <2>7. \A i \in DOMAIN seen : seen[i] <= cursor \/ seen[i] <= joined
    BY <1>3 DEF FetchPage, Asking, KInv, ReplayCloses
  <2>8. joined <= head
    BY Positions
  <2>9. QED  BY <2>4, <2>5, <2>6, <2>7, <2>8 DEF ReplayCloses
<1>4. CASE Replay
  <2>1. PICK hi \in (cursor + 1)..head :
          /\ (more => hi > pages * Page) /\ (~more => hi >= joined)
          /\ \/ Apply(cursor + 1) /\ page' = (cursor + 2)..hi
             \/ Defer(cursor + 1) /\ phase' = "closing"
    BY <1>4, ReplayMoves
  <2>2. UNCHANGED <<head, joined, more, pages>>
    BY <1>4 DEF Replay
  <2>3. CASE Apply(cursor + 1) /\ page' = (cursor + 2)..hi
    <3>1. cursor' = cursor + 1 /\ hi \in cursor'..head' /\ page' = (cursor' + 1)..hi
      BY <1>1, <2>2, <2>3 DEF Apply
    <3>2. ASSUME NEW i \in DOMAIN seen'
          PROVE  seen'[i] <= cursor' \/ seen'[i] <= joined'
      <4>1. cursor + 1 \in Events
        BY <1>1, Positions, Sizes DEF Events
      <4>2. seen'[i] = cursor + 1 \/ \E k \in DOMAIN seen : seen'[i] = seen[k]
        BY <2>3, <4>1, WindowKeeps, Positions DEF Apply
      <4>3. \A k \in DOMAIN seen : seen[k] \in Nat /\ (seen[k] <= cursor \/ seen[k] <= joined)
        BY <1>4, Positions, Sizes, SMTT(60) DEF Replay, KInv, ReplayCloses, Events
      <4>4. QED  BY <1>1, <2>2, <3>1, <4>2, <4>3
    <3>3. QED  BY <2>1, <2>2, <3>1, <3>2 DEF ReplayCloses
  <2>4. QED  BY <2>1, <2>3 DEF ReplayCloses
<1>5. CASE (Buffer \/ Idles) /\ phase = "replay"
  <2>1. UNCHANGED <<cursor, seen, joined, page, more, pages>>
    BY <1>5 DEF Buffer, Idles
  <2>2. PICK hi \in cursor..head :
          page = (cursor + 1)..hi /\ (more => hi > pages * Page) /\ (~more => hi >= joined)
    BY <1>5 DEF KInv, ReplayCloses
  <2>3. hi \in cursor'..head'
    BY <1>1, <2>1
  <2>4. QED  BY <1>5, <2>1, <2>2, <2>3 DEF KInv, ReplayCloses
<1>6. CASE phase' # "replay"
  BY <1>6 DEF ReplayCloses
<1>7. QED
  BY <1>2, <1>3, <1>4, <1>5, <1>6, Others DEF ReplayEnds, Buffer, Drain, GoLive, Live, Restart, Idles

LEMMA DrainClosesStep ==
  ASSUME Kept, KInv, [Next]_vars
  PROVE  DrainCloses'
<1>1. CASE ReplayEnds
  <2>1. PICK hi \in cursor..head : page = (cursor + 1)..hi /\ hi >= joined
    BY <1>1, NeverGivesUp DEF ReplayEnds, KInv, ReplayCloses
  <2>2. cursor >= joined
    BY <1>1, <2>1, Positions DEF ReplayEnds
  <2>3. buffer = (joined + 1)..read
    BY <1>1 DEF ReplayEnds, KInv, IInv, BacklogFollows
  <2>4. ~Ahead
    <3>1. \A i \in DOMAIN seen : seen[i] <= cursor \/ seen[i] <= joined
      BY <1>1 DEF ReplayEnds, KInv, ReplayCloses
    <3>2. \A i \in DOMAIN seen : seen[i] \in Nat
      BY Positions, Sizes DEF Events
    <3>3. \A i \in DOMAIN seen : seen[i] <= cursor
      BY <2>2, <3>1, <3>2, Positions
    <3>4. \A i \in DOMAIN seen : ~(seen[i] > cursor)
      BY <3>2, <3>3, Positions
    <3>5. QED  BY <3>4 DEF Ahead
  <2>5. UNCHANGED <<cursor, seen, joined, read, buffer>>
    BY <1>1 DEF ReplayEnds
  <2>6. ~Ahead'
    BY <2>4, <2>5 DEF Ahead
  <2>7. joined + 1 \in (joined + 1)..(read + 1) /\ cursor >= (joined + 1) - 1
    BY <2>2, Positions
  <2>8. QED  BY <2>2, <2>3, <2>5, <2>6, <2>7 DEF DrainCloses
<1>2. CASE Drain
  <2>1. PICK lo \in (joined + 1)..read :
          /\ cursor >= joined
          /\ \/ /\ Duplicate(lo) /\ lo <= cursor /\ ~Ahead /\ buffer' = (lo + 1)..read
             \/ /\ Apply(lo) /\ buffer' = (lo + 1)..read
             \/ Defer(lo) /\ phase' = "closing"
    BY <1>2, DrainMoves
  <2>2. joined' = joined /\ read' = read
    BY <1>2 DEF Drain
  <2>3. lo + 1 \in (joined' + 1)..(read' + 1) /\ lo \in Nat /\ lo > joined
    BY <2>2, Positions
  <2>4. CASE Duplicate(lo) /\ lo <= cursor /\ ~Ahead /\ buffer' = (lo + 1)..read
    <3>1. cursor' = cursor /\ ~Ahead'
      BY <2>4 DEF Duplicate, Ahead
    <3>2. cursor' >= (lo + 1) - 1
      BY <2>3, <2>4, <3>1
    <3>3. QED  BY <2>1, <2>2, <2>3, <2>4, <3>1, <3>2 DEF DrainCloses
  <2>5. CASE Apply(lo) /\ buffer' = (lo + 1)..read
    <3>1. cursor' = lo
      BY <2>5 DEF Apply
    <3>2. cursor' = (lo + 1) - 1 /\ cursor' >= joined' /\ cursor' >= (lo + 1) - 1
      BY <2>2, <2>3, <3>1, Positions
    <3>3. QED  BY <2>2, <2>3, <2>5, <3>2 DEF DrainCloses
  <2>6. CASE Defer(lo) /\ phase' = "closing"
    BY <2>6 DEF DrainCloses
  <2>7. QED  BY <2>1, <2>4, <2>5, <2>6
<1>3. CASE Idles /\ phase = "drain"
  <2>1. UNCHANGED <<cursor, seen, joined, read, buffer>>
    BY <1>3 DEF Idles
  <2>2. QED  BY <1>3, <2>1 DEF KInv, DrainCloses, Ahead
<1>4. CASE phase' # "drain"
  BY <1>4 DEF DrainCloses
<1>5. QED
  BY <1>1, <1>2, <1>3, <1>4, Others DEF Dial, FetchPage, Asking, Replay, Buffer, GoLive, Live, Restart, Idles

LEMMA LiveClosesStep ==
  ASSUME Kept, KInv, [Next]_vars
  PROVE  LiveCloses'
<1>1. CASE GoLive
  <2>1. PICK lo \in (joined + 1)..(read + 1) :
          buffer = lo..read /\ cursor >= lo - 1 /\ (Ahead => cursor = lo - 1)
    BY <1>1 DEF GoLive, KInv, DrainCloses
  <2>2. lo = read + 1
    BY <1>1, <2>1, Positions DEF GoLive
  <2>3. UNCHANGED <<cursor, seen, read>>
    BY <1>1 DEF GoLive
  <2>4. QED  BY <2>1, <2>2, <2>3, Positions DEF LiveCloses, Ahead
<1>2. CASE Live
  <2>1. cursor >= read /\ reader
    BY <1>2 DEF Live, KInv, LiveCloses, Reading
  <2>2. CASE Duplicate(read + 1) /\ read + 1 <= cursor /\ ~Ahead
    <3>1. cursor' = cursor /\ ~Ahead'
      BY <2>2 DEF Duplicate, Ahead
    <3>2. QED  BY <1>2, <2>2, <3>1, LiveMoves DEF LiveCloses
  <2>3. CASE Apply(cursor + 1) /\ cursor = read
    <3>1. cursor' = read + 1
      BY <2>3 DEF Apply
    <3>2. QED  BY <1>2, <3>1, LiveMoves, Positions DEF LiveCloses
  <2>4. CASE ~reader'
    BY <2>4 DEF LiveCloses, Reading
  <2>5. QED  BY <1>2, <2>2, <2>3, <2>4, LiveMoves
<1>3. CASE Reading' /\ ~GoLive /\ ~Live
  <2>1. Reading /\ UNCHANGED <<cursor, seen, read>>
    <3>1. phase' = "live"
      BY <1>3 DEF Reading
    <3>2. Idles /\ phase = "live"
      BY <1>3, <3>1, Others DEF Dial, ReplayEnds, FetchPage, Asking, Replay, Buffer, Drain, Restart, Idles
    <3>3. Reading
      BY <1>3, <3>2, SessionGoesOn DEF Joining
    <3>4. QED  BY <3>2, <3>3 DEF Idles
  <2>2. QED  BY <2>1 DEF KInv, LiveCloses, Ahead
<1>4. QED  BY <1>1, <1>2, <1>3 DEF LiveCloses

LEMMA OwesStep ==
  ASSUME Kept, KInv, [Next]_vars
  PROVE  ReaderOwes'
<1>1. pages' \in Nat
  <2>1. CASE FetchPage
    BY <2>1, Positions DEF FetchPage
  <2>2. CASE Dial
    BY <2>2 DEF Dial
  <2>3. CASE Restart
    BY <2>3, Positions DEF Restart
  <2>4. CASE ReplayEnds \/ Replay \/ Buffer \/ Drain \/ GoLive \/ Live \/ Idles
    <3>1. pages' = pages
      BY <2>4 DEF ReplayEnds, Replay, Buffer, Drain, GoLive, Live, Idles
    <3>2. QED  BY <3>1, Positions
  <2>5. QED  BY <2>1, <2>2, <2>3, <2>4, Others
<1>2. CASE Publish
  <2>1. ASSUME reader' PROVE head' <= read' + Lag
    <3>1. read' = read /\ head' = head + 1 /\ head' - read <= Lag
      BY <1>2, <2>1 DEF Publish
    <3>2. head \in Nat /\ read \in Nat /\ Lag \in Nat
      BY Positions, Sizes
    <3>3. head + 1 - read <= Lag
      BY <3>1, <3>2
    <3>4. head + 1 <= read + Lag
      BY <3>2, <3>3
    <3>5. QED  BY <3>1, <3>4
  <2>2. QED  BY <1>1, <2>1 DEF ReaderOwes
<1>3. CASE Dial
  BY <1>3, Positions, Sizes DEF Dial, ReaderOwes
<1>4. CASE ~Publish /\ ~Dial /\ reader'
  <2>1. reader /\ head' = head /\ (read' = read \/ read' = read + 1)
    BY <1>4 DEF Next, Consume, ReplayEnds, FetchPage, CursorExpired, PageFails, Replay,
      Buffer, Drain, GoLive, Live, SessionEnds, StartFlush, LastFlush, EndFlush, Expire, SocketDies, Restart
  <2>2. QED  BY <1>1, <2>1, Positions, Sizes DEF ReaderOwes, KInv
<1>5. QED  BY <1>1, <1>2, <1>3, <1>4 DEF ReaderOwes

LEMMA InitKInv ==
  ASSUME Kept, Init
  PROVE  KInv
<1>1. stored \in Nat /\ stored > 0 /\ cursor = stored /\ shown = stored
  BY Sizes DEF Init, Kept
<1>2. Untouched /\ StoreBehind
  BY <1>1 DEF Init, Untouched, StoreBehind, Joining, Flushers
<1>3. WindowOrder
  <2>1. \A c : InWindow(<<>>, c, 0)
    BY Sizes DEF InWindow
  <2>2. QED  BY <2>1 DEF Init, WindowOrder
<1>4. WindowReaches /\ ReplayCloses /\ DrainCloses /\ LiveCloses /\ ReaderOwes
  BY DEF Init, WindowReaches, ReplayCloses, DrainCloses, LiveCloses, ReaderOwes, Joining, Reading
<1>5. QED  BY <1>2, <1>3, <1>4, InitIInv DEF KInv

LEMMA StepKInv ==
  ASSUME Kept, KInv, [Next]_vars
  PROVE  KInv'
BY StepIInv, UntouchedStep, WindowStep, StoreStep, ReachesStep, ReplayClosesStep, DrainClosesStep,
   LiveClosesStep, OwesStep DEF KInv

LEMMA KeptWhole ==
  ASSUME KInv
  PROVE  NothingWrittenOff /\ CaughtUpShowsNewest
<1>1. NothingWrittenOff
  BY DEF KInv, Untouched, NothingWrittenOff
<1>2. ASSUME phase = "live", reader, read = head
      PROVE  shown = head
  <2>1. cursor >= read /\ shown >= cursor
    BY <1>2 DEF KInv, LiveCloses, Reading, Untouched
  <2>2. QED  BY <1>2, <2>1, Positions
<1>3. QED  BY <1>1, <1>2 DEF CaughtUpShowsNewest

\* A consumer that starts from a stored cursor within retention and within the
\* page cap writes nothing off, and whenever it is live and caught up the event
\* applied last is the newest, through any replay, redelivery, eviction, refusal
\* and crash; and so does the part "kept" of the run.
THEOREM NothingIsLost ==
  ASSUME Kept
  PROVE  /\ Spec => [](NothingWrittenOff /\ CaughtUpShowsNewest)
         /\ StreamSpec => []KeptIsWhole
<1>1. Spec => [](NothingWrittenOff /\ CaughtUpShowsNewest)
  <2>1. Init => KInv
    BY InitKInv
  <2>2. KInv /\ [Next]_vars => KInv'
    BY StepKInv
  <2>3. KInv => NothingWrittenOff /\ CaughtUpShowsNewest
    BY KeptWhole
  <2>4. QED  BY <2>1, <2>2, <2>3, PTL DEF Spec
<1>2. StreamSpec => []KeptIsWhole
  <2> DEFINE I == part = "kept" => KInv
  <2>1. StreamInit => I
    BY InitKInv DEF StreamInit
  <2>2. I /\ [StreamNext]_<<vars, part>> => I'
    <3> SUFFICES ASSUME I, [StreamNext]_<<vars, part>>, part' = "kept" PROVE KInv'
      OBVIOUS
    <3>1. part = "kept" /\ [Next]_vars
      BY DEF StreamNext
    <3>2. QED  BY <3>1, StepKInv
  <2>3. I => KeptIsWhole
    BY KeptWhole DEF KeptIsWhole
  <2> HIDE DEF I
  <2>4. QED  BY <2>1, <2>2, <2>3, PTL DEF StreamSpec
<1>3. QED  BY <1>1, <1>2
=============================================================================

---------------------------- MODULE EventStream ----------------------------
(***************************************************************************)
(* The marketplace event consumer, internal/tonnel/stream.go: the session  *)
(* (dial, replay the gap, merge what arrived meanwhile, live), the cursor  *)
(* and its persistence, the window of ids already seen, handler failures,  *)
(* and restarts.  An event is its position in the marketplace's log, which *)
(* is also the order of occurredAt and the order of the socket's frames.   *)
(***************************************************************************)
EXTENDS Naturals, Sequences, FiniteSets

CONSTANTS
  MaxEvents,    \* bound on the events the marketplace publishes
  Page,         \* replayPage
  MaxPages,     \* maxReplayPages
  BufferCap,    \* maxLiveBuffer
  SeenCap,      \* seenCapacity
  Lag,          \* frames a slow reader may owe before the server hangs up
  Stored,       \* the cursors the store may hold at the start, 0 for none
  Faults,       \* what may go wrong
  MaxFaults,    \* how often
  None

StreamAssumption ==
  /\ MaxEvents \in Nat \ {0} /\ Page \in Nat \ {0} /\ MaxPages \in Nat \ {0}
  /\ BufferCap \in Nat \ {0} /\ SeenCap \in Nat \ {0} /\ Lag \in Nat \ {0}
  /\ Stored \subseteq 0..MaxEvents /\ MaxFaults \in Nat
  /\ Faults \subseteq {"socket", "page", "handler", "save", "load", "expire", "crash"}
  /\ None \notin Nat

ASSUME StreamIsSized == StreamAssumption

VARIABLES
  \* the marketplace: events published, events no longer replayable
  head, expired,
  \* the store
  stored,
  \* Stream
  cursor,   \* last processed event, 0 for none
  saved,    \* what the store is believed to hold
  seen,     \* ids in arrival order
  pend,     \* the cursor each flush has read and not yet written
  \* the session
  phase,    \* "down", "replay", "drain", "live", "closing", "flushing"
  joined,   \* head when the socket came up
  read,     \* last frame taken off the socket
  reader,   \* the reading goroutine still runs
  buffer,   \* frames held back while replay runs
  page,     \* events of the current page still to be processed
  more,     \* that page was full, or none has been asked for yet
  pages,    \* pages asked for
  \* the handler's effect
  applied, shown,
  \* history: events written off, events refused by the handler; faults left
  skipped, deferred, faults

market   == <<head, expired>>
consumer == <<cursor, seen, applied, shown, deferred>>
flush    == <<stored, saved, pend>>
session  == <<phase, joined, read, reader, buffer, page, more, pages>>
vars     == <<market, consumer, flush, session, skipped, faults>>

Events   == 1..MaxEvents
Flushers == {"loop", "run"}

Least(s)   == CHOOSE e \in s : \A o \in s : e <= o
Fault(f)   == f \in Faults /\ faults > 0 /\ faults' = faults - 1
Known(e)   == \E i \in DOMAIN seen : seen[i] = e
Evicted    == IF Len(seen) < SeenCap THEN seen ELSE Tail(seen)  \* room for one more id
WriteOff   == skipped' = skipped \cup (1..joined \ applied)

-----------------------------------------------------------------------------
(* process *)

\* Already seen: nothing happens, and the cursor stays where it is.
Duplicate(e) ==
  /\ Known(e)
  /\ UNCHANGED <<consumer, faults>>

\* The handler accepts: remembered, applied, and the cursor follows.
Apply(e) ==
  /\ ~Known(e)
  /\ seen' = Append(Evicted, e)
  /\ applied' = applied \cup {e} /\ shown' = e
  /\ cursor' = e
  /\ UNCHANGED <<deferred, faults>>

\* Slip: the refused id stays in the window.
Slip_DeferRemembers(e) ==
  /\ ~Known(e) /\ Fault("handler")
  /\ seen' = Append(Evicted, e)
  /\ deferred' = deferred \cup {e}
  /\ UNCHANGED <<cursor, applied, shown>>

\* Slip: the cursor is noted before the handler is asked.
Slip_DeferAdvances(e) ==
  /\ ~Known(e) /\ Fault("handler")
  /\ seen' = Evicted
  /\ cursor' = e
  /\ deferred' = deferred \cup {e}
  /\ UNCHANGED <<applied, shown>>

\* The handler refuses: the id is forgotten, what it evicted stays evicted,
\* and the session ends with the cursor behind the event.
Defer(e) ==
  /\ ~Known(e) /\ Fault("handler")
  /\ seen' = Evicted
  /\ deferred' = deferred \cup {e}
  /\ UNCHANGED <<cursor, applied, shown>>

-----------------------------------------------------------------------------
(* session *)

\* The socket is up before replay starts, so nothing falls between the two.
Dial ==
  /\ phase = "down"
  /\ phase' = "replay" /\ joined' = head /\ read' = head /\ reader' = TRUE
  /\ buffer' = {} /\ page' = {} /\ more' = TRUE /\ pages' = 0
  /\ UNCHANGED <<market, consumer, flush, skipped, faults>>

\* Replay has nothing left to ask for, or may not ask: no cursor, or the cap.
ReplayEnds ==
  /\ phase = "replay" /\ page = {}
  /\ ~more \/ cursor = 0 \/ pages = MaxPages
  /\ phase' = "drain"
  /\ IF more THEN WriteOff ELSE UNCHANGED skipped
  /\ UNCHANGED <<market, consumer, flush, joined, read, reader, buffer, page, more, pages, faults>>

Asking == phase = "replay" /\ page = {} /\ more /\ cursor # 0 /\ pages < MaxPages

FetchPage ==
  LET behind == (cursor + 1)..head
      taken  == {e \in behind : e <= cursor + Page} IN
  /\ Asking /\ cursor >= expired
  /\ page' = taken /\ more' = (Cardinality(taken) = Page) /\ pages' = pages + 1
  /\ UNCHANGED <<market, consumer, flush, phase, joined, read, reader, buffer, skipped, faults>>

\* The cursor is older than retention: rejoin live.
CursorExpired ==
  /\ Asking /\ cursor < expired
  /\ cursor' = 0 /\ phase' = "drain" /\ WriteOff
  /\ UNCHANGED <<market, seen, applied, shown, deferred, flush, joined, read, reader, buffer,
                 page, more, pages, faults>>

PageFails ==
  /\ Asking /\ Fault("page")
  /\ phase' = "closing"
  /\ UNCHANGED <<market, consumer, flush, joined, read, reader, buffer, page, more, pages, skipped>>

Replay ==
  LET e == Least(page) IN
  /\ phase = "replay" /\ page # {}
  /\ \/ /\ Duplicate(e) \/ Apply(e)
        /\ page' = page \ {e} /\ UNCHANGED phase
     \/ Defer(e) /\ phase' = "closing" /\ UNCHANGED page
  /\ UNCHANGED <<market, flush, joined, read, reader, buffer, more, pages, skipped>>

\* Slip: frames are applied as they come while replay is still paging.
Slip_Buffer ==
  /\ phase = "replay" /\ reader /\ read < head
  /\ read' = read + 1
  /\ \/ (Duplicate(read + 1) \/ Apply(read + 1)) /\ UNCHANGED phase
     \/ Defer(read + 1) /\ phase' = "closing"
  /\ UNCHANGED <<market, flush, joined, reader, buffer, page, more, pages, skipped>>

\* Slip: a full buffer drops the frame and the reader carries on.
Slip_BufferDrops ==
  /\ phase = "replay" /\ reader /\ read < head
  /\ read' = read + 1
  /\ buffer' = IF Cardinality(buffer) >= BufferCap THEN buffer ELSE buffer \cup {read + 1}
  /\ UNCHANGED <<market, consumer, flush, phase, joined, reader, page, more, pages, skipped, faults>>

\* A frame that arrives while replay runs is held back.  A full buffer ends
\* the reader, and with it the session once it has come up.
Buffer ==
  /\ phase = "replay" /\ reader /\ read < head
  /\ IF Cardinality(buffer) >= BufferCap
       THEN reader' = FALSE /\ UNCHANGED <<read, buffer>>
       ELSE /\ read' = read + 1 /\ buffer' = buffer \cup {read + 1}
            /\ UNCHANGED reader
  /\ UNCHANGED <<market, consumer, flush, phase, joined, page, more, pages, skipped, faults>>

\* The backlog in occurredAt order, the reader locked out.
Drain ==
  LET e == Least(buffer) IN
  /\ phase = "drain" /\ buffer # {}
  /\ \/ /\ Duplicate(e) \/ Apply(e)
        /\ buffer' = buffer \ {e} /\ UNCHANGED phase
     \/ Defer(e) /\ phase' = "closing" /\ UNCHANGED buffer
  /\ UNCHANGED <<market, flush, joined, read, reader, page, more, pages, skipped>>

GoLive ==
  /\ phase = "drain" /\ buffer = {}
  /\ phase' = "live"
  /\ UNCHANGED <<market, consumer, flush, joined, read, reader, buffer, page, more, pages,
                 skipped, faults>>

Live ==
  LET e == read + 1 IN
  /\ phase = "live" /\ reader /\ read < head
  /\ read' = e
  /\ \/ (Duplicate(e) \/ Apply(e)) /\ UNCHANGED reader
     \/ Defer(e) /\ reader' = FALSE
  /\ UNCHANGED <<market, flush, phase, joined, buffer, page, more, pages, skipped>>

\* The reader has reported an error.
SessionEnds ==
  /\ phase = "live" /\ ~reader
  /\ phase' = "closing"
  /\ UNCHANGED <<market, consumer, flush, joined, read, reader, buffer, page, more, pages,
                 skipped, faults>>

-----------------------------------------------------------------------------
(* flushCursor: on a timer while live, and once by Run as a session ends.   *)

StartFlush ==
  /\ phase = "live" /\ pend["loop"] = None /\ cursor # saved
  /\ pend' = [pend EXCEPT !["loop"] = cursor]
  /\ UNCHANGED <<market, consumer, stored, saved, session, skipped, faults>>

LastFlush ==
  /\ phase = "closing"
  /\ IF cursor = saved
       THEN phase' = "down" /\ UNCHANGED pend
       ELSE phase' = "flushing" /\ pend' = [pend EXCEPT !["run"] = cursor]
  /\ UNCHANGED <<market, consumer, stored, saved, joined, read, reader, buffer, page, more,
                 pages, skipped, faults>>

EndFlush(f) ==
  /\ pend[f] # None
  /\ \/ stored' = pend[f] /\ saved' = pend[f] /\ UNCHANGED faults
     \/ Fault("save") /\ UNCHANGED <<stored, saved>>
  /\ pend' = [pend EXCEPT ![f] = None]
  /\ phase' = IF f = "run" THEN "down" ELSE phase
  /\ UNCHANGED <<market, consumer, joined, read, reader, buffer, page, more, pages, skipped>>

-----------------------------------------------------------------------------
(* The world *)

\* A reader that falls too far behind is disconnected.
Publish ==
  /\ head < MaxEvents
  /\ head' = head + 1
  /\ reader' = (reader /\ head' - read <= Lag)
  /\ UNCHANGED <<expired, consumer, flush, phase, joined, read, buffer, page, more, pages,
                 skipped, faults>>

Expire ==
  /\ Fault("expire") /\ expired < head
  /\ expired' = expired + 1
  /\ UNCHANGED <<head, consumer, flush, session, skipped>>

SocketDies ==
  /\ reader /\ Fault("socket")
  /\ reader' = FALSE
  /\ UNCHANGED <<market, consumer, flush, phase, joined, read, buffer, page, more, pages, skipped>>

\* The process stops anywhere and starts again from the stored cursor, or
\* from none when it cannot be read.  A shutdown does not flush either.
Restart ==
  /\ Fault("crash")
  /\ cursor' \in {stored} \cup (IF "load" \in Faults THEN {0} ELSE {})
  /\ saved' = cursor'
  /\ seen' = <<>> /\ pend' = [f \in Flushers |-> None]
  /\ phase' = "down" /\ reader' = FALSE /\ buffer' = {} /\ page' = {}
  /\ UNCHANGED <<market, stored, joined, read, more, pages, applied, shown, skipped, deferred>>

Init ==
  /\ stored \in Stored /\ cursor = stored /\ saved = stored
  /\ head \in stored..MaxEvents /\ expired = 0
  /\ applied = 1..stored /\ shown = stored
  /\ seen = <<>> /\ pend = [f \in Flushers |-> None]
  /\ phase = "down" /\ joined = 0 /\ read = 0 /\ reader = FALSE
  /\ buffer = {} /\ page = {} /\ more = TRUE /\ pages = 0
  /\ skipped = {} /\ deferred = {} /\ faults = MaxFaults

\* What the consumer's own goroutines do.
Consume ==
  \/ Dial \/ ReplayEnds \/ FetchPage \/ CursorExpired \/ PageFails \/ Replay
  \/ Buffer \/ Drain \/ GoLive \/ Live \/ SessionEnds
  \/ LastFlush \/ EndFlush("run")

Next ==
  \/ Consume
  \/ StartFlush \/ EndFlush("loop")
  \/ Publish \/ Expire \/ SocketDies \/ Restart

Spec == Init /\ [][Next]_vars

\* The process runs; faults are finite in number, as their bound says.
FairSpec == Spec /\ WF_vars(Consume)

-----------------------------------------------------------------------------
(* Properties *)

\* Every variable keeps its range, and the bounded collections their bounds.
TypeOK ==
  /\ head \in 0..MaxEvents /\ expired \in 0..head
  /\ stored \in 0..head /\ cursor \in 0..head /\ saved \in 0..head
  /\ seen \in Seq(Events) /\ Len(seen) <= SeenCap
  /\ pend \in [Flushers -> 0..head \cup {None}]
  /\ phase \in {"down", "replay", "drain", "live", "closing", "flushing"}
  /\ joined \in 0..head /\ read \in 0..head /\ reader \in BOOLEAN
  /\ buffer \subseteq Events /\ Cardinality(buffer) <= BufferCap
  /\ page \subseteq Events /\ Cardinality(page) <= Page
  /\ more \in BOOLEAN /\ pages \in 0..MaxPages
  /\ applied \subseteq 1..head /\ shown \in 0..head
  /\ skipped \subseteq 1..head /\ deferred \subseteq 1..head /\ faults \in 0..MaxFaults

\* No cursor, in memory, in flight or in the store, is ever past an event that
\* was neither applied nor written off: a restart from it leaves no hole.
CursorBehindTape ==
  \A c \in ({cursor, stored} \cup {pend[f] : f \in Flushers}) \ {None} :
    1..c \subseteq applied \cup skipped

\* Once live and caught up, the last event applied is the newest one, however
\* replay, backlog, redelivery and eviction from the window have interleaved:
\* no gift is left showing an older event.  (Not so after rejoining live: what
\* a restart had applied again stays shown until the next event.)
CaughtUpShowsNewest == phase = "live" /\ reader /\ read = head => shown = head

\* With a stored cursor inside retention and within the page cap, nothing is
\* ever written off.
NothingWrittenOff == skipped = {}

\* Events are applied in order and at least once, and only whole prefixes are
\* ever written off.
Tape == INSTANCE EventTape WITH
  MaxEvents <- MaxEvents, head <- head, applied <- applied, skipped <- skipped, shown <- shown
AppliedInOrder == Tape!Spec

\* Every event published is applied in the end, or written off.
EveryEventSettles ==
  \A e \in Events : [](head >= e => <>(e \in applied \cup skipped))

\* "its id is forgotten, so the reconnect replays from there and delivers it
\* again" (stream.go:384): an event the handler refused is not written off.
RefusedIsRedelivered == deferred \cap skipped \subseteq applied
=============================================================================

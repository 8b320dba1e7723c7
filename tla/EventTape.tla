----------------------------- MODULE EventTape -----------------------------
(***************************************************************************)
(* What internal/tonnel/stream.go promises its handler.  The marketplace   *)
(* numbers its events; the desk applies them in that order, each at least  *)
(* once.  It may write off everything older than the point where it joins  *)
(* the live feed, but it never skips one event and carries on behind it.   *)
(***************************************************************************)
EXTENDS Naturals

CONSTANT MaxEvents  \* bound on the events the marketplace publishes

VARIABLES
  head,     \* events published
  applied,  \* events the handler has accepted
  skipped,  \* events written off
  shown     \* the event accepted last, 0 for none

tape == <<head, applied, skipped, shown>>

Settled == applied \cup skipped

Init ==
  /\ head \in 0..MaxEvents
  /\ skipped = {}
  /\ shown \in 0..head /\ applied = 1..shown

Publish ==
  /\ head < MaxEvents
  /\ head' = head + 1
  /\ UNCHANGED <<applied, skipped, shown>>

\* Redelivery is allowed, overtaking is not.
Apply(e) ==
  /\ e <= head /\ 1..(e - 1) \subseteq Settled
  /\ applied' = applied \cup {e} /\ shown' = e
  /\ UNCHANGED <<head, skipped>>

WriteOff(n) ==
  /\ n <= head
  /\ skipped' = skipped \cup (1..n \ applied)
  /\ UNCHANGED <<head, applied, shown>>

Next ==
  \/ Publish
  \/ \E e \in 1..MaxEvents : Apply(e) \/ WriteOff(e)

Spec == Init /\ [][Next]_tape
=============================================================================

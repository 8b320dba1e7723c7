------------------------------ MODULE Watchers ------------------------------
(***************************************************************************)
(* The undercut watcher of one listed position (checkUndercut of           *)
(* internal/app/pollers.go): a warning is said at most once in six hours   *)
(* per competing price (App.throttle, in memory), the unattended reprice   *)
(* counts its six hours on the stored reprices.                            *)
(* A pass reads its positions first and looks at them one after another;   *)
(* the operator, the market and a restart move in between. One tick is an  *)
(* hour. How the answer is priced is Advice, how it is placed is Relist.   *)
(***************************************************************************)
EXTENDS Integers, FiniteSets, FiniteSetsExt

CONSTANTS
  Asks,      \* asks of ours and of others
  MaxTime,   \* bound on the clock
  MaxFaults  \* bound on restarts and failed writes

VARIABLES
  now,
  cooldown,  \* alertCooldown: competing price -> last time, or Long ago
  list,      \* list_price of the position
  repriced,  \* newest time in the reprices table
  pass,      \* the running inventory pass
  autos,     \* when the watcher itself moved the ask
  lost,      \* a reprice was placed and never recorded
  faults

vars == <<now, cooldown, list, repriced, pass, autos, lost, faults>>

LongAgo == -100
Higher(a, b) == IF a > b THEN a ELSE b
Sleeping == [at |-> "idle", list |-> 0, now |-> 0, target |-> 0]

\* May key be said now? Saying it is stamping it.
Free(key, every) == now - cooldown[key] >= every
Throttle(key) == cooldown' = [cooldown EXCEPT ![key] = now]

\* Slip: the reprices of the last pass are forgotten.
Slip_Due(at) == TRUE
\* at is the time of the pass, which a later reprice may have overtaken.
Due(at) == at - repriced >= 6

-----------------------------------------------------------------------------

TimePasses ==
  /\ now < MaxTime /\ now' = now + 1
  /\ pass.at # "idle" => now = pass.now          \* a pass ends within the hour
  /\ UNCHANGED <<cooldown, list, repriced, pass, autos, lost, faults>>

\* The operator moves the ask: recorded as a manual reprice.
OperatorReprices ==
  /\ \E p \in Asks : p # list /\ list' = p
  /\ repriced' = now
  /\ UNCHANGED <<now, cooldown, pass, autos, lost, faults>>

-----------------------------------------------------------------------------
(* The inventory pass *)

ReadPositions ==
  /\ pass.at = "idle"
  /\ pass' = [Sleeping EXCEPT !.at = "read", !.list = list, !.now = now]
  /\ UNCHANGED <<now, cooldown, list, repriced, autos, lost, faults>>

\* What the live book and the venues say is nobody's step here: any price may
\* stand below ours, or none, or the book is older than our listing.
Skip ==
  /\ pass.at = "read" /\ pass' = Sleeping
  /\ UNCHANGED <<now, cooldown, list, repriced, autos, lost, faults>>

Undercut(best) == pass.at = "read" /\ best < pass.list /\ Free(best, 6) /\ Throttle(best)

Warn(best) ==
  /\ Undercut(best)
  /\ pass' = Sleeping
  /\ UNCHANGED <<now, list, repriced, autos, lost, faults>>

\* Selling is armed, the advice is to relist and the change is safe.
Answer(best) ==
  /\ Undercut(best)
  /\ Due(pass.now)
  /\ \E t \in Asks \ {pass.list} : pass' = [pass EXCEPT !.at = "place", !.target = t]
  /\ UNCHANGED <<now, list, repriced, autos, lost, faults>>

\* ListAt, which writes the row itself; a refusal ends in the warning.
Place ==
  /\ pass.at = "place"
  /\ \/ /\ pass' = [pass EXCEPT !.at = "record"]
        /\ list' = pass.target
        /\ autos' = autos \cup {pass.now}
        /\ UNCHANGED faults
     \/ /\ faults < MaxFaults /\ faults' = faults + 1
        /\ pass' = Sleeping /\ UNCHANGED <<list, autos>>
  /\ UNCHANGED <<now, cooldown, repriced, lost>>

\* RecordReprice at the time of the pass; its error is dropped.
RecordReprice ==
  /\ pass.at = "record"
  /\ \/ repriced' = Higher(repriced, pass.now) /\ UNCHANGED <<faults, lost>>
     \/ faults < MaxFaults /\ faults' = faults + 1 /\ lost' = TRUE /\ UNCHANGED repriced
  /\ pass' = Sleeping
  /\ UNCHANGED <<now, cooldown, list, autos>>

\* The process restarts: what was said and fetched is forgotten.
Restart ==
  /\ faults < MaxFaults /\ faults' = faults + 1
  /\ cooldown' = [k \in Asks |-> LongAgo]
  /\ lost' = (lost \/ pass.at = "record")
  /\ pass' = Sleeping
  /\ UNCHANGED <<now, list, repriced, autos>>

Init ==
  /\ now = 0 /\ cooldown = [k \in Asks |-> LongAgo]
  /\ list = Max(Asks) /\ repriced = LongAgo
  /\ pass = Sleeping /\ autos = {} /\ lost = FALSE /\ faults = 0

Next ==
  \/ TimePasses \/ OperatorReprices
  \/ ReadPositions \/ Skip \/ Place \/ RecordReprice \/ Restart
  \/ \E best \in Asks : Warn(best) \/ Answer(best)

Spec == Init /\ [][Next]_vars

-----------------------------------------------------------------------------
(* Properties *)

TypeOK ==
  /\ now \in 0..MaxTime /\ \A k \in Asks : cooldown[k] <= now
  /\ list \in Asks /\ repriced <= now /\ autos \subseteq 0..now
  /\ pass.at \in {"idle", "read", "place", "record"}

\* "never more than once per six hours": two unattended reprices are six hours
\* apart, through restarts that forget every cooldown and passes overtaken by
\* the operator, unless the record of one was lost (checkUndercut, LastReprice).
RepricesApart == lost \/ \A a, b \in autos : a < b => b - a >= 6

=============================================================================

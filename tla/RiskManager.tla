---------------------------- MODULE RiskManager ----------------------------
(***************************************************************************)
(* The switches of internal/risk Manager (automatic buying, automatic      *)
(* selling, shadow mode, the waived calibration) and its limits.  Each is  *)
(* changed in memory under the manager's lock and written to the kv table  *)
(* after the lock is released, by whichever goroutine asked: a Telegram    *)
(* handler, or the purchase path disarming itself.  New and SeedShadowMode *)
(* read the table back at every start.                                     *)
(*                                                                         *)
(* Pauses are in Purchase and BlockControl, the vetoes of Allow in         *)
(* Purchase; of the limits, the two that arming demands and max_exit_days  *)
(* are kept, the others are stored and restored the same way.              *)
(***************************************************************************)
EXTENDS Naturals

CONSTANTS
  Callers,      \* goroutines that may operate the switches
  Amounts,      \* values of max_ticket and daily_budget, 0 for unset
  ExitDays,     \* values the operator gives max_exit_days
  ShadowDefault,\* SHADOW_MODE of the environment
  Operated,     \* keys operated at all: a run may leave some alone
  Overlapping,  \* keys two goroutines may be changing at the same time
  WritesFail,   \* whether a kv write can fail
  MaxStreak     \* bound on the failures counted in a row

AmountsAssumption == Amounts \subseteq Nat /\ ExitDays \subseteq Nat \ {0}
StreakAssumption == MaxStreak \in Nat
SwitchAssumption == ShadowDefault \in BOOLEAN /\ WritesFail \in BOOLEAN

ASSUME RiskConstants == AmountsAssumption /\ StreakAssumption /\ SwitchAssumption

VARIABLES
  phase,        \* "down", "seeding" and "seeded" (SeedShadowMode), "up"
  mem,          \* the Manager's fields
  failStreak,
  kv,           \* the stored copy of each field: {} without a row, else {value}
  seeded,       \* the kv row risk.shadow_seeded
  job,          \* per goroutine: what it still has to do
  told,         \* history: OnDisarm ran since automatic buying was last on
  unsaved,      \* history: keys whose last write failed in this process
  chosen        \* history: the shadow mode the operator last saved, {} if never

vars == <<phase, mem, failStreak, kv, seeded, job, told, unsaved, chosen>>

Switches == {"armed", "resell", "shadow", "waived"}
Keys     == Switches \cup {"limits"}

LegacyMaxExitDays == 3
DefaultExitDays   == 5
DefaultLimits     == [ticket |-> 0, budget |-> 0, days |-> DefaultExitDays]

\* Nothing to do; or a value to save under key; or, first, OnDisarm to call
\* ("tell"); or Disarm to call after a third failure ("disarm").
Idle      == [todo |-> "idle", key |-> "none", value |-> {}]
Save(k, v) == [todo |-> "save", key |-> k, value |-> {v}]
Tell      == [todo |-> "tell", key |-> "armed", value |-> {FALSE}]
MustDisarm == [todo |-> "disarm", key |-> "armed", value |-> {}]

\* A goroutine may start changing k.
Free(c, k) ==
  /\ phase = "up" /\ job[c] = Idle /\ k \in Operated
  /\ k \in Overlapping \/ \A d \in Callers : job[d].key # k

Give(c, j) == job' = [job EXCEPT ![c] = j]

-----------------------------------------------------------------------------
(* Restarting *)

\* New keeps stored limits, except that the old default becomes the new one.
Raised(l) == [l EXCEPT !.days = IF @ = LegacyMaxExitDays THEN DefaultExitDays ELSE @]

StoredLimits(row) == IF row = {} THEN DefaultLimits ELSE Raised(CHOOSE l \in row : TRUE)

\* What New reads: every switch off unless stored on, shadow on unless stored off.
Restored ==
  [armed  |-> kv["armed"] = {TRUE},
   resell |-> kv["resell"] = {TRUE},
   shadow |-> kv["shadow"] # {FALSE},
   waived |-> kv["waived"] = {TRUE},
   limits |-> StoredLimits(kv["limits"])]

New ==
  /\ phase = "down"
  /\ mem' = Restored
  /\ failStreak' = 0 /\ unsaved' = {}
  /\ told' = ~Restored.armed
  /\ phase' = IF seeded THEN "up" ELSE "seeding"
  /\ UNCHANGED <<kv, seeded, job, chosen>>

\* SeedShadowMode: SetShadowMode, then the marker, as two writes.
Seed ==
  /\ phase = "seeding"
  /\ mem' = [mem EXCEPT !.shadow = ShadowDefault]
  /\ kv' = [kv EXCEPT !["shadow"] = {ShadowDefault}]
  /\ phase' = "seeded"
  /\ UNCHANGED <<failStreak, seeded, job, told, unsaved, chosen>>

\* Slip: the marker is not written, so every start seeds again.
Slip_MarkSeeded ==
  /\ phase = "seeded"
  /\ phase' = "up"
  /\ UNCHANGED <<mem, failStreak, kv, seeded, job, told, unsaved, chosen>>

MarkSeeded ==
  /\ phase = "seeded"
  /\ seeded' = TRUE
  /\ phase' = "up"
  /\ UNCHANGED <<mem, failStreak, kv, job, told, unsaved, chosen>>

\* The process ends anywhere; a failed write while seeding ends it too.
Crash ==
  /\ phase # "down"
  /\ phase' = "down"
  /\ job' = [c \in Callers |-> Idle]
  /\ UNCHANGED <<mem, failStreak, kv, seeded, told, unsaved, chosen>>

-----------------------------------------------------------------------------
(* The switches *)

\* SetResell, SetShadowMode, SetCalibrationWaived.
SetSwitch(c, k, on) ==
  /\ k \in Switches \ {"armed"}
  /\ Free(c, k)
  /\ mem' = [mem EXCEPT ![k] = on]
  /\ Give(c, Save(k, on))
  /\ UNCHANGED <<phase, failStreak, kv, seeded, told, unsaved, chosen>>

\* applyLimit refuses a value outside the range of its limit.
SetLimit(c, name, v) ==
  /\ Free(c, "limits")
  /\ v \in IF name = "days" THEN ExitDays ELSE Amounts
  /\ mem' = [mem EXCEPT !.limits[name] = v]
  /\ Give(c, Save("limits", mem'.limits))
  /\ UNCHANGED <<phase, failStreak, kv, seeded, told, unsaved, chosen>>

\* Slip: the failure count survives re-arming.
Slip_Arm(c) ==
  /\ Free(c, "armed")
  /\ mem.limits.ticket > 0 /\ mem.limits.budget > 0
  /\ mem' = [mem EXCEPT !.armed = TRUE]
  /\ told' = FALSE
  /\ Give(c, Save("armed", TRUE))
  /\ UNCHANGED <<phase, failStreak, kv, seeded, unsaved, chosen>>

Arm(c) ==
  /\ Free(c, "armed")
  /\ mem.limits.ticket > 0 /\ mem.limits.budget > 0
  /\ mem' = [mem EXCEPT !.armed = TRUE]
  /\ failStreak' = 0
  /\ told' = FALSE
  /\ Give(c, Save("armed", TRUE))
  /\ UNCHANGED <<phase, kv, seeded, unsaved, chosen>>

\* Disarm's critical section; OnDisarm and the write follow outside the lock.
Disarming(c) ==
  /\ mem' = [mem EXCEPT !.armed = FALSE]
  /\ Give(c, IF mem.armed THEN Tell ELSE Save("armed", FALSE))
  /\ UNCHANGED <<phase, kv, seeded, told, unsaved, chosen>>

Disarm(c) ==
  /\ Free(c, "armed")
  /\ Disarming(c)
  /\ UNCHANGED failStreak

\* RecordFailure counts under the lock and disarms after it.
RecordFailure(c) ==
  /\ Free(c, "armed")
  /\ failStreak < MaxStreak
  /\ failStreak' = failStreak + 1
  /\ Give(c, IF failStreak + 1 >= 3 THEN MustDisarm ELSE Idle)
  /\ UNCHANGED <<phase, mem, kv, seeded, told, unsaved, chosen>>

DisarmAfterFailures(c) ==
  /\ job[c].todo = "disarm"
  /\ Disarming(c)
  /\ UNCHANGED failStreak

RecordSuccess(c) ==
  /\ phase = "up" /\ job[c] = Idle
  /\ failStreak' = 0
  /\ UNCHANGED <<phase, mem, kv, seeded, job, told, unsaved, chosen>>

OnDisarm(c) ==
  /\ job[c].todo = "tell"
  /\ told' = TRUE
  /\ Give(c, Save("armed", FALSE))
  /\ UNCHANGED <<phase, mem, failStreak, kv, seeded, unsaved, chosen>>

SetKV(c) ==
  /\ job[c].todo = "save"
  /\ kv' = [kv EXCEPT ![job[c].key] = job[c].value]
  /\ unsaved' = unsaved \ {job[c].key}
  /\ chosen' = IF job[c].key = "shadow" THEN job[c].value ELSE chosen
  /\ Give(c, Idle)
  /\ UNCHANGED <<phase, mem, failStreak, seeded, told>>

\* The caller gets the error; the field in memory stays changed.
SetKVFails(c) ==
  /\ WritesFail
  /\ job[c].todo = "save"
  /\ unsaved' = unsaved \cup {job[c].key}
  /\ Give(c, Idle)
  /\ UNCHANGED <<phase, mem, failStreak, kv, seeded, told, chosen>>

-----------------------------------------------------------------------------
Init ==
  /\ phase = "down"
  /\ mem = [armed |-> FALSE, resell |-> FALSE, shadow |-> TRUE, waived |-> FALSE,
            limits |-> DefaultLimits]
  /\ failStreak = 0
  /\ kv = [k \in Keys |-> {}]
  /\ seeded = FALSE
  /\ job = [c \in Callers |-> Idle]
  /\ told = TRUE
  /\ unsaved = {} /\ chosen = {}

Operate(c) ==
  \/ \E k \in Switches, on \in BOOLEAN : SetSwitch(c, k, on)
  \/ \E name \in {"ticket", "budget", "days"}, v \in Amounts \cup ExitDays : SetLimit(c, name, v)
  \/ Arm(c) \/ Disarm(c)
  \/ RecordFailure(c) \/ RecordSuccess(c)

Proceed(c) == DisarmAfterFailures(c) \/ OnDisarm(c) \/ SetKV(c) \/ SetKVFails(c)

Next ==
  \/ New \/ Seed \/ MarkSeeded \/ Crash
  \/ \E c \in Callers : Operate(c) \/ Proceed(c)

Spec == Init /\ [][Next]_vars

-----------------------------------------------------------------------------
(* Properties *)

Limits == [ticket : Amounts \cup {0}, budget : Amounts \cup {0}, days : ExitDays \cup {DefaultExitDays}]

\* What a goroutine may still have to do.
JobOK(j) ==
  /\ j = [todo |-> j.todo, key |-> j.key, value |-> j.value]
  /\ \/ j.todo = "idle" /\ j.key = "none"
     \/ j.todo \in {"tell", "disarm"} /\ j.key = "armed"
     \/ j.todo = "save" /\ j.key \in Switches /\ \E on \in BOOLEAN : j.value = {on}
     \/ j.todo = "save" /\ j.key = "limits" /\ \E l \in Limits : j.value = {l}

\* The switches are Booleans, stored or not; limits keep the values they allow.
TypeOK ==
  /\ phase \in {"down", "seeding", "seeded", "up"}
  /\ mem \in [armed : BOOLEAN, resell : BOOLEAN, shadow : BOOLEAN, waived : BOOLEAN, limits : Limits]
  /\ kv = [k \in Keys |-> kv[k]]
  /\ \A k \in Switches : kv[k] \subseteq BOOLEAN
  /\ kv["limits"] \subseteq Limits
  /\ failStreak \in 0..MaxStreak
  /\ seeded \in BOOLEAN /\ told \in BOOLEAN
  /\ unsaved \subseteq Keys /\ chosen \subseteq BOOLEAN
  /\ job = [c \in Callers |-> job[c]] /\ \A c \in Callers : JobOK(job[c])

Changing(k) == \E c \in Callers : job[c].key = k

\* A restart changes no switch and no limit of an operator who was answered
\* without an error, and the environment never overrides shadow mode again.
RestartKeepsChoices ==
  \A k \in Keys \ Overlapping :
    phase = "up" /\ ~Changing(k) /\ k \notin unsaved =>
      /\ Restored[k] = mem[k]
      /\ k = "shadow" => chosen \subseteq {mem[k]}

\* Automatic buying is not left on behind three failures in a row, whoever
\* arms it while the third is being handled.
ThreeFailuresDisarm ==
  phase = "up" /\ failStreak >= 3 /\ mem.armed => \E c \in Callers : job[c].todo = "disarm"

\* The operator hears of a disarm: by the time buying is off in memory OnDisarm
\* has run or is about to, however many goroutines disarm together.
DisarmIsAnnounced ==
  phase = "up" /\ ~mem.armed => told \/ \E c \in Callers : job[c].todo = "tell"

\* "an operator who deliberately chose three keeps three"
\* (internal/risk/risk.go:213).
ChosenDaysKept ==
  phase = "up" /\ ~Changing("limits") /\ kv["limits"] # {} => Restored.limits.days = mem.limits.days
=============================================================================

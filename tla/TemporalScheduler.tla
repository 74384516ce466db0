-------------------------- MODULE TemporalScheduler --------------------------
(***************************************************************************)
(* The proactive hooks: tickScheduler (orchestrator/src/temporal-          *)
(* scheduler.ts) walks the personas, and the first message approved by a   *)
(* parent, MC1 (mc1-scheduler.ts, motor-execucao/src/mc1-repo.ts), goes    *)
(* before the other hooks. The rows of mc1_scheduled are shared with other *)
(* processes; the times of the last hooks are in the memory of this one.   *)
(* Time passes in slots, and the week comes round, so it needs no bound.   *)
(***************************************************************************)
EXTENDS Naturals, Sequences, FiniteSets

CONSTANTS Personas,
          Windows,   \* deps.windows: the personas in the order of the tick
          Config,    \* the TemporalWindow of each persona
          Day, Week, \* slots of a day, days of a week
          Cooldown,  \* COOLDOWN_HOURS, in slots
          Mc1Ids,    \* rows of mc1_scheduled, in the order of scheduled_at
          MaxFaults  \* BOUND: crashes and exceptions of a sink

ASSUME SchedulerAssumption ==
  /\ Windows \in Seq(Personas) /\ Windows # <<>>
  /\ {Windows[i] : i \in 1..Len(Windows)} = Personas
  /\ Day \in Nat \ {0} /\ Week \in Nat \ {0}
  /\ Cooldown \in Nat /\ Mc1Ids \subseteq Nat \ {0} /\ MaxFaults \in Nat

VARIABLES
  now,         \* the slot of the week
  row,         \* mc1_scheduled: persona and status of every id
  sinceHook,   \* slots since lastEmittedAt; Cooldown when longer, or never
  hooksToday,  \* of the local day
  at,          \* the place of the tick in Windows, 0 when none is going on
  stage,       \* what the tick does next for that persona
  found,       \* the row nextPending returned
  ticked,      \* a tick was made in this slot
  faults,      \* how often a crash or an exception cut a tick short
  sent         \* history: how often each MC1 was handed to emitDelivery

schedVars == <<now, row, sinceHook, hooksToday, at, stage, found, ticked, faults, sent>>

Unused == [persona |-> Windows[1], status |-> "unused"]

SchedInit ==
  /\ now = 0 /\ at = 0 /\ stage = "idle" /\ found = 0
  /\ row = [m \in Mc1Ids |-> Unused]
  /\ sinceHook = [p \in Personas |-> Cooldown]
  /\ hooksToday = [p \in Personas |-> 0]
  /\ ticked = FALSE /\ faults = 0
  /\ sent = [m \in Mc1Ids |-> 0]

-----------------------------------------------------------------------------
(* The local time of a persona and its windows *)

Local(p, t) == (t + Config[p].offset) % (Day * Week)
TimeOfDay(p) == Local(p, now) % Day
LocalWeekday(p) == Local(p, now) \div Day

\* Faulty variant: a window that begins in the evening does not reach the morning.
WithinNoWrap(t, w) == t >= w.start /\ t < w.end

\* withinWindow: the start is in it, the end is not, and it may go past midnight.
Within(t, w) ==
  IF w.start <= w.end THEN t >= w.start /\ t < w.end ELSE t >= w.start \/ t < w.end

Excluded(p) == Within(TimeOfDay(p), Config[p].sleep) \/ Within(TimeOfDay(p), Config[p].school)

\* The weekday is that of the slot, in the morning part of such a window too.
OpenEntries(p) ==
  SelectSeq(Config[p].entries,
            LAMBDA e : LocalWeekday(p) \in e.weekdays /\ Within(TimeOfDay(p), e))

Vetoed(p) == Excluded(p) \/ OpenEntries(p) = <<>>
Entry(p) == OpenEntries(p)[1]

-----------------------------------------------------------------------------
(* A tick *)

Current == Windows[at]

\* The next persona of the tick, or its end.
GoOn == IF at = Len(Windows)
        THEN at' = 0 /\ stage' = "idle" /\ ticked' = TRUE
        ELSE at' = at + 1 /\ stage' = "vetoes" /\ UNCHANGED ticked

StartTick ==
  /\ at = 0
  /\ at' = 1 /\ stage' = "vetoes"
  /\ UNCHANGED <<now, row, sinceHook, hooksToday, found, ticked, faults, sent>>

\* Sleep, school, no open window, or no consent of a parent for this window.
Suppress ==
  /\ at > 0 /\ stage = "vetoes"
  /\ IF Vetoed(Current) THEN TRUE ELSE Entry(Current).requiresConsent
  /\ GoOn
  /\ UNCHANGED <<now, row, sinceHook, hooksToday, found, faults, sent>>

PendingOf(p) == {m \in Mc1Ids : row[m] = [persona |-> p, status |-> "pending"]}

\* nextPendingByPersona: the oldest one, before every gate of the other hooks.
NextPending ==
  /\ at > 0 /\ stage = "vetoes" /\ ~Vetoed(Current)
  /\ LET old == PendingOf(Current)
     IN  IF old = {} THEN stage' = "gates" /\ found' = 0
         ELSE /\ stage' = "mark"
              /\ found' = CHOOSE m \in old : \A n \in old : m <= n
  /\ UNCHANGED <<now, row, sinceHook, hooksToday, at, ticked, faults, sent>>

\* Faulty variant: the row is updated by its id alone.
MarkDeliveredById ==
  /\ stage = "mark"
  /\ row' = [row EXCEPT ![found].status = "delivered"] /\ stage' = "emit"
  /\ UNCHANGED <<now, sinceHook, hooksToday, at, found, ticked, faults, sent>>

\* Between the two statements another process may have delivered or cancelled it.
MarkDelivered ==
  /\ stage = "mark"
  /\ IF row[found].status = "pending"
     THEN row' = [row EXCEPT ![found].status = "delivered"] /\ stage' = "emit"
     ELSE stage' = "gates" /\ UNCHANGED row
  /\ UNCHANGED <<now, sinceHook, hooksToday, at, found, ticked, faults, sent>>

HookEmitted(p) ==
  /\ sinceHook' = [sinceHook EXCEPT ![p] = 0]
  /\ hooksToday' = [hooksToday EXCEPT ![p] = @ + 1]

EmitMc1 ==
  /\ stage = "emit"
  /\ sent' = [sent EXCEPT ![found] = @ + 1]
  /\ HookEmitted(Current)
  /\ found' = 0
  /\ GoOn
  /\ UNCHANGED <<now, row, faults>>

\* The gates of the other hooks; the budget is not the scheduler's.
Gated(p) == sinceHook[p] < Cooldown \/ hooksToday[p] >= Entry(p).maxPerDay

\* One of the triggers of evaluateTriggers, or none if the budget is too low.
EmitHook ==
  /\ stage = "gates" /\ ~Gated(Current)
  /\ HookEmitted(Current)
  /\ found' = 0
  /\ GoOn
  /\ UNCHANGED <<now, row, faults, sent>>

Hold ==
  /\ stage = "gates"
  /\ found' = 0
  /\ GoOn
  /\ UNCHANGED <<now, row, sinceHook, hooksToday, faults, sent>>

\* emitDelivery or emitHook throws: the tick ends for the personas behind as well,
\* and the hook is not remembered. An MC1 may have gone out, and stays delivered.
SinkThrows ==
  /\ faults < MaxFaults
  /\ \/ stage = "emit" /\ \E out \in {0, 1} : sent' = [sent EXCEPT ![found] = @ + out]
     \/ stage = "gates" /\ ~Gated(Current) /\ UNCHANGED sent
  /\ at' = 0 /\ stage' = "idle" /\ found' = 0 /\ ticked' = TRUE
  /\ faults' = faults + 1
  /\ UNCHANGED <<now, row, sinceHook, hooksToday>>

\* The process starts again with an empty createInMemoryStateStore.
Crash ==
  /\ faults < MaxFaults
  /\ at' = 0 /\ stage' = "idle" /\ found' = 0
  /\ sinceHook' = [p \in Personas |-> Cooldown]
  /\ hooksToday' = [p \in Personas |-> 0]
  /\ faults' = faults + 1
  /\ UNCHANGED <<now, row, ticked, sent>>

-----------------------------------------------------------------------------
(* Time and the other processes *)

\* DEFAULT_POLL_INTERVAL_MS is shorter than a slot: each slot has its tick.
TimePasses ==
  /\ at = 0 /\ ticked
  /\ now' = (now + 1) % (Day * Week)
  /\ sinceHook' = [p \in Personas |->
                     IF sinceHook[p] < Cooldown THEN sinceHook[p] + 1 ELSE Cooldown]
  /\ hooksToday' = [p \in Personas |->
                      IF Local(p, now') % Day = 0 THEN 0 ELSE hooksToday[p]]
  /\ ticked' = FALSE
  /\ UNCHANGED <<row, at, stage, found, faults, sent>>

ScheduleMc1(p) ==
  /\ \E m \in Mc1Ids :
       /\ row[m].status = "unused" /\ \A n \in Mc1Ids : n < m => row[n].status # "unused"
       /\ row' = [row EXCEPT ![m] = [persona |-> p, status |-> "pending"]]
  /\ UNCHANGED <<now, sinceHook, hooksToday, at, stage, found, ticked, faults, sent>>

CancelPending(p) ==
  /\ PendingOf(p) # {}
  /\ row' = [m \in Mc1Ids |-> IF m \in PendingOf(p) THEN [row[m] EXCEPT !.status = "cancelled"]
                                                   ELSE row[m]]
  /\ UNCHANGED <<now, sinceHook, hooksToday, at, stage, found, ticked, faults, sent>>

\* A second scheduler delivers it ("Outro tick venceu a corrida").
DeliveredByAnother(m) ==
  /\ row[m].status = "pending"
  /\ row' = [row EXCEPT ![m].status = "delivered"]
  /\ sent' = [sent EXCEPT ![m] = @ + 1]
  /\ UNCHANGED <<now, sinceHook, hooksToday, at, stage, found, ticked, faults>>

TickStep ==
  \/ Suppress \/ NextPending \/ MarkDelivered \/ EmitMc1 \/ EmitHook \/ Hold

SchedStep ==
  \/ StartTick \/ TickStep \/ SinkThrows \/ Crash \/ TimePasses
  \/ \E p \in Personas : ScheduleMc1(p) \/ CancelPending(p)
  \/ \E m \in Mc1Ids : DeliveredByAnother(m)

\* The timer of the tick fires in every slot, a tick ends, and time goes on however
\* many ticks a slot has.
SchedFairness ==
  /\ WF_schedVars(~ticked /\ StartTick)
  /\ WF_schedVars(TickStep)
  /\ SF_schedVars(TimePasses)

SchedSpec == SchedInit /\ [][SchedStep]_schedVars /\ SchedFairness

-----------------------------------------------------------------------------
(* Properties *)

SchedTypeOK ==
  /\ now \in 0..(Day * Week - 1)
  /\ row \in [Mc1Ids -> [persona : Personas,
                         status : {"unused", "pending", "delivered", "cancelled"}]]
  /\ sinceHook \in [Personas -> 0..Cooldown] /\ hooksToday \in [Personas -> Nat]
  /\ at \in 0..Len(Windows) /\ (at = 0) = (stage = "idle")
  /\ stage \in {"idle", "vetoes", "mark", "emit", "gates"}
  /\ found \in Mc1Ids \cup {0} /\ (stage \in {"mark", "emit"} => found # 0)
  /\ ticked \in BOOLEAN /\ faults \in 0..MaxFaults
  /\ sent \in [Mc1Ids -> Nat]

\* "Race-safe contra concorrencia" (mc1-scheduler.ts:66): with other processes that
\* deliver and cancel between the read and the update, an MC1 goes out at most
\* once, and none that is not delivered; one that is delivered and did not go out
\* is on its way or was lost to a crash or an exception, one for each.
LostMc1 == {m \in Mc1Ids : row[m].status = "delivered" /\ sent[m] = 0
                           /\ ~(stage = "emit" /\ found = m)}

HooksKept ==
  /\ \A m \in Mc1Ids : sent[m] <= (IF row[m].status = "delivered" THEN 1 ELSE 0)
  /\ Cardinality(LostMc1) <= faults

\* "MC1 prioridade absoluta" (temporal-scheduler.ts:257): an MC1 does not wait for
\* ever behind the gates of the other hooks, an exception of another persona, or
\* midnight, where one of the persona's windows opens without a parent's consent.
OpensFreely(p) == \E i \in 1..Len(Config[p].entries) : ~Config[p].entries[i].requiresConsent

Mc1Arrives ==
  \A m \in Mc1Ids :
    (row[m].status = "pending" /\ OpensFreely(row[m].persona)) ~> (row[m].status # "pending")
=============================================================================

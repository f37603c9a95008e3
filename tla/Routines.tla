------------------------------ MODULE Routines ------------------------------
(***************************************************************************)
(* Routines (routines.go): a Project's recurring work.  On its schedule a  *)
(* routine starts a Thread with its prompt.  The scheduler's loop, the     *)
(* owner's requests, the goroutine that creates a run's Thread, the        *)
(* Threads' turns and restarts of uam meet here.                           *)
(*                                                                         *)
(* Routines share nothing but their lock, so the model has one.  A section *)
(* of routines.mu, which ends with the write of sessions.json, is one      *)
(* action.  A firing and the Thread of its run have the same number.  Time *)
(* counts hours; a day has Day of them.                                    *)
(***************************************************************************)
EXTENDS Integers, Sequences, FiniteSets

CONSTANTS
  MaxTime,      \* bound: the last hour
  MaxFirings,   \* bound: firings of a behaviour
  MaxOwner,     \* bound: the owner's edits and prompts to a run's Thread
  MaxRestarts,  \* bound: how often uam starts again
  Day,          \* hours of a day
  Step,         \* the hours of a schedule of every N hours
  Limit,        \* MaxMinutes, in hours: a run over it is cancelled
  PerDay,       \* MaxRunsPerDay
  Keep          \* MaxRoutineRuns: the firings a history keeps

ASSUME RoutinesConstants ==
  /\ {MaxTime, MaxFirings, Day, Step, Limit, PerDay, Keep} \subseteq Nat \ {0}
  /\ {MaxOwner, MaxRestarts} \subseteq Nat

VARIABLES
  now,       \* the clock
  routine,   \* rs.list[id], as sessions.json has it
  active,    \* rs.active[id]; run is 0 without one
  started,   \* rs.started
  toStart,   \* the firing the loop found due and has not started; 0 for none
  creating,  \* the goroutines of startRun
  threads,   \* the runs' Threads
  closed,    \* uam is stopping
  firings,   \* every firing, in order
  owned,     \* bound: how often the owner acted
  restarts   \* bound: how often uam started

bounds == <<owned, restarts>>
vars == <<now, routine, active, started, toStart, creating, threads,
          closed, firings, bounds>>

Ids == 1..MaxFirings
Hours == 0..MaxTime
Kinds == {"hours", "daily"}
Outcomes == {"running", "finished", "failed", "cancelled", "time_limit",
             "skipped"}
Ended == Outcomes \ {"running"}
ThreadStates == {"none", "idle", "working", "completed", "cancelled", "failed",
                 "interrupted", "deleted"}

Run == [id : Ids, at : Hours, outcome : Outcomes, thread : BOOLEAN]
NoRun == [run |-> 0, thread |-> FALSE, limited |-> FALSE, at |-> 0]
\* turn: whose prompt the Thread's turn is; unsure: its first one's outcome.
NoThread == [st |-> "none", turn |-> "none", unsure |-> FALSE]

TypeOK ==
  /\ now \in Hours /\ started \in Hours
  /\ routine.held \in BOOLEAN /\ routine.enabled \in BOOLEAN
  /\ routine.kind \in Kinds /\ routine.next \in 0..MaxTime + Day + Step
  /\ routine.runs \in Seq(Run) /\ Len(routine.runs) <= Keep
  /\ active \in [run : 0..MaxFirings, thread : BOOLEAN, limited : BOOLEAN,
                 at : Hours]
  /\ toStart \in 0..MaxFirings
  /\ creating \in [Ids -> {"none", "creating", "created", "sent"}]
  /\ threads \in [Ids -> [st : ThreadStates, unsure : BOOLEAN,
                          turn : {"none", "run", "late", "owner"}]]
  /\ closed \in BOOLEAN
  /\ firings \in Seq([at : Hours, due : Hours, ran : BOOLEAN])
  /\ Len(firings) <= MaxFirings

-----------------------------------------------------------------------------
(* The schedule.                                                           *)

\* nextRun: the first firing after t; hours step from prev, the firing just
\* due, and a day's firing is at its first hour.
NextRun(kind, prev, t) ==
  IF kind = "daily" THEN (t \div Day + 1) * Day
  ELSE CASE prev = 0 -> t + Step
         [] prev # 0 /\ prev + Step > t -> prev + Step
         [] OTHER -> prev + Step * ((t - prev) \div Step + 1)

Init ==
  /\ now = 1 /\ started = 1 /\ closed = FALSE
  /\ routine \in {[held |-> TRUE, enabled |-> TRUE, kind |-> k,
                   next |-> NextRun(k, 0, 1), runs |-> <<>>] : k \in Kinds}
  /\ active = NoRun
  /\ toStart = 0 /\ creating = [i \in Ids |-> "none"]
  /\ threads = [i \in Ids |-> NoThread]
  /\ firings = <<>> /\ owned = 0 /\ restarts = 0

Tick ==
  /\ now < MaxTime /\ now' = now + 1
  /\ UNCHANGED <<routine, active, started, toStart, creating, threads,
                 closed, firings, bounds>>

-----------------------------------------------------------------------------
(* Firings.                                                                *)

Working(i) == threads[i].st = "working"

\* lastRunBusy: the latest run with a Thread still works, on a follow-up too.
LastRunBusy(r) ==
  LET with == {k \in DOMAIN r.runs : r.runs[k].thread}
  IN  with # {} /\ Working(r.runs[CHOOSE k \in with : \A j \in with : j <= k].id)

Today(t) == t \div Day = now \div Day
RunsToday(r) ==
  Cardinality({k \in DOMAIN r.runs :
                 r.runs[k].outcome # "skipped" /\ Today(r.runs[k].at)})

\* A firing is skipped while the run before still goes on.
LastBusy(r, a) == LastRunBusy(r)
StillRunning(r, a) == a.run # 0 \/ LastRunBusy(r)
LimitPassed(r) == RunsToday(r) > PerDay
LimitReached(r) == RunsToday(r) >= PerDay

\* fireLocked, on the routine r and its active run a.
Fires(r, a, due) ==
  LET i == Len(firings) + 1
      runs == ~StillRunning(r, a) /\ ~LimitReached(r)
      run == [id |-> i, at |-> now, thread |-> FALSE,
              outcome |-> IF runs THEN "running" ELSE "skipped"]
      all == Append(r.runs, run)
  IN  /\ i <= MaxFirings
      /\ firings' = Append(firings, [at |-> now, due |-> due, ran |-> runs])
      /\ routine' = [r EXCEPT !.runs = IF Len(all) > Keep THEN Tail(all) ELSE all]
      /\ active' = IF runs THEN [NoRun EXCEPT !.run = i, !.at = now] ELSE a

\* endRun
EndedRun(runs, i, how) ==
  [k \in DOMAIN runs |->
     IF runs[k].id = i THEN [runs[k] EXCEPT !.outcome = how] ELSE runs[k]]

\* A turn that uam's stop interrupted ends its run, once uam runs again.
TurnWorksOn(st) == FALSE
Interrupted(st) == st = "interrupted" /\ ~closed

\* runOutcome, by the Thread's state; "" while its turn runs.
StateIs(st, limited) == IF st = "working" THEN "" ELSE st
EndedAs(st, limited) ==
  CASE st \in {"none", "deleted", "failed"} -> "failed"
    [] st = "completed" -> "finished"
    [] st = "cancelled" -> IF limited THEN "time_limit" ELSE "cancelled"
    [] st = "idle" -> IF limited THEN "time_limit" ELSE "failed"
    [] Interrupted(st) -> "failed"
    [] OTHER -> ""
Outcome(a) == IF a.thread THEN EndedAs(threads[a.run].st, a.limited) ELSE ""

\* The next firing is moved past now first.
MovedOne(r) == [r EXCEPT !.next = NextRun(r.kind, r.next, r.next)]
Moved(r) == [r EXCEPT !.next = NextRun(r.kind, r.next, now)]

\* checkRoutines: ends the run, then fires what is due; it asks to cancel a
\* turn over its time limit, which ends by itself or not.
Check ==
  LET how == IF active.run = 0 THEN "" ELSE Outcome(active)
      over == active.run # 0 /\ how = "" /\ active.thread /\ Working(active.run)
                /\ now - active.at >= Limit
      r == IF how = "" THEN routine
           ELSE [routine EXCEPT !.runs = EndedRun(@, active.run, how)]
      a == IF how # "" THEN NoRun
           ELSE [active EXCEPT !.limited = @ \/ over]
      due == r.enabled /\ r.next # 0 /\ r.next <= now /\ Len(firings) < MaxFirings
  IN  /\ routine.held /\ toStart = 0
      /\ how # "" \/ due \/ a # active
      /\ threads' = IF how # "" /\ threads[active.run].st = "interrupted"
                    THEN [threads EXCEPT ![active.run].st = "failed"]
                    ELSE threads
      /\ IF due
         THEN /\ Fires(Moved(r), a, r.next)
              /\ toStart' = IF active' # a THEN active'.run ELSE 0
         ELSE /\ routine' = r /\ active' = a
              /\ UNCHANGED <<toStart, firings>>
      /\ UNCHANGED <<now, started, creating, closed, bounds>>

\* goRun: a stopping uam leaves the run to the next start.
GoRun(i) ==
  creating' = IF closed THEN creating ELSE [creating EXCEPT ![i] = "creating"]

LoopStarts ==
  /\ toStart # 0
  /\ GoRun(toStart)
  /\ toStart' = 0
  /\ UNCHANGED <<now, routine, active, started, threads, closed, firings,
                 bounds>>

\* RunRoutine; uam may begin to stop after it looked.
RunNow ==
  /\ routine.held
  /\ Fires(routine, active, 0)
  /\ IF active' # active THEN GoRun(active'.run) ELSE UNCHANGED creating
  /\ UNCHANGED <<now, started, toStart, threads, closed, bounds>>

-----------------------------------------------------------------------------
(* startRun.                                                               *)

\* createChecked registers the Thread, or fails (CreateFails).
Registers(i) ==
  /\ creating[i] = "creating" /\ ~closed
  /\ creating' = [creating EXCEPT ![i] = "created"]
  /\ threads' = [threads EXCEPT ![i].st = "idle"]
  /\ UNCHANGED <<now, routine, active, started, toStart, closed, firings,
                 bounds>>

\* The first message: taken, refused, or with an outcome unknown.
Sends(i) ==
  /\ creating[i] = "created"
  /\ creating' = [creating EXCEPT ![i] = "sent"]
  /\ \/ /\ ~closed /\ threads[i].st = "idle"
        /\ threads' = [threads EXCEPT ![i].st = "working", ![i].turn = "run"]
     \/ threads' = threads
     \/ ~closed /\ threads' = [threads EXCEPT ![i].unsure = TRUE]
  /\ UNCHANGED <<now, routine, active, started, toStart, closed, firings,
                 bounds>>

\* The Thread, or the failure, is recorded on the run.
NotRecorded(i) == routine.runs
Recorded(i) ==
  [k \in DOMAIN routine.runs |->
     IF routine.runs[k].id = i THEN [routine.runs[k] EXCEPT !.thread = TRUE]
     ELSE routine.runs[k]]
Records(i) ==
  /\ creating[i] = "sent"
  /\ creating' = [creating EXCEPT ![i] = "none"]
  /\ IF ~routine.held \/ active.run # i THEN UNCHANGED <<routine, active>>
     ELSE /\ routine' = [routine EXCEPT !.runs = Recorded(i)]
          /\ active' = [active EXCEPT !.thread = TRUE]
  /\ UNCHANGED <<now, started, toStart, threads, closed, firings, bounds>>

CreateFails(i) ==
  /\ creating[i] = "creating"
  /\ creating' = [creating EXCEPT ![i] = "none"]
  /\ IF ~routine.held \/ active.run # i THEN UNCHANGED <<routine, active>>
     ELSE /\ routine' = [routine EXCEPT !.runs = EndedRun(@, i, "failed")]
          /\ active' = NoRun
  /\ UNCHANGED <<now, started, toStart, threads, closed, firings, bounds>>

-----------------------------------------------------------------------------
(* The Threads and the owner.                                              *)

threadOnly == <<now, routine, active, started, toStart, creating, closed,
                firings, restarts>>

\* A turn ends, by a stop of the owner or of the time limit too.
TurnEnds(i) ==
  /\ Working(i)
  /\ \E st \in {"completed", "cancelled", "failed"} :
       threads' = [threads EXCEPT ![i].st = st, ![i].turn = "none"]
  /\ UNCHANGED <<threadOnly, owned>>

LateTurn(i) ==
  /\ threads[i].unsure /\ ~Working(i) /\ threads[i].st # "deleted" /\ ~closed
  /\ threads' = [threads EXCEPT ![i].st = "working", ![i].turn = "late",
                                ![i].unsure = FALSE]
  /\ UNCHANGED <<threadOnly, owned>>

OwnerActs == owned < MaxOwner /\ owned' = owned + 1

\* The owner prompts a run's Thread, or deletes it.
OwnerPrompts(i) ==
  /\ OwnerActs /\ ~closed
  /\ threads[i].st \notin {"none", "working", "deleted"}
  /\ threads' = [threads EXCEPT ![i].st = "working", ![i].turn = "owner"]
  /\ UNCHANGED threadOnly

Deletes(i) ==
  /\ OwnerActs /\ ~closed
  /\ threads[i].st \notin {"none", "working", "deleted"}
  /\ threads' = [threads EXCEPT ![i] = [NoThread EXCEPT !.st = "deleted"]]
  /\ UNCHANGED threadOnly

ownerOnly == <<now, started, toStart, creating, threads, closed, firings,
               restarts>>

\* UpdateRoutine; a run that goes on is not affected.
Updates(enabled, kind) ==
  /\ routine.held /\ OwnerActs
  /\ routine' = [routine EXCEPT
       !.enabled = enabled, !.kind = kind,
       !.next = IF ~enabled THEN 0
                ELSE IF ~routine.enabled \/ kind # routine.kind
                     THEN NextRun(kind, 0, now) ELSE @]
  /\ UNCHANGED <<active, ownerOnly>>

\* DeleteRoutine, and forgetRoutinesLocked of a Project that is removed.
Forgets ==
  /\ routine.held /\ OwnerActs
  /\ routine' = [routine EXCEPT !.held = FALSE, !.runs = <<>>]
  /\ active' = NoRun
  /\ UNCHANGED ownerOnly

-----------------------------------------------------------------------------
(* uam stops and starts.                                                   *)

Shutdown ==
  /\ ~closed /\ restarts < MaxRestarts /\ closed' = TRUE
  /\ threads' = [i \in Ids |->
       IF Working(i) THEN [threads[i] EXCEPT !.st = "interrupted", !.turn = "none"]
       ELSE threads[i]]
  /\ UNCHANGED <<now, routine, active, started, toStart, creating, firings,
                 bounds>>

Latest(runs) ==
  LET going == {k \in DOMAIN runs : runs[k].outcome = "running"}
  IN  CHOOSE k \in going : \A j \in going : j <= k

\* loadRoutines: a run without a Thread, and all but the latest, failed.
NotStarted(runs, k) == ~runs[k].thread \/ k # Latest(runs)
LoadedRuns(runs) ==
  [k \in DOMAIN runs |->
     IF runs[k].outcome = "running" /\ NotStarted(runs, k)
     THEN [runs[k] EXCEPT !.outcome = "failed"] ELSE runs[k]]
LoadedActive(runs) ==
  IF \E k \in DOMAIN runs : runs[k].outcome = "running" /\ runs[k].thread
  THEN LET k == Latest(runs)
       IN  [NoRun EXCEPT !.run = runs[k].id, !.thread = TRUE, !.at = runs[k].at]
  ELSE NoRun

\* A Thread comes back as it was saved: its latest state, or, if lost, an
\* older one, since states are saved a while later.  No turn survives.
Loaded(t, old) ==
  IF t.st \in {"none", "deleted"} THEN t
  ELSE [NoThread EXCEPT !.st = IF old = "working" THEN "interrupted" ELSE old]

\* After a stop that ended, which saved the Threads, or a crash.
Restart(lost, old) ==
  /\ restarts < MaxRestarts /\ restarts' = restarts + 1
  /\ closed' = FALSE /\ started' = now
  /\ toStart' = 0 /\ creating' = [i \in Ids |-> "none"]
  /\ threads' = [i \in Ids |->
       Loaded(threads[i], IF i \in lost THEN old ELSE threads[i].st)]
  /\ routine' = [routine EXCEPT !.runs = LoadedRuns(@)]
  /\ active' = LoadedActive(LoadedRuns(routine.runs))
  /\ UNCHANGED <<now, firings, owned>>

Lost == {i \in Ids : threads[i].st \notin {"none", "idle", "deleted"}}
Restarts ==
  \E lost \in SUBSET Lost, old \in {"idle", "working"} : Restart(lost, old)

StartStep(i) == Registers(i) \/ CreateFails(i) \/ Sends(i) \/ Records(i)

Next ==
  \/ Tick \/ Check \/ LoopStarts \/ RunNow \/ Shutdown \/ Forgets
  \/ \E i \in Ids : \/ StartStep(i) \/ TurnEnds(i) \/ LateTurn(i)
                    \/ OwnerPrompts(i) \/ Deletes(i)
  \/ \E enabled \in BOOLEAN, kind \in Kinds : Updates(enabled, kind)
  \/ Restarts

Spec == Init /\ [][Next]_vars

\* The loop ticks, goroutines are scheduled, a create and a send end by their
\* timeouts, turns end (the time limit cancels them), and uam is started
\* again after a stop.
FairSpec ==
  /\ Spec
  /\ WF_vars(Check) /\ WF_vars(LoopStarts)
  /\ WF_vars(closed /\ Restarts)
  /\ \A i \in Ids : WF_vars(StartStep(i)) /\ WF_vars(TurnEnds(i))

-----------------------------------------------------------------------------
(* Properties.                                                             *)

\* A run never overlaps the one before: of the turns that a routine's prompts
\* began, one at most goes on (routines.go:22).  A turn that began late, from
\* a send whose outcome was unknown, is not among them.
NoOverlap ==
  Cardinality({i \in Ids : Working(i) /\ threads[i].turn = "run"}) <= 1

\* The run that the scheduler waits for is the history's one running run, and
\* they agree on its Thread, across restarts, deletions and failed creates; only
\* a history full of later firings has lost it (fireLocked keeps the latest).
Going == {k \in DOMAIN routine.runs : routine.runs[k].outcome = "running"}
Outnumbered ==
  /\ Len(routine.runs) = Keep
  /\ \A k \in DOMAIN routine.runs : routine.runs[k].id > active.run
ActiveIsRecorded ==
  /\ active.run = 0 => Going = {}
  /\ active.run # 0 => Going # {} \/ Outnumbered
  /\ \A k \in Going : /\ routine.runs[k].id = active.run
                      /\ routine.runs[k].thread = active.thread

\* A scheduled firing is for a time after the scheduled firing before: no
\* time fires twice, and those missed while uam was down run once, not once
\* each, also when uam stops between the firing and its Thread
\* (routines.go:25).
MissedRunOnce ==
  \A j, k \in DOMAIN firings :
    j < k /\ firings[j].due # 0 /\ firings[k].due # 0 =>
      firings[k].due > firings[j].at

\* A day starts at most MaxRunsPerDay runs, Run now included
\* (routines.go:22, docs/web.md:1540).
DailyLimit ==
  \A day \in 0..MaxTime \div Day :
    Cardinality({k \in DOMAIN firings :
                   firings[k].ran /\ firings[k].at \div Day = day}) <= PerDay

\* A run that is recorded as running ends, however its Thread's create, its
\* turn and a restart go (routines.go:181, 355).
RunEnds == \A i \in Ids : active.run = i ~> active.run # i

=============================================================================

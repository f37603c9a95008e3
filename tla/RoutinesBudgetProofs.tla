------------------------ MODULE RoutinesBudgetProofs ------------------------
(***************************************************************************)
(* Proofs about turns that no owner's prompt starts: Routines, for any number *)
(* of firings and any schedule (a run never overlaps the one before, missed *)
(* firings run once, and the active run is the one its history shows); and *)
(* Budget, as the instance B, for any number of wrap-ups, of calls and of  *)
(* budgets the owner sets.                                                 *)
(***************************************************************************)
EXTENDS Routines, FiniteSetTheorems, SequenceTheorems, WellFoundedInduction,
        TLAPS

-----------------------------------------------------------------------------
(* Shapes.  What a routine's history holds matters at the end only.        *)

RoutineShape(r) ==
  r = [held |-> r.held, enabled |-> r.enabled, kind |-> r.kind, next |-> r.next,
       runs |-> r.runs]
ActiveShape(a) ==
  a = [run |-> a.run, thread |-> a.thread, limited |-> a.limited, at |-> a.at]
Firing == [at : Nat, due : Nat, ran : BOOLEAN]

\* A change of the history changes nothing else of a routine.
LEMMA RunsAlone ==
  ASSUME NEW r, RoutineShape(r), NEW runs
  PROVE  LET q == [r EXCEPT !.runs = runs]
         IN  /\ RoutineShape(q)
             /\ q.held = r.held /\ q.enabled = r.enabled
             /\ q.kind = r.kind /\ q.next = r.next
  BY DEF RoutineShape

\* Threads keep their shape when one changes.
ThreadShape == [st : ThreadStates, unsure : BOOLEAN,
                turn : {"none", "run", "late", "owner"}]

LEMMA OneThread ==
  ASSUME NEW ts \in [Ids -> ThreadShape], NEW i, NEW t \in ThreadShape
  PROVE  [ts EXCEPT ![i] = t] \in [Ids -> ThreadShape]
  OBVIOUS

Shapes ==
  /\ now \in Nat /\ toStart \in Nat
  /\ RoutineShape(routine) /\ routine.next \in Nat
  /\ ActiveShape(active)
  /\ creating \in [Ids -> {"none", "creating", "created", "sent"}]
  /\ threads \in [Ids -> ThreadShape]
  /\ firings \in Seq(Firing)

LEMMA NoRunShape == ActiveShape(NoRun) /\ NoRun.run = 0 /\ NoRun.thread = FALSE
  BY DEF ActiveShape, NoRun

-----------------------------------------------------------------------------
(* The schedule.                                                           *)

\* Division rounds down.
LEMMA PastMultiple ==
  ASSUME NEW n \in Nat, NEW d \in Nat \ {0}
  PROVE  n < (n \div d + 1) * d /\ (n \div d + 1) * d \in Nat
<1>1. n < (n \div d + 1) * d
  OBVIOUS
<1>2. n \div d \in Int
  OBVIOUS
<1>3. (n \div d + 1) * d \in Int
  BY <1>2
<1> QED
  BY <1>1, <1>3

\* The next firing is after now.
LEMMA NextIsLater ==
  ASSUME RoutinesConstants, NEW kind, NEW prev \in Nat, NEW t \in Nat, prev <= t
  PROVE  NextRun(kind, prev, t) \in Nat /\ NextRun(kind, prev, t) > t
<1>1. Day \in Nat \ {0} /\ Step \in Nat \ {0}
  BY DEF RoutinesConstants
<1>2. CASE kind = "daily"
  BY <1>1, <1>2, PastMultiple DEF NextRun
<1>3. CASE kind # "daily"
  <2> DEFINE past == ((t - prev) \div Step + 1) * Step
  <2>1. t - prev < past /\ past \in Nat
    BY <1>1, PastMultiple
  <2>2. prev + past > t /\ prev + past \in Nat
    BY <2>1
  <2>3. Step * ((t - prev) \div Step + 1) = past
    BY <1>1
  <2>4. NextRun(kind, prev, t) =
          CASE prev = 0 -> t + Step
            [] prev # 0 /\ prev + Step > t -> prev + Step
            [] OTHER -> prev + past
    BY <1>3, <2>3 DEF NextRun
  <2> HIDE DEF past
  <2>5. CASE prev = 0
    BY <1>1, <2>4, <2>5
  <2>6. CASE prev # 0 /\ prev + Step > t
    BY <1>1, <2>4, <2>6
  <2>7. CASE prev # 0 /\ ~(prev + Step > t)
    BY <2>2, <2>4, <2>7
  <2> QED
    BY <2>5, <2>6, <2>7
<1> QED
  BY <1>2, <1>3

-----------------------------------------------------------------------------
(* Shapes are kept.                                                        *)

LEMMA InitShapes == ASSUME RoutinesConstants, Init PROVE Shapes
<1>1. PICK k \in Kinds :
        routine = [held |-> TRUE, enabled |-> TRUE, kind |-> k,
                   next |-> NextRun(k, 0, 1), runs |-> <<>>]
  BY DEF Init
<1>2. RoutineShape(routine) /\ routine.next \in Nat
  BY <1>1, NextIsLater DEF RoutineShape
<1>3. threads \in [Ids -> ThreadShape]
  BY DEF Init, NoThread, ThreadStates, ThreadShape
<1>4. firings \in Seq(Firing)
  BY DEF Init
<1> QED
  BY <1>2, <1>3, <1>4, NoRunShape DEF Init, Shapes

\* A firing appends itself, and starts a run only if none is active.
LEMMA FiresWell ==
  ASSUME RoutinesConstants, now \in Nat, firings \in Seq(Firing),
         NEW r, RoutineShape(r), NEW a, ActiveShape(a), NEW due \in Nat,
         Fires(r, a, due)
  PROVE  /\ RoutineShape(routine') /\ ActiveShape(active')
         /\ routine'.held = r.held /\ routine'.next = r.next
         /\ firings' \in Seq(Firing)
         /\ \E ran \in BOOLEAN :
              firings' = Append(firings, [at |-> now, due |-> due, ran |-> ran])
         /\ \/ active' = a
            \/ /\ a.run = 0 /\ active' # a
               /\ active'.run \in Ids /\ active'.thread = FALSE
<1> DEFINE i == Len(firings) + 1
           runs == ~StillRunning(r, a) /\ ~LimitReached(r)
           all == Append(r.runs, [id |-> i, at |-> now, thread |-> FALSE,
                                  outcome |-> IF runs THEN "running" ELSE "skipped"])
           kept == IF Len(all) > Keep THEN Tail(all) ELSE all
<1>1. /\ i <= MaxFirings
      /\ firings' = Append(firings, [at |-> now, due |-> due, ran |-> runs])
      /\ routine' = [r EXCEPT !.runs = kept]
      /\ active' = IF runs THEN [NoRun EXCEPT !.run = i, !.at = now] ELSE a
  BY DEF Fires
<1>2. i \in Ids /\ i # 0
  BY <1>1 DEF RoutinesConstants, Ids
<1>3. runs \in BOOLEAN /\ (runs => a.run = 0)
  BY DEF StillRunning
<1> HIDE DEF i, runs, all, kept
<1>4. RoutineShape(routine') /\ routine'.held = r.held /\ routine'.next = r.next
  BY <1>1, RunsAlone
<1>5. firings' \in Seq(Firing)
  <2>1. [at |-> now, due |-> due, ran |-> runs] \in Firing
    BY <1>3 DEF Firing
  <2> QED
    BY <1>1, <2>1
<1>6. CASE runs
  <2>1. active' = [run |-> i, thread |-> FALSE, limited |-> FALSE, at |-> now]
    BY <1>1, <1>6 DEF NoRun
  <2>2. ActiveShape(active') /\ active'.run = i /\ active'.thread = FALSE
    BY <2>1 DEF ActiveShape
  <2>3. a.run = 0 /\ active' # a
    BY <1>2, <1>3, <1>6, <2>2
  <2> QED
    BY <1>1, <1>2, <1>3, <1>4, <1>5, <2>2, <2>3
<1>7. CASE ~runs
  BY <1>1, <1>3, <1>4, <1>5, <1>7
<1> QED
  BY <1>6, <1>7

\* The loop's check, as what it does to the routine first.
CheckHow == IF active.run = 0 THEN "" ELSE Outcome(active)
CheckedRoutine ==
  IF CheckHow = "" THEN routine
  ELSE [routine EXCEPT !.runs = EndedRun(@, active.run, CheckHow)]
CheckedActive ==
  IF CheckHow # "" THEN NoRun
  ELSE [active EXCEPT !.limited = @ \/ (/\ active.run # 0 /\ CheckHow = "" /\ active.thread
                                        /\ Working(active.run)
                                        /\ now - active.at >= Limit)]
Due(r) == r.enabled /\ r.next # 0 /\ r.next <= now /\ Len(firings) < MaxFirings

LEMMA CheckDoes ==
  ASSUME RoutinesConstants, Shapes, Check
  PROVE  /\ routine.held /\ toStart = 0
         /\ UNCHANGED <<now, started, creating, closed, bounds>>
         /\ threads' = IF CheckHow # "" /\ threads[active.run].st = "interrupted"
                       THEN [threads EXCEPT ![active.run].st = "failed"]
                       ELSE threads
         /\ RoutineShape(CheckedRoutine) /\ ActiveShape(CheckedActive)
         /\ CheckedRoutine.held = routine.held /\ CheckedRoutine.next = routine.next
         /\ CheckHow = "" => /\ CheckedActive.run = active.run
                             /\ CheckedActive.thread = active.thread
         /\ CheckHow # "" => CheckedActive = NoRun
         /\ \/ /\ Due(CheckedRoutine)
               /\ Fires(Moved(CheckedRoutine), CheckedActive, CheckedRoutine.next)
               /\ toStart' = IF active' # CheckedActive THEN active'.run ELSE 0
            \/ /\ routine' = CheckedRoutine /\ active' = CheckedActive
               /\ UNCHANGED <<toStart, firings>>
<1>1. RoutineShape(CheckedRoutine) /\ CheckedRoutine.held = routine.held
        /\ CheckedRoutine.next = routine.next
  BY RunsAlone DEF Shapes, CheckedRoutine
<1>2. CheckHow = "" => /\ ActiveShape(CheckedActive)
                       /\ CheckedActive.run = active.run
                       /\ CheckedActive.thread = active.thread
  BY DEF Shapes, CheckedActive, ActiveShape
<1>3. CheckHow # "" => CheckedActive = NoRun
  BY DEF CheckedActive
<1>4. ActiveShape(CheckedActive)
  BY <1>2, <1>3, NoRunShape
<1>5. /\ routine.held /\ toStart = 0
      /\ UNCHANGED <<now, started, creating, closed, bounds>>
      /\ threads' = IF CheckHow # "" /\ threads[active.run].st = "interrupted"
                    THEN [threads EXCEPT ![active.run].st = "failed"]
                    ELSE threads
  BY DEF Check, CheckHow
<1>6. \/ /\ Due(CheckedRoutine)
         /\ Fires(Moved(CheckedRoutine), CheckedActive, CheckedRoutine.next)
         /\ toStart' = IF active' # CheckedActive THEN active'.run ELSE 0
      \/ /\ routine' = CheckedRoutine /\ active' = CheckedActive
         /\ UNCHANGED <<toStart, firings>>
  BY DEF Check, CheckHow, CheckedRoutine, CheckedActive, Due
<1> QED
  BY <1>1, <1>2, <1>3, <1>4, <1>5, <1>6

\* The routine that fires has its next firing after now.
LEMMA MovedWell ==
  ASSUME RoutinesConstants, now \in Nat, NEW r, RoutineShape(r), r.next \in Nat,
         r.next <= now
  PROVE  /\ RoutineShape(Moved(r)) /\ Moved(r).held = r.held
         /\ Moved(r).next \in Nat /\ Moved(r).next > now
<1>1. NextRun(r.kind, r.next, now) \in Nat /\ NextRun(r.kind, r.next, now) > now
  BY NextIsLater
<1> QED
  BY <1>1 DEF Moved, RoutineShape

LEMMA ShapesKept ==
  ASSUME RoutinesConstants, Shapes, [Next]_vars
  PROVE  Shapes'
<1> USE DEF Shapes
<1>1. CASE Check
  <2>1. threads' \in [Ids -> ThreadShape]
    <3>1. CASE active.run \in Ids
      <4>1. [threads EXCEPT ![active.run].st = "failed"] \in [Ids -> ThreadShape]
        BY <3>1 DEF ThreadShape, ThreadStates
      <4> QED
        BY <1>1, <4>1, CheckDoes
    <3>2. CASE active.run \notin Ids
      <4>1. [threads EXCEPT ![active.run].st = "failed"] = threads
        BY <3>2
      <4> QED
        BY <1>1, <4>1, CheckDoes
    <3> QED
      BY <3>1, <3>2
  <2>2. CASE /\ Due(CheckedRoutine)
             /\ Fires(Moved(CheckedRoutine), CheckedActive, CheckedRoutine.next)
             /\ toStart' = IF active' # CheckedActive THEN active'.run ELSE 0
    <3>1. CheckedRoutine.next <= now
      BY <2>2 DEF Due
    <3>2. /\ RoutineShape(Moved(CheckedRoutine)) /\ Moved(CheckedRoutine).next \in Nat
      BY <1>1, <3>1, CheckDoes, MovedWell
    <3>3. toStart' \in Nat
      <4>1. active' = CheckedActive \/ active'.run \in Ids
        BY <1>1, <2>2, <3>2, CheckDoes, FiresWell
      <4> QED
        BY <2>2, <4>1 DEF Ids
    <3> QED
      BY <1>1, <2>1, <2>2, <3>2, <3>3, CheckDoes, FiresWell
  <2>3. CASE /\ routine' = CheckedRoutine /\ active' = CheckedActive
             /\ UNCHANGED <<toStart, firings>>
    BY <1>1, <2>1, <2>3, CheckDoes
  <2> QED
    BY <1>1, <2>2, <2>3, CheckDoes
<1>2. CASE RunNow
  <2>1. Fires(routine, active, 0) /\ UNCHANGED <<now, toStart, threads>>
    BY <1>2 DEF RunNow
  <2>2. creating' \in [Ids -> {"none", "creating", "created", "sent"}]
    BY <1>2 DEF RunNow, GoRun
  <2> QED
    BY <2>1, <2>2, FiresWell
<1>3. CASE Tick
  BY <1>3 DEF Tick, RoutinesConstants
<1>4. CASE LoopStarts
  BY <1>4 DEF LoopStarts, GoRun
<1>5. CASE Shutdown
  <2>1. threads' \in [Ids -> ThreadShape]
    BY <1>5 DEF Shutdown, ThreadStates, ThreadShape
  <2> QED
    BY <1>5, <2>1 DEF Shutdown
<1>6. CASE Forgets
  <2>1. RoutineShape(routine') /\ routine'.next = routine.next
    BY <1>6 DEF Forgets, RoutineShape
  <2> QED
    BY <1>6, <2>1, NoRunShape DEF Forgets, ownerOnly
<1>7. ASSUME NEW i \in Ids, StartStep(i)
      PROVE  Shapes'
  <2>1. CASE Registers(i)
    <3>1. [threads EXCEPT ![i].st = "idle"] \in [Ids -> ThreadShape]
      BY DEF ThreadShape, ThreadStates
    <3> QED
      BY <2>1, <3>1 DEF Registers
  <2>2. CASE CreateFails(i)
    <3>1. CASE ~routine.held \/ active.run # i
      BY <2>2, <3>1 DEF CreateFails
    <3>2. CASE ~(~routine.held \/ active.run # i)
      <4>0. routine' = [routine EXCEPT !.runs = EndedRun(routine.runs, i, "failed")]
        BY <2>2, <3>2 DEF CreateFails
      <4>1. RoutineShape(routine') /\ routine'.next = routine.next
        BY <4>0, RunsAlone
      <4> QED
        BY <2>2, <3>2, <4>1, NoRunShape DEF CreateFails
    <3> QED
      BY <3>1, <3>2
  <2>3. CASE Sends(i)
    <3>1. threads' \in {threads, [threads EXCEPT ![i].unsure = TRUE],
                        [threads EXCEPT ![i].st = "working", ![i].turn = "run"]}
      BY <2>3 DEF Sends
    <3>2. [threads EXCEPT ![i].unsure = TRUE] \in [Ids -> ThreadShape]
      BY DEF ThreadShape
    <3>3. [threads EXCEPT ![i].st = "working", ![i].turn = "run"]
            \in [Ids -> ThreadShape]
      BY DEF ThreadShape, ThreadStates
    <3>4. threads' \in [Ids -> ThreadShape]
      BY <3>1, <3>2, <3>3
    <3> QED
      BY <2>3, <3>4 DEF Sends
  <2>4. CASE Records(i)
    <3>1. CASE ~routine.held \/ active.run # i
      BY <2>4, <3>1 DEF Records
    <3>2. CASE ~(~routine.held \/ active.run # i)
      <4>0. routine' = [routine EXCEPT !.runs = Recorded(i)]
        BY <2>4, <3>2 DEF Records
      <4>1. RoutineShape(routine') /\ routine'.next = routine.next
        BY <4>0, RunsAlone
      <4>2. ActiveShape(active')
        BY <2>4, <3>2 DEF Records, ActiveShape
      <4> QED
        BY <2>4, <3>2, <4>1, <4>2 DEF Records
    <3> QED
      BY <3>1, <3>2
  <2> QED
    BY <1>7, <2>1, <2>2, <2>3, <2>4 DEF StartStep
<1>8. ASSUME NEW i \in Ids,
             TurnEnds(i) \/ LateTurn(i) \/ OwnerPrompts(i) \/ Deletes(i)
      PROVE  Shapes'
  <2>1. threads' \in [Ids -> ThreadShape]
    <3>1. CASE TurnEnds(i)
      <4>1. PICK st \in {"completed", "cancelled", "failed"} :
              threads' = [threads EXCEPT ![i].st = st, ![i].turn = "none"]
        BY <3>1 DEF TurnEnds
      <4>2. [threads EXCEPT ![i].st = st, ![i].turn = "none"] \in [Ids -> ThreadShape]
        BY DEF ThreadShape, ThreadStates
      <4> QED
        BY <4>1, <4>2
    <3>2. CASE LateTurn(i)
      <4> DEFINE t == [st |-> "working", turn |-> "late", unsure |-> FALSE]
      <4>1. threads' = [threads EXCEPT ![i] = t]
        <5>1. \A j \in Ids : threads'[j] = IF j = i THEN t ELSE threads[j]
          BY <3>2 DEF LateTurn, ThreadShape
        <5> QED
          BY <3>2, <5>1 DEF LateTurn
      <4>2. t \in ThreadShape
        BY DEF ThreadShape, ThreadStates
      <4> QED
        BY <4>1, <4>2, OneThread
    <3>3. CASE OwnerPrompts(i)
      <4>1. [threads EXCEPT ![i].st = "working", ![i].turn = "owner"]
              \in [Ids -> ThreadShape]
        BY DEF ThreadShape, ThreadStates
      <4> QED
        BY <3>3, <4>1 DEF OwnerPrompts
    <3>4. CASE Deletes(i)
      <4>1. [NoThread EXCEPT !.st = "deleted"] \in ThreadShape
        BY DEF NoThread, ThreadShape, ThreadStates
      <4> QED
        BY <3>4, <4>1, OneThread DEF Deletes
    <3> QED
      BY <1>8, <3>1, <3>2, <3>3, <3>4
  <2> QED
    BY <1>8, <2>1 DEF TurnEnds, LateTurn, OwnerPrompts, Deletes, threadOnly
<1>9. ASSUME NEW enabled \in BOOLEAN, NEW kind \in Kinds, Updates(enabled, kind)
      PROVE  Shapes'
  <2>1. NextRun(kind, 0, now) \in Nat
    BY NextIsLater
  <2>2. RoutineShape(routine') /\ routine'.next \in Nat
    BY <1>9, <2>1 DEF Updates, RoutineShape
  <2> QED
    BY <1>9, <2>2 DEF Updates, ownerOnly
<1>10. CASE Restarts
  <2>1. PICK lost \in SUBSET Lost, old \in {"idle", "working"} : Restart(lost, old)
    BY <1>10 DEF Restarts
  <2>2. threads' \in [Ids -> ThreadShape]
    <3>1. \A i \in Ids, st \in ThreadStates :
            Loaded(threads[i], st) \in ThreadShape
      BY DEF Loaded, NoThread, ThreadStates, ThreadShape
    <3>2. \A i \in Ids : threads'[i] = Loaded(threads[i], IF i \in lost THEN old
                                                         ELSE threads[i].st)
      BY <2>1 DEF Restart
    <3>3. \A i \in Ids : (IF i \in lost THEN old ELSE threads[i].st) \in ThreadStates
      BY DEF ThreadStates, ThreadShape
    <3>4. threads' = [i \in Ids |-> threads'[i]]
      BY <2>1 DEF Restart
    <3> QED
      BY <3>1, <3>2, <3>3, <3>4
  <2>3. RoutineShape(routine') /\ routine'.next = routine.next
    BY <2>1, RunsAlone DEF Restart
  <2>4. ActiveShape(active')
    BY <2>1 DEF Restart, LoadedActive, NoRun, ActiveShape
  <2> QED
    BY <2>1, <2>2, <2>3, <2>4 DEF Restart
<1>11. CASE UNCHANGED vars
  BY <1>11 DEF vars
<1> QED
  BY <1>1, <1>2, <1>3, <1>4, <1>5, <1>6, <1>7, <1>8, <1>9, <1>10, <1>11 DEF Next

-----------------------------------------------------------------------------
(* Overlap.                                                                *)

RunTurn(i) == Working(i) /\ threads[i].turn = "run"
\* The firing i is on its way to its turn, or in it.
OnItsWay(i) == toStart = i \/ creating[i] # "none" \/ RunTurn(i)

OneAtMost == \A i, j \in Ids : OnItsWay(i) /\ OnItsWay(j) => i = j
ActiveHolds == routine.held => \A i \in Ids : OnItsWay(i) => active.run = i
\* A firing goes from one step to the next.
InOrder ==
  \A i \in Ids : /\ creating[i] # "none" => toStart # i
                 /\ toStart = i \/ creating[i] \in {"creating", "created"}
                      => ~RunTurn(i)
\* A Thread is recorded when its create has ended.
CreatedFirst ==
  \A i \in Ids : active.run = i /\ active.thread
                   => creating[i] = "none" /\ toStart # i

OverlapInv == OneAtMost /\ ActiveHolds /\ InOrder /\ CreatedFirst

\* A section that fires, after the active run became a.
LEMMA FiredKeeps ==
  ASSUME RoutinesConstants, Shapes, OverlapInv, routine.held, routine'.held,
         \A i \in Ids : ~OnItsWay(i), active'.run \in Ids, active'.thread = FALSE,
         \A i \in Ids : i # active'.run => (OnItsWay(i)' => OnItsWay(i)),
         InOrder'
  PROVE  OverlapInv'
<1>1. \A i \in Ids : OnItsWay(i)' => i = active'.run
  OBVIOUS
<1> QED
  BY <1>1 DEF OverlapInv, OneAtMost, ActiveHolds, CreatedFirst

\* Steps in which nothing gets on its way, and the active run stays.
LEMMA StaysKeeps ==
  ASSUME OverlapInv, \A i \in Ids : OnItsWay(i)' => OnItsWay(i),
         routine'.held => routine.held /\ active'.run = active.run,
         InOrder', CreatedFirst'
  PROVE  OverlapInv'
  BY DEF OverlapInv, OneAtMost, ActiveHolds

\* What the loop's check ends is over.
LEMMA EndedIsOver ==
  ASSUME Shapes, OverlapInv, routine.held, toStart = 0, CheckHow # ""
  PROVE  \A i \in Ids : ~OnItsWay(i)
<1>1. active.run # 0 /\ active.thread /\ EndedAs(threads[active.run].st, active.limited) # ""
  BY DEF CheckHow, Outcome
<1> SUFFICES ASSUME NEW i \in Ids, OnItsWay(i)
             PROVE  FALSE
  OBVIOUS
<1>2. active.run = i
  BY DEF OverlapInv, ActiveHolds
<1>3. creating[i] = "none" /\ toStart # i
  BY <1>1, <1>2 DEF OverlapInv, CreatedFirst
<1>4. threads[i].st = "working"
  BY <1>3 DEF OnItsWay, RunTurn, Working
<1>5. EndedAs("working", active.limited) = ""
  BY DEF EndedAs, Interrupted
<1> QED
  BY <1>1, <1>2, <1>4, <1>5

\* While no run is active, none is on its way.
LEMMA IdleIsEmpty ==
  ASSUME OverlapInv, routine.held, active.run = 0
  PROVE  \A i \in Ids : ~OnItsWay(i)
  BY DEF OverlapInv, ActiveHolds, Ids

\* A check that starts nothing.
LEMMA CheckEndKeeps ==
  ASSUME RoutinesConstants, Shapes, OverlapInv, Check,
         \A i \in Ids : RunTurn(i)' => RunTurn(i),
         toStart' = 0, active' = CheckedActive
  PROVE  OverlapInv'
<1>1. /\ routine.held /\ toStart = 0 /\ creating' = creating
  BY CheckDoes
<1>2. \A i \in Ids : OnItsWay(i)' => OnItsWay(i)
  BY <1>1 DEF OnItsWay
<1>3. InOrder'
  BY <1>1 DEF OverlapInv, InOrder
<1>4. CASE CheckHow = ""
  <2>1. active'.run = active.run /\ active'.thread = active.thread
    BY <1>4, CheckDoes
  <2>2. CreatedFirst'
    BY <1>1, <2>1 DEF OverlapInv, CreatedFirst
  <2> QED
    BY <1>1, <1>2, <1>3, <2>1, <2>2, StaysKeeps
<1>5. CASE CheckHow # ""
  <2>1. active' = NoRun
    BY <1>5, CheckDoes
  <2>2. CreatedFirst'
    BY <2>1, NoRunShape DEF CreatedFirst
  <2>3. \A i \in Ids : ~OnItsWay(i)'
    BY <1>1, <1>2, <1>5, EndedIsOver
  <2> QED
    BY <1>3, <2>2, <2>3 DEF OverlapInv, OneAtMost, ActiveHolds
<1> QED
  BY <1>4, <1>5

LEMMA CheckKeeps ==
  ASSUME RoutinesConstants, Shapes, OverlapInv, Check
  PROVE  OverlapInv'
<1>1. /\ routine.held /\ toStart = 0 /\ creating' = creating
      /\ CheckedActive.run = 0 => \A i \in Ids : ~OnItsWay(i)
  <2>1. CASE CheckHow = ""
    BY <2>1, CheckDoes, IdleIsEmpty
  <2>2. CASE CheckHow # ""
    BY <2>2, CheckDoes, EndedIsOver
  <2> QED
    BY <2>1, <2>2, CheckDoes
<1>2. \A i \in Ids : RunTurn(i)' => RunTurn(i)
  <2>1. CASE threads' = threads
    BY <2>1 DEF RunTurn, Working
  <2>2. CASE /\ threads[active.run].st = "interrupted"
             /\ threads' = [threads EXCEPT ![active.run].st = "failed"]
    BY <2>2 DEF RunTurn, Working, Shapes, ThreadShape
  <2> QED
    BY <2>1, <2>2, CheckDoes
<1>3. CASE /\ Due(CheckedRoutine)
           /\ Fires(Moved(CheckedRoutine), CheckedActive, CheckedRoutine.next)
           /\ toStart' = IF active' # CheckedActive THEN active'.run ELSE 0
  <2>1. CheckedRoutine.next <= now /\ CheckedRoutine.next \in Nat
    BY <1>3, CheckDoes DEF Due, Shapes
  <2>2. RoutineShape(Moved(CheckedRoutine)) /\ Moved(CheckedRoutine).held
    BY <2>1, CheckDoes, MovedWell DEF Shapes
  <2>3. routine'.held
    BY <1>3, <2>1, <2>2, CheckDoes, FiresWell DEF Shapes
  <2>4. \/ active' = CheckedActive
        \/ /\ CheckedActive.run = 0 /\ active' # CheckedActive
           /\ active'.run \in Ids /\ active'.thread = FALSE
    BY <1>3, <2>1, <2>2, CheckDoes, FiresWell DEF Shapes
  <2>5. CASE active' = CheckedActive
    <3>1. toStart' = 0
      BY <1>3, <2>5
    <3> QED
      BY <1>1, <1>2, <2>5, <3>1, CheckEndKeeps
  <2>6. CASE /\ CheckedActive.run = 0 /\ active' # CheckedActive
             /\ active'.run \in Ids /\ active'.thread = FALSE
    <3>1. toStart' = active'.run
      BY <1>3, <2>6
    <3>2. \A i \in Ids : i # active'.run => (OnItsWay(i)' => OnItsWay(i))
      BY <1>1, <1>2, <3>1 DEF OnItsWay
    <3>3. InOrder'
      BY <1>1, <1>2, <2>6, <3>1 DEF InOrder, OnItsWay
    <3> QED
      BY <1>1, <2>3, <2>6, <3>2, <3>3, FiredKeeps
  <2> QED
    BY <2>4, <2>5, <2>6
<1>4. CASE /\ routine' = CheckedRoutine /\ active' = CheckedActive
           /\ UNCHANGED <<toStart, firings>>
  BY <1>1, <1>2, <1>4, CheckEndKeeps
<1> QED
  BY <1>3, <1>4, CheckDoes

LEMMA RunNowKeeps ==
  ASSUME RoutinesConstants, Shapes, OverlapInv, RunNow
  PROVE  OverlapInv'
<1>1. /\ routine.held /\ routine'.held /\ UNCHANGED <<toStart, threads>>
      /\ \/ active' = active
         \/ /\ active.run = 0 /\ active' # active
            /\ active'.run \in Ids /\ active'.thread = FALSE
  BY FiresWell DEF RunNow, Shapes
<1>2. CASE active' = active
  <2>1. creating' = creating
    BY <1>2 DEF RunNow
  <2>2. \A i \in Ids : /\ OnItsWay(i)' <=> OnItsWay(i)
                       /\ RunTurn(i)' <=> RunTurn(i)
    BY <1>1, <2>1 DEF OnItsWay, RunTurn, Working
  <2> QED
    BY <1>1, <1>2, <2>1, <2>2, StaysKeeps DEF OverlapInv, InOrder, CreatedFirst
<1>3. CASE /\ active.run = 0 /\ active' # active
           /\ active'.run \in Ids /\ active'.thread = FALSE
  <2>1. \A i \in Ids : ~OnItsWay(i)
    BY <1>1, <1>3, IdleIsEmpty
  <2>2. creating' = creating \/ creating' = [creating EXCEPT ![active'.run] = "creating"]
    BY <1>3 DEF RunNow, GoRun
  <2>3. \A i \in Ids : RunTurn(i)' <=> RunTurn(i)
    BY <1>1 DEF RunTurn, Working
  <2>4. \A i \in Ids : i # active'.run => (OnItsWay(i)' => OnItsWay(i))
    BY <1>1, <2>2, <2>3 DEF OnItsWay, Shapes
  <2>5. InOrder'
    BY <1>1, <2>1, <2>3 DEF InOrder, OnItsWay
  <2> QED
    BY <1>1, <1>3, <2>1, <2>4, <2>5, FiredKeeps
<1> QED
  BY <1>1, <1>2, <1>3

LEMMA LoopStartsKeeps ==
  ASSUME Shapes, OverlapInv, LoopStarts
  PROVE  OverlapInv'
<1>1. /\ toStart # 0 /\ toStart' = 0 /\ UNCHANGED <<routine, active, threads>>
      /\ creating' = creating \/ creating' = [creating EXCEPT ![toStart] = "creating"]
  BY DEF LoopStarts, GoRun
<1>2. \A i \in Ids : toStart' # i
  BY <1>1 DEF Ids
<1>3. \A i \in Ids : RunTurn(i)' <=> RunTurn(i)
  BY <1>1 DEF RunTurn, Working
<1>4. \A i \in Ids : \/ creating'[i] = creating[i]
                     \/ toStart = i /\ creating'[i] = "creating"
  BY <1>1 DEF Shapes
<1>5. \A i \in Ids : OnItsWay(i)' => OnItsWay(i)
  BY <1>2, <1>3, <1>4 DEF OnItsWay
<1>6. InOrder'
  BY <1>2, <1>3, <1>4 DEF OverlapInv, InOrder
<1>7. CreatedFirst'
  BY <1>1, <1>2, <1>4 DEF OverlapInv, CreatedFirst
<1> QED
  BY <1>1, <1>5, <1>6, <1>7, StaysKeeps

\* One goroutine of startRun goes on.
LEMMA StartKeeps ==
  ASSUME Shapes, OverlapInv, NEW i \in Ids, StartStep(i)
  PROVE  OverlapInv'
<1>1. toStart' = toStart /\ creating[i] # "none" /\ toStart # i
  BY DEF StartStep, Registers, CreateFails, Sends, Records, OverlapInv, InOrder
<1>2. \A j \in Ids : j # i => creating'[j] = creating[j]
  BY DEF StartStep, Registers, CreateFails, Sends, Records, Shapes
<1>3. CASE Registers(i)
  <2>1. /\ creating[i] = "creating" /\ creating'[i] = "created"
        /\ threads'[i].st = "idle" /\ UNCHANGED <<routine, active>>
        /\ \A j \in Ids : j # i => threads'[j] = threads[j]
    BY <1>3 DEF Registers, Shapes, ThreadShape
  <2>2. \A j \in Ids : RunTurn(j)' => RunTurn(j)
    BY <2>1 DEF RunTurn, Working
  <2>3. \A j \in Ids : OnItsWay(j)' => OnItsWay(j)
    BY <1>1, <1>2, <2>1, <2>2 DEF OnItsWay
  <2>4. InOrder' /\ CreatedFirst'
    BY <1>1, <1>2, <2>1, <2>2 DEF OverlapInv, InOrder, CreatedFirst
  <2> QED
    BY <2>1, <2>3, <2>4, StaysKeeps
<1>4. CASE Sends(i)
  <2>1. /\ creating[i] = "created" /\ creating'[i] = "sent" /\ UNCHANGED <<routine, active>>
    BY <1>4 DEF Sends, Shapes
  <2>2. \A j \in Ids : j # i => threads'[j] = threads[j]
    <3>1. threads' \in {threads, [threads EXCEPT ![i].unsure = TRUE],
                        [threads EXCEPT ![i].st = "working", ![i].turn = "run"]}
      BY <1>4 DEF Sends
    <3> QED
      BY <3>1 DEF Shapes
  <2>3. \A j \in Ids : j # i => (RunTurn(j)' <=> RunTurn(j))
    BY <2>2 DEF RunTurn, Working
  <2>4. \A j \in Ids : OnItsWay(j)' => OnItsWay(j)
    BY <1>1, <1>2, <2>1, <2>3 DEF OnItsWay
  <2>5. InOrder' /\ CreatedFirst'
    BY <1>1, <1>2, <2>1, <2>3 DEF OverlapInv, InOrder, CreatedFirst
  <2> QED
    BY <2>1, <2>4, <2>5, StaysKeeps
<1>5. CASE Records(i) \/ CreateFails(i)
  <2>1. creating'[i] = "none" /\ threads' = threads
    BY <1>5 DEF Records, CreateFails, Shapes
  <2>2. \A j \in Ids : RunTurn(j)' <=> RunTurn(j)
    BY <2>1 DEF RunTurn, Working
  <2>3. \A j \in Ids : OnItsWay(j)' => OnItsWay(j)
    BY <1>1, <1>2, <2>1, <2>2 DEF OnItsWay
  <2>4. InOrder'
    BY <1>1, <1>2, <2>1, <2>2 DEF OverlapInv, InOrder
  <2>5. CASE UNCHANGED <<routine, active>>
    <3>1. CreatedFirst'
      BY <1>1, <1>2, <2>1, <2>5 DEF OverlapInv, CreatedFirst
    <3> QED
      BY <2>3, <2>4, <2>5, <3>1, StaysKeeps
  <2>6. CASE Records(i) /\ routine.held /\ active.run = i
    <3>1. active'.run = i
      BY <2>6 DEF Records, Shapes, ActiveShape
    <3>2. routine'.held => routine.held
      BY <2>6
    <3>3. CreatedFirst'
      BY <1>1, <2>1, <3>1 DEF CreatedFirst
    <3> QED
      BY <2>3, <2>4, <2>6, <3>1, <3>2, <3>3, StaysKeeps
  <2>7. CASE CreateFails(i) /\ routine.held /\ active.run = i
    <3>1. active' = NoRun /\ creating[i] = "creating"
      BY <2>7 DEF CreateFails
    <3>2. CreatedFirst'
      BY <3>1, NoRunShape DEF CreatedFirst
    <3>3. ~OnItsWay(i)'
      BY <1>1, <2>1, <2>2, <3>1 DEF OnItsWay, OverlapInv, InOrder
    <3>4. \A j \in Ids : ~OnItsWay(j)'
      BY <2>3, <2>7, <3>3 DEF OverlapInv, ActiveHolds
    <3> QED
      BY <2>4, <3>2, <3>4 DEF OverlapInv, OneAtMost, ActiveHolds
  <2> QED
    BY <1>5, <2>5, <2>6, <2>7 DEF Records, CreateFails
<1> QED
  BY <1>3, <1>4, <1>5 DEF StartStep

\* The Threads' turns and the owner: no turn of a run begins.
LEMMA ThreadsKeep ==
  ASSUME Shapes, OverlapInv, \A i \in Ids : RunTurn(i)' => RunTurn(i),
         UNCHANGED <<toStart, creating, active>>, routine'.held => routine.held
  PROVE  OverlapInv'
<1>1. \A i \in Ids : OnItsWay(i)' => OnItsWay(i)
  BY DEF OnItsWay
<1>2. InOrder' /\ CreatedFirst'
  BY DEF OverlapInv, InOrder, CreatedFirst
<1> QED
  BY <1>1, <1>2, StaysKeeps

LEMMA TurnsKeep ==
  ASSUME Shapes, OverlapInv, NEW i \in Ids,
         TurnEnds(i) \/ LateTurn(i) \/ OwnerPrompts(i) \/ Deletes(i)
  PROVE  OverlapInv'
<1>1. /\ UNCHANGED <<toStart, creating, active, routine>>
      /\ \A j \in Ids : j # i => threads'[j] = threads[j]
  BY DEF TurnEnds, LateTurn, OwnerPrompts, Deletes, threadOnly, Shapes
<1>2. threads'[i].turn # "run"
  <2>1. CASE TurnEnds(i)
    BY <2>1 DEF TurnEnds, Shapes, ThreadShape
  <2>2. CASE LateTurn(i)
    BY <2>2 DEF LateTurn, Shapes, ThreadShape
  <2>3. CASE OwnerPrompts(i)
    BY <2>3 DEF OwnerPrompts, Shapes, ThreadShape
  <2>4. CASE Deletes(i)
    BY <2>4 DEF Deletes, Shapes, NoThread
  <2> QED
    BY <2>1, <2>2, <2>3, <2>4
<1>3. \A j \in Ids : RunTurn(j)' => RunTurn(j)
  BY <1>1, <1>2 DEF RunTurn, Working
<1> QED
  BY <1>1, <1>3, ThreadsKeep

LEMMA ShutdownKeeps ==
  ASSUME Shapes, OverlapInv, Shutdown
  PROVE  OverlapInv'
<1>1. \A i \in Ids : ~(threads'[i].st = "working")
  BY DEF Shutdown, Working, Shapes, ThreadShape
<1> QED
  BY <1>1, ThreadsKeep DEF Shutdown, RunTurn, Working

\* No turn and no goroutine survives uam.
LEMMA RestartsKeep ==
  ASSUME Shapes, OverlapInv, Restarts
  PROVE  OverlapInv'
<1>1. PICK lost \in SUBSET Lost, old \in {"idle", "working"} : Restart(lost, old)
  BY DEF Restarts
<1>2. toStart' = 0 /\ \A i \in Ids : creating'[i] = "none" /\ toStart' # i
  BY <1>1 DEF Restart, Ids
<1>3. ASSUME NEW i \in Ids PROVE ~RunTurn(i)'
  <2>1. threads'[i] = Loaded(threads[i], IF i \in lost THEN old ELSE threads[i].st)
    BY <1>1 DEF Restart
  <2>2. threads'[i].st # "working" \/ threads'[i].turn # "run"
    BY <2>1 DEF Loaded, NoThread
  <2> QED
    BY <2>2 DEF RunTurn, Working
<1>4. \A i \in Ids : ~OnItsWay(i)'
  BY <1>2, <1>3 DEF OnItsWay
<1> QED
  BY <1>2, <1>3, <1>4 DEF OverlapInv, OneAtMost, ActiveHolds, InOrder, CreatedFirst

LEMMA OverlapKept ==
  ASSUME RoutinesConstants, Shapes, OverlapInv, [Next]_vars
  PROVE  OverlapInv'
<1>1. CASE Tick
  BY <1>1, ThreadsKeep DEF Tick, RunTurn, Working
<1>2. CASE Forgets
  <2>1. /\ UNCHANGED <<toStart, creating, threads>> /\ active' = NoRun
        /\ routine'.held = FALSE
    BY <1>2 DEF Forgets, ownerOnly, Shapes, RoutineShape
  <2>2. \A i \in Ids : /\ RunTurn(i)' <=> RunTurn(i)
                       /\ OnItsWay(i)' <=> OnItsWay(i)
    BY <2>1 DEF RunTurn, Working, OnItsWay
  <2>3. CreatedFirst'
    BY <2>1, NoRunShape DEF CreatedFirst
  <2>4. InOrder'
    BY <2>1, <2>2 DEF OverlapInv, InOrder
  <2> QED
    BY <2>1, <2>2, <2>3, <2>4, StaysKeeps
<1>3. ASSUME NEW enabled \in BOOLEAN, NEW kind \in Kinds, Updates(enabled, kind)
      PROVE  OverlapInv'
  <2>1. UNCHANGED <<toStart, creating, active, threads>> /\ routine.held
    BY <1>3 DEF Updates, ownerOnly
  <2> QED
    BY <2>1, ThreadsKeep DEF RunTurn, Working
<1>4. CASE UNCHANGED vars
  BY <1>4, ThreadsKeep DEF vars, RunTurn, Working
<1> QED
  BY <1>1, <1>2, <1>3, <1>4, CheckKeeps, LoopStartsKeeps, RunNowKeeps, StartKeeps,
     TurnsKeep, ShutdownKeeps, RestartsKeep DEF Next

\* Of the turns that a routine's prompts began, at most one goes on: a firing
\* starts nothing while a run is active, and a run that is on its way stays the
\* active one (fireLocked, startRun, checkRoutines).
THEOREM RunsDoNotOverlap == Spec => []NoOverlap
<1>1. Init => Shapes /\ OverlapInv
  <2> SUFFICES ASSUME Init PROVE Shapes /\ OverlapInv
    OBVIOUS
  <2>1. \A i \in Ids : ~OnItsWay(i) /\ ~RunTurn(i) /\ creating[i] = "none" /\ toStart # i
    BY DEF Init, OnItsWay, RunTurn, Working, NoThread, Ids
  <2> QED
    BY <2>1, RoutinesConstants, InitShapes
       DEF OverlapInv, OneAtMost, ActiveHolds, InOrder, CreatedFirst
<1>2. Shapes /\ OverlapInv /\ [Next]_vars => (Shapes /\ OverlapInv)'
  BY RoutinesConstants, ShapesKept, OverlapKept
<1>3. Shapes /\ OverlapInv => NoOverlap
  <2> SUFFICES ASSUME OverlapInv PROVE NoOverlap
    OBVIOUS
  <2> DEFINE S == {i \in Ids : Working(i) /\ threads[i].turn = "run"}
  <2>1. CASE S = {}
    BY <2>1, FS_EmptySet DEF NoOverlap
  <2>2. CASE S # {}
    <3>1. PICK i \in Ids : i \in S
      BY <2>2
    <3>2. S = {i}
      BY <3>1 DEF OverlapInv, OneAtMost, OnItsWay, RunTurn
    <3>3. Cardinality({i}) = 1
      BY FS_Singleton
    <3> QED
      BY <3>2, <3>3 DEF NoOverlap
  <2> QED
    BY <2>1, <2>2
<1> QED
  BY <1>1, <1>2, <1>3, PTL DEF Spec

-----------------------------------------------------------------------------
(* Missed firings.                                                         *)

\* The next firing is after every scheduled one, which came by now.
NextIsAfter ==
  \A k \in 1..Len(firings) :
    /\ firings[k].at <= now
    /\ firings[k].due # 0 /\ routine.next # 0 => routine.next > firings[k].at
MissedInv == NextIsAfter /\ MissedRunOnce

\* A firing that was due after all before it, and moved the next one past now.
LEMMA FiringKeeps ==
  ASSUME Shapes, MissedInv, now' = now, NEW due \in Nat, NEW ran \in BOOLEAN,
         firings' = Append(firings, [at |-> now, due |-> due, ran |-> ran]),
         due # 0 => due = routine.next /\ routine'.next > now,
         routine'.next # routine.next => routine'.next > now,
         routine'.next \in Nat
  PROVE  MissedInv'
<1> DEFINE n == Len(firings)
<1>1. /\ Len(firings') = n + 1 /\ n \in Nat
      /\ firings'[n + 1] = [at |-> now, due |-> due, ran |-> ran]
      /\ \A k \in 1..n : firings'[k] = firings[k] /\ firings[k] \in Firing
  BY DEF Shapes
<1> HIDE DEF n
<1>2. \A k \in 1..n : firings[k].at \in Nat /\ firings[k].at <= now
  BY <1>1 DEF Firing, MissedInv, NextIsAfter, n
<1>3. NextIsAfter'
  <2> SUFFICES ASSUME NEW k \in 1..(n + 1)
               PROVE  /\ firings'[k].at <= now
                      /\ firings'[k].due # 0 /\ routine'.next # 0
                           => routine'.next > firings'[k].at
    BY <1>1 DEF NextIsAfter
  <2>1. CASE k = n + 1
    BY <1>1, <2>1 DEF Shapes
  <2>2. CASE k \in 1..n
    BY <1>1, <1>2, <2>2 DEF MissedInv, NextIsAfter, Shapes, n
  <2> QED
    BY <1>1, <2>1, <2>2
<1>4. MissedRunOnce'
  <2> SUFFICES ASSUME NEW j \in 1..(n + 1), NEW k \in 1..(n + 1), j < k,
                      firings'[j].due # 0, firings'[k].due # 0
               PROVE  firings'[k].due > firings'[j].at
    <3>1. DOMAIN firings' = 1..(n + 1)
      BY <1>1 DEF Shapes
    <3> QED
      BY <3>1 DEF MissedRunOnce
  <2>1. j \in 1..n
    BY <1>1
  <2>2. CASE k = n + 1
    BY <1>1, <2>1, <2>2 DEF MissedInv, NextIsAfter, n
  <2>3. CASE k \in 1..n
    <3>1. DOMAIN firings = 1..n
      BY DEF Shapes, n
    <3> QED
      BY <1>1, <2>1, <2>3, <3>1 DEF MissedInv, MissedRunOnce
  <2> QED
    BY <1>1, <2>2, <2>3
<1> QED
  BY <1>3, <1>4 DEF MissedInv

\* A step that fires nothing, and sets the next firing past now if at all.
LEMMA NotFiringKeeps ==
  ASSUME Shapes, MissedInv, now' \in Nat, now' >= now, firings' = firings,
         routine'.next \in {0, routine.next} \/ routine'.next > now,
         routine'.next \in Nat
  PROVE  MissedInv'
<1>1. \A k \in 1..Len(firings) : firings[k].at \in Nat
  <2>1. \A k \in 1..Len(firings) : firings[k] \in Firing
    BY DEF Shapes
  <2> QED
    BY <2>1 DEF Firing
<1>2. NextIsAfter'
  BY <1>1 DEF MissedInv, NextIsAfter, Shapes
<1> QED
  BY <1>2 DEF MissedInv, MissedRunOnce

LEMMA MissedKept ==
  ASSUME RoutinesConstants, Shapes, MissedInv, [Next]_vars
  PROVE  MissedInv'
<1>1. now \in Nat /\ now' \in Nat /\ routine.next \in Nat /\ routine'.next \in Nat
  BY ShapesKept DEF Shapes
<1>2. CASE Check
  <2>1. CASE /\ Due(CheckedRoutine)
             /\ Fires(Moved(CheckedRoutine), CheckedActive, CheckedRoutine.next)
    <3>1. /\ CheckedRoutine.next = routine.next /\ RoutineShape(CheckedRoutine)
          /\ ActiveShape(CheckedActive) /\ now' = now
          /\ routine.next # 0 /\ routine.next <= now
      BY <1>2, <2>1, CheckDoes DEF Due
    <3>2. RoutineShape(Moved(CheckedRoutine)) /\ Moved(CheckedRoutine).next > now
      BY <1>1, <3>1, MovedWell
    <3>3. /\ routine'.next = Moved(CheckedRoutine).next
          /\ \E ran \in BOOLEAN :
               firings' = Append(firings, [at |-> now, due |-> routine.next, ran |-> ran])
      BY <1>1, <2>1, <3>1, <3>2, FiresWell DEF Shapes
    <3> QED
      BY <1>1, <3>1, <3>2, <3>3, FiringKeeps
  <2>2. CASE routine' = CheckedRoutine /\ UNCHANGED firings
    <3>1. routine'.next = routine.next /\ now' = now
      BY <1>2, <2>2, CheckDoes
    <3> QED
      BY <1>1, <2>2, <3>1, NotFiringKeeps
  <2> QED
    BY <1>2, <2>1, <2>2, CheckDoes
<1>3. CASE RunNow
  <2>1. /\ now' = now /\ routine'.next = routine.next
        /\ \E ran \in BOOLEAN :
             firings' = Append(firings, [at |-> now, due |-> 0, ran |-> ran])
    BY <1>3, FiresWell DEF RunNow, Shapes
  <2> QED
    BY <1>1, <2>1, FiringKeeps
<1>4. CASE Tick
  BY <1>1, <1>4, NotFiringKeeps DEF Tick
<1>5. CASE LoopStarts \/ Shutdown
  <2>1. UNCHANGED <<now, firings, routine>>
    BY <1>5 DEF LoopStarts, Shutdown
  <2> QED
    BY <1>1, <2>1, NotFiringKeeps
<1>6. CASE Forgets
  <2>1. routine'.next = routine.next
    BY <1>6 DEF Forgets, Shapes, RoutineShape
  <2> QED
    BY <1>1, <1>6, <2>1, NotFiringKeeps DEF Forgets, ownerOnly
<1>7. ASSUME NEW i \in Ids, StartStep(i)
      PROVE  MissedInv'
  <2>1. UNCHANGED <<now, firings>>
    BY <1>7 DEF StartStep, Registers, CreateFails, Sends, Records
  <2>2. routine' = routine \/ \E runs : routine' = [routine EXCEPT !.runs = runs]
    BY <1>7 DEF StartStep, Registers, CreateFails, Sends, Records
  <2>3. routine'.next = routine.next
    BY <2>2, RunsAlone DEF Shapes
  <2> QED
    BY <1>1, <2>1, <2>3, NotFiringKeeps
<1>8. ASSUME NEW i \in Ids,
             TurnEnds(i) \/ LateTurn(i) \/ OwnerPrompts(i) \/ Deletes(i)
      PROVE  MissedInv'
  BY <1>1, <1>8, NotFiringKeeps
     DEF TurnEnds, LateTurn, OwnerPrompts, Deletes, threadOnly
<1>9. ASSUME NEW enabled \in BOOLEAN, NEW kind \in Kinds, Updates(enabled, kind)
      PROVE  MissedInv'
  <2>1. UNCHANGED <<now, firings>>
    BY <1>9 DEF Updates, ownerOnly
  <2>2. NextRun(kind, 0, now) > now
    BY <1>1, NextIsLater
  <2>3. routine'.next \in {0, routine.next, NextRun(kind, 0, now)}
    BY <1>9 DEF Updates, Shapes, RoutineShape
  <2> QED
    BY <1>1, <2>1, <2>2, <2>3, NotFiringKeeps
<1>10. CASE Restarts
  <2>1. PICK lost \in SUBSET Lost, old \in {"idle", "working"} : Restart(lost, old)
    BY <1>10 DEF Restarts
  <2>2. routine'.next = routine.next /\ UNCHANGED <<now, firings>>
    BY <2>1, RunsAlone DEF Restart, Shapes
  <2> QED
    BY <1>1, <2>2, NotFiringKeeps
<1>11. CASE UNCHANGED vars
  BY <1>1, <1>11, NotFiringKeeps DEF vars
<1> QED
  BY <1>2, <1>3, <1>4, <1>5, <1>6, <1>7, <1>8, <1>9, <1>10, <1>11 DEF Next

\* No time fires twice, and the times missed while uam was down fire once, by
\* the next check, for any schedule (checkRoutines, nextRun).
THEOREM MissedFireOnce == Spec => []MissedRunOnce
<1>1. Init => Shapes /\ MissedInv
  <2> SUFFICES ASSUME Init PROVE Shapes /\ MissedInv
    OBVIOUS
  <2>1. Len(firings) = 0 /\ DOMAIN firings = {}
    BY DEF Init
  <2> QED
    BY <2>1, RoutinesConstants, InitShapes DEF MissedInv, NextIsAfter, MissedRunOnce
<1>2. Shapes /\ MissedInv /\ [Next]_vars => (Shapes /\ MissedInv)'
  BY RoutinesConstants, ShapesKept, MissedKept
<1>3. MissedInv => MissedRunOnce
  BY DEF MissedInv
<1> QED
  BY <1>1, <1>2, <1>3, PTL DEF Spec

-----------------------------------------------------------------------------
(* The history.                                                            *)

RunEntry == [id : Ids, at : Nat, outcome : Outcomes, thread : BOOLEAN]

\* A history of the first n firings, in their order, with the active run in it.
Ordered(runs, n) ==
  /\ runs \in Seq(RunEntry) /\ Len(runs) <= Keep
  /\ \A k \in 1 .. Len(runs) : runs[k].id <= n
  /\ \A j, k \in 1 .. Len(runs) : j < k => runs[j].id < runs[k].id
InHistory(runs, run, thread) ==
  /\ run = 0 => \A k \in 1 .. Len(runs) : runs[k].outcome # "running"
  /\ run # 0 => \/ \E k \in 1 .. Len(runs) : runs[k].outcome = "running"
                \/ /\ Len(runs) = Keep
                   /\ \A k \in 1 .. Len(runs) : runs[k].id > run
  /\ \A k \in 1 .. Len(runs) : runs[k].outcome = "running" =>
       runs[k].id = run /\ runs[k].thread = thread

HistoryInv ==
  /\ Ordered(routine.runs, Len(firings)) /\ active.run \in 0 .. Len(firings)
  /\ InHistory(routine.runs, active.run, active.thread)

\* What fireLocked keeps: the new entry and the latest before it.
Keeps(all) == IF Len(all) > Keep THEN Tail(all) ELSE all

LEMMA KeepsLatest ==
  ASSUME RoutinesConstants, NEW runs \in Seq(RunEntry), Len(runs) <= Keep,
         NEW e \in RunEntry
  PROVE  \E d \in {0, 1} :
           /\ Keeps(Append(runs, e)) \in Seq(RunEntry)
           /\ Len(Keeps(Append(runs, e))) = Len(runs) + 1 - d
           /\ Len(runs) + 1 - d <= Keep /\ (d = 1 => Len(runs) = Keep)
           /\ \A k \in 1 .. Len(runs) + 1 - d : Keeps(Append(runs, e))[k] =
                IF k + d <= Len(runs) THEN runs[k + d] ELSE e
<1>1. Keep \in Nat \ {0}
  BY DEF RoutinesConstants
<1>2. PICK n \in Nat : n = Len(runs)
  OBVIOUS
<1>3. PICK all : all = Append(runs, e)
  OBVIOUS
<1>4. /\ all \in Seq(RunEntry) /\ Len(all) = n + 1
      /\ \A k \in 1 .. n + 1 : all[k] = IF k <= n THEN runs[k] ELSE e
  BY <1>2, <1>3
<1>5. CASE n + 1 > Keep
  <2>1. Keeps(all) = Tail(all) /\ n = Keep
    BY <1>1, <1>2, <1>4, <1>5 DEF Keeps
  <2>2. /\ Tail(all) \in Seq(RunEntry) /\ Len(Tail(all)) = n
        /\ \A k \in 1 .. n : Tail(all)[k] = all[k + 1]
    BY <1>4
  <2>3. \A k \in 1 .. n : k + 1 \in 1 .. n + 1
    OBVIOUS
  <2> QED
    BY <1>1, <1>2, <1>3, <1>4, <2>1, <2>2, <2>3
<1>6. CASE ~(n + 1 > Keep)
  <2>1. Keeps(all) = all
    BY <1>4, <1>6 DEF Keeps
  <2> QED
    BY <1>1, <1>2, <1>3, <1>4, <1>6, <2>1
<1> QED
  BY <1>5, <1>6

\* A firing joins the history, and is the active run if it is one.
LEMMA JoinsHistory ==
  ASSUME RoutinesConstants, NEW n \in Nat, NEW runs, Ordered(runs, n),
         NEW run \in 0 .. n, NEW thread, InHistory(runs, run, thread),
         NEW e \in RunEntry, e.id = n + 1
  PROVE  /\ Ordered(Keeps(Append(runs, e)), n + 1)
         /\ e.outcome # "running" =>
              InHistory(Keeps(Append(runs, e)), run, thread)
         /\ e.outcome = "running" /\ run = 0 =>
              InHistory(Keeps(Append(runs, e)), n + 1, e.thread)
<1>1. runs \in Seq(RunEntry) /\ Len(runs) <= Keep
  BY DEF Ordered
<1>2. PICK m \in Nat : m = Len(runs)
  BY <1>1
<1>3. PICK kept : kept = Keeps(Append(runs, e))
  OBVIOUS
<1>4. PICK d \in {0, 1} :
        /\ kept \in Seq(RunEntry) /\ Len(kept) = m + 1 - d
        /\ m + 1 - d <= Keep /\ (d = 1 => m = Keep)
        /\ \A k \in 1 .. m + 1 - d :
             kept[k] = IF k + d <= m THEN runs[k + d] ELSE e
  <2>1. \E d \in {0, 1} :
          /\ Keeps(Append(runs, e)) \in Seq(RunEntry)
          /\ Len(Keeps(Append(runs, e))) = Len(runs) + 1 - d
          /\ Len(runs) + 1 - d <= Keep /\ (d = 1 => Len(runs) = Keep)
          /\ \A k \in 1 .. Len(runs) + 1 - d : Keeps(Append(runs, e))[k] =
               IF k + d <= Len(runs) THEN runs[k + d] ELSE e
    BY <1>1, KeepsLatest
  <2> QED
    BY <1>2, <1>3, <2>1
<1>5. /\ \A k \in 1 .. m + 1 - d :
           \/ k + d \in 1 .. m /\ kept[k] = runs[k + d]
           \/ k = m + 1 - d /\ kept[k] = e
      /\ m + 1 - d \in 1 .. m + 1 - d \/ m + 1 - d = 0
  BY <1>4
<1>6. \A k \in 1 .. m : runs[k].id \in Nat /\ runs[k].id <= n
  <2>1. \A k \in 1 .. m : runs[k] \in RunEntry
    BY <1>1, <1>2
  <2>2. \A k \in 1 .. m : runs[k].id \in Nat
    BY <2>1 DEF RunEntry, Ids
  <2>3. \A k \in 1 .. m : runs[k].id <= n
    BY <1>2 DEF Ordered
  <2> QED
    BY <2>2, <2>3
<1>7. Ordered(kept, n + 1)
  <2>1. \A k \in 1 .. m + 1 - d : kept[k].id <= n + 1
    BY <1>5, <1>6
  <2>2. ASSUME NEW j \in 1 .. m + 1 - d, NEW k \in 1 .. m + 1 - d, j < k
        PROVE  kept[j].id < kept[k].id
    <3>1. j + d \in 1 .. m /\ kept[j] = runs[j + d]
      BY <1>5, <2>2
    <3>2. CASE k + d \in 1 .. m /\ kept[k] = runs[k + d]
      <4>1. j + d < k + d
        BY <2>2
      <4>2. \A i, l \in 1 .. m : i < l => runs[i].id < runs[l].id
        BY <1>2 DEF Ordered
      <4> QED
        BY <3>1, <3>2, <4>1, <4>2
    <3>3. CASE k = m + 1 - d /\ kept[k] = e
      BY <1>6, <3>1, <3>3
    <3> QED
      BY <1>5, <3>2, <3>3
  <2> QED
    BY <1>4, <2>1, <2>2 DEF Ordered
<1>8. ASSUME e.outcome # "running"
      PROVE  InHistory(kept, run, thread)
  <2>1. ASSUME NEW k \in 1 .. m + 1 - d, kept[k].outcome = "running"
        PROVE  /\ run # 0
               /\ kept[k].id = run /\ kept[k].thread = thread
    BY <1>2, <1>5, <1>8, <2>1 DEF InHistory
  <2>2. ASSUME run # 0, \A k \in 1 .. m + 1 - d : kept[k].outcome # "running"
        PROVE  m + 1 - d = Keep /\ \A k \in 1 .. m + 1 - d : kept[k].id > run
    <3>1. CASE \E k \in 1 .. m : runs[k].outcome = "running"
      <4>1. PICK k \in 1 .. m : runs[k].outcome = "running" /\ runs[k].id = run
        BY <1>2, <3>1 DEF InHistory
      <4>2. d = 1 /\ k = 1
        <5>1. CASE k - d \in 1 .. m + 1 - d
          <6>1. (k - d) + d = k /\ k <= m
            BY <5>1
          <6>2. kept[k - d] = IF (k - d) + d <= m THEN runs[(k - d) + d] ELSE e
            BY <1>4, <5>1
          <6> QED
            BY <2>2, <4>1, <5>1, <6>1, <6>2
        <5> QED
          BY <5>1
      <4>3. \A j \in 1 .. m : j # 1 => runs[j].id > run
        BY <1>2, <1>6, <4>1, <4>2 DEF Ordered
      <4>4. \A j \in 1 .. m + 1 - d : j + d # 1
        BY <4>2
      <4>5. m + 1 - d = Keep /\ e.id > run
        BY <1>4, <4>2
      <4> QED
        BY <1>5, <4>3, <4>4, <4>5
    <3>2. CASE m = Keep /\ \A k \in 1 .. m : runs[k].id > run
      <4>1. d = 1
        BY <1>4, <3>2
      <4> QED
        BY <1>5, <3>2, <4>1
    <3> QED
      BY <1>2, <2>2, <3>1, <3>2 DEF InHistory
  <2> QED
    BY <1>4, <2>1, <2>2 DEF InHistory
<1>9. ASSUME e.outcome = "running", run = 0
      PROVE  InHistory(kept, n + 1, e.thread)
  <2>1. \A k \in 1 .. m + 1 - d : kept[k].outcome = "running" => kept[k] = e
    BY <1>2, <1>5, <1>9 DEF InHistory
  <2>2. \E k \in 1 .. m + 1 - d : kept[k] = e
    <3>1. m + 1 - d \in 1 .. m + 1 - d /\ ~((m + 1 - d) + d <= m)
      <4>1. Keep # 0
        BY DEF RoutinesConstants
      <4> QED
        BY <1>4, <4>1
    <3> QED
      BY <1>4, <3>1
  <2> QED
    <3>1. n + 1 # 0 /\ Len(kept) = m + 1 - d
      BY <1>4
    <3> QED
      BY <1>9, <2>1, <2>2, <3>1 DEF InHistory
<1> QED
  BY <1>3, <1>7, <1>8, <1>9

\* A change of the entries, not of which firings they are.
LEMMA SameFirings ==
  ASSUME NEW n \in Nat, NEW runs, Ordered(runs, n),
         NEW changed \in [1 .. Len(runs) -> RunEntry],
         \A k \in 1 .. Len(runs) : changed[k].id = runs[k].id
  PROVE  Ordered(changed, n) /\ Len(changed) = Len(runs)
<1>1. changed \in Seq(RunEntry) /\ Len(changed) = Len(runs)
  BY DEF Ordered
<1> QED
  BY <1>1 DEF Ordered

\* The active run ends.
LEMMA EndsInHistory ==
  ASSUME NEW n \in Nat, NEW runs, Ordered(runs, n), NEW run, NEW thread,
         InHistory(runs, run, thread), NEW how \in Ended
  PROVE  Ordered(EndedRun(runs, run, how), n) /\
         InHistory(EndedRun(runs, run, how), 0, FALSE)
<1>1. runs \in [1 .. Len(runs) -> RunEntry]
  BY DEF Ordered
<1>2. PICK changed : changed = EndedRun(runs, run, how)
  OBVIOUS
<1>3. /\ changed \in [1 .. Len(runs) -> RunEntry]
      /\ \A k \in 1 .. Len(runs) : /\ changed[k].id = runs[k].id
                                   /\ changed[k].outcome # "running"
  <2>1. ASSUME NEW k \in 1 .. Len(runs)
        PROVE  /\ [runs[k] EXCEPT !.outcome = how] \in RunEntry
               /\ [runs[k] EXCEPT !.outcome = how].id = runs[k].id
               /\ [runs[k] EXCEPT !.outcome = how].outcome = how
               /\ runs[k] \in RunEntry
    BY <1>1 DEF RunEntry, Ended
  <2>2. \A k \in 1 .. Len(runs) :
          changed[k] = IF runs[k].id = run THEN [runs[k] EXCEPT !.outcome = how]
                       ELSE runs[k]
    BY <1>1, <1>2 DEF EndedRun
  <2>3. DOMAIN changed = 1 .. Len(runs) /\ changed = [k \in 1 .. Len(runs) |-> changed[k]]
    BY <1>1, <1>2 DEF EndedRun
  <2>4. how # "running"
    BY DEF Ended
  <2> QED
    BY <2>1, <2>2, <2>3, <2>4 DEF InHistory
<1> QED
  BY <1>2, <1>3, SameFirings DEF InHistory

\* The active run's Thread is recorded.
LEMMA RecordsThread ==
  ASSUME NEW n \in Nat, Ordered(routine.runs, n), NEW run \in Ids, NEW thread,
         InHistory(routine.runs, run, thread)
  PROVE  Ordered(Recorded(run), n) /\ InHistory(Recorded(run), run, TRUE)
<1> DEFINE runs == routine.runs
<1>1. runs \in [1 .. Len(runs) -> RunEntry]
  BY DEF Ordered
<1>2. PICK changed : changed = Recorded(run)
  OBVIOUS
<1>3. /\ changed \in [1 .. Len(runs) -> RunEntry]
      /\ \A k \in 1 .. Len(runs) :
           /\ changed[k].id = runs[k].id /\ changed[k].outcome = runs[k].outcome
           /\ runs[k].id = run => changed[k].thread = TRUE
  <2>1. ASSUME NEW k \in 1 .. Len(runs)
        PROVE  /\ [runs[k] EXCEPT !.thread = TRUE] \in RunEntry
               /\ [runs[k] EXCEPT !.thread = TRUE].id = runs[k].id
               /\ [runs[k] EXCEPT !.thread = TRUE].outcome = runs[k].outcome
               /\ [runs[k] EXCEPT !.thread = TRUE].thread = TRUE
               /\ runs[k] \in RunEntry
    BY <1>1 DEF RunEntry
  <2>2. \A k \in 1 .. Len(runs) :
          changed[k] = IF runs[k].id = run THEN [runs[k] EXCEPT !.thread = TRUE]
                       ELSE runs[k]
    BY <1>1, <1>2 DEF Recorded
  <2>3. DOMAIN changed = 1 .. Len(runs) /\ changed = [k \in 1 .. Len(runs) |-> changed[k]]
    BY <1>1, <1>2 DEF Recorded
  <2> QED
    BY <2>1, <2>2, <2>3
<1>4. Ordered(changed, n) /\ Len(changed) = Len(runs)
  BY <1>3, SameFirings
<1>5. run # 0
  BY DEF Ids
<1> QED
  BY <1>2, <1>3, <1>4, <1>5 DEF InHistory

\* What a firing does to the history and the active run.
LEMMA FiresInHistory ==
  ASSUME RoutinesConstants, now \in Nat, firings \in Seq(Firing),
         NEW r, RoutineShape(r), NEW a, ActiveShape(a), NEW due \in Nat,
         Ordered(r.runs, Len(firings)), a.run \in 0 .. Len(firings),
         InHistory(r.runs, a.run, a.thread), Fires(r, a, due)
  PROVE  HistoryInv'
<1> DEFINE i == Len(firings) + 1
           runs == ~StillRunning(r, a) /\ ~LimitReached(r)
           e == [id |-> i, at |-> now, thread |-> FALSE,
                 outcome |-> IF runs THEN "running" ELSE "skipped"]
<1>1. /\ i <= MaxFirings
      /\ firings' = Append(firings, [at |-> now, due |-> due, ran |-> runs])
      /\ routine' = [r EXCEPT !.runs = Keeps(Append(r.runs, e))]
      /\ active' = IF runs THEN [NoRun EXCEPT !.run = i, !.at = now] ELSE a
  BY DEF Fires, Keeps
<1>2. Len(firings) \in Nat
  OBVIOUS
<1>3. i \in Ids
  BY <1>1, <1>2 DEF RoutinesConstants, Ids
<1>4. runs => a.run = 0
  BY DEF StillRunning
<1>5. Len(firings') = i
  BY <1>1
<1>6. /\ e.id = i /\ e.thread = FALSE
      /\ e.outcome = IF runs THEN "running" ELSE "skipped"
  OBVIOUS
<1>7. e \in RunEntry
  BY <1>3 DEF RunEntry, Outcomes
<1> HIDE DEF runs, e
<1>8. routine'.runs = Keeps(Append(r.runs, e))
  BY <1>1 DEF RoutineShape
<1>9. /\ Ordered(Keeps(Append(r.runs, e)), i)
      /\ ~runs => InHistory(Keeps(Append(r.runs, e)), a.run, a.thread)
      /\ runs => InHistory(Keeps(Append(r.runs, e)), i, e.thread)
  BY <1>2, <1>4, <1>6, <1>7, JoinsHistory
<1>10. CASE runs
  <2>1. active'.run = i /\ active'.thread = FALSE
    BY <1>1, <1>10 DEF NoRun
  <2>2. InHistory(routine'.runs, i, active'.thread)
    BY <1>6, <1>8, <1>9, <1>10, <2>1 DEF InHistory
  <2> QED
    BY <1>2, <1>5, <1>8, <1>9, <2>1, <2>2 DEF HistoryInv
<1>11. CASE ~runs
  <2>1. active' = a
    BY <1>1, <1>11
  <2> QED
    BY <1>2, <1>5, <1>8, <1>9, <1>11, <2>1 DEF HistoryInv
<1> QED
  BY <1>10, <1>11

\* What the outcome of a run can be.
LEMMA HowItEnds == CheckHow \in Ended \cup {""}
  BY DEF CheckHow, Outcome, EndedAs, Ended, Outcomes

\* The loop's check ends the active run, and then fires or not.
LEMMA CheckHistory ==
  ASSUME RoutinesConstants, Shapes, HistoryInv, Check
  PROVE  HistoryInv'
<1>1. /\ Ordered(CheckedRoutine.runs, Len(firings))
      /\ CheckedActive.run \in 0 .. Len(firings)
      /\ InHistory(CheckedRoutine.runs, CheckedActive.run, CheckedActive.thread)
  <2>1. Len(firings) \in Nat
    BY DEF Shapes
  <2>2. CASE CheckHow = ""
    <3>1. CheckedRoutine = routine
      BY <2>2 DEF CheckedRoutine
    <3> QED
      BY <2>2, <3>1, CheckDoes DEF HistoryInv
  <2>3. CASE CheckHow # ""
    <3>1. CheckHow \in Ended
      BY <2>3, HowItEnds
    <3>2. CheckedRoutine.runs = EndedRun(routine.runs, active.run, CheckHow)
      BY <2>3 DEF CheckedRoutine, Shapes, RoutineShape
    <3>3. CheckedActive.run = 0 /\ CheckedActive.thread = FALSE
      BY <2>3, CheckDoes, NoRunShape
    <3>4. Ordered(routine.runs, Len(firings)) /\
          InHistory(routine.runs, active.run, active.thread)
      BY DEF HistoryInv
    <3>5. Ordered(CheckedRoutine.runs, Len(firings)) /\
          InHistory(CheckedRoutine.runs, 0, FALSE)
      BY <2>1, <3>1, <3>2, <3>4, EndsInHistory
    <3>6. InHistory(CheckedRoutine.runs, 0, CheckedActive.thread)
      BY <3>5 DEF InHistory
    <3> QED
      BY <2>1, <3>3, <3>5, <3>6
  <2> QED
    BY <2>2, <2>3
<1>2. CASE /\ Due(CheckedRoutine)
           /\ Fires(Moved(CheckedRoutine), CheckedActive, CheckedRoutine.next)
  <2>1. RoutineShape(CheckedRoutine) /\ ActiveShape(CheckedActive)
          /\ CheckedRoutine.next \in Nat /\ CheckedRoutine.next <= now
    BY <1>2, CheckDoes DEF Due, Shapes
  <2>2. Moved(CheckedRoutine).runs = CheckedRoutine.runs
    BY <2>1 DEF Moved, RoutineShape
  <2>3. RoutineShape(Moved(CheckedRoutine))
    BY <2>1, MovedWell DEF Shapes
  <2>4. now \in Nat /\ firings \in Seq(Firing)
    BY DEF Shapes
  <2> QED
    BY <1>1, <1>2, <2>1, <2>2, <2>3, <2>4, FiresInHistory
<1>3. CASE routine' = CheckedRoutine /\ active' = CheckedActive /\ firings' = firings
  BY <1>1, <1>3 DEF HistoryInv
<1> QED
  BY <1>2, <1>3, CheckDoes

\* uam reads the history back: the run that goes on, if it has a Thread.
LEMMA LoadsHistory ==
  ASSUME NEW n \in Nat, NEW runs, Ordered(runs, n), NEW run \in 0 .. n,
         NEW thread \in BOOLEAN, InHistory(runs, run, thread)
  PROVE  /\ Ordered(LoadedRuns(runs), n)
         /\ LoadedActive(LoadedRuns(runs)).run \in 0 .. n
         /\ InHistory(LoadedRuns(runs), LoadedActive(LoadedRuns(runs)).run,
                      LoadedActive(LoadedRuns(runs)).thread)
<1>1. runs \in [1 .. Len(runs) -> RunEntry] /\ DOMAIN runs = 1 .. Len(runs)
  BY DEF Ordered
<1>2. PICK changed : changed = LoadedRuns(runs)
  OBVIOUS
<1>3. /\ changed \in [1 .. Len(runs) -> RunEntry]
      /\ \A k \in 1 .. Len(runs) :
           /\ changed[k].id = runs[k].id /\ changed[k].thread = runs[k].thread
           /\ changed[k].outcome =
                IF runs[k].outcome = "running" /\ NotStarted(runs, k)
                THEN "failed" ELSE runs[k].outcome
  <2>1. ASSUME NEW k \in 1 .. Len(runs)
        PROVE  /\ [runs[k] EXCEPT !.outcome = "failed"] \in RunEntry
               /\ [runs[k] EXCEPT !.outcome = "failed"].id = runs[k].id
               /\ [runs[k] EXCEPT !.outcome = "failed"].thread = runs[k].thread
               /\ [runs[k] EXCEPT !.outcome = "failed"].outcome = "failed"
               /\ runs[k] \in RunEntry
    BY <1>1 DEF RunEntry, Outcomes
  <2>2. \A k \in 1 .. Len(runs) : changed[k] =
          IF runs[k].outcome = "running" /\ NotStarted(runs, k)
          THEN [runs[k] EXCEPT !.outcome = "failed"] ELSE runs[k]
    BY <1>1, <1>2 DEF LoadedRuns
  <2>3. changed = [k \in 1 .. Len(runs) |-> changed[k]]
    BY <1>1, <1>2 DEF LoadedRuns
  <2> QED
    BY <2>1, <2>2, <2>3
<1>4. Ordered(changed, n) /\ Len(changed) = Len(runs)
  BY <1>3, SameFirings
<1>5. DOMAIN changed = 1 .. Len(runs)
  BY <1>3
<1>6. CASE \E k \in 1 .. Len(runs) : runs[k].outcome = "running" /\ thread
  <2>1. PICK k \in 1 .. Len(runs) : runs[k].outcome = "running"
    BY <1>6
  <2>2. /\ runs[k].id = run /\ runs[k].thread = TRUE
        /\ run # 0
    BY <1>6, <2>1 DEF InHistory
  <2>3. \A j \in 1 .. Len(runs) : runs[j].outcome = "running" => j = k
    <3>1. \A j \in 1 .. Len(runs) : runs[j].outcome = "running" => runs[j].id = run
      BY DEF InHistory
    <3>2. ASSUME NEW j \in 1 .. Len(runs), runs[j].outcome = "running"
          PROVE  j = k
      <4>1. run \in Nat /\ ~(run < run)
        OBVIOUS
      <4>2. ~(j < k) /\ ~(k < j)
        BY <2>2, <3>1, <3>2, <4>1 DEF Ordered
      <4>3. Len(runs) \in Nat
        BY DEF Ordered
      <4> QED
        BY <4>2, <4>3
    <3> QED
      BY <3>2
  <2>4. {j \in 1 .. Len(runs) : runs[j].outcome = "running"} = {k}
    BY <2>1, <2>3
  <2>5. k \in Int /\ \A j \in {k} : \A l \in {k} : l <= j
    BY DEF Ordered
  <2>6. Latest(runs) = k
    BY <1>1, <2>4, <2>5 DEF Latest
  <2>7. ~NotStarted(runs, k)
    BY <2>2, <2>6 DEF NotStarted
  <2>8. \A j \in 1 .. Len(runs) : changed[j].outcome = "running" <=> j = k
    BY <1>3, <2>1, <2>3, <2>7
  <2>9. {j \in 1 .. Len(runs) : changed[j].outcome = "running"} = {k}
    BY <2>8
  <2>10. Latest(changed) = k
    BY <1>5, <2>5, <2>9 DEF Latest
  <2>11. changed[k].id = run /\ changed[k].thread = TRUE
    BY <1>3, <2>2
  <2>12. LoadedActive(changed) =
           [NoRun EXCEPT !.run = run, !.thread = TRUE, !.at = changed[k].at]
    BY <1>5, <2>8, <2>10, <2>11 DEF LoadedActive
  <2>13. LoadedActive(changed).run = run /\ LoadedActive(changed).thread = TRUE
    BY <2>12 DEF NoRun
  <2>14. InHistory(changed, run, TRUE)
    BY <1>4, <2>2, <2>8, <2>11 DEF InHistory
  <2> QED
    BY <1>2, <1>4, <2>13, <2>14
<1>7. CASE ~\E k \in 1 .. Len(runs) : runs[k].outcome = "running" /\ thread
  <2>1. \A k \in 1 .. Len(runs) : runs[k].outcome = "running" => NotStarted(runs, k)
    BY <1>7 DEF InHistory, NotStarted
  <2>2. \A k \in 1 .. Len(runs) : changed[k].outcome # "running"
    BY <1>3, <2>1
  <2>3. LoadedActive(changed) = NoRun
    BY <1>5, <2>2 DEF LoadedActive
  <2>4. LoadedActive(changed).run = 0
    BY <2>3, NoRunShape
  <2>5. InHistory(changed, 0, LoadedActive(changed).thread)
    BY <1>4, <2>2 DEF InHistory
  <2> QED
    BY <1>2, <1>4, <2>4, <2>5
<1> QED
  BY <1>6, <1>7

\* A step that leaves the history and the active run.
LEMMA StillInHistory ==
  ASSUME HistoryInv, UNCHANGED <<active, firings>>, routine'.runs = routine.runs
  PROVE  HistoryInv'
  BY DEF HistoryInv

LEMMA HistoryKept ==
  ASSUME RoutinesConstants, Shapes, HistoryInv, active.thread \in BOOLEAN,
         [Next]_vars
  PROVE  HistoryInv' /\ active'.thread \in BOOLEAN
<1>1. ASSUME NEW i \in Ids, StartStep(i)
      PROVE  HistoryInv'
  <2>1. firings' = firings /\ Len(firings) \in Nat
    BY <1>1 DEF StartStep, Registers, CreateFails, Sends, Records, Shapes
  <2>2. /\ Ordered(routine.runs, Len(firings))
        /\ InHistory(routine.runs, active.run, active.thread)
    BY DEF HistoryInv
  <2>3. CASE UNCHANGED <<routine, active>>
    BY <2>1, <2>3, StillInHistory
  <2>4. CASE Records(i) /\ active.run = i /\ ~UNCHANGED <<routine, active>>
    <3>1. routine'.runs = Recorded(i)
      BY <2>4 DEF Records, Shapes, RoutineShape
    <3>2. active'.run = i /\ active'.thread = TRUE
      BY <2>4 DEF Records, Shapes, ActiveShape
    <3>3. Ordered(Recorded(i), Len(firings)) /\ InHistory(Recorded(i), i, TRUE)
      BY <2>1, <2>2, <2>4, RecordsThread
    <3>4. InHistory(routine'.runs, i, active'.thread)
      BY <3>1, <3>2, <3>3 DEF InHistory
    <3> QED
      BY <2>1, <2>4, <3>1, <3>2, <3>3, <3>4 DEF HistoryInv
  <2>5. CASE CreateFails(i) /\ active.run = i /\ ~UNCHANGED <<routine, active>>
    <3>1. routine'.runs = EndedRun(routine.runs, i, "failed")
      BY <2>5 DEF CreateFails, Shapes, RoutineShape
    <3>2. active'.run = 0
      BY <2>5, NoRunShape DEF CreateFails
    <3>3. "failed" \in Ended
      BY DEF Ended, Outcomes
    <3>4. Ordered(routine'.runs, Len(firings)) /\ InHistory(routine'.runs, 0, FALSE)
      BY <2>1, <2>2, <2>5, <3>1, <3>3, EndsInHistory
    <3>5. InHistory(routine'.runs, 0, active'.thread)
      BY <3>4 DEF InHistory
    <3> QED
      BY <2>1, <3>2, <3>4, <3>5 DEF HistoryInv
  <2> QED
    BY <1>1, <2>3, <2>4, <2>5
       DEF StartStep, Registers, CreateFails, Sends, Records
<1>2. ASSUME RunNow
      PROVE  HistoryInv'
  <2>1. Fires(routine, active, 0) /\ 0 \in Nat
    BY <1>2 DEF RunNow
  <2>2. /\ now \in Nat /\ firings \in Seq(Firing)
        /\ RoutineShape(routine) /\ ActiveShape(active)
    BY DEF Shapes
  <2>3. /\ Ordered(routine.runs, Len(firings)) /\ active.run \in 0 .. Len(firings)
        /\ InHistory(routine.runs, active.run, active.thread)
    BY DEF HistoryInv
  <2> QED
    BY <2>1, <2>2, <2>3, FiresInHistory
<1>3. ASSUME Forgets
      PROVE  HistoryInv'
  <2>1. routine'.runs = <<>> /\ active' = NoRun /\ firings' = firings
    BY <1>3 DEF Forgets, ownerOnly, Shapes, RoutineShape
  <2>2. Ordered(<<>>, Len(firings)) /\ InHistory(<<>>, 0, active'.thread)
    BY DEF Ordered, InHistory, RoutinesConstants
  <2>3. active'.run = 0 /\ 0 \in 0 .. Len(firings)
    BY <2>1, NoRunShape DEF Shapes
  <2>4. InHistory(routine'.runs, active'.run, active'.thread)
    BY <2>1, <2>2, <2>3 DEF InHistory
  <2>5. Ordered(routine'.runs, Len(firings'))
    BY <2>1, <2>2
  <2> QED
    BY <2>1, <2>3, <2>4, <2>5 DEF HistoryInv
<1>4. ASSUME NEW enabled \in BOOLEAN, NEW kind \in Kinds, Updates(enabled, kind)
      PROVE  HistoryInv'
  <2>1. routine'.runs = routine.runs /\ UNCHANGED <<active, firings>>
    BY <1>4 DEF Updates, ownerOnly, Shapes, RoutineShape
  <2> QED
    BY <2>1, StillInHistory
<1>5. ASSUME Restarts
      PROVE  HistoryInv'
  <2>1. PICK lost \in SUBSET Lost, old \in {"idle", "working"} : Restart(lost, old)
    BY <1>5 DEF Restarts
  <2>2. /\ routine'.runs = LoadedRuns(routine.runs)
        /\ active' = LoadedActive(LoadedRuns(routine.runs)) /\ firings' = firings
    BY <2>1 DEF Restart, Shapes, RoutineShape
  <2>3. /\ Ordered(routine.runs, Len(firings)) /\ active.run \in 0 .. Len(firings)
        /\ InHistory(routine.runs, active.run, active.thread)
        /\ Len(firings) \in Nat
    BY DEF HistoryInv, Shapes
  <2>4. PICK t \in BOOLEAN : InHistory(routine.runs, active.run, t)
    BY <2>3
  <2>5. PICK loaded : loaded = LoadedActive(LoadedRuns(routine.runs))
    OBVIOUS
  <2>6. /\ Ordered(LoadedRuns(routine.runs), Len(firings))
        /\ loaded.run \in 0 .. Len(firings)
        /\ InHistory(LoadedRuns(routine.runs), loaded.run, loaded.thread)
    BY <2>3, <2>4, <2>5, LoadsHistory
  <2> QED
    BY <2>2, <2>5, <2>6 DEF HistoryInv
<1>6. ASSUME UNCHANGED <<routine, active, firings>>
      PROVE  HistoryInv'
  BY <1>6, StillInHistory
<1>7. HistoryInv'
  <2>1. CASE Tick \/ LoopStarts \/ Shutdown \/ UNCHANGED vars
    BY <1>6, <2>1 DEF Tick, LoopStarts, Shutdown, vars
  <2>2. ASSUME NEW i \in Ids,
               TurnEnds(i) \/ LateTurn(i) \/ OwnerPrompts(i) \/ Deletes(i)
        PROVE  HistoryInv'
    BY <1>6, <2>2 DEF TurnEnds, LateTurn, OwnerPrompts, Deletes, threadOnly
  <2> QED
    BY <1>1, <1>2, <1>3, <1>4, <1>5, <2>1, <2>2, CheckHistory DEF Next
<1>8. active'.thread \in BOOLEAN
  <2>1. CASE UNCHANGED active
    BY <2>1
  <2>2. CASE active' = NoRun
    BY <2>2 DEF NoRun
  <2>3. CASE active'.thread = FALSE \/ active'.thread = TRUE
    BY <2>3
  <2>4. CASE Check
    <3>1. CheckedActive.thread \in BOOLEAN
      BY <2>4, CheckDoes, NoRunShape
    <3> QED
      BY <2>3, <2>4, <3>1, CheckDoes, MovedWell, FiresWell DEF Due, Shapes
  <2>5. CASE RunNow
    BY <2>3, <2>5, FiresWell DEF RunNow, Shapes
  <2>6. ASSUME NEW i \in Ids, StartStep(i)
        PROVE  active'.thread \in BOOLEAN
    BY <2>1, <2>2, <2>6
       DEF StartStep, Registers, CreateFails, Sends, Records, Shapes,
           ActiveShape
  <2>7. CASE Restarts
    BY <2>7 DEF Restarts, Restart, LoadedActive, NoRun
  <2>8. CASE Tick \/ LoopStarts \/ Shutdown \/ Forgets \/ UNCHANGED vars
    BY <2>1, <2>2, <2>8 DEF Tick, LoopStarts, Shutdown, Forgets, vars
  <2>9. ASSUME NEW i \in Ids,
               TurnEnds(i) \/ LateTurn(i) \/ OwnerPrompts(i) \/ Deletes(i)
        PROVE  active'.thread \in BOOLEAN
    BY <2>1, <2>9 DEF TurnEnds, LateTurn, OwnerPrompts, Deletes, threadOnly
  <2>10. ASSUME NEW enabled \in BOOLEAN, NEW kind \in Kinds, Updates(enabled, kind)
         PROVE  active'.thread \in BOOLEAN
    BY <2>1, <2>10 DEF Updates
  <2> QED
    BY <2>4, <2>5, <2>6, <2>7, <2>8, <2>9, <2>10 DEF Next
<1> QED
  BY <1>7, <1>8

\* Whatever starts, is skipped, ends, fails or is deleted, and after every
\* restart, the run that the scheduler waits for is the one the history shows,
\* with its Thread, unless later firings have filled it (fireLocked,
\* loadRoutines).
THEOREM ActiveRunIsRecorded == Spec => []ActiveIsRecorded
<1>1. Init => Shapes /\ HistoryInv /\ active.thread \in BOOLEAN
  <2> SUFFICES ASSUME Init PROVE HistoryInv /\ active.thread \in BOOLEAN
    BY RoutinesConstants, InitShapes
  <2>1. routine.runs = <<>> /\ active = NoRun /\ firings = <<>>
    BY DEF Init
  <2>2. Ordered(<<>>, 0) /\ InHistory(<<>>, 0, active.thread)
    BY RoutinesConstants DEF Ordered, InHistory, RoutinesConstants
  <2>3. active.run = 0 /\ active.thread \in BOOLEAN /\ Len(firings) = 0
    BY <2>1 DEF NoRun
  <2> QED
    BY <2>1, <2>2, <2>3 DEF HistoryInv
<1>2. /\ Shapes /\ HistoryInv /\ active.thread \in BOOLEAN /\ [Next]_vars
      => (Shapes /\ HistoryInv /\ active.thread \in BOOLEAN)'
  BY RoutinesConstants, ShapesKept, HistoryKept
<1>3. HistoryInv => ActiveIsRecorded
  <2> SUFFICES ASSUME HistoryInv PROVE ActiveIsRecorded
    OBVIOUS
  <2>1. DOMAIN routine.runs = 1 .. Len(routine.runs)
    BY DEF HistoryInv, Ordered
  <2> QED
    BY <2>1 DEF HistoryInv, InHistory, ActiveIsRecorded, Going, Outnumbered
<1> QED
  BY <1>1, <1>2, <1>3, PTL DEF Spec

-----------------------------------------------------------------------------
(***************************************************************************)
(* The wrap-up of the module Budget.  The argument: a wrap-up begins with  *)
(* its flag saved and is let go with the flag, in one section; and only the *)
(* wrap-up that goes on writes the handoff, as none of an earlier one is   *)
(* left when it begins (Inv).                                              *)
(***************************************************************************)
CONSTANTS WrapCalls, MaxWraps, MaxSets, Background
VARIABLES budget, over, wrap, wraps, handoff, fresh, stopping, conv, base, live,
          floating, sender, sets

B == INSTANCE Budget

\* The types, by who writes them.
FieldsTyped ==
  /\ budget \in [set : BOOLEAN, reached : BOOLEAN, wrapUp : BOOLEAN]
  /\ over \in BOOLEAN /\ wrap \in 0..MaxWraps
  /\ handoff \in B!Endings /\ fresh \in B!Replies
  /\ stopping \in {"idle", "begun", "cancelling"}
ThreadTyped ==
  /\ conv \in BOOLEAN /\ base \in {"ready", "working"}
  /\ {live, floating} \subseteq {"none", "owner", "prompt", "own"}
  /\ sender \in [who : {"none", "owner", "prompt"}, of : 0..MaxWraps,
                 at : B!SendSteps]
  /\ sets \in 0..MaxSets

\* A wrap-up that is done was begun, and facts are read for one that is done.
Sound(r) ==
  /\ r \in B!Wrap /\ (r.done => r.begun)
  /\ r.ending # "none" => r.done
WrapsSound(ws) ==
  /\ ws \in [B!Wraps -> B!Wrap]
  /\ \A w \in B!Wraps : Sound(ws[w])

\* The Thread's wrap-up goes on, or its facts are being read: FactsRead, which
\* alone lets go of it, is still to come.
NotLeft(r) == r.begun /\ (r.done => r.ending # "none")
WrapEnds == wrap # 0 => NotLeft(wraps[wrap])

PromptHasWrap == sender.who = "prompt" => sender.of # 0

Inv == /\ FieldsTyped /\ ThreadTyped /\ WrapsSound(wraps)
       /\ PromptHasWrap /\ WrapEnds /\ B!WrapUpIsReal /\ B!HandoffIsCurrent

-----------------------------------------------------------------------------
(* The wrap-ups a step writes.                                             *)

LEMMA NothingYet ==
  ASSUME B!BudgetConstants
  PROVE  /\ 0 \in 0..WrapCalls /\ 0 \in 0..MaxWraps /\ 0 \in 0..MaxSets
         /\ B!NoSend \in [who : {"none", "owner", "prompt"}, of : 0..MaxWraps,
                        at : B!SendSteps]
<1>1. /\ 0 \in 0..WrapCalls /\ 0 \in 0..MaxWraps /\ 0 \in 0..MaxSets
  BY DEF B!BudgetConstants
<1> QED
  BY <1>1 DEF B!NoSend, B!SendSteps

LEMMA NextIsUnused ==
  ASSUME B!BudgetConstants,
         B!Unused # {} PROVE B!Next1 \in B!Unused
<1>1. B!Unused \subseteq Nat
  BY DEF B!Unused, B!Wraps, B!BudgetConstants
<1>2. \E w \in B!Unused : \A v \in B!Unused : ~(<<v, w>> \in OpToRel(<, Nat))
  BY <1>1, WFMin, NatLessThanWellFounded
<1>3. PICK w \in B!Unused : \A v \in B!Unused : ~(<<v, w>> \in OpToRel(<, Nat))
  BY <1>2
<1>4. ASSUME NEW v \in B!Unused PROVE w <= v
  <2>1. v \in Nat /\ w \in Nat
    BY <1>1
  <2>2. <<v, w>> \notin OpToRel(<, Nat)
    BY <1>3
  <2>3. ~(v < w)
    BY <2>1, <2>2 DEF OpToRel
  <2> QED
    BY <2>1, <2>3
<1> QED
  BY <1>3, <1>4 DEF B!Next1

\* One wrap-up is written, and a sound one stays sound.
LEMMA OneWritten ==
  ASSUME NEW ws, WrapsSound(ws), NEW w \in B!Wraps, NEW r, Sound(r),
         wraps' = [ws EXCEPT ![w] = r]
  PROVE  /\ WrapsSound(wraps)' /\ wraps'[w] = r
         /\ \A v \in B!Wraps \ {w} : wraps'[v] = ws[v]
BY DEF WrapsSound, Sound, B!Wraps, B!Wrap, B!Unborn, B!Endings, B!Replies

LEMMA SoundFields ==
  ASSUME NEW r, Sound(r)
  PROVE  /\ r \in B!Wrap
         /\ Sound([r EXCEPT !.timer = FALSE])
         /\ Sound([r EXCEPT !.timer = TRUE])
         /\ Sound([r EXCEPT !.asked = FALSE])
         /\ Sound([r EXCEPT !.told = TRUE])
         /\ Sound([r EXCEPT !.stop = TRUE])
         /\ Sound([r EXCEPT !.started = TRUE])
         /\ Sound([r EXCEPT !.ending = "none"])
         /\ Sound([r EXCEPT !.prompted = TRUE, !.told = TRUE, !.asked = TRUE])
BY DEF Sound, B!Wrap, B!Endings, B!Replies

LEMMA NotLeftFields ==
  ASSUME NEW r \in B!Wrap, NotLeft(r)
  PROVE  /\ NotLeft([r EXCEPT !.timer = FALSE])
         /\ NotLeft([r EXCEPT !.timer = TRUE])
         /\ NotLeft([r EXCEPT !.asked = FALSE])
         /\ NotLeft([r EXCEPT !.told = TRUE])
         /\ NotLeft([r EXCEPT !.stop = TRUE])
         /\ NotLeft([r EXCEPT !.started = TRUE])
         /\ NotLeft([r EXCEPT !.prompted = TRUE, !.told = TRUE,
                               !.asked = TRUE])
BY DEF NotLeft, B!Wrap

LEMMA FinishedSound ==
  ASSUME B!BudgetConstants,
         NEW ws, WrapsSound(ws), NEW w \in B!Wraps,
         NEW how \in B!Endings \ {"none"}, wraps' = B!Finished(ws, w, how)
  PROVE  /\ WrapsSound(wraps)' /\ NotLeft(wraps'[w])
         /\ \A v \in B!Wraps \ {w} : wraps'[v] = ws[v]
<1> DEFINE r == [B!Unborn EXCEPT !.begun = TRUE, !.done = TRUE,
                               !.asked = ws[w].asked, !.ending = how]
<1>1. ws[w].asked \in BOOLEAN
  BY DEF WrapsSound, B!Wrap
<1>2. Sound(r) /\ NotLeft(r)
  BY <1>1, NothingYet
     DEF Sound, NotLeft, B!Unborn, B!Wrap, B!Endings, B!Replies
<1>3. wraps' = [ws EXCEPT ![w] = r]
  BY DEF B!Finished
<1> HIDE DEF r
<1> QED
  BY <1>2, <1>3, OneWritten DEF WrapsSound

\* Whatever a step makes of the wrap-up that goes on, the others stay.
LEMMA SameWrap ==
  ASSUME Inv, UNCHANGED <<wrap, budget, handoff>>,
         wrap # 0 => NotLeft(wraps'[wrap])
  PROVE  WrapEnds' /\ B!WrapUpIsReal' /\ B!HandoffIsCurrent'
BY DEF Inv, WrapEnds, B!WrapUpIsReal, B!HandoffIsCurrent

LEMMA WrapCheckKeeps ==
  ASSUME B!BudgetConstants,
         Inv, NEW b \in [set : BOOLEAN, reached : BOOLEAN, wrapUp : BOOLEAN],
         NEW isOver \in BOOLEAN, NEW current \in {0, wrap},
         b.wrapUp <=> current # 0, NEW ws, WrapsSound(ws),
         current # 0 => NotLeft(ws[current]),
         B!Unused # {} => ~ws[B!Next1].begun,
         over' = isOver, B!CheckBudget(b, isOver, current, ws), UNCHANGED handoff
  PROVE  /\ FieldsTyped' /\ WrapsSound(wraps)' /\ WrapEnds'
         /\ B!WrapUpIsReal' /\ B!HandoffIsCurrent'
<1> DEFINE reached == b.reached \/ isOver
           acts == /\ reached /\ stopping = "idle" /\ current = 0
                   /\ ~b.wrapUp /\ conv
           wrapsUp == acts /\ B!MayWrapUp
<1>1. /\ wrapsUp => B!Unused # {} /\ handoff = "none" /\ current = 0
      /\ budget' = [b EXCEPT !.reached = reached,
                             !.wrapUp = b.wrapUp \/ wrapsUp]
      /\ wrapsUp =>
           /\ wrap' = B!Next1 /\ wraps' = [ws EXCEPT ![B!Next1].begun = TRUE]
                    /\ fresh' = "none"
      /\ ~wrapsUp => wrap' = current /\ wraps' = ws /\ fresh' = fresh
      /\ stopping' \in {"begun", stopping}
  BY DEF B!CheckBudget, B!MayWrapUp
<1>2. budget' \in [set : BOOLEAN, reached : BOOLEAN, wrapUp : BOOLEAN]
  <2>1. wrapsUp \in BOOLEAN /\ reached \in BOOLEAN
    OBVIOUS
  <2> HIDE DEF wrapsUp, reached
  <2> QED
    BY <1>1, <2>1
<1>3. budget'.wrapUp <=> b.wrapUp \/ wrapsUp
  <2> HIDE DEF wrapsUp, reached
  <2> QED
    BY <1>1
<1> HIDE DEF wrapsUp
<1>4. CASE wrapsUp
  <2> DEFINE r == [ws[B!Next1] EXCEPT !.begun = TRUE]
  <2>1. B!Next1 \in B!Wraps
    BY <1>1, <1>4, NextIsUnused DEF B!Unused
  <2>2. Sound(r) /\ NotLeft(r)
    BY <1>1, <1>4, <2>1 DEF WrapsSound, Sound, NotLeft, B!Wrap
  <2>3. wraps' = [ws EXCEPT ![B!Next1] = r]
    BY <1>1, <1>4
  <2> HIDE DEF r
  <2>4. WrapsSound(wraps)' /\ wraps'[B!Next1] = r
    BY <2>1, <2>2, <2>3, OneWritten
  <2>5. wrap' \in 1..MaxWraps /\ fresh' = "none"
    BY <1>1, <1>4, <2>1 DEF B!Wraps
  <2> QED
    BY <1>1, <1>2, <1>3, <1>4, <2>2, <2>4, <2>5
       DEF Inv, FieldsTyped, WrapEnds, B!WrapUpIsReal, B!HandoffIsCurrent,
           B!Replies
<1>5. CASE ~wrapsUp
  <2>1. wrap' = current /\ wraps' = ws /\ fresh' = fresh
    BY <1>1, <1>5
  <2>2. FieldsTyped'
    BY <1>1, <1>2, <2>1, NothingYet DEF Inv, FieldsTyped
  <2>3. B!WrapUpIsReal' /\ B!HandoffIsCurrent'
    BY <1>3, <1>5, <2>1 DEF Inv, B!WrapUpIsReal, B!HandoffIsCurrent
  <2>4. WrapsSound(wraps)' /\ WrapEnds'
    BY <2>1 DEF WrapsSound, WrapEnds
  <2> QED
    BY <2>2, <2>3, <2>4
<1> QED
  BY <1>4, <1>5

-----------------------------------------------------------------------------
(* The actions keep the invariant.                                         *)

LEMMA NextIsUnbegun ==
  ASSUME B!BudgetConstants,
         B!Unused # {}
  PROVE  B!Next1 \in B!Wraps /\ ~wraps[B!Next1].begun
BY NextIsUnused DEF B!Unused

LEMMA SpendsKeeps ==
  ASSUME B!BudgetConstants,
         Inv, B!Spends PROVE Inv'
<1>1. /\ budget \in [set : BOOLEAN, reached : BOOLEAN, wrapUp : BOOLEAN]
      /\ WrapsSound(wraps) /\ (budget.wrapUp <=> wrap # 0)
      /\ wrap # 0 => NotLeft(wraps[wrap])
  BY DEF Inv, FieldsTyped, B!WrapUpIsReal, WrapEnds
<1>2. /\ FieldsTyped' /\ WrapsSound(wraps)' /\ WrapEnds'
      /\ B!WrapUpIsReal' /\ B!HandoffIsCurrent'
  BY <1>1, WrapCheckKeeps, NextIsUnbegun DEF B!Spends
<1> QED
  BY <1>2 DEF Inv, B!Spends, B!threadVars, ThreadTyped, PromptHasWrap

LEMMA SetsKeeps ==
  ASSUME B!BudgetConstants,
         Inv, NEW set \in BOOLEAN, NEW isOver \in BOOLEAN, B!Sets(set, isOver)
  PROVE  Inv'
<1> DEFINE r == B!Dropped(wraps[wrap])
           ws == IF wrap = 0 THEN wraps ELSE [wraps EXCEPT ![wrap] = r]
           b == B!NewBudget(set)
<1>1. /\ b \in [set : BOOLEAN, reached : BOOLEAN, wrapUp : BOOLEAN]
      /\ ~b.wrapUp
  BY DEF B!NewBudget, B!NoBudget
<1>2. WrapsSound(ws) /\ (B!Unused # {} => ~ws[B!Next1].begun)
  <2>1. WrapsSound(wraps) /\ (wrap # 0 => wrap \in B!Wraps /\ wraps[wrap].begun)
    BY DEF Inv, FieldsTyped, B!Wraps, WrapEnds, NotLeft
  <2>2. ASSUME wrap # 0 PROVE Sound(r)
    <3>1. Sound(wraps[wrap])
      BY <2>1, <2>2 DEF WrapsSound
    <3> QED
      BY <3>1, NothingYet
         DEF B!Dropped, Sound, B!Wrap, B!Unborn, B!Endings, B!Replies
  <2> HIDE DEF r
  <2>3. WrapsSound(ws)
    BY <2>1, <2>2 DEF WrapsSound, Sound
  <2>4. B!Unused # {} => B!Next1 # wrap \/ wrap = 0
    BY <2>1, NextIsUnused DEF B!Unused
  <2> QED
    BY <2>1, <2>3, <2>4, NextIsUnbegun DEF WrapsSound
<1>3. B!CheckBudget(b, isOver, 0, ws) /\ over' = isOver /\ UNCHANGED handoff
  BY DEF B!Sets
<1> HIDE DEF b, ws
<1>4. /\ FieldsTyped' /\ WrapsSound(wraps)' /\ WrapEnds'
      /\ B!WrapUpIsReal' /\ B!HandoffIsCurrent'
  BY <1>1, <1>2, <1>3, WrapCheckKeeps
<1>5. sets' \in 0..MaxSets
  BY DEF B!Sets, Inv, ThreadTyped, B!BudgetConstants
<1> QED
  BY <1>4, <1>5 DEF Inv, B!Sets, B!threadVars, ThreadTyped, PromptHasWrap

LEMMA GoingIsSound ==
  ASSUME Inv, wrap # 0
  PROVE  /\ wrap \in B!Wraps /\ Sound(wraps[wrap]) /\ NotLeft(wraps[wrap])
         /\ wraps[wrap].begun /\ wraps[wrap] \in B!Wrap
BY DEF Inv, FieldsTyped, B!Wraps, WrapsSound, WrapEnds, NotLeft

\* A step that writes one field of the wrap-up that goes on.
LEMMA GoingWritten ==
  ASSUME Inv, wrap # 0, NEW r, Sound(r), NotLeft(r),
         wraps' = [wraps EXCEPT ![wrap] = r]
  PROVE  WrapsSound(wraps)' /\ NotLeft(wraps'[wrap])
BY GoingIsSound, OneWritten DEF Inv

LEMMA DeniedKeeps == ASSUME Inv, B!Denied PROVE Inv'
<1>1. /\ wrap # 0
      /\ wraps' = [wraps EXCEPT ![wrap] = [wraps[wrap] EXCEPT !.told = TRUE]]
  BY DEF B!Denied, B!Going
<1>2. WrapsSound(wraps)' /\ NotLeft(wraps'[wrap])
  BY <1>1, GoingIsSound, SoundFields, NotLeftFields, GoingWritten
<1>3. WrapEnds' /\ B!WrapUpIsReal' /\ B!HandoffIsCurrent'
  BY <1>2, SameWrap DEF B!Denied
<1> QED
  BY <1>2, <1>3
     DEF Inv, B!Denied, B!threadVars, FieldsTyped, ThreadTyped, PromptHasWrap

LEMMA WritesKeeps == ASSUME Inv, B!Writes PROVE Inv'
BY DEF Inv, B!Writes, B!threadVars, FieldsTyped, ThreadTyped, PromptHasWrap,
       B!Replies, WrapEnds, B!WrapUpIsReal, B!HandoffIsCurrent

LEMMA CallsKeeps ==
  ASSUME B!BudgetConstants,
         Inv, B!Calls PROVE Inv'
<1> DEFINE past == B!PastLast(wrap)
           r == [wraps[wrap] EXCEPT !.calls = IF past THEN @ ELSE @ + 1,
                                    !.stop = @ \/ past]
<1>1. wrap # 0 /\ wraps' = [wraps EXCEPT ![wrap] = r]
  BY DEF B!Calls, B!Going
<1>2. Sound(r) /\ NotLeft(r)
  <2>1. past \in BOOLEAN /\ (~past => wraps[wrap].calls + 1 \in 0..WrapCalls)
    BY <1>1, GoingIsSound DEF B!PastLast, B!Wrap, B!BudgetConstants
  <2> HIDE DEF past
  <2> QED
    BY <1>1, <2>1, GoingIsSound DEF Sound, NotLeft, B!Wrap
<1> HIDE DEF r
<1>3. WrapsSound(wraps)' /\ NotLeft(wraps'[wrap])
  BY <1>1, <1>2, GoingWritten
<1>4. WrapEnds' /\ B!WrapUpIsReal' /\ B!HandoffIsCurrent'
  BY <1>3, SameWrap DEF B!Calls
<1> QED
  BY <1>3, <1>4
     DEF Inv, B!Calls, B!threadVars, FieldsTyped, ThreadTyped, PromptHasWrap

LEMMA FactsReadKeeps ==
  ASSUME B!BudgetConstants,
         Inv, NEW w \in B!Wraps, B!FactsRead(w)
  PROVE  Inv'
<1>1. WrapsSound(wraps) /\ Sound(wraps[w])
  BY DEF Inv, WrapsSound
<1>2. wraps' = [wraps EXCEPT ![w] = [wraps[w] EXCEPT !.ending = "none"]]
  BY DEF B!FactsRead
<1>3. /\ WrapsSound(wraps)'
      /\ \A v \in B!Wraps \ {w} : wraps'[v] = wraps[v]
  BY <1>1, <1>2, SoundFields, NotLeftFields, OneWritten
<1>4. CASE wrap = w
  <2>1. /\ wrap' = 0 /\ handoff' = wraps[w].ending
        /\ budget' = [budget EXCEPT !.wrapUp = FALSE]
        /\ UNCHANGED <<over, fresh, stopping>>
    BY <1>4 DEF B!FactsRead, B!StillIts
  <2>2. handoff' \in B!Endings
    BY <1>1, <2>1 DEF Sound, B!Wrap
  <2>3. FieldsTyped' /\ B!WrapUpIsReal'
    BY <2>1, <2>2, NothingYet DEF Inv, FieldsTyped, B!WrapUpIsReal
  <2>4. WrapEnds' /\ B!HandoffIsCurrent'
    BY <2>1 DEF WrapEnds, B!HandoffIsCurrent
  <2> QED
    BY <1>3, <2>3, <2>4
       DEF Inv, B!FactsRead, B!threadVars, ThreadTyped, PromptHasWrap
<1>5. CASE wrap # w
  <2>1. UNCHANGED <<wrap, handoff, budget, over, fresh, stopping>>
    BY <1>5 DEF B!FactsRead, B!StillIts
  <2>2. WrapEnds' /\ B!WrapUpIsReal' /\ B!HandoffIsCurrent'
    BY <1>3, <1>5, <2>1, GoingIsSound, SameWrap
  <2> QED
    BY <1>3, <2>1, <2>2
       DEF Inv, B!FactsRead, B!threadVars, FieldsTyped, ThreadTyped,
           PromptHasWrap
<1> QED
  BY <1>4, <1>5

LEMMA LapsesKeeps ==
  ASSUME B!BudgetConstants,
         Inv, NEW w \in B!Wraps, B!Lapses(w)
  PROVE  Inv'
<1>1. WrapsSound(wraps) /\ Sound(wraps[w])
  BY DEF Inv, WrapsSound
<1>2. \/ wraps' = [wraps EXCEPT ![w] = [wraps[w] EXCEPT !.timer = FALSE]]
      \/ wraps' = B!Finished(wraps, w, "facts")
  BY DEF B!Lapses
<1>3. /\ WrapsSound(wraps)'
      /\ NotLeft(wraps[w]) => NotLeft(wraps'[w])
      /\ \A v \in B!Wraps \ {w} : wraps'[v] = wraps[v]
  <2>1. CASE wraps' = [wraps EXCEPT ![w] = [wraps[w] EXCEPT !.timer = FALSE]]
    <3> DEFINE r == [wraps[w] EXCEPT !.timer = FALSE]
    <3>1. Sound(r) /\ (NotLeft(wraps[w]) => NotLeft(r))
      BY <1>1, SoundFields, NotLeftFields
    <3>2. wraps' = [wraps EXCEPT ![w] = r]
      BY <2>1
    <3> HIDE DEF r
    <3> QED
      BY <1>1, <3>1, <3>2, OneWritten DEF WrapsSound
  <2>2. CASE wraps' = B!Finished(wraps, w, "facts")
    BY <1>1, <2>2, FinishedSound DEF B!Endings
  <2> QED
    BY <1>2, <2>1, <2>2
<1>4. WrapEnds' /\ B!WrapUpIsReal' /\ B!HandoffIsCurrent'
  BY <1>3, GoingIsSound, SameWrap DEF B!Lapses
<1> QED
  BY <1>3, <1>4
     DEF Inv, B!Lapses, B!threadVars, FieldsTyped, ThreadTyped, PromptHasWrap

LEMMA PromptsKeeps ==
  ASSUME B!BudgetConstants,
         Inv, NEW w \in B!Wraps, B!Prompts(w)
  PROVE  Inv'
<1>1. WrapsSound(wraps) /\ Sound(wraps[w])
  BY DEF Inv, WrapsSound
<1>2. wraps' = [wraps EXCEPT ![w] = [wraps[w] EXCEPT !.asked = FALSE]]
  BY DEF B!Prompts
<1>3. /\ WrapsSound(wraps)'
      /\ NotLeft(wraps[w]) => NotLeft(wraps'[w])
      /\ \A v \in B!Wraps \ {w} : wraps'[v] = wraps[v]
  <2> DEFINE r == [wraps[w] EXCEPT !.asked = FALSE]
  <2>1. Sound(r) /\ (NotLeft(wraps[w]) => NotLeft(r))
    BY <1>1, SoundFields, NotLeftFields
  <2>2. wraps' = [wraps EXCEPT ![w] = r]
    BY <1>2
  <2> HIDE DEF r
  <2> QED
    BY <1>1, <2>1, <2>2, OneWritten DEF WrapsSound
<1>4. WrapEnds' /\ B!WrapUpIsReal' /\ B!HandoffIsCurrent'
  BY <1>3, GoingIsSound, SameWrap DEF B!Prompts, B!budgetVars
<1>5. ThreadTyped' /\ PromptHasWrap'
  BY DEF Inv, B!Prompts, B!budgetVars, B!Send, B!SendSteps, ThreadTyped,
         PromptHasWrap, B!Wraps, B!BudgetConstants
<1> QED
  BY <1>3, <1>4, <1>5 DEF Inv, B!Prompts, B!budgetVars, FieldsTyped

\* The sends that leave the wrap-ups alone.
LEMMA SenderKeeps ==
  ASSUME B!BudgetConstants,
         Inv, B!Submits \/ B!Commits \/ B!Refuses
  PROVE  Inv'
<1>1. UNCHANGED <<B!budgetVars, wrap, wraps, fresh>>
  BY DEF B!Submits, B!Commits, B!Refuses
<1>2. ThreadTyped' /\ PromptHasWrap'
  <2>1. CASE B!Submits
    BY <2>1
       DEF Inv, B!Submits, B!budgetVars, B!Send, B!SendSteps, ThreadTyped,
           PromptHasWrap, B!BudgetConstants
  <2>2. CASE B!Commits
    BY <2>2
       DEF Inv, B!Commits, B!Goto, B!budgetVars, B!SendSteps, ThreadTyped,
           PromptHasWrap
  <2>3. CASE B!Refuses
    BY <2>3
       DEF Inv, B!Refuses, B!Goto, B!budgetVars, B!SendSteps, ThreadTyped,
           PromptHasWrap
  <2> QED
    BY <2>1, <2>2, <2>3
<1>3. /\ FieldsTyped' /\ WrapsSound(wraps)' /\ WrapEnds'
      /\ B!WrapUpIsReal' /\ B!HandoffIsCurrent'
  BY <1>1
     DEF Inv, B!budgetVars, FieldsTyped, WrapsSound, WrapEnds, B!WrapUpIsReal,
         B!HandoffIsCurrent
<1> QED
  BY <1>2, <1>3 DEF Inv

LEMMA SendEndsKeeps ==
  ASSUME B!BudgetConstants,
         Inv, B!SendEnds PROVE Inv'
<1> DEFINE w == sender.of
           mine == sender.who = "prompt" /\ wrap = w /\ ~wraps[w].done
<1>1. /\ mine => wrap = w /\ wrap # 0
      /\ \/ UNCHANGED wraps
         \/ /\ mine
            /\ wraps' = [wraps EXCEPT ![w] = [wraps[w] EXCEPT !.timer = TRUE]]
         \/ mine /\ wraps' = B!Finished(wraps, w, "facts")
  BY DEF B!SendEnds, B!Awaited, Inv, PromptHasWrap
<1>2. /\ WrapsSound(wraps)'
      /\ wrap # 0 => NotLeft(wraps'[wrap])
  <2>1. CASE UNCHANGED wraps
    BY <2>1, GoingIsSound DEF Inv, WrapsSound
  <2>2. CASE /\ mine
             /\ wraps' = [wraps EXCEPT ![w] = [wraps[w] EXCEPT !.timer = TRUE]]
    BY <1>1, <2>2, GoingIsSound, SoundFields, NotLeftFields, GoingWritten
  <2>3. CASE mine /\ wraps' = B!Finished(wraps, w, "facts")
    BY <1>1, <2>3, GoingIsSound, FinishedSound DEF Inv, B!Endings
  <2> QED
    BY <1>1, <2>1, <2>2, <2>3
<1>3. WrapEnds' /\ B!WrapUpIsReal' /\ B!HandoffIsCurrent'
  BY <1>2, SameWrap DEF B!SendEnds, B!budgetVars
<1>4. ThreadTyped' /\ PromptHasWrap'
  BY DEF Inv, B!SendEnds, B!budgetVars, B!NoSend, B!SendSteps, ThreadTyped,
         PromptHasWrap, B!BudgetConstants
<1> QED
  BY <1>2, <1>3, <1>4 DEF Inv, B!SendEnds, B!budgetVars, FieldsTyped

LEMMA BeginsKeeps ==
  ASSUME Inv, NEW who \in {"owner", "prompt", "own"}, B!Begins(who)
  PROVE  /\ WrapsSound(wraps)' /\ WrapEnds' /\ FieldsTyped'
         /\ B!WrapUpIsReal' /\ B!HandoffIsCurrent' /\ sets' = sets
         /\ live' = who /\ base' = "working"
<1>1. \/ UNCHANGED wraps
      \/ /\ wrap # 0
         /\ wraps' = [wraps EXCEPT ![wrap] =
                        [wraps[wrap] EXCEPT !.started = TRUE]]
  BY DEF B!Begins
<1>2. /\ WrapsSound(wraps)' /\ (wrap # 0 => NotLeft(wraps'[wrap]))
  <2>1. CASE UNCHANGED wraps
    BY <2>1, GoingIsSound DEF Inv, WrapsSound
  <2>2. CASE /\ wrap # 0
             /\ wraps' = [wraps EXCEPT ![wrap] =
                            [wraps[wrap] EXCEPT !.started = TRUE]]
    BY <2>2, GoingIsSound, SoundFields, NotLeftFields, GoingWritten
  <2> QED
    BY <1>1, <2>1, <2>2
<1>3. /\ handoff' \in {handoff, "none"}
      /\ UNCHANGED <<budget, over, wrap, fresh, stopping, sets>>
  BY DEF B!Begins
<1>4. WrapEnds' /\ B!WrapUpIsReal' /\ B!HandoffIsCurrent' /\ FieldsTyped'
  BY <1>2, <1>3
     DEF Inv, FieldsTyped, WrapEnds, B!WrapUpIsReal, B!HandoffIsCurrent,
         B!Endings, B!Replies
<1> QED
  BY <1>2, <1>3, <1>4 DEF B!Begins

LEMMA TurnBeginsKeeps ==
  ASSUME Inv, B!Accepts \/ B!LateTurn \/ B!OwnTurn
  PROVE  Inv'
<1>1. PICK who \in {"owner", "prompt", "own"} : B!Begins(who)
  BY DEF B!Accepts, B!LateTurn, B!OwnTurn, Inv, ThreadTyped
<1>2. /\ WrapsSound(wraps)' /\ WrapEnds' /\ FieldsTyped'
      /\ B!WrapUpIsReal' /\ B!HandoffIsCurrent' /\ sets' = sets
      /\ live' = who /\ base' = "working"
  BY <1>1, BeginsKeeps
<1>3. conv' = conv /\ floating' \in {floating, "none"}
  BY DEF B!Accepts, B!LateTurn, B!OwnTurn
<1>4. /\ sender' \in [who : {"none", "owner", "prompt"}, of : 0..MaxWraps,
                       at : B!SendSteps]
      /\ PromptHasWrap'
  BY DEF B!Accepts, B!LateTurn, B!OwnTurn, B!Goto, Inv, ThreadTyped,
         B!SendSteps,
         PromptHasWrap
<1>5. ThreadTyped'
  BY <1>2, <1>3, <1>4 DEF Inv, ThreadTyped
<1> QED
  BY <1>2, <1>4, <1>5 DEF Inv

LEMMA TurnEndsKeeps ==
  ASSUME B!BudgetConstants,
         Inv, NEW how \in {"completed", "cancelled", "failed"}, B!TurnEnds(how)
  PROVE  Inv'
<1>1. /\ \/ UNCHANGED wraps
         \/ wrap # 0 /\ wraps' = [wraps EXCEPT ![wrap] =
              [wraps[wrap] EXCEPT !.prompted = TRUE, !.told = TRUE,
                                  !.asked = TRUE]]
         \/ \E end \in B!Endings \ {"none"} :
              wrap # 0 /\ wraps' = B!Finished(wraps, wrap, end)
      /\ fresh' \in {fresh, "none"}
  BY DEF B!TurnEnds, B!WrapTurnEnds, B!Going, B!Finish, Inv, FieldsTyped,
         B!Endings
<1>2. /\ WrapsSound(wraps)' /\ (wrap # 0 => NotLeft(wraps'[wrap]))
  <2>1. CASE UNCHANGED wraps
    BY <2>1, GoingIsSound DEF Inv, WrapsSound
  <2>2. CASE wrap # 0 /\ wraps' = [wraps EXCEPT ![wrap] =
              [wraps[wrap] EXCEPT !.prompted = TRUE, !.told = TRUE,
                                  !.asked = TRUE]]
    BY <2>2, GoingIsSound, SoundFields, NotLeftFields, GoingWritten
  <2>3. ASSUME NEW end \in B!Endings \ {"none"}, wrap # 0,
               wraps' = B!Finished(wraps, wrap, end)
        PROVE  /\ WrapsSound(wraps)' /\ NotLeft(wraps'[wrap])
    BY <2>3, GoingIsSound, FinishedSound DEF Inv
  <2> QED
    BY <1>1, <2>1, <2>2, <2>3
<1>3. WrapEnds' /\ B!WrapUpIsReal' /\ B!HandoffIsCurrent'
  BY <1>2, SameWrap DEF B!TurnEnds, B!budgetVars
<1>4. ThreadTyped' /\ PromptHasWrap' /\ FieldsTyped'
  BY <1>1
     DEF Inv, B!TurnEnds, B!budgetVars, ThreadTyped, PromptHasWrap,
         FieldsTyped, B!Replies
<1> QED
  BY <1>2, <1>3, <1>4 DEF Inv

LEMMA StopsKeep ==
  ASSUME Inv, B!BudgetStops \/ B!StopAnswered
  PROVE  Inv'
BY DEF Inv, B!BudgetStops, B!StopAnswered, B!threadVars, FieldsTyped,
       ThreadTyped,
       PromptHasWrap, WrapsSound, WrapEnds, B!WrapUpIsReal, B!HandoffIsCurrent

LEMMA OwnerStopsKeeps ==
  ASSUME B!BudgetConstants,
         Inv, B!OwnerStops PROVE Inv'
<1> DEFINE r == [wraps[wrap] EXCEPT !.stop = TRUE]
           ws == [wraps EXCEPT ![wrap] = r]
<1>1. \/ UNCHANGED wraps
      \/ wrap # 0 /\ wraps' = ws
      \/ wrap # 0 /\ wraps' = B!Finished(ws, wrap, "facts")
  BY DEF B!OwnerStops, B!Going
<1>2. wrap # 0 => Sound(r) /\ NotLeft(r)
  BY GoingIsSound, SoundFields, NotLeftFields
<1> HIDE DEF r
<1>3. wrap # 0 => WrapsSound(ws) /\ ws[wrap] = r
  BY <1>2, GoingIsSound DEF Inv, WrapsSound, Sound
<1>4. /\ WrapsSound(wraps)' /\ (wrap # 0 => NotLeft(wraps'[wrap]))
  <2>1. CASE UNCHANGED wraps
    BY <2>1, GoingIsSound DEF Inv, WrapsSound
  <2>2. CASE wrap # 0 /\ wraps' = ws
    BY <1>2, <2>2, GoingWritten
  <2>3. CASE wrap # 0 /\ wraps' = B!Finished(ws, wrap, "facts")
    BY <1>3, <2>3, GoingIsSound, FinishedSound DEF B!Endings
  <2> QED
    BY <1>1, <2>1, <2>2, <2>3
<1>5. WrapEnds' /\ B!WrapUpIsReal' /\ B!HandoffIsCurrent'
  BY <1>4, SameWrap DEF B!OwnerStops, B!budgetVars
<1> QED
  BY <1>4, <1>5
     DEF Inv, B!OwnerStops, B!budgetVars, FieldsTyped, ThreadTyped,
         PromptHasWrap

LEMMA ExitsKeeps ==
  ASSUME B!BudgetConstants,
         Inv, B!Exits PROVE Inv'
<1>1. /\ WrapsSound(wraps)' /\ (wrap # 0 => NotLeft(wraps'[wrap]))
  <2>1. CASE UNCHANGED wraps
    BY <2>1, GoingIsSound DEF Inv, WrapsSound
  <2>2. CASE wrap # 0 /\ wraps' = B!Finished(wraps, wrap, "facts")
    BY <2>2, GoingIsSound, FinishedSound DEF Inv, B!Endings
  <2> QED
    BY <2>1, <2>2 DEF B!Exits, B!Finish, B!Going
<1>2. WrapEnds' /\ B!WrapUpIsReal' /\ B!HandoffIsCurrent'
  BY <1>1, SameWrap DEF B!Exits, B!budgetVars
<1> QED
  BY <1>1, <1>2
     DEF Inv, B!Exits, B!budgetVars, FieldsTyped, ThreadTyped, PromptHasWrap

LEMMA RestartKeeps ==
  ASSUME B!BudgetConstants,
         Inv, B!Restart PROVE Inv'
<1>1. ASSUME NEW b \in BOOLEAN PROVE Sound([B!Unborn EXCEPT !.begun = b])
  BY <1>1, NothingYet DEF Sound, B!Unborn, B!Wrap, B!Endings, B!Replies
<1>2. /\ UNCHANGED <<budget, over, handoff, sets>> /\ fresh' = "none"
      /\ stopping' = "idle"
  BY DEF B!Restart
<1>3. ASSUME budget.wrapUp
      PROVE  /\ WrapsSound(wraps)' /\ FieldsTyped' /\ WrapEnds'
             /\ B!WrapUpIsReal' /\ B!HandoffIsCurrent'
  <2> DEFINE ws == [w \in B!Wraps |->
                      [B!Unborn EXCEPT !.begun = wraps[w].begun \/ w = B!Next1]]
  <2>1. B!Next1 \in B!Wraps
    BY <1>3, NextIsUnbegun DEF B!Restart, Inv
  <2>2. wraps' = B!Finished(ws, B!Next1, "facts") /\ wrap' = B!Next1
    BY <1>3 DEF B!Restart
  <2>3. WrapsSound(ws)
    <3>1. \A w \in B!Wraps : (wraps[w].begun \/ w = B!Next1) \in BOOLEAN
      OBVIOUS
    <3>2. ASSUME NEW w \in B!Wraps PROVE Sound(ws[w])
      BY <1>1, <3>1
    <3> QED
      BY <3>2 DEF WrapsSound, Sound
  <2> HIDE DEF ws
  <2>4. WrapsSound(wraps)' /\ NotLeft(wraps'[B!Next1])
    BY <2>1, <2>2, <2>3, FinishedSound DEF B!Endings
  <2>5. wrap' \in 1..MaxWraps /\ wrap # 0
    BY <1>3, <2>1, <2>2 DEF B!Wraps, Inv, B!WrapUpIsReal
  <2>6. FieldsTyped'
    BY <1>2, <2>5 DEF Inv, FieldsTyped, B!Replies, B!BudgetConstants
  <2>7. B!WrapUpIsReal' /\ B!HandoffIsCurrent'
    BY <1>2, <1>3, <2>5 DEF Inv, B!WrapUpIsReal, B!HandoffIsCurrent
  <2> QED
    BY <2>2, <2>4, <2>6, <2>7 DEF WrapEnds
<1>4. ASSUME ~budget.wrapUp
      PROVE  /\ WrapsSound(wraps)' /\ FieldsTyped' /\ WrapEnds'
             /\ B!WrapUpIsReal' /\ B!HandoffIsCurrent'
  <2> DEFINE ws == [w \in B!Wraps |-> [B!Unborn EXCEPT !.begun = wraps[w].begun]]
  <2>1. wraps' = ws /\ wrap' = 0 /\ wrap = 0
    BY <1>4 DEF B!Restart, Inv, B!WrapUpIsReal
  <2>2. WrapsSound(ws)
    <3>1. \A w \in B!Wraps : wraps[w].begun \in BOOLEAN
      BY DEF Inv, WrapsSound, B!Wrap
    <3>2. ASSUME NEW w \in B!Wraps PROVE Sound(ws[w])
      BY <1>1, <3>1
    <3> QED
      BY <3>2 DEF WrapsSound, Sound
  <2> HIDE DEF ws
  <2>3. FieldsTyped'
    BY <1>2, <2>1, NothingYet DEF Inv, FieldsTyped, B!Replies
  <2>4. WrapEnds' /\ B!WrapUpIsReal' /\ B!HandoffIsCurrent'
    BY <1>2, <1>4, <2>1 DEF WrapEnds, B!WrapUpIsReal, B!HandoffIsCurrent
  <2> QED
    BY <2>1, <2>2, <2>3, <2>4 DEF WrapsSound
<1>5. ThreadTyped' /\ PromptHasWrap'
  BY <1>2, NothingYet DEF B!Restart, B!NoSend, Inv, ThreadTyped, PromptHasWrap
<1>6. /\ WrapsSound(wraps)' /\ FieldsTyped' /\ WrapEnds' /\ B!WrapUpIsReal'
      /\ B!HandoffIsCurrent'
  <2>1. budget.wrapUp \in BOOLEAN
    BY DEF Inv, FieldsTyped
  <2> QED
    BY <1>3, <1>4, <2>1
<1> QED
  BY <1>5, <1>6 DEF Inv

-----------------------------------------------------------------------------

LEMMA InitInv ==
  ASSUME B!BudgetConstants,
         B!Init PROVE Inv
<1>1. Sound(B!Unborn)
  BY NothingYet DEF Sound, B!Unborn, B!Wrap, B!Endings, B!Replies
<1>2. WrapsSound(wraps)
  BY <1>1 DEF B!Init, WrapsSound, Sound
<1>3. FieldsTyped /\ ThreadTyped
  BY NothingYet
     DEF B!Init, B!NoBudget, FieldsTyped, ThreadTyped, B!Endings, B!Replies
<1> QED
  BY <1>2, <1>3
     DEF B!Init, B!NoBudget, B!NoSend, Inv, PromptHasWrap, WrapEnds,
         B!WrapUpIsReal, B!HandoffIsCurrent

LEMMA NextKeeps ==
  ASSUME B!BudgetConstants,
         Inv, [B!Next]_B!vars PROVE Inv'
<1>1. CASE UNCHANGED B!vars
  BY <1>1 DEF B!vars, B!threadVars, Inv, FieldsTyped, ThreadTyped, WrapsSound,
     PromptHasWrap, WrapEnds, B!WrapUpIsReal, B!HandoffIsCurrent
<1>2. CASE B!WrapStep
  BY <1>2, FactsReadKeeps, LapsesKeeps, PromptsKeeps DEF B!WrapStep
<1>3. CASE B!SendStep \/ B!Submits
  BY <1>3, SenderKeeps, SendEndsKeeps, TurnBeginsKeeps DEF B!SendStep
<1>4. CASE B!TurnStep
  BY <1>4, TurnEndsKeeps DEF B!TurnStep
<1>5. ASSUME NEW set \in BOOLEAN, NEW isOver \in BOOLEAN, B!Sets(set, isOver)
      PROVE  Inv'
  BY <1>5, SetsKeeps
<1> QED
  BY <1>1, <1>2, <1>3, <1>4, <1>5, SpendsKeeps, DeniedKeeps, WritesKeeps,
     CallsKeeps, OwnerStopsKeeps, TurnBeginsKeeps, StopsKeep, ExitsKeeps,
     RestartKeeps
     DEF B!Next

\* Every reachable state satisfies the inductive invariant.
THEOREM InvHolds ==
  ASSUME B!BudgetConstants
  PROVE  B!Spec => []Inv
<1>1. B!Init => Inv
  BY InitInv
<1>2. Inv /\ [B!Next]_B!vars => Inv'
  BY NextKeeps
<1> QED
  BY <1>1, <1>2, PTL DEF B!Spec

\* The model's variables have their types (budget.go: budgetWrap, Session's
\* budget fields).
THEOREM TypeCorrect ==
  ASSUME B!BudgetConstants
  PROVE  B!Spec => []B!TypeOK
<1>1. Inv => B!TypeOK
  BY DEF Inv, FieldsTyped, ThreadTyped, WrapsSound, B!TypeOK
<1> QED
  BY <1>1, InvHolds, PTL

\* The wrapping-up that a Thread saves and shows is a wrap-up that goes on,
\* across the owner's new budget, the facts read for an earlier one, and a
\* restart (budget.go:121, 206, 600).
THEOREM ShownWrapUpIsReal ==
  ASSUME B!BudgetConstants
  PROVE  B!Spec => []B!WrapUpIsReal
<1>1. Inv => B!WrapUpIsReal
  BY DEF Inv
<1> QED
  BY <1>1, InvHolds, PTL

\* No wrap-up goes on beside the handoff of an earlier one (budget.go:134).
THEOREM HandoffStaysCurrent ==
  ASSUME B!BudgetConstants
  PROVE  B!Spec => []B!HandoffIsCurrent
<1>1. Inv => B!HandoffIsCurrent
  BY DEF Inv
<1> QED
  BY <1>1, InvHolds, PTL

\* A wrap-up that is done is the Thread's only while its facts are being read:
\* no order of sends, turns, stops and restarts leaves one that is done, whose
\* facts were read, and that the Thread still shows (finishWrapLocked).
THEOREM NoWrapUpIsLeft ==
  ASSUME B!BudgetConstants
  PROVE  B!Spec => []WrapEnds
<1>1. Inv => WrapEnds
  BY DEF Inv
<1> QED
  BY <1>1, InvHolds, PTL

\* A handoff is the one of the wrap-up that goes on: the facts of a wrap-up
\* that the owner's new budget dropped leave none (budget.go:630).
THEOREM DroppedWrapUpLeavesNone ==
  ASSUME B!BudgetConstants
  PROVE  B!Spec => B!DroppedLeavesNone
<1> DEFINE Leaves == handoff' \notin {handoff, "none"} =>
             wrap # 0 /\ wraps[wrap].done /\ wraps[wrap].ending = handoff'
<1>1. ASSUME Inv, [B!Next]_B!vars PROVE Leaves
  <2>1. ASSUME NEW w \in B!Wraps, B!FactsRead(w) PROVE Leaves
    <3>1. wraps[w].ending # "none" => wraps[w].done
      BY <1>1 DEF Inv, WrapsSound, Sound
    <3>2. w # 0
      BY DEF B!Wraps, B!BudgetConstants
    <3> QED
      BY <2>1, <3>1, <3>2 DEF B!FactsRead, B!StillIts
  <2>2. ASSUME NEW how \in {"completed", "cancelled", "failed"}, B!TurnEnds(how)
        PROVE  Leaves
    BY <2>2 DEF B!TurnEnds, B!budgetVars
  <2>3. ASSUME NEW w \in B!Wraps, B!Lapses(w) \/ B!Prompts(w) PROVE Leaves
    BY <2>3 DEF B!Lapses, B!Prompts, B!budgetVars
  <2>4. CASE B!SendStep \/ B!LateTurn \/ B!OwnTurn \/ B!Submits
    BY <2>4
       DEF B!SendStep, B!Commits, B!Accepts, B!Refuses, B!SendEnds, B!LateTurn,
           B!OwnTurn, B!Submits, B!Begins, B!budgetVars
  <2>5. ASSUME NEW set \in BOOLEAN, NEW isOver \in BOOLEAN, B!Sets(set, isOver)
        PROVE  Leaves
    BY <2>5 DEF B!Sets
  <2>6. CASE \/ B!Spends \/ B!Denied \/ B!Writes \/ B!Calls \/ B!OwnerStops
             \/ B!BudgetStops \/ B!StopAnswered \/ B!Exits \/ B!Restart \/ UNCHANGED B!vars
    BY <2>6
       DEF B!Spends, B!Denied, B!Writes, B!Calls, B!OwnerStops, B!BudgetStops,
           B!StopAnswered, B!Exits, B!Restart, B!vars, B!budgetVars
  <2> QED
    BY <1>1, <2>1, <2>2, <2>3, <2>4, <2>5, <2>6
       DEF B!Next, B!WrapStep, B!TurnStep
<1>2. Inv /\ [B!Next]_B!vars => [Leaves]_B!vars
  BY <1>1
<1> QED
  BY <1>2, InvHolds, PTL DEF B!Spec, B!DroppedLeavesNone
=============================================================================

--------------------- MODULE PersistenceRestartsProofs ----------------------
(***************************************************************************)
(* What survives an end: of uam (Persistence), and of the provider's CLI   *)
(* (Restarts, as the instance R).                                          *)
(*                                                                         *)
(* Nothing saved is lost or undone, for any number of Threads, handlers    *)
(* and requests, and any sequence of failed saves and crashes.  The        *)
(* argument has four layers.  Lock: a writer between its snapshot and its  *)
(* answer holds persistMu, so there is one.  Order: its patches are no     *)
(* older than the file and no newer than the memory.  Attention: what is   *)
(* not saved is in its hands, or dirty and someone will look.  Answers: an *)
(* outcome reaches the file before its answer.                             *)
(*                                                                         *)
(* The second half says that a restart of the CLI onto an update ends no   *)
(* conversation of a Thread and no utility prompt; its argument is there.  *)
(***************************************************************************)
EXTENDS Persistence, TLAPS

USE DEF memory, flushing

InFlight(w) == step[w] \in {"writing", "failed", "noting", "ending"}

Locked == \A w \in Writers : InFlight(w) <=> persistMu = w
Busy == \A h \in Handlers : step[h] # "idle" <=> reply[h] # None
Phases ==
  /\ run = "down" => \A w \in Writers : step[w] = "idle"
  /\ step[Main] = "exit" => run = "closing"
  /\ run = "closing" /\ step[Main] # "idle" => step[Loop] = "idle"
Lock == TypeOK /\ Locked /\ Busy /\ Phases

Recorded ==
  \A t \in Threads :
    /\ life[t] \in {"stored", "listed"} <=> disk[t] # None
    /\ life[t] = "stored" => disk[t] = Fresh
    /\ disk[t] # None => disk[t].at <= live[t].at
Patched ==
  \A w \in Writers, t \in Threads : patch[w][t] # None =>
    /\ InFlight(w) /\ life[t] \in {"listed", "unstored", "gone"}
    /\ patch[w][t] = live[t] \/ patch[w][t].at < live[t].at
    /\ disk[t] # None => disk[t].at <= patch[w][t].at
Awaited ==
  \A h \in Handlers : reply[h] # None =>
    /\ life[reply[h].thread] = "listed"
    /\ reply[h].at <= live[reply[h].thread].at
Order == Recorded /\ Patched /\ Awaited

Carried(t) ==
  /\ persistMu # None /\ step[persistMu] \in {"writing", "failed"}
  /\ patch[persistMu][t] = live[t]
Coming(ws) ==
  \/ saveError /\ persistMu = None
  \/ \E w \in ws : step[w] \in {"flush", "noting"}
Attention ==
  \A t \in Threads : Unsaved(t) /\ ~Carried(t) =>
    /\ t \in dirty
    /\ wake \/ Coming(Writers)
    /\ run = "closing" /\ step[Main] \notin {"idle", "flush"} =>
         Coming(Handlers \cup {Main})

Covered ==
  \A h \in Handlers : reply[h] # None =>
    LET t == reply[h].thread
    IN  /\ step[h] = "writing" =>
             \/ patch[h][t] # None /\ reply[h].at <= patch[h][t].at
             \/ reply[h].at <= disk[t].at
        /\ step[h] = "ending" => reply[h].at <= disk[t].at
Unheard ==
  \A t \in Threads : life[t] \in {"unborn", "stored"} =>
    \A r \in Requests : heard[t][r] = 0
Answers == Covered /\ Unheard /\ HeardIsDurable

Kept == Lock /\ Order /\ Attention /\ Answers

-----------------------------------------------------------------------------

LEMMA LaterTyped ==
  ASSUME NEW d \in Durable, NEW turn \in Turns, NEW last \in Requests \cup {None}
  PROVE  Later(d, turn, last) \in Durable /\ Later(d, turn, last).at = d.at + 1
  BY DEF Durable, Later

LEMMA InterruptedLater ==
  ASSUME NEW d \in Durable
  PROVE  /\ Interrupted(d) \in Durable
         /\ \/ Interrupted(d) = d
            \/ d.turn = "working" /\ Interrupted(d).at = d.at + 1
  BY LaterTyped DEF Durable, Interrupted, Turns, Later

\* The memory only gets newer; the file, the patches and the answers stay.
LEMMA OrderKept ==
  ASSUME Lock, Lock', Order, UNCHANGED <<life, disk, step, patch, reply>>,
         \A t \in Threads : live'[t] = live[t] \/ live'[t].at = live[t].at + 1
  PROVE  Order'
  <1>1. ASSUME NEW t \in Threads
        PROVE  /\ live[t].at \in Nat /\ live'[t].at \in Nat
               /\ live[t].at <= live'[t].at
    <2>1. live[t] \in Durable /\ live'[t] \in Durable
      BY DEF Lock, TypeOK
    <2>2. live[t].at \in Nat /\ live'[t].at \in Nat
      BY <2>1 DEF Durable
    <2>3. live'[t] = live[t] \/ live'[t].at = live[t].at + 1
      OBVIOUS
    <2> QED BY <2>2, <2>3
  <1>2. ASSUME NEW w \in Writers, NEW t \in Threads, patch[w][t] # None
        PROVE  patch[w][t] \in Durable
    BY <1>2 DEF Lock, TypeOK
  <1>3. ASSUME NEW t \in Threads, disk[t] # None
        PROVE  disk[t] \in Durable
    BY <1>3 DEF Lock, TypeOK
  <1>4. Recorded'
    BY <1>1, <1>3 DEF Order, Recorded, Durable
  <1>5. Patched'
    <2>1. ASSUME NEW w \in Writers, NEW t \in Threads, patch[w][t] # None
          PROVE  patch[w][t] = live'[t] \/ patch[w][t].at < live'[t].at
      BY <1>1, <1>2, <2>1 DEF Order, Patched, Durable
    <2> QED BY <2>1 DEF Order, Patched, InFlight
  <1>6. Awaited'
    <2>1. ASSUME NEW h \in Handlers, reply[h] # None
          PROVE  reply[h].thread \in Threads /\ reply[h].at \in Nat
      <3>1. reply[h] \in Replies
        BY <2>1 DEF Lock, TypeOK
      <3> QED BY <3>1 DEF Replies
    <2>2. ASSUME NEW h \in Handlers, reply[h] # None
          PROVE  reply[h].at <= live'[reply[h].thread].at
      BY <1>1, <2>1, <2>2 DEF Order, Awaited
    <2> QED BY <2>2 DEF Order, Awaited
  <1> QED BY <1>4, <1>5, <1>6 DEF Order

\* Nothing happens but that a Thread which is not listed moves.
LEMMA AttentionKept ==
  ASSUME Attention, NEW t \in Threads, life'[t] # "listed",
         UNCHANGED <<run, live, wake, saveError, flushing>>,
         \A u \in Threads \ {t} : /\ life'[u] = life[u] /\ disk'[u] = disk[u]
                                  /\ u \in dirty' <=> u \in dirty
  PROVE  Attention'
  <1>1. ASSUME NEW u \in Threads, Unsaved(u)', ~Carried(u)'
        PROVE  u # t /\ Unsaved(u) /\ ~Carried(u)
    BY <1>1 DEF Unsaved, Carried
  <1>2. \A ws \in {Writers, Handlers \cup {Main}} : Coming(ws)' <=> Coming(ws)
    BY DEF Coming
  <1> QED BY <1>1, <1>2 DEF Attention

-----------------------------------------------------------------------------
(* A writer between its snapshot and its answer holds persistMu.           *)

LEMMA LockStep ==
  ASSUME Lock, [Next]_vars
  PROVE  Lock'
  <1> USE PersistenceConstants, NoneIsNoRecord
      DEF Lock, TypeOK, Locked, Busy, Phases, InFlight, Goto, Listed, Durable,
          Replies, Fresh, Turns, Writers, Loop, Main
  <1>1. ASSUME NEW w \in Writers, FlushBegins(w)
        PROVE  Lock'
    BY <1>1 DEF FlushBegins, TakesPatch, Snapshot, NoPatch
  <1>2. ASSUME NEW w \in Writers, FlushWrites(w)
        PROVE  Lock'
    BY <1>2 DEF FlushWrites, Written
  <1>3. ASSUME NEW w \in Writers, FlushFails(w)
        PROVE  Lock'
    BY <1>3 DEF FlushFails
  <1>4. ASSUME NEW w \in Writers, FlushRetries(w)
        PROVE  Lock'
    BY <1>4 DEF FlushRetries, Redirtied
  <1>5. ASSUME NEW w \in Writers, FlushEnds(w)
        PROVE  Lock'
    <2>1. Locked' /\ Busy' /\ Phases'
      BY <1>5 DEF FlushEnds
    <2>2. step' \in [Writers -> {"idle", "flush", "writing", "failed", "noting",
                                "ending", "exit"}]
      BY <1>5 DEF FlushEnds
    <2>3. patch' \in [Writers -> [Threads -> Durable \cup {None}]]
      BY <1>5 DEF FlushEnds, NoPatch
    <2>4. reply' \in [Handlers -> Replies \cup {None}]
      BY <1>5 DEF FlushEnds
    <2>5. heard' \in [Threads -> [Requests -> Nat]]
      <3>1. CASE heard' = heard
        BY <3>1
      <3>2. CASE heard' # heard
        <4> DEFINE a == reply[w].thread
                   q == reply[w].request
        <4>1. w \in Handlers /\ reply[w] # None
          BY <1>5, <3>2 DEF FlushEnds
        <4>2. a \in Threads /\ q \in Requests /\ reply[w].at \in Nat
          BY <4>1
        <4>3. heard' = [heard EXCEPT ![a][q] = reply[w].at]
          BY <1>5, <3>2, <4>1 DEF FlushEnds
        <4> HIDE DEF a, q
        <4> QED BY <4>2, <4>3
      <3> QED BY <3>1, <3>2
    <2> QED BY <1>5, <2>1, <2>2, <2>3, <2>4, <2>5 DEF FlushEnds
  <1>6. ASSUME NEW t \in Threads, NEW turn \in Turns, Turn(t, turn)
        PROVE  Lock'
    <2>1. live' \in [Threads -> Durable]
      BY <1>6, LaterTyped DEF Turn, Changed
    <2>2. dirty' \in {dirty, dirty \cup {t}} /\ wake' \in {wake, TRUE}
      BY <1>6 DEF Turn, Changed, Marked
    <2>3. dirty' \subseteq Threads /\ wake' \in BOOLEAN
      BY <2>2
    <2> QED BY <1>6, <2>1, <2>3 DEF Turn
  <1>7. ASSUME NEW t \in Threads, NEW h \in Handlers, NEW r \in Requests, Record(h, t, r)
        PROVE  Lock'
    BY <1>7 DEF Record, Changed, Later, Marked, Held
  <1>8. ASSUME NEW t \in Threads, Look(t)
        PROVE  Lock'
    BY <1>8 DEF Look
  <1>9. ASSUME NEW t \in Threads, Put(t)
        PROVE  Lock'
    BY <1>9 DEF Put
  <1>10. ASSUME NEW t \in Threads, List(t)
        PROVE  Lock'
    <2>1. life' \in [Threads -> {"unborn", "stored", "listed", "unstored", "gone"}]
      BY <1>10 DEF List
    <2>2. dirty' \in {dirty, dirty \cup {t}} /\ wake' \in {wake, TRUE}
      BY <1>10 DEF List, Marked
    <2>3. dirty' \subseteq Threads /\ wake' \in BOOLEAN
      BY <2>2
    <2> QED BY <1>10, <2>1, <2>3 DEF List
  <1>11. ASSUME NEW t \in Threads, Unstore(t)
        PROVE  Lock'
    BY <1>11 DEF Unstore, Held
  <1>12. ASSUME NEW t \in Threads, Forget(t)
        PROVE  Lock'
    BY <1>12 DEF Forget
  <1>13. CASE LoopWakes
    BY <1>13 DEF LoopWakes
  <1>14. CASE Shutdown
    BY <1>14 DEF Shutdown, Interrupted, Later
  <1>15. CASE LastFlush
    BY <1>15 DEF LastFlush
  <1>16. CASE Exit \/ Crash
    BY <1>16 DEF Exit, Crash, Down, NoPatch
  <1>17. CASE Restart
    <2>1. live' \in [Threads -> Durable]
      BY <1>17, InterruptedLater DEF Restart
    <2>2. known' \in [Threads -> SUBSET Requests]
      BY <1>17 DEF Restart, Remembered
    <2>3. life' \in [Threads -> {"unborn", "stored", "listed", "unstored", "gone"}]
      BY <1>17 DEF Restart
    <2>4. dirty' \subseteq Threads
      BY <1>17 DEF Restart
    <2> QED BY <1>17, <2>1, <2>2, <2>3, <2>4 DEF Restart
  <1>18. CASE UNCHANGED vars
    BY <1>18 DEF vars
  <1> HIDE PersistenceConstants, NoneIsNoRecord
      DEF Lock, TypeOK, Locked, Busy, Phases, InFlight, Goto, Listed, Durable,
          Replies, Fresh, Turns, Writers, Loop, Main
  <1> QED
    BY <1>1, <1>2, <1>3, <1>4, <1>5, <1>6, <1>7, <1>8, <1>9, <1>10, <1>11,
       <1>12, <1>13, <1>14, <1>15, <1>16, <1>17, <1>18
       DEF Next, FlushStep, ThreadStep, ServiceStep

-----------------------------------------------------------------------------
(* A record in the file, its patch and the memory never overtake each other. *)

LEMMA OrderStep ==
  ASSUME Lock, Order, Lock', [Next]_vars
  PROVE  Order'
  <1> USE PersistenceConstants, NoneIsNoRecord
      DEF Lock, TypeOK, Locked, Busy, Phases, InFlight, Order, Recorded,
          Patched, Awaited, Goto, Listed, Durable, Replies, Fresh, Turns,
          Writers, Loop, Main
  <1>1. ASSUME NEW w \in Writers, FlushBegins(w)
        PROVE  Order'
    BY <1>1 DEF FlushBegins, TakesPatch, Snapshot, NoPatch
  <1>2. ASSUME NEW w \in Writers, FlushWrites(w)
        PROVE  Order'
    <2> HIDE PersistenceConstants, NoneIsNoRecord
        DEF Lock, TypeOK, Locked, Busy, Phases, InFlight, Order, Recorded,
            Patched, Awaited, Goto, Listed, Durable, Replies, Fresh, Turns,
            Writers, Loop, Main
    <2>1. /\ UNCHANGED <<life, live, patch, reply>>
          /\ step[w] = "writing" /\ step' = [step EXCEPT ![w] = "ending"]
      BY <1>2 DEF FlushWrites, Goto
    <2>2. ASSUME NEW t \in Threads
          PROVE  /\ disk'[t] # None <=> disk[t] # None
                 /\ disk'[t] = disk[t] \/ (patch[w][t] # None /\ disk'[t] = patch[w][t])
                 /\ patch[w][t] # None /\ disk[t] # None => disk'[t] = patch[w][t]
      <3>1. disk'[t] = Written(w, t)
        BY <1>2 DEF FlushWrites
      <3>2. CASE patch[w][t] # None /\ disk[t] # None
        BY <3>1, <3>2 DEF Written
      <3>3. CASE ~(patch[w][t] # None /\ disk[t] # None)
        <4>1. disk'[t] = disk[t]
          BY <3>1, <3>3 DEF Written
        <4> QED BY <3>3, <4>1
      <3> QED BY <3>2, <3>3
    <2>3. ASSUME NEW v \in Writers, NEW t \in Threads, patch[v][t] # None
          PROVE  v = w
      BY <2>1, <2>3 DEF Lock, Locked, InFlight, Order, Patched
    <2>4. ASSUME NEW t \in Threads, patch[w][t] # None
          PROVE  /\ life[t] # "stored"
                 /\ disk[t] # None => patch[w][t].at <= live[t].at
      <3>1. life[t] # "stored" /\ (patch[w][t] = live[t] \/ patch[w][t].at < live[t].at)
        BY <2>4 DEF Order, Patched
      <3>2. patch[w][t] \in Durable /\ live[t] \in Durable
        BY <2>4 DEF Lock, TypeOK
      <3>3. patch[w][t].at \in Nat /\ live[t].at \in Nat
        BY <3>2 DEF Durable
      <3> QED BY <3>1, <3>3
    <2>5. Recorded'
      BY <2>1, <2>2, <2>4 DEF Order, Recorded
    <2>6. Patched'
      <3>1. ASSUME NEW v \in Writers, NEW t \in Threads, patch[v][t] # None
            PROVE  /\ step'[v] = "ending"
                   /\ disk'[t] # None => disk'[t].at <= patch[v][t].at
        <4>1. v = w
          BY <3>1, <2>3
        <4>2. step'[v] = "ending"
          BY <4>1, <2>1 DEF Lock, TypeOK
        <4>3. ASSUME disk'[t] # None PROVE disk'[t].at <= patch[v][t].at
          <5>1. disk'[t] = patch[w][t] /\ patch[w][t] \in Durable
            BY <2>2, <3>1, <4>1, <4>3 DEF Lock, TypeOK
          <5> QED BY <4>1, <5>1 DEF Durable
        <4> QED BY <4>2, <4>3
      <3> QED BY <2>1, <3>1 DEF Order, Patched, InFlight
    <2>7. Awaited'
      BY <2>1 DEF Order, Awaited
    <2> QED BY <2>5, <2>6, <2>7 DEF Order
  <1>3. ASSUME NEW w \in Writers, FlushFails(w)
        PROVE  Order'
    BY <1>3 DEF FlushFails
  <1>4. ASSUME NEW w \in Writers, FlushRetries(w)
        PROVE  Order'
    BY <1>4 DEF FlushRetries, Redirtied
  <1>5. ASSUME NEW w \in Writers, FlushEnds(w)
        PROVE  Order'
    BY <1>5 DEF FlushEnds, NoPatch
  <1>6. ASSUME NEW t \in Threads, NEW turn \in Turns, Turn(t, turn)
        PROVE  Order'
    <2> HIDE PersistenceConstants, NoneIsNoRecord
        DEF Lock, TypeOK, Locked, Busy, Phases, InFlight, Order, Recorded,
            Patched, Awaited, Goto, Listed, Durable, Replies, Fresh, Turns,
            Writers, Loop, Main
    <2>1. /\ live' = [live EXCEPT ![t] = Later(live[t], turn, live[t].last)]
          /\ UNCHANGED <<life, disk, step, patch, reply>>
      BY <1>6 DEF Turn, Changed
    <2>2. /\ live'[t].at = live[t].at + 1
          /\ \A u \in Threads \ {t} : live'[u] = live[u]
      BY <2>1 DEF Later, Lock, TypeOK
    <2> QED BY <2>1, <2>2, OrderKept
  <1>7. ASSUME NEW t \in Threads, NEW h \in Handlers, NEW r \in Requests, Record(h, t, r)
        PROVE  Order'
    BY <1>7 DEF Record, Changed, Later, Marked, Held
  <1>8. ASSUME NEW t \in Threads, Look(t)
        PROVE  Order'
    BY <1>8 DEF Look
  <1>9. ASSUME NEW t \in Threads, Put(t)
        PROVE  Order'
    BY <1>9 DEF Put
  <1>10. ASSUME NEW t \in Threads, List(t)
        PROVE  Order'
    BY <1>10 DEF List, Marked
  <1>11. ASSUME NEW t \in Threads, Unstore(t)
        PROVE  Order'
    BY <1>11 DEF Unstore, Held
  <1>12. ASSUME NEW t \in Threads, Forget(t)
        PROVE  Order'
    BY <1>12 DEF Forget
  <1>13. CASE LoopWakes
    BY <1>13 DEF LoopWakes
  <1>14. CASE Shutdown
    <2> HIDE PersistenceConstants, NoneIsNoRecord
        DEF Lock, TypeOK, Locked, Busy, Phases, InFlight, Order, Recorded,
            Patched, Awaited, Goto, Listed, Durable, Replies, Fresh, Turns,
            Writers, Loop, Main
    <2>1. ASSUME NEW t \in Threads
          PROVE  live'[t] = live[t] \/ live'[t].at = live[t].at + 1
      BY <1>14, InterruptedLater DEF Shutdown, Lock, TypeOK
    <2>2. UNCHANGED <<life, disk, step, patch, reply>>
      BY <1>14 DEF Shutdown
    <2> QED BY <2>1, <2>2, OrderKept
  <1>15. CASE LastFlush
    BY <1>15 DEF LastFlush
  <1>16. CASE Exit \/ Crash
    BY <1>16 DEF Exit, Crash, Down, NoPatch
  <1>17. CASE Restart
    BY <1>17 DEF Restart, Remembered, Interrupted, Later
  <1>18. CASE UNCHANGED vars
    BY <1>18 DEF vars
  <1> HIDE PersistenceConstants, NoneIsNoRecord
      DEF Lock, TypeOK, Locked, Busy, Phases, InFlight, Order, Recorded,
          Patched, Awaited, Goto, Listed, Durable, Replies, Fresh, Turns,
          Writers, Loop, Main
  <1> QED
    BY <1>1, <1>2, <1>3, <1>4, <1>5, <1>6, <1>7, <1>8, <1>9, <1>10, <1>11,
       <1>12, <1>13, <1>14, <1>15, <1>16, <1>17, <1>18
       DEF Next, FlushStep, ThreadStep, ServiceStep

-----------------------------------------------------------------------------
(* What is not saved is in the hands of a writer, or dirty and noticed.    *)

LEMMA AttentionStep ==
  ASSUME Lock, Order, Attention, Lock', [Next]_vars
  PROVE  Attention'
  <1> USE PersistenceConstants, NoneIsNoRecord
      DEF Lock, TypeOK, Locked, Busy, Phases, InFlight, Order, Recorded,
          Patched, Attention, Unsaved, Carried, Coming, Goto, Listed, Durable,
          Fresh, Turns, Writers, Loop, Main
  <1>1. ASSUME NEW w \in Writers, FlushBegins(w)
        PROVE  Attention'
    BY <1>1 DEF FlushBegins, TakesPatch, Snapshot, NoPatch
  <1>2. ASSUME NEW w \in Writers, FlushWrites(w)
        PROVE  Attention'
    <2> HIDE PersistenceConstants, NoneIsNoRecord
        DEF Lock, TypeOK, Locked, Busy, Phases, InFlight, Order, Recorded,
            Patched, Attention, Unsaved, Carried, Coming, Goto, Listed,
            Durable, Fresh, Turns, Writers, Loop, Main
    <2>1. /\ persistMu = w /\ step[w] = "writing"
          /\ UNCHANGED <<run, life, memory, persistMu, patch>>
          /\ step' = [step EXCEPT ![w] = "ending"]
      BY <1>2 DEF FlushWrites, Goto, Lock, Locked, InFlight
    <2>2. SUFFICES ASSUME NEW t \in Threads, Unsaved(t)', ~Carried(t)'
                   PROVE  /\ t \in dirty
                          /\ wake \/ Coming(Writers)'
                          /\ run = "closing" /\ step'[Main] \notin {"idle", "flush"} =>
                               Coming(Handlers \cup {Main})'
      BY <2>1 DEF Attention
    <2>3. patch[w][t] # live[t] /\ live[t] # disk[t]
      <3>1. live[t] # disk'[t] /\ life[t] = "listed"
        BY <2>1, <2>2 DEF Unsaved
      <3>2. disk'[t] = Written(w, t)
        BY <1>2 DEF FlushWrites
      <3>3. disk[t] # None /\ disk[t].at <= live[t].at
        BY <3>1 DEF Order, Recorded
      <3>4. patch[w][t] # live[t]
        BY <3>1, <3>2, <3>3, NoneIsNoRecord DEF Written, Lock, TypeOK
      <3>5. ASSUME patch[w][t] # None PROVE disk[t].at < live[t].at
        <4>1. disk[t] \in Durable /\ patch[w][t] \in Durable /\ live[t] \in Durable
          BY <3>3, <3>5 DEF Lock, TypeOK
        <4>2. disk[t].at <= patch[w][t].at /\ patch[w][t].at < live[t].at
          BY <3>3, <3>4, <3>5 DEF Order, Patched
        <4> QED BY <4>1, <4>2 DEF Durable
      <3>6. live[t].at \in Nat
        BY DEF Lock, TypeOK, Durable
      <3>7. live[t] # disk[t]
        BY <3>1, <3>2, <3>5, <3>6 DEF Written
      <3> QED BY <3>4, <3>7
    <2>4. Unsaved(t) /\ ~Carried(t)
      BY <2>1, <2>2, <2>3 DEF Unsaved, Carried
    <2>5. w # None
      BY PersistenceConstants DEF Writers
    <2>6. ASSUME NEW ws \in SUBSET Writers, Coming(ws) PROVE Coming(ws)'
      BY <2>1, <2>5, <2>6 DEF Coming, Lock, TypeOK
    <2> QED BY <2>1, <2>4, <2>6 DEF Attention, Writers
  <1>3. ASSUME NEW w \in Writers, FlushFails(w)
        PROVE  Attention'
    <2> HIDE PersistenceConstants, NoneIsNoRecord
        DEF Lock, TypeOK, Locked, Busy, Phases, InFlight, Order, Recorded,
            Patched, Attention, Unsaved, Carried, Coming, Goto, Listed,
            Durable, Fresh, Turns, Writers, Loop, Main
    <2>1. /\ persistMu = w /\ step[w] = "writing"
          /\ UNCHANGED <<run, life, disk, memory, persistMu, patch>>
          /\ step' = [step EXCEPT ![w] = "failed"]
      BY <1>3 DEF FlushFails, Goto, Lock, Locked, InFlight
    <2>2. \A t \in Threads : Unsaved(t)' <=> Unsaved(t)
      BY <2>1 DEF Unsaved
    <2>3. \A t \in Threads : Carried(t) => Carried(t)'
      BY <2>1 DEF Carried, Lock, TypeOK
    <2>4. ASSUME NEW ws \in SUBSET Writers, Coming(ws) PROVE Coming(ws)'
      BY <2>1, <2>4 DEF Coming, Lock, TypeOK
    <2>5. ASSUME step'[Main] \notin {"idle", "flush"}
          PROVE  step[Main] \notin {"idle", "flush"}
      BY <2>1, <2>5 DEF Lock, TypeOK
    <2> QED BY <2>1, <2>2, <2>3, <2>4, <2>5 DEF Attention, Writers
  <1>4. ASSUME NEW w \in Writers, FlushRetries(w)
        PROVE  Attention'
    BY <1>4 DEF FlushRetries, Redirtied
  <1>5. ASSUME NEW w \in Writers, FlushEnds(w)
        PROVE  Attention'
    <2> HIDE PersistenceConstants, NoneIsNoRecord
        DEF Lock, TypeOK, Locked, Busy, Phases, InFlight, Order, Recorded,
            Patched, Attention, Unsaved, Carried, Coming, Goto, Listed,
            Durable, Fresh, Turns, Writers, Loop, Main
    <2>1. /\ persistMu = w /\ step[w] \in {"ending", "noting"}
          /\ persistMu' = None /\ saveError' = (step[w] = "noting")
          /\ UNCHANGED <<run, life, disk, live, known, dirty, wake>>
          /\ \A v \in Writers \ {w} : step'[v] = step[v]
          /\ w = Main => (step'[w] = "exit" <=> run = "closing")
      BY <1>5 DEF FlushEnds, Goto, Lock, Locked, InFlight, TypeOK
    <2>2. \A t \in Threads : Unsaved(t)' <=> Unsaved(t)
      BY <2>1 DEF Unsaved
    <2>3. \A t \in Threads : ~Carried(t)
      BY <2>1 DEF Carried
    <2>4. w # None
      BY PersistenceConstants DEF Writers
    <2>5. ASSUME NEW ws \in SUBSET Writers, Coming(ws) PROVE Coming(ws)'
      BY <2>1, <2>4, <2>5 DEF Coming
    <2>6. ASSUME run = "closing", step'[Main] \notin {"idle", "flush"}
          PROVE  step[Main] \notin {"idle", "flush"}
      BY <2>1, <2>6 DEF Writers
    <2> QED BY <2>1, <2>2, <2>3, <2>5, <2>6 DEF Attention, Writers
  <1>6. ASSUME NEW t \in Threads, NEW turn \in Turns, Turn(t, turn)
        PROVE  Attention'
    <2> HIDE PersistenceConstants, NoneIsNoRecord
        DEF Lock, TypeOK, Locked, Busy, Phases, InFlight, Order, Recorded,
            Patched, Attention, Unsaved, Carried, Coming, Goto, Listed,
            Durable, Fresh, Turns, Writers, Loop, Main
    <2>1. /\ UNCHANGED <<run, life, disk, known, saveError, flushing>>
          /\ run = "up"
          /\ \A u \in Threads \ {t} : live'[u] = live[u]
          /\ \/ Listed(t) /\ dirty' = dirty \cup {t} /\ wake'
             \/ life[t] # "listed" /\ UNCHANGED <<dirty, wake>>
      BY <1>6 DEF Turn, Changed, Marked, Listed, Lock, TypeOK
    <2>2. \A u \in Threads \ {t} :
            (Unsaved(u)' <=> Unsaved(u)) /\ (Carried(u)' <=> Carried(u))
      BY <2>1 DEF Unsaved, Carried
    <2>3. Unsaved(t)' => t \in dirty' /\ wake'
      BY <2>1 DEF Unsaved
    <2>4. ASSUME Coming(Writers) PROVE Coming(Writers)'
      BY <2>1, <2>4 DEF Coming
    <2> SUFFICES ASSUME NEW u \in Threads, Unsaved(u)', ~Carried(u)'
                 PROVE  u \in dirty' /\ (wake' \/ Coming(Writers)')
      BY <2>1 DEF Attention
    <2>6. CASE u = t
      BY <2>6, <2>3
    <2>7. CASE u # t
      <3>1. u \in dirty /\ (wake \/ Coming(Writers))
        <4>1. Unsaved(u) /\ ~Carried(u)
          BY <2>7, <2>2
        <4> QED BY <4>1 DEF Attention
      <3> QED BY <2>1, <2>4, <3>1
    <2> QED BY <2>6, <2>7
  <1>7. ASSUME NEW t \in Threads, NEW h \in Handlers, NEW r \in Requests, Record(h, t, r)
        PROVE  Attention'
    BY <1>7 DEF Record, Changed, Later, Marked, Held
  <1>8. ASSUME NEW t \in Threads, Look(t)
        PROVE  Attention'
    BY <1>8 DEF Look
  <1>9. ASSUME NEW t \in Threads, Put(t)
        PROVE  Attention'
    <2> HIDE PersistenceConstants, NoneIsNoRecord
        DEF Lock, TypeOK, Locked, Busy, Phases, InFlight, Order, Recorded,
            Patched, Attention, Unsaved, Carried, Coming, Goto, Listed,
            Durable, Fresh, Turns, Writers, Loop, Main
    <2>1. /\ UNCHANGED <<run, memory, flushing>>
          /\ life' = [life EXCEPT ![t] = "stored"] /\ disk' = [disk EXCEPT ![t] = Fresh]
      BY <1>9 DEF Put
    <2> QED BY <2>1, AttentionKept DEF Lock, TypeOK
  <1>10. ASSUME NEW t \in Threads, List(t)
        PROVE  Attention'
    <2> HIDE PersistenceConstants, NoneIsNoRecord
        DEF Lock, TypeOK, Locked, Busy, Phases, InFlight, Order, Recorded,
            Patched, Attention, Unsaved, Carried, Coming, Goto, Listed,
            Durable, Fresh, Turns, Writers, Loop, Main
    <2>1. /\ UNCHANGED <<run, disk, live, saveError, flushing>>
          /\ life[t] = "stored" /\ life' = [life EXCEPT ![t] = "listed"]
          /\ run = "up"
          /\ \/ dirty' = dirty \cup {t} /\ wake'
             \/ live[t] = Fresh /\ UNCHANGED <<dirty, wake>>
      BY <1>10 DEF List, Marked
    <2>2. disk[t] = Fresh
      BY <2>1 DEF Order, Recorded
    <2>3. \A u \in Threads \ {t} :
            (Unsaved(u)' <=> Unsaved(u)) /\ (Carried(u)' <=> Carried(u))
      BY <2>1 DEF Unsaved, Carried, Lock, TypeOK
    <2>4. Unsaved(t)' => t \in dirty' /\ wake'
      BY <2>1, <2>2 DEF Unsaved
    <2>5. ASSUME Coming(Writers) PROVE Coming(Writers)'
      BY <2>1, <2>5 DEF Coming
    <2> SUFFICES ASSUME NEW u \in Threads, Unsaved(u)', ~Carried(u)'
                 PROVE  u \in dirty' /\ (wake' \/ Coming(Writers)')
      BY <2>1 DEF Attention
    <2>6. CASE u = t
      BY <2>6, <2>4
    <2>7. CASE u # t
      <3>1. u \in dirty /\ (wake \/ Coming(Writers))
        <4>1. Unsaved(u) /\ ~Carried(u)
          BY <2>7, <2>3
        <4> QED BY <4>1 DEF Attention
      <3> QED BY <2>1, <2>5, <3>1
    <2> QED BY <2>6, <2>7
  <1>11. ASSUME NEW t \in Threads, Unstore(t)
        PROVE  Attention'
    <2> HIDE PersistenceConstants, NoneIsNoRecord
        DEF Lock, TypeOK, Locked, Busy, Phases, InFlight, Order, Recorded,
            Patched, Attention, Unsaved, Carried, Coming, Goto, Listed,
            Durable, Fresh, Turns, Writers, Loop, Main
    <2>1. /\ UNCHANGED <<run, memory, flushing>>
          /\ life' = [life EXCEPT ![t] = "unstored"] /\ disk' = [disk EXCEPT ![t] = None]
      BY <1>11 DEF Unstore
    <2> QED BY <2>1, AttentionKept DEF Lock, TypeOK
  <1>12. ASSUME NEW t \in Threads, Forget(t)
        PROVE  Attention'
    <2> HIDE PersistenceConstants, NoneIsNoRecord
        DEF Lock, TypeOK, Locked, Busy, Phases, InFlight, Order, Recorded,
            Patched, Attention, Unsaved, Carried, Coming, Goto, Listed,
            Durable, Fresh, Turns, Writers, Loop, Main
    <2>1. /\ UNCHANGED <<run, disk, live, wake, saveError, flushing>>
          /\ life' = [life EXCEPT ![t] = "gone"] /\ dirty' = dirty \ {t}
      BY <1>12 DEF Forget
    <2> QED BY <2>1, AttentionKept DEF Lock, TypeOK
  <1>13. CASE LoopWakes
    BY <1>13 DEF LoopWakes
  <1>14. CASE Shutdown
    <2> HIDE PersistenceConstants, NoneIsNoRecord
        DEF Lock, TypeOK, Locked, Busy, Phases, InFlight, Order, Recorded,
            Patched, Attention, Unsaved, Carried, Coming, Goto, Listed,
            Durable, Fresh, Turns, Writers, Loop, Main
    <2> DEFINE ended == {t \in Threads : Listed(t) /\ live[t].turn = "working"}
    <2>1. /\ UNCHANGED <<life, disk, saveError, flushing>> /\ step[Main] = "idle"
          /\ run = "up" /\ run' = "closing"
          /\ dirty' = dirty \cup ended /\ wake' = (wake \/ ended # {})
      BY <1>14 DEF Shutdown
    <2>2. \A u \in Threads \ ended : live'[u] = live[u]
      BY <1>14 DEF Shutdown
    <2>3. \A u \in Threads \ ended :
            (Unsaved(u)' <=> Unsaved(u)) /\ (Carried(u)' <=> Carried(u))
      BY <2>1, <2>2 DEF Unsaved, Carried, Listed
    <2>4. ASSUME Coming(Writers) PROVE Coming(Writers)'
      BY <2>1, <2>4 DEF Coming
    <2> SUFFICES ASSUME NEW u \in Threads, Unsaved(u)', ~Carried(u)'
                 PROVE  u \in dirty' /\ (wake' \/ Coming(Writers)')
      BY <2>1 DEF Attention
    <2>5. CASE u \in ended
      BY <2>1, <2>5
    <2>6. CASE u \notin ended
      <3>1. u \in dirty /\ (wake \/ Coming(Writers))
        <4>1. Unsaved(u) /\ ~Carried(u)
          BY <2>6, <2>3
        <4> QED BY <4>1 DEF Attention
      <3> QED BY <2>1, <2>4, <3>1
    <2> QED BY <2>5, <2>6
  <1>15. CASE LastFlush
    BY <1>15 DEF LastFlush
  <1>16. CASE Exit \/ Crash
    BY <1>16 DEF Exit, Crash, Down, NoPatch
  <1>17. CASE Restart
    BY <1>17 DEF Restart, Remembered, Interrupted, Later
  <1>18. CASE UNCHANGED vars
    BY <1>18 DEF vars
  <1> HIDE PersistenceConstants, NoneIsNoRecord
      DEF Lock, TypeOK, Locked, Busy, Phases, InFlight, Order, Recorded,
          Patched, Attention, Unsaved, Carried, Coming, Goto, Listed, Durable,
          Fresh, Turns, Writers, Loop, Main
  <1> QED
    BY <1>1, <1>2, <1>3, <1>4, <1>5, <1>6, <1>7, <1>8, <1>9, <1>10, <1>11,
       <1>12, <1>13, <1>14, <1>15, <1>16, <1>17, <1>18
       DEF Next, FlushStep, ThreadStep, ServiceStep

-----------------------------------------------------------------------------
(* An answered outcome is in the file.                                     *)

LEMMA AnswersStep ==
  ASSUME Kept, Lock', Order', [Next]_vars
  PROVE  Answers'
  <1> USE PersistenceConstants, NoneIsNoRecord
      DEF Kept, Lock, TypeOK, Locked, Busy, Phases, InFlight, Order, Recorded,
          Patched, Awaited, Attention, Unsaved, Carried, Answers, Covered,
          Unheard, HeardIsDurable, Goto, Listed, Durable, Replies, Fresh,
          Turns, Writers, Loop, Main
  <1>1. ASSUME NEW w \in Writers, FlushBegins(w)
        PROVE  Answers'
    BY <1>1 DEF FlushBegins, TakesPatch, Snapshot, NoPatch
  <1>2. ASSUME NEW w \in Writers, FlushWrites(w)
        PROVE  Answers'
    BY <1>2 DEF FlushWrites, Written
  <1>3. ASSUME NEW w \in Writers, FlushFails(w)
        PROVE  Answers'
    BY <1>3 DEF FlushFails
  <1>4. ASSUME NEW w \in Writers, FlushRetries(w)
        PROVE  Answers'
    BY <1>4 DEF FlushRetries, Redirtied
  <1>5. ASSUME NEW w \in Writers, FlushEnds(w)
        PROVE  Answers'
    <2> HIDE PersistenceConstants, NoneIsNoRecord
        DEF Kept, Lock, TypeOK, Locked, Busy, Phases, InFlight, Order,
            Recorded, Patched, Awaited, Attention, Unsaved, Carried, Answers,
            Covered, Unheard, HeardIsDurable, Goto, Listed, Durable, Replies,
            Fresh, Turns, Writers, Loop, Main
    <2>1. /\ step[w] \in {"ending", "noting"}
          /\ UNCHANGED <<run, life, disk, live>>
          /\ \A v \in Writers \ {w} : step'[v] = step[v] /\ patch'[v] = patch[v]
      BY <1>5 DEF FlushEnds, Goto, Kept, Lock, TypeOK
    <2>2. CASE w \notin Handlers
      <3>1. UNCHANGED <<reply, heard>> /\ \A h \in Handlers : h \in Writers \ {w}
        BY <1>5, <2>2 DEF FlushEnds, Writers
      <3> QED BY <2>1, <3>1 DEF Kept, Answers, Covered, Unheard, HeardIsDurable
    <2>3. CASE w \in Handlers
      <3> DEFINE a == reply[w].thread
                 q == reply[w].request
      <3>1. reply' = [reply EXCEPT ![w] = None] /\ reply[w] # None
        BY <1>5, <2>1, <2>3 DEF FlushEnds, Kept, Lock, Busy
      <3>2. reply[w] \in Replies
        BY <2>3, <3>1 DEF Kept, Lock, TypeOK
      <3>3. a \in Threads /\ q \in Requests /\ reply[w].at \in Nat
        BY <3>2 DEF Replies
      <3>4. life[a] = "listed"
        BY <2>3, <3>1 DEF Kept, Order, Awaited
      <3>5. Covered'
        <4>1. ASSUME NEW h \in Handlers, reply'[h] # None
              PROVE  /\ h \in Handlers \ {w} /\ h \in Writers \ {w}
                     /\ reply'[h] = reply[h]
          BY <2>3, <3>1, <4>1 DEF Kept, Lock, TypeOK, Writers
        <4> QED BY <2>1, <4>1 DEF Kept, Answers, Covered
      <3>6. CASE step[w] = "noting"
        <4>1. heard' = heard
          BY <1>5, <2>3, <3>6 DEF FlushEnds
        <4> QED BY <2>1, <3>5, <4>1 DEF Kept, Answers, Unheard, HeardIsDurable
      <3>7. CASE step[w] = "ending"
        <4>1. heard' = [heard EXCEPT ![a][q] = reply[w].at]
          BY <1>5, <2>3, <3>7 DEF FlushEnds
        <4>2. disk[a] # None => reply[w].at <= disk[a].at
          BY <2>3, <3>1, <3>7 DEF Kept, Answers, Covered
        <4> HIDE DEF a, q
        <4>3. ASSUME NEW t \in Threads, NEW r \in Requests
              PROVE  \/ heard'[t][r] = heard[t][r]
                     \/ t = a /\ heard'[t][r] = reply[w].at
          BY <3>3, <4>1 DEF Kept, Lock, TypeOK
        <4>4. Unheard'
          BY <2>1, <3>4, <4>3 DEF Kept, Answers, Unheard
        <4>5. HeardIsDurable'
          BY <2>1, <4>2, <4>3 DEF Kept, Answers, HeardIsDurable
        <4> QED BY <3>5, <4>4, <4>5 DEF Answers
      <3> QED BY <2>1, <3>6, <3>7
    <2> QED BY <2>2, <2>3
  <1>6. ASSUME NEW t \in Threads, NEW turn \in Turns, Turn(t, turn)
        PROVE  Answers'
    BY <1>6 DEF Turn, Changed, Later, Marked
  <1>7. ASSUME NEW t \in Threads, NEW h \in Handlers, NEW r \in Requests, Record(h, t, r)
        PROVE  Answers'
    BY <1>7 DEF Record, Changed, Later, Marked, Held
  <1>8. ASSUME NEW t \in Threads, Look(t)
        PROVE  Answers'
    BY <1>8 DEF Look
  <1>9. ASSUME NEW t \in Threads, Put(t)
        PROVE  Answers'
    BY <1>9 DEF Put
  <1>10. ASSUME NEW t \in Threads, List(t)
        PROVE  Answers'
    BY <1>10 DEF List, Marked
  <1>11. ASSUME NEW t \in Threads, Unstore(t)
        PROVE  Answers'
    BY <1>11 DEF Unstore, Held
  <1>12. ASSUME NEW t \in Threads, Forget(t)
        PROVE  Answers'
    BY <1>12 DEF Forget
  <1>13. CASE LoopWakes
    BY <1>13 DEF LoopWakes
  <1>14. CASE Shutdown
    BY <1>14 DEF Shutdown, Interrupted, Later
  <1>15. CASE LastFlush
    BY <1>15 DEF LastFlush
  <1>16. CASE Exit \/ Crash
    BY <1>16 DEF Exit, Crash, Down, NoPatch
  <1>17. CASE Restart
    BY <1>17 DEF Restart, Remembered, Interrupted, Later
  <1>18. CASE UNCHANGED vars
    BY <1>18 DEF vars
  <1> HIDE PersistenceConstants, NoneIsNoRecord
      DEF Kept, Lock, TypeOK, Locked, Busy, Phases, InFlight, Order, Recorded,
          Patched, Awaited, Attention, Unsaved, Carried, Answers, Covered,
          Unheard, HeardIsDurable, Goto, Listed, Durable, Replies, Fresh,
          Turns, Writers, Loop, Main
  <1> QED
    BY <1>1, <1>2, <1>3, <1>4, <1>5, <1>6, <1>7, <1>8, <1>9, <1>10, <1>11,
       <1>12, <1>13, <1>14, <1>15, <1>16, <1>17, <1>18
       DEF Next, FlushStep, ThreadStep, ServiceStep

-----------------------------------------------------------------------------
(* The theorems.                                                           *)

LEMMA KeptInit ==
  ASSUME Init
  PROVE  Kept
  <1>1. TypeOK
    BY DEF Init, TypeOK, NoPatch, Fresh, Durable, Turns
  <1>2. Locked /\ Busy /\ Phases
    BY PersistenceConstants
       DEF Init, Locked, InFlight, Busy, Phases, Writers, Loop, Main
  <1>3. Order
    BY DEF Init, NoPatch, Order, Recorded, Patched, Awaited
  <1>4. Attention
    BY DEF Init, Attention, Unsaved
  <1>5. Answers
    BY DEF Init, Answers, Covered, Unheard, HeardIsDurable
  <1> QED BY <1>1, <1>2, <1>3, <1>4, <1>5 DEF Kept, Lock

LEMMA KeptStep ==
  ASSUME Kept, [Next]_vars
  PROVE  Kept'
  <1>1. Lock' BY LockStep DEF Kept
  <1>2. Order' BY <1>1, OrderStep DEF Kept
  <1>3. Attention' BY <1>1, AttentionStep DEF Kept
  <1>4. Answers' BY <1>1, <1>2, AnswersStep
  <1> QED BY <1>1, <1>2, <1>3, <1>4 DEF Kept

\* The four layers hold at all times: they are inductive, and every property
\* below follows from them.
THEOREM KeptInductive == Spec => []Kept
  <1>1. Kept /\ [Next]_vars => Kept'
    BY KeptStep
  <1>2. Init => Kept
    BY KeptInit
  <1> QED BY <1>1, <1>2, PTL DEF Spec

\* Every variable has its type, in particular what is in sessions.json.
THEOREM StoreTyped == Spec => []TypeOK
  <1>1. Kept => TypeOK
    BY DEF Kept, Lock
  <1> QED BY KeptInductive, <1>1, PTL

\* A change that is not in the file is dirty or in the hands of the flush that
\* writes it or marks it again: clearing Manager.dirty before the write loses
\* nothing.
THEOREM NothingIsForgotten == Spec => []NothingForgotten
  <1>1. ASSUME Kept, NEW t \in Threads, Unsaved(t), Carried(t)
        PROVE  \E w \in Writers : /\ persistMu = w
                                  /\ step[w] \in {"writing", "failed"}
                                  /\ patch[w][t] = live[t]
    BY <1>1 DEF Carried, Kept, Lock, TypeOK
  <1>2. Kept => NothingForgotten
    BY <1>1 DEF Kept, Attention, NothingForgotten
  <1> QED BY KeptInductive, <1>2, PTL

\* A change that is not in the file has someone coming for it, or the owner
\* sees that saving failed: the one token of Manager.wake is enough.
THEOREM SomeoneComes == Spec => []WakeOrShown
  <1>1. ASSUME Kept, NEW t \in Threads, Unsaved(t)
        PROVE  wake \/ saveError \/ \E w \in Writers : step[w] # "idle"
    <2>1. CASE Carried(t)
      <3>1. persistMu \in Writers /\ step[persistMu] # "idle"
        BY <1>1, <2>1 DEF Carried, Kept, Lock, TypeOK
      <3> QED BY <3>1
    <2>2. CASE ~Carried(t)
      <3>1. wake \/ Coming(Writers)
        BY <1>1, <2>2 DEF Kept, Attention
      <3> QED BY <3>1 DEF Coming
    <2> QED BY <2>1, <2>2
  <1>2. Kept => WakeOrShown
    BY <1>1 DEF WakeOrShown
  <1> QED BY KeptInductive, <1>2, PTL

\* An outcome that was answered after a successful flush is in the file, so a
\* crash does not undo it.
THEOREM AnsweredIsDurable == Spec => []HeardIsDurable
  <1>1. Kept => HeardIsDurable
    BY DEF Kept, Answers
  <1> QED BY KeptInductive, <1>1, PTL

\* No flush, failed save or restart brings back the record of a deleted Thread.
THEOREM DeletedStaysDeleted == Spec => []RemovedStaysRemoved
  <1>1. Kept => RemovedStaysRemoved
    BY DEF Kept, Order, Recorded, RemovedStaysRemoved
  <1> QED BY KeptInductive, <1>1, PTL

\* No writer puts an older state of a Thread over a newer one.
THEOREM FileGoesForward == Spec => DiskNeverGoesBack
  <1>1. ASSUME Kept, [Next]_vars, NEW t \in Threads, disk[t] # None,
               disk'[t] # None
        PROVE  disk[t].at <= disk'[t].at
    <2>1. disk[t].at \in Nat
      BY <1>1 DEF Kept, Lock, TypeOK, Durable
    <2>2. CASE \E w \in Writers : FlushWrites(w)
      <3>1. PICK w \in Writers : disk'[t] = Written(w, t)
        BY <2>2 DEF FlushWrites
      <3>2. patch[w][t] # None => disk[t].at <= patch[w][t].at
        BY <1>1 DEF Kept, Order, Patched
      <3> QED BY <2>1, <3>1, <3>2 DEF Written
    <2>3. CASE \E u \in Threads : Put(u)
      <3>1. PICK u \in Threads : Put(u)
        BY <2>3
      <3>2. disk[u] = None
        BY <1>1, <3>1 DEF Put, Kept, Order, Recorded
      <3> QED BY <1>1, <2>1, <3>1, <3>2 DEF Put, Kept, Lock, TypeOK
    <2>4. CASE \E u \in Threads : Unstore(u)
      <3>1. PICK u \in Threads : Unstore(u)
        BY <2>4
      <3> QED BY <1>1, <2>1, <3>1 DEF Unstore, Kept, Lock, TypeOK
    <2>5. CASE disk' = disk
      BY <2>1, <2>5
    <2> QED
      BY <1>1, <2>2, <2>3, <2>4, <2>5
         DEF Next, FlushStep, ThreadStep, ServiceStep, FlushBegins, TakesPatch,
             FlushFails, FlushRetries, FlushEnds, Turn, Record, Changed, Look,
             List, Forget, LoopWakes, Shutdown, LastFlush, Exit, Crash, Down,
             Restart, vars
  <1>2. Kept /\ [Next]_vars =>
          [\A t \in Threads : disk[t] # None /\ disk'[t] # None =>
             disk[t].at <= disk'[t].at]_disk
    BY <1>1
  <1> QED BY KeptInductive, <1>2, PTL DEF Spec, DiskNeverGoesBack

\* When the service ends in order and the last save succeeded, the file holds
\* every Thread as it was.
THEOREM CleanStop == Spec => CleanStopLosesNothing
  <1>1. ASSUME Kept, Exit, ~saveError, \A h \in Handlers : reply[h] = None,
               NEW t \in Threads, life[t] = "listed"
        PROVE  live[t] = disk[t]
    <2>1. /\ run = "closing" /\ step[Main] = "exit" /\ step[Loop] = "idle"
          /\ \A h \in Handlers : step[h] = "idle"
      BY <1>1 DEF Exit, Kept, Lock, Phases, Busy
    <2>2. ~Coming(Handlers \cup {Main})
      BY <1>1, <2>1 DEF Coming
    <2>3. ~Carried(t)
      <3>1. persistMu \in Writers \cup {None}
        BY <1>1 DEF Kept, Lock, TypeOK
      <3> QED BY <2>1, <3>1 DEF Carried, Writers
    <2> QED BY <1>1, <2>1, <2>2, <2>3 DEF Kept, Attention, Unsaved
  <1>2. Kept /\ [Next]_vars =>
          [Exit /\ ~saveError /\ (\A h \in Handlers : reply[h] = None) =>
             \A t \in Threads : life[t] = "listed" => live[t] = disk[t]]_vars
    BY <1>1
  <1> QED BY KeptInductive, <1>2, PTL DEF Spec, CleanStopLosesNothing

-----------------------------------------------------------------------------
(***************************************************************************)
(* A restart of the provider's CLI onto an update ends no conversation of  *)
(* a Thread and no utility prompt, for any number of Threads, prompts,     *)
(* uses and updates.                                                       *)
(*                                                                         *)
(* The argument: whoever got the running client is either counted by       *)
(* stopOutdated (tracked, counted) or still opens; a listed Thread that    *)
(* opens holds quiesceCLI back; and from the moment starts are held nobody *)
(* gets the client any more, for as long as it is outdated or stopped.     *)
(***************************************************************************)

CONSTANTS News, Jobs, MaxUses, MaxEvents
VARIABLES cli, tracked, counted, cut, installed, listed, at, on, sends, opening,
          viewing, conv, busy, stale, exiting, job, update, waits, try, svc, left

R == INSTANCE Restarts

Steps == {"idle", "stage", "install", "tick", "count", "hold", "quiesce",
          "suspend", "stop", "release", "won", "lost", "failed"}

\* What the argument needs of TypeOK, without its bounds.
CLIRecords == [client : Nat, started : Nat, release : Nat, known : Nat,
               outdated : BOOLEAN, held : R!Holders]
CLITyped == cli \in CLIRecords /\ installed \in Nat
ThreadsTyped ==
  /\ listed \subseteq R!Tasks /\ tracked \subseteq R!Tasks
  /\ at \in [R!Tasks -> {"idle", "ensure", "open", "attach", "send"}]
  /\ on \in [R!Tasks -> Nat] /\ conv \in [R!Tasks -> Nat]
  /\ opening \in [R!Tasks -> BOOLEAN]
JobsTyped ==
  /\ counted \subseteq Jobs
  /\ job \in [Jobs -> [at : {"idle", "ensure", "count", "run"}, on : Nat]]
TryRecords == [at : Steps, todo : SUBSET R!Tasks, closing : R!Tasks \cup {None},
               busy : BOOLEAN]
TriesTyped == try \in [R!Tries -> TryRecords]
Typed == CLITyped /\ ThreadsTyped /\ JobsTyped /\ TriesTyped

\* A client is stopped once, and its number is not used again.
ClientsAreNew ==
  /\ cli.client <= cli.started
  /\ \A c \in cut : c \in 1..cli.started /\ c # cli.client
  /\ cli.outdated => cli.client # 0
  /\ \A t \in R!Tasks : on[t] <= cli.started /\ conv[t] <= cli.started
  /\ \A j \in Jobs : job[j].on <= cli.started

\* Who uses the running client is counted, or still opens.
UsersAreCounted ==
  /\ \A t \in R!Tasks : /\ at[t] = "attach" /\ on[t] = cli.client => t \in tracked
                        /\ conv[t] = cli.client /\ conv[t] # 0 => t \in tracked
  /\ \A j \in Jobs : job[j].at = "run" => j \in counted

\* A conversation opens only where there is none; a listed Thread shows it.
OpeningIsShown ==
  /\ \A t \in R!Tasks : at[t] \in {"ensure", "open", "attach"} =>
       conv[t] = 0 /\ (t \in listed => opening[t])
  /\ \A t \in R!Tasks \ listed : conv[t] = 0
  /\ \A t \in R!Tasks : at[t] \in {"open", "attach"} => on[t] # 0

\* Starts are held by who installs or stops.
Holding == {"quiesce", "suspend", "stop"}
HeldByOne ==
  /\ \A r \in R!Tries :
       try[r].at \in Holding \cup {"install", "release"} => cli.held = r
  /\ try["wait"].at \notin {"stage", "install"}
  /\ \A r \in R!Tries :
       try[r].at \in Holding => cli.client = 0 \/ cli.outdated

\* s.op, while a restart closes the Thread's conversation.
ClosesIdle ==
  \A r \in R!Tries :
    /\ try[r].todo \subseteq listed
    /\ try[r].closing # None => /\ try[r].closing \in listed
                                /\ at[try[r].closing] = "idle"
                                /\ conv[try[r].closing] = 0

\* Once quiesceCLI found no Thread that opens, none opens on the client.
NoneOpens ==
  \A r \in R!Tries :
    try[r].at = "stop" \/ (try[r].at = "suspend" /\ ~try[r].busy) =>
      \A t \in listed : at[t] = "open" => on[t] # cli.client

\* What a restart cut off is not used, and nobody gets it any more.
CutIsUnused ==
  /\ \A t \in R!Tasks, c \in cut : /\ conv[t] # c
                                   /\ at[t] = "attach" => on[t] # c
                                   /\ t \in listed /\ at[t] = "open" => on[t] # c
  /\ \A j \in Jobs, c \in cut : job[j].at = "run" => job[j].on # c

Inv == /\ Typed /\ ClientsAreNew /\ UsersAreCounted /\ OpeningIsShown
       /\ HeldByOne /\ ClosesIdle /\ NoneOpens /\ CutIsUnused

\* How a try ends is a try.
LEMMA TriesTakeEnds ==
  ASSUME NEW r \in R!Tries
  PROVE  R!NoTry \in TryRecords /\ R!Done(r) \in TryRecords /\ R!NotYet(r) \in TryRecords
  BY DEF R!NoTry, R!Done, R!NotYet, TryRecords, Steps

LEMMA PromptKeeps ==
  ASSUME R!RestartConstants, Inv, NEW t \in R!Tasks, R!Prompt(t)
  PROVE  Inv'
<1> USE DEF Inv, R!Prompt, R!Set, R!cliVars, R!threadVars, R!updateVars,
            R!Tries, R!OpFree, R!Opens, R!OneUse
<1>1. Typed'
  <2>1. CLITyped'
    BY DEF Typed, CLITyped, CLIRecords, R!Holders
  <2>2. ThreadsTyped'
    BY DEF Typed, ThreadsTyped
  <2>3. JobsTyped'
    BY DEF Typed, JobsTyped
  <2>4. TriesTyped'
    BY DEF Typed, TriesTyped, ThreadsTyped, TryRecords, Steps
  <2> QED
    BY <2>1, <2>2, <2>3, <2>4 DEF Typed
<1>2. ClientsAreNew'
  BY SMTT(20)
     DEF Typed, CLITyped, ThreadsTyped, JobsTyped, CLIRecords, ClientsAreNew
<1>3. UsersAreCounted'
  BY SMTT(20)
     DEF Typed, CLITyped, ThreadsTyped, JobsTyped, CLIRecords, UsersAreCounted
<1>4. OpeningIsShown'
  <2>1. CASE conv[t] = 0
    <3>1. PICK b \in BOOLEAN : /\ opening' = [opening EXCEPT ![t] = b]
                               /\ (t \in listed => b)
      BY <2>1
    <3>2. at' = [at EXCEPT ![t] = "ensure"] /\ UNCHANGED <<conv, listed, on>>
      BY <2>1
    <3> QED
      BY <2>1, <3>1, <3>2 DEF Typed, ThreadsTyped, OpeningIsShown
  <2>2. CASE conv[t] # 0
    BY <2>2, SMTT(20) DEF Typed, ThreadsTyped, OpeningIsShown
  <2> QED
    BY <2>1, <2>2
<1>5. HeldByOne'
  BY SMTT(20)
     DEF Typed, CLITyped, TriesTyped, CLIRecords, TryRecords, Steps, Holding,
         HeldByOne
<1>6. ClosesIdle'
  BY SMTT(20)
     DEF Typed, ThreadsTyped, TriesTyped, TryRecords, Steps, Holding,
         ClosesIdle
<1>7. NoneOpens'
  BY SMTT(20)
     DEF Typed, CLITyped, ThreadsTyped, TriesTyped, CLIRecords, TryRecords,
         Steps, Holding, NoneOpens
<1>8. CutIsUnused'
  BY SMTT(20)
     DEF Typed, CLITyped, ThreadsTyped, JobsTyped, CLIRecords, CutIsUnused
<1> QED
  BY <1>1, <1>2, <1>3, <1>4, <1>5, <1>6, <1>7, <1>8 DEF Inv

LEMMA ViewKeeps ==
  ASSUME R!RestartConstants, Inv, NEW t \in R!Tasks, R!View(t)
  PROVE  Inv'
<1> USE DEF Inv, R!View, R!Set, R!cliVars, R!threadVars, R!updateVars, R!Tries,
            R!OneUse
<1>1. Typed'
  BY SMTT(20)
     DEF Typed, CLIRecords, CLITyped, ThreadsTyped, JobsTyped, TriesTyped,
         TryRecords, Steps, R!Holders
<1>2. ClientsAreNew'
  BY SMTT(20)
     DEF Typed, CLITyped, ThreadsTyped, JobsTyped, CLIRecords, ClientsAreNew
<1>3. UsersAreCounted'
  BY SMTT(20)
     DEF Typed, CLITyped, ThreadsTyped, JobsTyped, CLIRecords, UsersAreCounted
<1>4. OpeningIsShown'
  BY SMTT(20) DEF Typed, ThreadsTyped, OpeningIsShown
<1>5. HeldByOne'
  BY SMTT(20)
     DEF Typed, CLITyped, TriesTyped, CLIRecords, TryRecords, Steps, Holding,
         HeldByOne
<1>6. ClosesIdle'
  BY SMTT(20)
     DEF Typed, ThreadsTyped, TriesTyped, TryRecords, Steps, Holding,
         ClosesIdle
<1>7. NoneOpens'
  BY SMTT(20)
     DEF Typed, CLITyped, ThreadsTyped, TriesTyped, CLIRecords, TryRecords,
         Steps, Holding, NoneOpens
<1>8. CutIsUnused'
  BY SMTT(20)
     DEF Typed, CLITyped, ThreadsTyped, JobsTyped, CLIRecords, CutIsUnused
<1> QED
  BY <1>1, <1>2, <1>3, <1>4, <1>5, <1>6, <1>7, <1>8 DEF Inv

LEMMA ViewRunsKeeps ==
  ASSUME R!RestartConstants, Inv, NEW t \in R!Tasks, R!ViewRuns(t)
  PROVE  Inv'
<1> USE DEF Inv, R!ViewRuns, R!Set, R!cliVars, R!threadVars, R!updateVars,
            R!Tries, R!OpFree, R!Opens
<1>1. Typed'
  <2>1. CLITyped'
    BY DEF Typed, CLITyped, CLIRecords, R!Holders
  <2>2. ThreadsTyped'
    <3>1. CASE conv[t] = 0
      <4>1. \/ opening' = [opening EXCEPT ![t] = TRUE]
            \/ opening' = [opening EXCEPT ![t] = FALSE]
        <5>1. CASE t \in listed
          BY <3>1, <5>1
        <5>2. CASE t \notin listed
          BY <3>1, <5>2
        <5> QED
          BY <5>1, <5>2
      <4>2. at' = [at EXCEPT ![t] = "ensure"]
        BY <3>1
      <4>3. UNCHANGED <<conv, listed, on, tracked>>
        BY <3>1
      <4> QED
        BY <4>1, <4>2, <4>3 DEF Typed, ThreadsTyped
    <3>2. CASE conv[t] # 0
      BY <3>2 DEF Typed, ThreadsTyped
    <3> QED
      BY <3>1, <3>2
  <2>3. JobsTyped'
    BY DEF Typed, JobsTyped
  <2>4. TriesTyped'
    BY DEF Typed, TriesTyped, ThreadsTyped, TryRecords, Steps
  <2> QED
    BY <2>1, <2>2, <2>3, <2>4 DEF Typed
<1>2. ClientsAreNew'
  BY SMTT(20)
     DEF Typed, CLITyped, ThreadsTyped, JobsTyped, CLIRecords, ClientsAreNew
<1>3. UsersAreCounted'
  BY SMTT(20)
     DEF Typed, CLITyped, ThreadsTyped, JobsTyped, CLIRecords, UsersAreCounted
<1>4. OpeningIsShown'
  <2>1. CASE conv[t] = 0
    <3>1. \/ opening' = [opening EXCEPT ![t] = TRUE]
          \/ opening' = [opening EXCEPT ![t] = FALSE] /\ t \notin listed
      <4>1. CASE t \in listed
        BY <2>1, <4>1
      <4>2. CASE t \notin listed
        BY <2>1, <4>2
      <4> QED
        BY <4>1, <4>2
    <3>2. at' = [at EXCEPT ![t] = "ensure"] /\ UNCHANGED <<conv, listed, on>>
      BY <2>1
    <3> QED
      BY <2>1, <3>1, <3>2 DEF Typed, ThreadsTyped, OpeningIsShown
  <2>2. CASE conv[t] # 0
    BY <2>2, SMTT(20) DEF Typed, ThreadsTyped, OpeningIsShown
  <2> QED
    BY <2>1, <2>2
<1>5. HeldByOne'
  BY SMTT(20)
     DEF Typed, CLITyped, TriesTyped, CLIRecords, TryRecords, Steps, Holding,
         HeldByOne
<1>6. ClosesIdle'
  BY SMTT(20)
     DEF Typed, ThreadsTyped, TriesTyped, TryRecords, Steps, Holding,
         ClosesIdle
<1>7. NoneOpens'
  BY SMTT(20)
     DEF Typed, CLITyped, ThreadsTyped, TriesTyped, CLIRecords, TryRecords,
         Steps, Holding, NoneOpens
<1>8. CutIsUnused'
  BY SMTT(20)
     DEF Typed, CLITyped, ThreadsTyped, JobsTyped, CLIRecords, CutIsUnused
<1> QED
  BY <1>1, <1>2, <1>3, <1>4, <1>5, <1>6, <1>7, <1>8 DEF Inv

LEMMA CreateKeeps ==
  ASSUME R!RestartConstants, Inv, NEW t \in R!Tasks, R!Create(t)
  PROVE  Inv'
<1> USE DEF Inv, R!Create, R!Set, R!cliVars, R!threadVars, R!updateVars,
            R!Tries, R!Opens, R!OneUse
<1>1. Typed'
  BY SMTT(20)
     DEF Typed, CLIRecords, CLITyped, ThreadsTyped, JobsTyped, TriesTyped,
         TryRecords, Steps, R!Holders
<1>2. ClientsAreNew'
  BY SMTT(20)
     DEF Typed, CLITyped, ThreadsTyped, JobsTyped, CLIRecords, ClientsAreNew
<1>3. UsersAreCounted'
  BY SMTT(20)
     DEF Typed, CLITyped, ThreadsTyped, JobsTyped, CLIRecords, UsersAreCounted
<1>4. OpeningIsShown'
  BY SMTT(20) DEF Typed, ThreadsTyped, OpeningIsShown
<1>5. HeldByOne'
  BY SMTT(20)
     DEF Typed, CLITyped, TriesTyped, CLIRecords, TryRecords, Steps, Holding,
         HeldByOne
<1>6. ClosesIdle'
  BY SMTT(20)
     DEF Typed, ThreadsTyped, TriesTyped, TryRecords, Steps, Holding,
         ClosesIdle
<1>7. NoneOpens'
  BY SMTT(20)
     DEF Typed, CLITyped, ThreadsTyped, TriesTyped, CLIRecords, TryRecords,
         Steps, Holding, NoneOpens
<1>8. CutIsUnused'
  BY SMTT(20)
     DEF Typed, CLITyped, ThreadsTyped, JobsTyped, CLIRecords, CutIsUnused
<1> QED
  BY <1>1, <1>2, <1>3, <1>4, <1>5, <1>6, <1>7, <1>8 DEF Inv

LEMMA TrackKeeps ==
  ASSUME R!RestartConstants, Inv, NEW t \in R!Tasks, R!Track(t)
  PROVE  Inv'
<1> USE DEF Inv, R!Track, R!Set, R!cliVars, R!threadVars, R!updateVars,
            R!Tries, R!EndsOpen
<1>1. Typed'
  <2>1. CLITyped'
    BY DEF Typed, CLITyped, CLIRecords, R!Holders
  <2>2. ThreadsTyped'
    <3>1. CASE at' = R!Set(at, t, "attach")
      BY <3>1, SMTT(20) DEF Typed, ThreadsTyped
    <3>2. CASE at' = R!Set(at, t, "idle")
      <4>1. opening' \in [R!Tasks -> BOOLEAN]
        BY <3>2 DEF Typed, ThreadsTyped
      <4>2. on' \in [R!Tasks -> Nat]
        BY <3>2 DEF Typed, ThreadsTyped
      <4> QED
        BY <3>2, <4>1, <4>2, SMTT(20) DEF Typed, ThreadsTyped
    <3> QED
      BY <3>1, <3>2
  <2>3. JobsTyped'
    BY DEF Typed, JobsTyped
  <2>4. TriesTyped'
    BY DEF Typed, TriesTyped, ThreadsTyped, TryRecords, Steps
  <2> QED
    BY <2>1, <2>2, <2>3, <2>4 DEF Typed
<1>2. ClientsAreNew'
  BY SMTT(20)
     DEF Typed, CLITyped, ThreadsTyped, JobsTyped, CLIRecords, ClientsAreNew
<1>3. UsersAreCounted'
  BY SMTT(20)
     DEF Typed, CLITyped, ThreadsTyped, JobsTyped, CLIRecords, UsersAreCounted
<1>4. OpeningIsShown'
  BY SMTT(20) DEF Typed, ThreadsTyped, OpeningIsShown
<1>5. HeldByOne'
  BY SMTT(20)
     DEF Typed, CLITyped, TriesTyped, CLIRecords, TryRecords, Steps, Holding,
         HeldByOne
<1>6. ClosesIdle'
  BY SMTT(20)
     DEF Typed, ThreadsTyped, TriesTyped, TryRecords, Steps, Holding,
         ClosesIdle
<1>7. NoneOpens'
  BY SMTT(20)
     DEF Typed, CLITyped, ThreadsTyped, TriesTyped, CLIRecords, TryRecords,
         Steps, Holding, NoneOpens
<1>8. CutIsUnused'
  BY SMTT(20)
     DEF Typed, CLITyped, ThreadsTyped, JobsTyped, CLIRecords, CutIsUnused,
         ClientsAreNew
<1> QED
  BY <1>1, <1>2, <1>3, <1>4, <1>5, <1>6, <1>7, <1>8 DEF Inv

LEMMA AttachKeeps ==
  ASSUME R!RestartConstants, Inv, NEW t \in R!Tasks, R!Attach(t)
  PROVE  Inv'
<1> USE DEF Inv, R!Attach, R!Set, R!cliVars, R!threadVars, R!updateVars,
            R!Tries, R!EndsOpen
<1>1. Typed'
  BY SMTT(20)
     DEF Typed, CLIRecords, CLITyped, ThreadsTyped, JobsTyped, TriesTyped,
         TryRecords, Steps, R!Holders
<1>2. ClientsAreNew'
  BY SMTT(20)
     DEF Typed, CLITyped, ThreadsTyped, JobsTyped, CLIRecords, ClientsAreNew
<1>3. UsersAreCounted'
  BY SMTT(20)
     DEF Typed, CLITyped, ThreadsTyped, JobsTyped, CLIRecords, UsersAreCounted,
         OpeningIsShown
<1>4. OpeningIsShown'
  BY SMTT(20) DEF Typed, ThreadsTyped, OpeningIsShown
<1>5. HeldByOne'
  BY SMTT(20)
     DEF Typed, CLITyped, TriesTyped, CLIRecords, TryRecords, Steps, Holding,
         HeldByOne
<1>6. ClosesIdle'
  BY SMTT(20)
     DEF Typed, ThreadsTyped, TriesTyped, TryRecords, Steps, Holding,
         ClosesIdle
<1>7. NoneOpens'
  BY SMTT(20)
     DEF Typed, CLITyped, ThreadsTyped, TriesTyped, CLIRecords, TryRecords,
         Steps, Holding, NoneOpens
<1>8. CutIsUnused'
  BY SMTT(20)
     DEF Typed, CLITyped, ThreadsTyped, JobsTyped, CLIRecords, CutIsUnused
<1> QED
  BY <1>1, <1>2, <1>3, <1>4, <1>5, <1>6, <1>7, <1>8 DEF Inv

LEMMA SendKeeps ==
  ASSUME R!RestartConstants, Inv, NEW t \in R!Tasks, R!Send(t)
  PROVE  Inv'
<1> USE DEF Inv, R!Send, R!Set, R!cliVars, R!threadVars, R!updateVars, R!Tries
<1>1. Typed'
  BY SMTT(20)
     DEF Typed, CLIRecords, CLITyped, ThreadsTyped, JobsTyped, TriesTyped,
         TryRecords, Steps, R!Holders
<1>2. ClientsAreNew'
  BY SMTT(20)
     DEF Typed, CLITyped, ThreadsTyped, JobsTyped, CLIRecords, ClientsAreNew
<1>3. UsersAreCounted'
  BY SMTT(20)
     DEF Typed, CLITyped, ThreadsTyped, JobsTyped, CLIRecords, UsersAreCounted
<1>4. OpeningIsShown'
  BY SMTT(20) DEF Typed, ThreadsTyped, OpeningIsShown
<1>5. HeldByOne'
  BY SMTT(20)
     DEF Typed, CLITyped, TriesTyped, CLIRecords, TryRecords, Steps, Holding,
         HeldByOne
<1>6. ClosesIdle'
  BY SMTT(20)
     DEF Typed, ThreadsTyped, TriesTyped, TryRecords, Steps, Holding,
         ClosesIdle
<1>7. NoneOpens'
  BY SMTT(20)
     DEF Typed, CLITyped, ThreadsTyped, TriesTyped, CLIRecords, TryRecords,
         Steps, Holding, NoneOpens
<1>8. CutIsUnused'
  BY SMTT(20)
     DEF Typed, CLITyped, ThreadsTyped, JobsTyped, CLIRecords, CutIsUnused
<1> QED
  BY <1>1, <1>2, <1>3, <1>4, <1>5, <1>6, <1>7, <1>8 DEF Inv

LEMMA TurnEndsKeeps ==
  ASSUME R!RestartConstants, Inv, NEW t \in R!Tasks, R!TurnEnds(t)
  PROVE  Inv'
<1> USE DEF Inv, R!TurnEnds, R!Set, R!cliVars, R!threadVars, R!updateVars,
            R!Tries
<1>1. Typed'
  BY SMTT(20)
     DEF Typed, CLIRecords, CLITyped, ThreadsTyped, JobsTyped, TriesTyped,
         TryRecords, Steps, R!Holders
<1>2. ClientsAreNew'
  BY SMTT(20)
     DEF Typed, CLITyped, ThreadsTyped, JobsTyped, CLIRecords, ClientsAreNew
<1>3. UsersAreCounted'
  BY SMTT(20)
     DEF Typed, CLITyped, ThreadsTyped, JobsTyped, CLIRecords, UsersAreCounted
<1>4. OpeningIsShown'
  BY SMTT(20) DEF Typed, ThreadsTyped, OpeningIsShown
<1>5. HeldByOne'
  BY SMTT(20)
     DEF Typed, CLITyped, TriesTyped, CLIRecords, TryRecords, Steps, Holding,
         HeldByOne
<1>6. ClosesIdle'
  BY SMTT(20)
     DEF Typed, ThreadsTyped, TriesTyped, TryRecords, Steps, Holding,
         ClosesIdle
<1>7. NoneOpens'
  BY SMTT(20)
     DEF Typed, CLITyped, ThreadsTyped, TriesTyped, CLIRecords, TryRecords,
         Steps, Holding, NoneOpens
<1>8. CutIsUnused'
  BY SMTT(20)
     DEF Typed, CLITyped, ThreadsTyped, JobsTyped, CLIRecords, CutIsUnused
<1> QED
  BY <1>1, <1>2, <1>3, <1>4, <1>5, <1>6, <1>7, <1>8 DEF Inv

LEMMA ExitKeeps ==
  ASSUME R!RestartConstants, Inv, NEW t \in R!Tasks, R!Exit(t)
  PROVE  Inv'
<1> USE DEF Inv, R!Exit, R!Set, R!cliVars, R!threadVars, R!updateVars, R!Tries
<1>1. Typed'
  BY SMTT(20)
     DEF Typed, CLIRecords, CLITyped, ThreadsTyped, JobsTyped, TriesTyped,
         TryRecords, Steps, R!Holders
<1>2. ClientsAreNew'
  BY SMTT(20)
     DEF Typed, CLITyped, ThreadsTyped, JobsTyped, CLIRecords, ClientsAreNew
<1>3. UsersAreCounted'
  BY SMTT(20)
     DEF Typed, CLITyped, ThreadsTyped, JobsTyped, CLIRecords, UsersAreCounted
<1>4. OpeningIsShown'
  BY SMTT(20) DEF Typed, ThreadsTyped, OpeningIsShown
<1>5. HeldByOne'
  BY SMTT(20)
     DEF Typed, CLITyped, TriesTyped, CLIRecords, TryRecords, Steps, Holding,
         HeldByOne
<1>6. ClosesIdle'
  BY SMTT(20)
     DEF Typed, ThreadsTyped, TriesTyped, TryRecords, Steps, Holding,
         ClosesIdle
<1>7. NoneOpens'
  BY SMTT(20)
     DEF Typed, CLITyped, ThreadsTyped, TriesTyped, CLIRecords, TryRecords,
         Steps, Holding, NoneOpens
<1>8. CutIsUnused'
  BY SMTT(20)
     DEF Typed, CLITyped, ThreadsTyped, JobsTyped, CLIRecords, CutIsUnused,
         ClientsAreNew
<1> QED
  BY <1>1, <1>2, <1>3, <1>4, <1>5, <1>6, <1>7, <1>8 DEF Inv

LEMMA StartJobKeeps ==
  ASSUME R!RestartConstants, Inv, NEW j \in Jobs, R!StartJob(j)
  PROVE  Inv'
<1> USE DEF Inv, R!StartJob, R!Set, R!cliVars, R!threadVars, R!updateVars,
            R!Tries, R!OneUse
<1>1. Typed'
  BY SMTT(20)
     DEF Typed, CLIRecords, CLITyped, ThreadsTyped, JobsTyped, TriesTyped,
         TryRecords, Steps, R!Holders
<1>2. ClientsAreNew'
  BY SMTT(20)
     DEF Typed, CLITyped, ThreadsTyped, JobsTyped, CLIRecords, ClientsAreNew
<1>3. UsersAreCounted'
  BY SMTT(20)
     DEF Typed, CLITyped, ThreadsTyped, JobsTyped, CLIRecords, UsersAreCounted
<1>4. OpeningIsShown'
  BY SMTT(20) DEF Typed, ThreadsTyped, OpeningIsShown
<1>5. HeldByOne'
  BY SMTT(20)
     DEF Typed, CLITyped, TriesTyped, CLIRecords, TryRecords, Steps, Holding,
         HeldByOne
<1>6. ClosesIdle'
  BY SMTT(20)
     DEF Typed, ThreadsTyped, TriesTyped, TryRecords, Steps, Holding,
         ClosesIdle
<1>7. NoneOpens'
  BY SMTT(20)
     DEF Typed, CLITyped, ThreadsTyped, TriesTyped, CLIRecords, TryRecords,
         Steps, Holding, NoneOpens
<1>8. CutIsUnused'
  BY SMTT(20)
     DEF Typed, CLITyped, ThreadsTyped, JobsTyped, CLIRecords, CutIsUnused
<1> QED
  BY <1>1, <1>2, <1>3, <1>4, <1>5, <1>6, <1>7, <1>8 DEF Inv

LEMMA CountJobKeeps ==
  ASSUME R!RestartConstants, Inv, NEW j \in Jobs, R!CountJob(j)
  PROVE  Inv'
<1> USE DEF Inv, R!CountJob, R!Set, R!cliVars, R!threadVars, R!updateVars,
            R!Tries
<1>1. Typed'
  BY SMTT(20)
     DEF Typed, CLIRecords, CLITyped, ThreadsTyped, JobsTyped, TriesTyped,
         TryRecords, Steps, R!Holders
<1>2. ClientsAreNew'
  BY SMTT(20)
     DEF Typed, CLITyped, ThreadsTyped, JobsTyped, CLIRecords, ClientsAreNew
<1>3. UsersAreCounted'
  BY SMTT(20)
     DEF Typed, CLITyped, ThreadsTyped, JobsTyped, CLIRecords, UsersAreCounted
<1>4. OpeningIsShown'
  BY SMTT(20) DEF Typed, ThreadsTyped, OpeningIsShown
<1>5. HeldByOne'
  BY SMTT(20)
     DEF Typed, CLITyped, TriesTyped, CLIRecords, TryRecords, Steps, Holding,
         HeldByOne
<1>6. ClosesIdle'
  BY SMTT(20)
     DEF Typed, ThreadsTyped, TriesTyped, TryRecords, Steps, Holding,
         ClosesIdle
<1>7. NoneOpens'
  BY SMTT(20)
     DEF Typed, CLITyped, ThreadsTyped, TriesTyped, CLIRecords, TryRecords,
         Steps, Holding, NoneOpens
<1>8. CutIsUnused'
  BY SMTT(20)
     DEF Typed, CLITyped, ThreadsTyped, JobsTyped, CLIRecords, CutIsUnused,
         ClientsAreNew
<1> QED
  BY <1>1, <1>2, <1>3, <1>4, <1>5, <1>6, <1>7, <1>8 DEF Inv

LEMMA EndJobKeeps ==
  ASSUME R!RestartConstants, Inv, NEW j \in Jobs, R!EndJob(j)
  PROVE  Inv'
<1> USE DEF Inv, R!EndJob, R!Set, R!cliVars, R!threadVars, R!updateVars,
            R!Tries
<1>1. Typed'
  BY SMTT(20)
     DEF Typed, CLIRecords, CLITyped, ThreadsTyped, JobsTyped, TriesTyped,
         TryRecords, Steps, R!Holders
<1>2. ClientsAreNew'
  BY SMTT(20)
     DEF Typed, CLITyped, ThreadsTyped, JobsTyped, CLIRecords, ClientsAreNew
<1>3. UsersAreCounted'
  BY SMTT(20)
     DEF Typed, CLITyped, ThreadsTyped, JobsTyped, CLIRecords, UsersAreCounted
<1>4. OpeningIsShown'
  BY SMTT(20) DEF Typed, ThreadsTyped, OpeningIsShown
<1>5. HeldByOne'
  BY SMTT(20)
     DEF Typed, CLITyped, TriesTyped, CLIRecords, TryRecords, Steps, Holding,
         HeldByOne
<1>6. ClosesIdle'
  BY SMTT(20)
     DEF Typed, ThreadsTyped, TriesTyped, TryRecords, Steps, Holding,
         ClosesIdle
<1>7. NoneOpens'
  BY SMTT(20)
     DEF Typed, CLITyped, ThreadsTyped, TriesTyped, CLIRecords, TryRecords,
         Steps, Holding, NoneOpens
<1>8. CutIsUnused'
  BY SMTT(20)
     DEF Typed, CLITyped, ThreadsTyped, JobsTyped, CLIRecords, CutIsUnused
<1> QED
  BY <1>1, <1>2, <1>3, <1>4, <1>5, <1>6, <1>7, <1>8 DEF Inv

LEMMA CLIDiesKeeps ==
  ASSUME R!RestartConstants, Inv, R!CLIDies
  PROVE  Inv'
<1> USE DEF Inv, R!CLIDies, R!Set, R!cliVars, R!threadVars, R!updateVars,
            R!Tries, R!Gone, R!TakeConvs, R!OneEvent
<1>1. Typed'
  <2>1. CLITyped'
    BY DEF Typed, CLITyped, CLIRecords, R!Holders
  <2>2. ThreadsTyped'
    BY DEF Typed, ThreadsTyped
  <2>3. JobsTyped'
    BY DEF Typed, JobsTyped
  <2>4. TriesTyped'
    BY DEF Typed, TriesTyped, ThreadsTyped, TryRecords, Steps
  <2> QED
    BY <2>1, <2>2, <2>3, <2>4 DEF Typed
<1>2. ClientsAreNew'
  BY SMTT(20)
     DEF Typed, CLITyped, ThreadsTyped, JobsTyped, CLIRecords, ClientsAreNew
<1>3. UsersAreCounted'
  BY SMTT(20)
     DEF Typed, CLITyped, ThreadsTyped, JobsTyped, CLIRecords, UsersAreCounted,
         OpeningIsShown
<1>4. OpeningIsShown'
  BY SMTT(20) DEF Typed, ThreadsTyped, OpeningIsShown
<1>5. HeldByOne'
  BY SMTT(20)
     DEF Typed, CLITyped, TriesTyped, CLIRecords, TryRecords, Steps, Holding,
         HeldByOne
<1>6. ClosesIdle'
  BY SMTT(20)
     DEF Typed, ThreadsTyped, TriesTyped, TryRecords, Steps, Holding,
         ClosesIdle
<1>7. NoneOpens'
  BY SMTT(20)
     DEF Typed, CLITyped, ThreadsTyped, TriesTyped, CLIRecords, TryRecords,
         Steps, Holding, NoneOpens, OpeningIsShown
<1>8. CutIsUnused'
  BY SMTT(20)
     DEF Typed, CLITyped, ThreadsTyped, JobsTyped, CLIRecords, CutIsUnused
<1> QED
  BY <1>1, <1>2, <1>3, <1>4, <1>5, <1>6, <1>7, <1>8 DEF Inv

LEMMA RestartRuntimeKeeps ==
  ASSUME R!RestartConstants, Inv, R!RestartRuntime
  PROVE  Inv'
<1> USE DEF Inv, R!RestartRuntime, R!Set, R!cliVars, R!threadVars,
            R!updateVars, R!Tries, R!Gone, R!TakeConvs, R!OneEvent
<1>1. Typed'
  <2>1. CLITyped'
    BY DEF Typed, CLITyped, CLIRecords, R!Holders
  <2>2. ThreadsTyped'
    BY DEF Typed, ThreadsTyped
  <2>3. JobsTyped'
    BY DEF Typed, JobsTyped
  <2>4. TriesTyped'
    BY DEF Typed, TriesTyped, ThreadsTyped, TryRecords, Steps
  <2> QED
    BY <2>1, <2>2, <2>3, <2>4 DEF Typed
<1>2. ClientsAreNew'
  BY SMTT(20)
     DEF Typed, CLITyped, ThreadsTyped, JobsTyped, CLIRecords, ClientsAreNew
<1>3. UsersAreCounted'
  BY SMTT(20)
     DEF Typed, CLITyped, ThreadsTyped, JobsTyped, CLIRecords, UsersAreCounted,
         OpeningIsShown
<1>4. OpeningIsShown'
  BY SMTT(20) DEF Typed, ThreadsTyped, OpeningIsShown
<1>5. HeldByOne'
  BY SMTT(20)
     DEF Typed, CLITyped, TriesTyped, CLIRecords, TryRecords, Steps, Holding,
         HeldByOne
<1>6. ClosesIdle'
  BY SMTT(20)
     DEF Typed, ThreadsTyped, TriesTyped, TryRecords, Steps, Holding,
         ClosesIdle
<1>7. NoneOpens'
  BY SMTT(20)
     DEF Typed, CLITyped, ThreadsTyped, TriesTyped, CLIRecords, TryRecords,
         Steps, Holding, NoneOpens, OpeningIsShown
<1>8. CutIsUnused'
  BY SMTT(20)
     DEF Typed, CLITyped, ThreadsTyped, JobsTyped, CLIRecords, CutIsUnused
<1> QED
  BY <1>1, <1>2, <1>3, <1>4, <1>5, <1>6, <1>7, <1>8 DEF Inv

LEMMA RuntimeStoppedKeeps ==
  ASSUME R!RestartConstants, Inv, R!RuntimeStopped
  PROVE  Inv'
<1> USE DEF Inv, R!RuntimeStopped, R!Set, R!cliVars, R!threadVars,
            R!updateVars, R!Tries
<1>1. Typed'
  BY SMTT(20)
     DEF Typed, CLIRecords, CLITyped, ThreadsTyped, JobsTyped, TriesTyped,
         TryRecords, Steps, R!Holders
<1>2. ClientsAreNew'
  BY SMTT(20)
     DEF Typed, CLITyped, ThreadsTyped, JobsTyped, CLIRecords, ClientsAreNew
<1>3. UsersAreCounted'
  BY SMTT(20)
     DEF Typed, CLITyped, ThreadsTyped, JobsTyped, CLIRecords, UsersAreCounted
<1>4. OpeningIsShown'
  BY SMTT(20) DEF Typed, ThreadsTyped, OpeningIsShown
<1>5. HeldByOne'
  BY SMTT(20)
     DEF Typed, CLITyped, TriesTyped, CLIRecords, TryRecords, Steps, Holding,
         HeldByOne
<1>6. ClosesIdle'
  BY SMTT(20)
     DEF Typed, ThreadsTyped, TriesTyped, TryRecords, Steps, Holding,
         ClosesIdle
<1>7. NoneOpens'
  BY SMTT(20)
     DEF Typed, CLITyped, ThreadsTyped, TriesTyped, CLIRecords, TryRecords,
         Steps, Holding, NoneOpens
<1>8. CutIsUnused'
  BY SMTT(20)
     DEF Typed, CLITyped, ThreadsTyped, JobsTyped, CLIRecords, CutIsUnused
<1> QED
  BY <1>1, <1>2, <1>3, <1>4, <1>5, <1>6, <1>7, <1>8 DEF Inv

LEMMA StartCLIUpdateKeeps ==
  ASSUME R!RestartConstants, Inv, R!StartCLIUpdate
  PROVE  Inv'
<1> USE DEF Inv, R!StartCLIUpdate, R!Set, R!cliVars, R!threadVars,
            R!updateVars, R!Tries, R!OneEvent
<1>1. Typed'
  BY SMTT(20)
     DEF Typed, CLIRecords, CLITyped, ThreadsTyped, JobsTyped, TriesTyped,
         TryRecords, Steps, R!Holders
<1>2. ClientsAreNew'
  BY SMTT(20)
     DEF Typed, CLITyped, ThreadsTyped, JobsTyped, CLIRecords, ClientsAreNew
<1>3. UsersAreCounted'
  BY SMTT(20)
     DEF Typed, CLITyped, ThreadsTyped, JobsTyped, CLIRecords, UsersAreCounted
<1>4. OpeningIsShown'
  BY SMTT(20) DEF Typed, ThreadsTyped, OpeningIsShown
<1>5. HeldByOne'
  BY SMTT(20)
     DEF Typed, CLITyped, TriesTyped, CLIRecords, TryRecords, Steps, Holding,
         HeldByOne
<1>6. ClosesIdle'
  BY SMTT(20)
     DEF Typed, ThreadsTyped, TriesTyped, TryRecords, Steps, Holding,
         ClosesIdle
<1>7. NoneOpens'
  BY SMTT(20)
     DEF Typed, CLITyped, ThreadsTyped, TriesTyped, CLIRecords, TryRecords,
         Steps, Holding, NoneOpens
<1>8. CutIsUnused'
  BY SMTT(20)
     DEF Typed, CLITyped, ThreadsTyped, JobsTyped, CLIRecords, CutIsUnused
<1> QED
  BY <1>1, <1>2, <1>3, <1>4, <1>5, <1>6, <1>7, <1>8 DEF Inv

LEMMA StageKeeps ==
  ASSUME R!RestartConstants, Inv, R!Stage
  PROVE  Inv'
<1> USE DEF Inv, R!Stage, R!Set, R!cliVars, R!threadVars, R!updateVars, R!Tries
<1>1. Typed'
  BY SMTT(20)
     DEF Typed, CLIRecords, CLITyped, ThreadsTyped, JobsTyped, TriesTyped,
         TryRecords, Steps, R!Holders
<1>2. ClientsAreNew'
  BY SMTT(20)
     DEF Typed, CLITyped, ThreadsTyped, JobsTyped, CLIRecords, ClientsAreNew
<1>3. UsersAreCounted'
  BY SMTT(20)
     DEF Typed, CLITyped, ThreadsTyped, JobsTyped, CLIRecords, UsersAreCounted
<1>4. OpeningIsShown'
  BY SMTT(20) DEF Typed, ThreadsTyped, OpeningIsShown
<1>5. HeldByOne'
  BY SMTT(20)
     DEF Typed, CLITyped, TriesTyped, CLIRecords, TryRecords, Steps, Holding,
         HeldByOne
<1>6. ClosesIdle'
  BY SMTT(20)
     DEF Typed, ThreadsTyped, TriesTyped, TryRecords, Steps, Holding,
         ClosesIdle
<1>7. NoneOpens'
  BY SMTT(20)
     DEF Typed, CLITyped, ThreadsTyped, TriesTyped, CLIRecords, TryRecords,
         Steps, Holding, NoneOpens
<1>8. CutIsUnused'
  BY SMTT(20)
     DEF Typed, CLITyped, ThreadsTyped, JobsTyped, CLIRecords, CutIsUnused
<1> QED
  BY <1>1, <1>2, <1>3, <1>4, <1>5, <1>6, <1>7, <1>8 DEF Inv

LEMMA TickKeeps ==
  ASSUME R!RestartConstants, Inv, R!Tick
  PROVE  Inv'
<1> USE DEF Inv, R!Tick, R!Set, R!cliVars, R!threadVars, R!updateVars, R!Tries
<1>1. Typed'
  BY SMTT(20)
     DEF Typed, CLIRecords, CLITyped, ThreadsTyped, JobsTyped, TriesTyped,
         TryRecords, Steps, R!Holders
<1>2. ClientsAreNew'
  BY SMTT(20)
     DEF Typed, CLITyped, ThreadsTyped, JobsTyped, CLIRecords, ClientsAreNew
<1>3. UsersAreCounted'
  BY SMTT(20)
     DEF Typed, CLITyped, ThreadsTyped, JobsTyped, CLIRecords, UsersAreCounted
<1>4. OpeningIsShown'
  BY SMTT(20) DEF Typed, ThreadsTyped, OpeningIsShown
<1>5. HeldByOne'
  BY SMTT(20)
     DEF Typed, CLITyped, TriesTyped, CLIRecords, TryRecords, Steps, Holding,
         HeldByOne
<1>6. ClosesIdle'
  BY SMTT(20)
     DEF Typed, ThreadsTyped, TriesTyped, TryRecords, Steps, Holding,
         ClosesIdle
<1>7. NoneOpens'
  BY SMTT(20)
     DEF Typed, CLITyped, ThreadsTyped, TriesTyped, CLIRecords, TryRecords,
         Steps, Holding, NoneOpens
<1>8. CutIsUnused'
  BY SMTT(20)
     DEF Typed, CLITyped, ThreadsTyped, JobsTyped, CLIRecords, CutIsUnused
<1> QED
  BY <1>1, <1>2, <1>3, <1>4, <1>5, <1>6, <1>7, <1>8 DEF Inv

LEMMA CountKeeps ==
  ASSUME R!RestartConstants, Inv, NEW r \in R!Tries, R!Count(r)
  PROVE  Inv'
<1> USE DEF Inv, R!Count, R!Set, R!cliVars, R!threadVars, R!updateVars,
            R!Tries, R!Ends, R!NotYet, R!NoTry
<1>1. Typed'
  <2>1. CLITyped'
    BY DEF Typed, CLITyped, CLIRecords, R!Holders
  <2>2. ThreadsTyped'
    BY DEF Typed, ThreadsTyped
  <2>3. JobsTyped'
    BY DEF Typed, JobsTyped
  <2>4. TriesTyped'
    <3>1. \/ \E how \in {R!NotYet(r)} : try' = [try EXCEPT ![r] = how]
          \/ try' = [try EXCEPT ![r].at = "hold"]
      OBVIOUS
    <3>2. \A how \in {R!NotYet(r)} : how \in TryRecords
      BY DEF TryRecords, Steps
    <3>3. try \in [R!Tries -> TryRecords]
      BY DEF Typed, TriesTyped
    <3>4. CASE try' = [try EXCEPT ![r].at = "hold"]
      BY <3>3, <3>4 DEF TriesTyped, TryRecords, Steps
    <3> QED
      BY <3>1, <3>2, <3>3, <3>4 DEF TriesTyped
  <2> QED
    BY <2>1, <2>2, <2>3, <2>4 DEF Typed
<1>2. ClientsAreNew'
  BY SMTT(20)
     DEF Typed, CLITyped, ThreadsTyped, JobsTyped, CLIRecords, ClientsAreNew
<1>3. UsersAreCounted'
  BY SMTT(20)
     DEF Typed, CLITyped, ThreadsTyped, JobsTyped, CLIRecords, UsersAreCounted
<1>4. OpeningIsShown'
  BY SMTT(20) DEF Typed, ThreadsTyped, OpeningIsShown
<1>5. HeldByOne'
  BY SMTT(20)
     DEF Typed, CLITyped, TriesTyped, CLIRecords, TryRecords, Steps, Holding,
         HeldByOne
<1>6. ClosesIdle'
  BY SMTT(20)
     DEF Typed, ThreadsTyped, TriesTyped, TryRecords, Steps, Holding,
         ClosesIdle
<1>7. NoneOpens'
  BY SMTT(20)
     DEF Typed, CLITyped, ThreadsTyped, TriesTyped, CLIRecords, TryRecords,
         Steps, Holding, NoneOpens
<1>8. CutIsUnused'
  BY SMTT(20)
     DEF Typed, CLITyped, ThreadsTyped, JobsTyped, CLIRecords, CutIsUnused
<1> QED
  BY <1>1, <1>2, <1>3, <1>4, <1>5, <1>6, <1>7, <1>8 DEF Inv

LEMMA HoldKeeps ==
  ASSUME R!RestartConstants, Inv, NEW r \in R!Tries, R!Hold(r)
  PROVE  Inv'
<1> USE DEF Inv, R!Hold, R!Set, R!cliVars, R!threadVars, R!updateVars, R!Tries,
            R!Ends, R!NotYet, R!Done, R!NoTry
<1>1. Typed'
  <2>1. CLITyped'
    BY DEF Typed, CLITyped, CLIRecords, R!Holders
  <2>2. ThreadsTyped'
    BY DEF Typed, ThreadsTyped
  <2>3. JobsTyped'
    BY DEF Typed, JobsTyped
  <2>4. TriesTyped'
    <3>1. \/ \E how \in {R!Done(r), R!NotYet(r)} : try' = [try EXCEPT ![r] = how]
          \/ try' = [try EXCEPT ![r].at = "quiesce"]
      OBVIOUS
    <3>2. \A how \in {R!Done(r), R!NotYet(r)} : how \in TryRecords
      BY DEF TryRecords, Steps
    <3>3. try \in [R!Tries -> TryRecords]
      BY DEF Typed, TriesTyped
    <3>4. CASE try' = [try EXCEPT ![r].at = "quiesce"]
      BY <3>3, <3>4 DEF TriesTyped, TryRecords, Steps
    <3> QED
      BY <3>1, <3>2, <3>3, <3>4 DEF TriesTyped
  <2> QED
    BY <2>1, <2>2, <2>3, <2>4 DEF Typed
<1>2. ClientsAreNew'
  BY SMTT(20)
     DEF Typed, CLITyped, ThreadsTyped, JobsTyped, CLIRecords, ClientsAreNew
<1>3. UsersAreCounted'
  BY SMTT(20)
     DEF Typed, CLITyped, ThreadsTyped, JobsTyped, CLIRecords, UsersAreCounted
<1>4. OpeningIsShown'
  BY SMTT(20) DEF Typed, ThreadsTyped, OpeningIsShown
<1>5. HeldByOne'
  BY SMTT(20)
     DEF Typed, CLITyped, TriesTyped, CLIRecords, TryRecords, Steps, Holding,
         HeldByOne
<1>6. ClosesIdle'
  BY SMTT(20)
     DEF Typed, ThreadsTyped, TriesTyped, TryRecords, Steps, Holding,
         ClosesIdle
<1>7. NoneOpens'
  BY SMTT(20)
     DEF Typed, CLITyped, ThreadsTyped, TriesTyped, CLIRecords, TryRecords,
         Steps, Holding, NoneOpens
<1>8. CutIsUnused'
  BY SMTT(20)
     DEF Typed, CLITyped, ThreadsTyped, JobsTyped, CLIRecords, CutIsUnused
<1> QED
  BY <1>1, <1>2, <1>3, <1>4, <1>5, <1>6, <1>7, <1>8 DEF Inv

LEMMA SuspendForCLIKeeps ==
  ASSUME R!RestartConstants, Inv, NEW r \in R!Tries, NEW t \in R!Tasks,
         R!SuspendForCLI(r, t)
  PROVE  Inv'
<1> USE DEF Inv, R!SuspendForCLI, R!Set, R!cliVars, R!threadVars, R!updateVars,
            R!Tries, R!OpFree
<1>1. Typed'
  BY SMTT(20)
     DEF Typed, CLIRecords, CLITyped, ThreadsTyped, JobsTyped, TriesTyped,
         TryRecords, Steps, R!Holders
<1>2. ClientsAreNew'
  BY SMTT(20)
     DEF Typed, CLITyped, ThreadsTyped, JobsTyped, CLIRecords, ClientsAreNew
<1>3. UsersAreCounted'
  BY SMTT(20)
     DEF Typed, CLITyped, ThreadsTyped, JobsTyped, CLIRecords, UsersAreCounted
<1>4. OpeningIsShown'
  BY SMTT(20) DEF Typed, ThreadsTyped, OpeningIsShown
<1>5. HeldByOne'
  BY SMTT(20)
     DEF Typed, CLITyped, TriesTyped, CLIRecords, TryRecords, Steps, Holding,
         HeldByOne
<1>6. ClosesIdle'
  BY SMTT(20)
     DEF Typed, ThreadsTyped, TriesTyped, TryRecords, Steps, Holding,
         ClosesIdle
<1>7. NoneOpens'
  BY SMTT(20)
     DEF Typed, CLITyped, ThreadsTyped, TriesTyped, CLIRecords, TryRecords,
         Steps, Holding, NoneOpens
<1>8. CutIsUnused'
  <2>1. conv' = conv \/ conv' = [conv EXCEPT ![t] = 0]
    OBVIOUS
  <2>2. UNCHANGED <<cli, cut, at, on, listed, job>>
    OBVIOUS
  <2> QED
    BY <2>1, <2>2 DEF Typed, CLITyped, ThreadsTyped, CLIRecords,
                      ClientsAreNew, CutIsUnused
<1> QED
  BY <1>1, <1>2, <1>3, <1>4, <1>5, <1>6, <1>7, <1>8 DEF Inv

LEMMA CloseForCLIKeeps ==
  ASSUME R!RestartConstants, Inv, NEW r \in R!Tries, R!CloseForCLI(r)
  PROVE  Inv'
<1> USE DEF Inv, R!CloseForCLI, R!Set, R!cliVars, R!threadVars, R!updateVars,
            R!Tries
<1>1. Typed'
  BY SMTT(20)
     DEF Typed, CLIRecords, CLITyped, ThreadsTyped, JobsTyped, TriesTyped,
         TryRecords, Steps, R!Holders
<1>2. ClientsAreNew'
  BY SMTT(20)
     DEF Typed, CLITyped, ThreadsTyped, JobsTyped, CLIRecords, ClientsAreNew
<1>3. UsersAreCounted'
  BY SMTT(20)
     DEF Typed, CLITyped, ThreadsTyped, JobsTyped, CLIRecords, UsersAreCounted,
         ClosesIdle
<1>4. OpeningIsShown'
  BY SMTT(20) DEF Typed, ThreadsTyped, OpeningIsShown
<1>5. HeldByOne'
  BY SMTT(20)
     DEF Typed, CLITyped, TriesTyped, CLIRecords, TryRecords, Steps, Holding,
         HeldByOne
<1>6. ClosesIdle'
  BY SMTT(20)
     DEF Typed, ThreadsTyped, TriesTyped, TryRecords, Steps, Holding,
         ClosesIdle
<1>7. NoneOpens'
  BY SMTT(20)
     DEF Typed, CLITyped, ThreadsTyped, TriesTyped, CLIRecords, TryRecords,
         Steps, Holding, NoneOpens
<1>8. CutIsUnused'
  BY SMTT(20)
     DEF Typed, CLITyped, ThreadsTyped, JobsTyped, CLIRecords, CutIsUnused
<1> QED
  BY <1>1, <1>2, <1>3, <1>4, <1>5, <1>6, <1>7, <1>8 DEF Inv

LEMMA QuiescedKeeps ==
  ASSUME R!RestartConstants, Inv, NEW r \in R!Tries, R!Quiesced(r)
  PROVE  Inv'
<1> USE DEF Inv, R!Quiesced, R!Set, R!cliVars, R!threadVars, R!updateVars,
            R!Tries, R!Ends, R!NotYet, R!NoTry, R!Freed
<1>1. Typed'
  <2>1. CLITyped'
    BY DEF Typed, CLITyped, CLIRecords, R!Holders
  <2>2. ThreadsTyped'
    BY DEF Typed, ThreadsTyped
  <2>3. JobsTyped'
    BY DEF Typed, JobsTyped
  <2>4. TriesTyped'
    <3>1. \/ \E how \in {R!NotYet(r)} : try' = [try EXCEPT ![r] = how]
          \/ try' = [try EXCEPT ![r].at = "stop"]
      OBVIOUS
    <3>2. \A how \in {R!NotYet(r)} : how \in TryRecords
      BY DEF TryRecords, Steps
    <3>3. try \in [R!Tries -> TryRecords]
      BY DEF Typed, TriesTyped
    <3>4. CASE try' = [try EXCEPT ![r].at = "stop"]
      BY <3>3, <3>4 DEF TriesTyped, TryRecords, Steps
    <3> QED
      BY <3>1, <3>2, <3>3, <3>4 DEF TriesTyped
  <2> QED
    BY <2>1, <2>2, <2>3, <2>4 DEF Typed
<1>2. ClientsAreNew'
  BY SMTT(20)
     DEF Typed, CLITyped, ThreadsTyped, JobsTyped, CLIRecords, ClientsAreNew
<1>3. UsersAreCounted'
  BY SMTT(20)
     DEF Typed, CLITyped, ThreadsTyped, JobsTyped, CLIRecords, UsersAreCounted
<1>4. OpeningIsShown'
  BY SMTT(20) DEF Typed, ThreadsTyped, OpeningIsShown
<1>5. HeldByOne'
  BY SMTT(20)
     DEF Typed, CLITyped, TriesTyped, CLIRecords, TryRecords, Steps, Holding,
         HeldByOne
<1>6. ClosesIdle'
  BY SMTT(20)
     DEF Typed, ThreadsTyped, TriesTyped, TryRecords, Steps, Holding,
         ClosesIdle
<1>7. NoneOpens'
  BY SMTT(20)
     DEF Typed, CLITyped, ThreadsTyped, TriesTyped, CLIRecords, TryRecords,
         Steps, Holding, NoneOpens
<1>8. CutIsUnused'
  BY SMTT(20)
     DEF Typed, CLITyped, ThreadsTyped, JobsTyped, CLIRecords, CutIsUnused
<1> QED
  BY <1>1, <1>2, <1>3, <1>4, <1>5, <1>6, <1>7, <1>8 DEF Inv

LEMMA ReleasedKeeps ==
  ASSUME R!RestartConstants, Inv, NEW r \in R!Tries, R!Released(r)
  PROVE  Inv'
<1> USE DEF Inv, R!Released, R!Set, R!cliVars, R!threadVars, R!updateVars,
            R!Tries, R!Ends, R!Done, R!NoTry, R!Freed
<1>1. Typed'
  <2>1. CLITyped'
    BY DEF Typed, CLITyped, CLIRecords, R!Holders
  <2>2. ThreadsTyped'
    BY DEF Typed, ThreadsTyped
  <2>3. JobsTyped'
    BY DEF Typed, JobsTyped
  <2>4. TriesTyped'
    BY TriesTakeEnds DEF Typed, TriesTyped, ThreadsTyped, TryRecords, Steps
  <2> QED
    BY <2>1, <2>2, <2>3, <2>4 DEF Typed
<1>2. ClientsAreNew'
  BY SMTT(20)
     DEF Typed, CLITyped, ThreadsTyped, JobsTyped, CLIRecords, ClientsAreNew
<1>3. UsersAreCounted'
  BY SMTT(20)
     DEF Typed, CLITyped, ThreadsTyped, JobsTyped, CLIRecords, UsersAreCounted
<1>4. OpeningIsShown'
  BY SMTT(20) DEF Typed, ThreadsTyped, OpeningIsShown
<1>5. HeldByOne'
  BY SMTT(20)
     DEF Typed, CLITyped, TriesTyped, CLIRecords, TryRecords, Steps, Holding,
         HeldByOne
<1>6. ClosesIdle'
  BY SMTT(20)
     DEF Typed, ThreadsTyped, TriesTyped, TryRecords, Steps, Holding,
         ClosesIdle
<1>7. NoneOpens'
  BY SMTT(20)
     DEF Typed, CLITyped, ThreadsTyped, TriesTyped, CLIRecords, TryRecords,
         Steps, Holding, NoneOpens
<1>8. CutIsUnused'
  BY SMTT(20)
     DEF Typed, CLITyped, ThreadsTyped, JobsTyped, CLIRecords, CutIsUnused
<1> QED
  BY <1>1, <1>2, <1>3, <1>4, <1>5, <1>6, <1>7, <1>8 DEF Inv

LEMMA RestartedKeeps ==
  ASSUME R!RestartConstants, Inv, R!Restarted
  PROVE  Inv'
<1> USE DEF Inv, R!Restarted, R!Set, R!cliVars, R!threadVars, R!updateVars,
            R!Tries, R!Ends, R!NoTry
<1>1. Typed'
  BY SMTT(20)
     DEF Typed, CLIRecords, CLITyped, ThreadsTyped, JobsTyped, TriesTyped,
         TryRecords, Steps, R!Holders
<1>2. ClientsAreNew'
  BY SMTT(20)
     DEF Typed, CLITyped, ThreadsTyped, JobsTyped, CLIRecords, ClientsAreNew
<1>3. UsersAreCounted'
  BY SMTT(20)
     DEF Typed, CLITyped, ThreadsTyped, JobsTyped, CLIRecords, UsersAreCounted
<1>4. OpeningIsShown'
  BY SMTT(20) DEF Typed, ThreadsTyped, OpeningIsShown
<1>5. HeldByOne'
  BY SMTT(20)
     DEF Typed, CLITyped, TriesTyped, CLIRecords, TryRecords, Steps, Holding,
         HeldByOne
<1>6. ClosesIdle'
  BY SMTT(20)
     DEF Typed, ThreadsTyped, TriesTyped, TryRecords, Steps, Holding,
         ClosesIdle
<1>7. NoneOpens'
  BY SMTT(20)
     DEF Typed, CLITyped, ThreadsTyped, TriesTyped, CLIRecords, TryRecords,
         Steps, Holding, NoneOpens
<1>8. CutIsUnused'
  BY SMTT(20)
     DEF Typed, CLITyped, ThreadsTyped, JobsTyped, CLIRecords, CutIsUnused
<1> QED
  BY <1>1, <1>2, <1>3, <1>4, <1>5, <1>6, <1>7, <1>8 DEF Inv

LEMMA UpdatedKeeps ==
  ASSUME R!RestartConstants, Inv, R!Updated
  PROVE  Inv'
<1> USE DEF Inv, R!Updated, R!Set, R!cliVars, R!threadVars, R!updateVars,
            R!Tries, R!NoTry
<1>1. Typed'
  <2>1. CLITyped'
    BY DEF Typed, CLITyped, CLIRecords, R!Holders
  <2>2. ThreadsTyped'
    BY DEF Typed, ThreadsTyped
  <2>3. JobsTyped'
    BY DEF Typed, JobsTyped
  <2>4. TriesTyped'
    BY TriesTakeEnds DEF Typed, TriesTyped, ThreadsTyped, TryRecords, Steps
  <2> QED
    BY <2>1, <2>2, <2>3, <2>4 DEF Typed
<1>2. ClientsAreNew'
  BY SMTT(20)
     DEF Typed, CLITyped, ThreadsTyped, JobsTyped, CLIRecords, ClientsAreNew
<1>3. UsersAreCounted'
  BY SMTT(20)
     DEF Typed, CLITyped, ThreadsTyped, JobsTyped, CLIRecords, UsersAreCounted
<1>4. OpeningIsShown'
  BY SMTT(20) DEF Typed, ThreadsTyped, OpeningIsShown
<1>5. HeldByOne'
  BY SMTT(20)
     DEF Typed, CLITyped, TriesTyped, CLIRecords, TryRecords, Steps, Holding,
         HeldByOne
<1>6. ClosesIdle'
  BY SMTT(20)
     DEF Typed, ThreadsTyped, TriesTyped, TryRecords, Steps, Holding,
         ClosesIdle
<1>7. NoneOpens'
  BY SMTT(20)
     DEF Typed, CLITyped, ThreadsTyped, TriesTyped, CLIRecords, TryRecords,
         Steps, Holding, NoneOpens
<1>8. CutIsUnused'
  BY SMTT(20)
     DEF Typed, CLITyped, ThreadsTyped, JobsTyped, CLIRecords, CutIsUnused
<1> QED
  BY <1>1, <1>2, <1>3, <1>4, <1>5, <1>6, <1>7, <1>8 DEF Inv

LEMMA InstallOutsideKeeps ==
  ASSUME R!RestartConstants, Inv, R!InstallOutside
  PROVE  Inv'
<1> USE DEF Inv, R!InstallOutside, R!Set, R!cliVars, R!threadVars,
            R!updateVars, R!Tries, R!OneEvent
<1>1. Typed'
  BY SMTT(20)
     DEF Typed, CLIRecords, CLITyped, ThreadsTyped, JobsTyped, TriesTyped,
         TryRecords, Steps, R!Holders
<1>2. ClientsAreNew'
  BY SMTT(20)
     DEF Typed, CLITyped, ThreadsTyped, JobsTyped, CLIRecords, ClientsAreNew
<1>3. UsersAreCounted'
  BY SMTT(20)
     DEF Typed, CLITyped, ThreadsTyped, JobsTyped, CLIRecords, UsersAreCounted
<1>4. OpeningIsShown'
  BY SMTT(20) DEF Typed, ThreadsTyped, OpeningIsShown
<1>5. HeldByOne'
  BY SMTT(20)
     DEF Typed, CLITyped, TriesTyped, CLIRecords, TryRecords, Steps, Holding,
         HeldByOne
<1>6. ClosesIdle'
  BY SMTT(20)
     DEF Typed, ThreadsTyped, TriesTyped, TryRecords, Steps, Holding,
         ClosesIdle
<1>7. NoneOpens'
  BY SMTT(20)
     DEF Typed, CLITyped, ThreadsTyped, TriesTyped, CLIRecords, TryRecords,
         Steps, Holding, NoneOpens
<1>8. CutIsUnused'
  BY SMTT(20)
     DEF Typed, CLITyped, ThreadsTyped, JobsTyped, CLIRecords, CutIsUnused
<1> QED
  BY <1>1, <1>2, <1>3, <1>4, <1>5, <1>6, <1>7, <1>8 DEF Inv

LEMMA CLIOutdatedKeeps ==
  ASSUME R!RestartConstants, Inv, R!CLIOutdated
  PROVE  Inv'
<1> USE DEF Inv, R!CLIOutdated, R!Set, R!cliVars, R!threadVars, R!updateVars,
            R!Tries
<1>1. Typed'
  <2>1. CLITyped'
    BY DEF Typed, CLITyped, CLIRecords, R!Holders
  <2>2. ThreadsTyped'
    BY DEF Typed, ThreadsTyped
  <2>3. JobsTyped'
    BY DEF Typed, JobsTyped
  <2>4. TriesTyped'
    BY DEF Typed, TriesTyped, ThreadsTyped, TryRecords, Steps
  <2> QED
    BY <2>1, <2>2, <2>3, <2>4 DEF Typed
<1>2. ClientsAreNew'
  BY SMTT(20)
     DEF Typed, CLITyped, ThreadsTyped, JobsTyped, CLIRecords, ClientsAreNew
<1>3. UsersAreCounted'
  BY SMTT(20)
     DEF Typed, CLITyped, ThreadsTyped, JobsTyped, CLIRecords, UsersAreCounted
<1>4. OpeningIsShown'
  BY SMTT(20) DEF Typed, ThreadsTyped, OpeningIsShown
<1>5. HeldByOne'
  BY SMTT(20)
     DEF Typed, CLITyped, TriesTyped, CLIRecords, TryRecords, Steps, Holding,
         HeldByOne
<1>6. ClosesIdle'
  BY SMTT(20)
     DEF Typed, ThreadsTyped, TriesTyped, TryRecords, Steps, Holding,
         ClosesIdle
<1>7. NoneOpens'
  BY SMTT(20)
     DEF Typed, CLITyped, ThreadsTyped, TriesTyped, CLIRecords, TryRecords,
         Steps, Holding, NoneOpens
<1>8. CutIsUnused'
  BY SMTT(20)
     DEF Typed, CLITyped, ThreadsTyped, JobsTyped, CLIRecords, CutIsUnused
<1> QED
  BY <1>1, <1>2, <1>3, <1>4, <1>5, <1>6, <1>7, <1>8 DEF Inv

LEMMA FollowCLIKeeps ==
  ASSUME R!RestartConstants, Inv, R!FollowCLI
  PROVE  Inv'
<1> USE DEF Inv, R!FollowCLI, R!Set, R!cliVars, R!threadVars, R!updateVars,
            R!Tries
<1>1. Typed'
  BY SMTT(20)
     DEF Typed, CLIRecords, CLITyped, ThreadsTyped, JobsTyped, TriesTyped,
         TryRecords, Steps, R!Holders
<1>2. ClientsAreNew'
  BY SMTT(20)
     DEF Typed, CLITyped, ThreadsTyped, JobsTyped, CLIRecords, ClientsAreNew
<1>3. UsersAreCounted'
  BY SMTT(20)
     DEF Typed, CLITyped, ThreadsTyped, JobsTyped, CLIRecords, UsersAreCounted
<1>4. OpeningIsShown'
  BY SMTT(20) DEF Typed, ThreadsTyped, OpeningIsShown
<1>5. HeldByOne'
  BY SMTT(20)
     DEF Typed, CLITyped, TriesTyped, CLIRecords, TryRecords, Steps, Holding,
         HeldByOne
<1>6. ClosesIdle'
  BY SMTT(20)
     DEF Typed, ThreadsTyped, TriesTyped, TryRecords, Steps, Holding,
         ClosesIdle
<1>7. NoneOpens'
  BY SMTT(20)
     DEF Typed, CLITyped, ThreadsTyped, TriesTyped, CLIRecords, TryRecords,
         Steps, Holding, NoneOpens
<1>8. CutIsUnused'
  BY SMTT(20)
     DEF Typed, CLITyped, ThreadsTyped, JobsTyped, CLIRecords, CutIsUnused
<1> QED
  BY <1>1, <1>2, <1>3, <1>4, <1>5, <1>6, <1>7, <1>8 DEF Inv

\* ensureStarted gives the running client or a new one, and only while
\* starts are free.
LEMMA GivenFacts ==
  ASSUME R!RestartConstants, Inv, NEW c \in R!Clients, R!Given(c)
  PROVE  /\ CLITyped' /\ c \in Nat /\ c # 0 /\ ~R!Waits
         /\ cli'.client = c /\ cli'.held = cli.held
         /\ cli'.outdated = cli.outdated
         /\ \/ cli'.started = cli.started /\ c = cli.client
            \/ cli.client = 0 /\ c = cli.started + 1 /\ cli'.started = c
<1>1. /\ cli \in CLIRecords /\ installed \in Nat /\ c \in Nat
      /\ cli.started \in Nat /\ cli.client \in Nat
  BY DEF Inv, Typed, CLITyped, CLIRecords, R!RestartConstants, R!Clients,
         R!RestartConstants
<1>2. CASE cli.client # 0
  BY <1>1, <1>2 DEF R!Given, CLITyped
<1>3. CASE cli.client = 0
  <2>1. \E n \in Nat, k \in Nat :
          cli' = [cli EXCEPT !.client = c, !.started = c, !.release = n,
                             !.known = k]
    <3>1. \/ cli' = [cli EXCEPT !.client = c, !.started = c,
                                !.release = installed, !.known = installed]
          \/ cli' = [cli EXCEPT !.client = c, !.started = c,
                                !.release = installed + 1,
                                !.known = installed]
      BY <1>3 DEF R!Given
    <3>2. installed + 1 \in Nat
      BY <1>1
    <3> QED
      BY <1>1, <3>1, <3>2
  <2>2. PICK n \in Nat, k \in Nat :
          cli' = [cli EXCEPT !.client = c, !.started = c, !.release = n,
                             !.known = k]
    BY <2>1
  <2>3. ~R!Waits /\ c = cli.started + 1 /\ installed' \in Nat
    BY <1>1, <1>3 DEF R!Given
  <2>4. cli' \in CLIRecords
    BY <1>1, <2>2 DEF CLIRecords
  <2>5. cli'.client = c /\ cli'.started = c
    BY <1>1, <2>2 DEF CLIRecords
  <2>6. cli'.held = cli.held /\ cli'.outdated = cli.outdated
    BY <1>1, <2>2 DEF CLIRecords
  <2> QED
    BY <1>1, <1>3, <2>3, <2>4, <2>5, <2>6 DEF CLITyped
<1> QED
  BY <1>2, <1>3

LEMMA EnsureStartedKeeps ==
  ASSUME R!RestartConstants, Inv, NEW t \in R!Tasks, R!EnsureStarted(t)
  PROVE  Inv'
<1>1. PICK c \in R!Clients : R!Given(c) /\ on' = R!Set(on, t, c)
  BY DEF R!EnsureStarted
<1>2. /\ CLITyped' /\ c \in Nat /\ c # 0 /\ ~R!Waits
      /\ cli'.client = c /\ cli'.held = cli.held
      /\ cli'.outdated = cli.outdated
      /\ \/ cli'.started = cli.started /\ c = cli.client
         \/ cli.client = 0 /\ c = cli.started + 1 /\ cli'.started = c
  BY <1>1, GivenFacts
<1> USE DEF Inv, Typed, CLITyped, ThreadsTyped, R!EnsureStarted, R!Set,
            R!threadVars, R!updateVars
<1>3. Typed'
  BY <1>1, <1>2 DEF JobsTyped, TriesTyped
<1>4. ClientsAreNew'
  BY <1>1, <1>2 DEF ClientsAreNew, JobsTyped, CLIRecords
<1>5. UsersAreCounted'
  BY <1>1, <1>2 DEF UsersAreCounted, ClientsAreNew, CLIRecords
<1>6. OpeningIsShown'
  BY <1>1, <1>2 DEF OpeningIsShown
<1>7. HeldByOne'
  BY <1>1, <1>2 DEF HeldByOne, Holding, R!Waits, R!Tries
<1>8. ClosesIdle'
  BY <1>1, <1>2 DEF ClosesIdle, TriesTyped, TryRecords
<1>9. NoneOpens'
  BY <1>1, <1>2 DEF NoneOpens, HeldByOne, Holding, R!Waits, R!Tries
<1>10. CutIsUnused'
  BY <1>1, <1>2 DEF CutIsUnused, ClientsAreNew, CLIRecords
<1> QED
  BY <1>3, <1>4, <1>5, <1>6, <1>7, <1>8, <1>9, <1>10 DEF Inv

LEMMA EnsureJobKeeps ==
  ASSUME R!RestartConstants, Inv, NEW j \in Jobs, R!EnsureJob(j)
  PROVE  Inv'
<1>1. PICK c \in R!Clients : R!Given(c) /\ job' = [job EXCEPT ![j].at = "count",
                                                              ![j].on = c]
  BY DEF R!EnsureJob
<1>2. /\ CLITyped' /\ c \in Nat /\ c # 0 /\ ~R!Waits
      /\ cli'.client = c /\ cli'.held = cli.held
      /\ cli'.outdated = cli.outdated
      /\ \/ cli'.started = cli.started /\ c = cli.client
         \/ cli.client = 0 /\ c = cli.started + 1 /\ cli'.started = c
  BY <1>1, GivenFacts
<1> USE DEF Inv, Typed, CLITyped, ThreadsTyped, JobsTyped, R!EnsureJob,
            R!threadVars, R!updateVars
<1>3. Typed'
  <2>1. [job[j] EXCEPT !.at = "count", !.on = c]
           \in [at : {"idle", "ensure", "count", "run"}, on : Nat]
    BY <1>2
  <2>2. job' = [job EXCEPT ![j] = [job[j] EXCEPT !.at = "count", !.on = c]]
    BY <1>1
  <2> QED
    BY <1>2, <2>1, <2>2 DEF TriesTyped
<1>4. ClientsAreNew'
  BY <1>1, <1>2 DEF ClientsAreNew, CLIRecords
<1>5. UsersAreCounted'
  BY <1>1, <1>2 DEF UsersAreCounted, ClientsAreNew, CLIRecords, OpeningIsShown
<1>6. OpeningIsShown'
  BY <1>1, <1>2 DEF OpeningIsShown
<1>7. HeldByOne'
  BY <1>1, <1>2 DEF HeldByOne, Holding, R!Waits, R!Tries
<1>8. ClosesIdle'
  BY <1>1, <1>2 DEF ClosesIdle, TriesTyped, TryRecords
<1>9. NoneOpens'
  BY <1>1, <1>2 DEF NoneOpens, HeldByOne, Holding, R!Waits, R!Tries
<1>10. CutIsUnused'
  BY <1>1, <1>2 DEF CutIsUnused, ClientsAreNew, CLIRecords
<1> QED
  BY <1>3, <1>4, <1>5, <1>6, <1>7, <1>8, <1>9, <1>10 DEF Inv

LEMMA InstallKeeps ==
  ASSUME R!RestartConstants, Inv, R!Install
  PROVE  Inv'
<1>1. /\ CLITyped' /\ cli'.client = cli.client /\ cli'.started = cli.started
      /\ (cli'.outdated => cli.client # 0)
      /\ (cli.client # 0 /\ cli.outdated => cli'.outdated)
  <2>1. /\ cli \in CLIRecords /\ cli.client \in Nat /\ installed \in Nat
        /\ (cli.outdated => cli.client # 0)
    BY DEF Inv, Typed, CLITyped, CLIRecords, ClientsAreNew
  <2>2. installed' \in Nat
    BY <2>1 DEF R!Install
  <2>3. CASE cli' = [cli EXCEPT !.outdated = cli.client # 0, !.held = "free"]
    <3>1. cli' \in CLIRecords
      BY <2>1, <2>3 DEF CLIRecords, R!Holders
    <3>2. cli'.client = cli.client /\ cli'.started = cli.started
      BY <2>1, <2>3 DEF CLIRecords
    <3>3. cli'.outdated = (cli.client # 0)
      BY <2>1, <2>3 DEF CLIRecords
    <3> QED
      BY <2>2, <3>1, <3>2, <3>3 DEF CLITyped
  <2>4. CASE cli' = [cli EXCEPT !.held = "free"]
    <3>1. cli' \in CLIRecords
      BY <2>1, <2>4 DEF CLIRecords, R!Holders
    <3>2. cli'.client = cli.client /\ cli'.started = cli.started
      BY <2>1, <2>4 DEF CLIRecords
    <3>3. cli'.outdated = cli.outdated
      BY <2>1, <2>4 DEF CLIRecords
    <3> QED
      BY <2>1, <2>2, <3>1, <3>2, <3>3 DEF CLITyped
  <2> QED
    BY <2>3, <2>4 DEF R!Install
<1> USE DEF Inv, Typed, TriesTyped, R!Install
<1>2. /\ TriesTyped' /\ try'["wait"] = try["wait"]
      /\ try'["update"].todo = try["update"].todo
      /\ try'["update"].closing = try["update"].closing
      /\ try'["update"].at \in {"count", "failed"} /\ cli.held = "update"
  BY DEF R!Tries, TryRecords, Steps, HeldByOne
<1> USE DEF R!threadVars
<1>3. Typed'
  BY <1>1, <1>2 DEF ThreadsTyped, JobsTyped
<1>4. ClientsAreNew'
  BY <1>1 DEF ClientsAreNew, ThreadsTyped, JobsTyped
<1>5. UsersAreCounted'
  BY <1>1 DEF UsersAreCounted
<1>6. OpeningIsShown'
  BY DEF OpeningIsShown
<1>7. HeldByOne'
  BY <1>1, <1>2 DEF HeldByOne, Holding, R!Tries
<1>8. ClosesIdle'
  BY <1>2 DEF ClosesIdle, R!Tries
<1>9. NoneOpens'
  BY <1>1, <1>2 DEF NoneOpens, R!Tries
<1>10. CutIsUnused'
  BY DEF CutIsUnused
<1> QED
  BY <1>3, <1>4, <1>5, <1>6, <1>7, <1>8, <1>9, <1>10 DEF Inv

LEMMA QuiesceCLIKeeps ==
  ASSUME R!RestartConstants, Inv, NEW r \in R!Tries, R!QuiesceCLI(r)
  PROVE  Inv'
<1> USE DEF Inv, Typed, TriesTyped
<1>1. /\ TriesTyped' /\ \A q \in R!Tries \ {r} : try'[q] = try[q]
      /\ try'[r].todo = R!Open /\ try'[r].closing = try[r].closing
      /\ try'[r].at = "suspend" /\ try[r].at = "quiesce"
      /\ (~try'[r].busy => R!OpeningOnes = {})
  <2>1. PICK b \in BOOLEAN :
          /\ try' = [try EXCEPT ![r].at = "suspend", ![r].todo = R!Open,
                                ![r].busy = b]
          /\ (~b => R!OpeningOnes = {})
    BY DEF R!QuiesceCLI
  <2>2. try[r] \in TryRecords /\ R!Open \subseteq R!Tasks
    BY DEF R!Open, ThreadsTyped
  <2>3. try' = [try EXCEPT ![r] = [try[r] EXCEPT !.at = "suspend",
                                                 !.todo = R!Open, !.busy = b]]
    BY <2>1
  <2> DEFINE y == [try[r] EXCEPT !.at = "suspend", !.todo = R!Open, !.busy = b]
  <2>4. y \in TryRecords
    BY <2>2 DEF TryRecords, Steps
  <2>5. /\ y.at = "suspend" /\ y.todo = R!Open /\ y.closing = try[r].closing
        /\ y.busy = b
    BY <2>2 DEF TryRecords
  <2> HIDE DEF y
  <2>6. try' = [try EXCEPT ![r] = y]
    BY <2>3 DEF y
  <2>7. try'[r] = y /\ \A q \in R!Tries \ {r} : try'[q] = try[q]
    BY <2>6
  <2>8. TriesTyped'
    BY <2>4, <2>6
  <2>9. ~y.busy => R!OpeningOnes = {}
    BY <2>1, <2>5
  <2> QED
    BY <2>5, <2>7, <2>8, <2>9 DEF R!QuiesceCLI
<1>2. UNCHANGED <<R!cliVars, R!threadVars, job>>
  BY DEF R!QuiesceCLI
<1> USE <1>1, <1>2 DEF R!cliVars, R!threadVars
<1>3. Typed'
  BY DEF CLITyped, ThreadsTyped, JobsTyped
<1>4. ClientsAreNew'
  BY DEF ClientsAreNew
<1>5. UsersAreCounted'
  BY DEF UsersAreCounted
<1>6. OpeningIsShown'
  BY DEF OpeningIsShown
<1>7. HeldByOne'
  BY DEF HeldByOne, Holding, R!Tries
<1>8. ClosesIdle'
  BY DEF ClosesIdle, R!Open
<1>9. NoneOpens'
  BY DEF NoneOpens, OpeningIsShown, R!OpeningOnes, ThreadsTyped
<1>10. CutIsUnused'
  BY DEF CutIsUnused
<1> QED
  BY <1>3, <1>4, <1>5, <1>6, <1>7, <1>8, <1>9, <1>10 DEF Inv

LEMMA StopOutdatedKeeps ==
  ASSUME R!RestartConstants, Inv, NEW r \in R!Tries, R!StopOutdated(r)
  PROVE  Inv'
<1> USE DEF Inv, Typed, TriesTyped
<1>1. UNCHANGED <<tracked, counted, installed, listed, at, on, opening, conv, job>>
  BY DEF R!StopOutdated, R!threadVars
<1>2. cli.held = r /\ try[r].at = "stop"
  BY DEF R!StopOutdated, HeldByOne, Holding
<1>3. CASE ~cli.outdated \/ tracked \cup counted # {}
  <2>1. /\ CLITyped' /\ cli'.client = cli.client /\ cli'.started = cli.started
        /\ cli'.outdated = cli.outdated /\ cut' = cut
    <3>1. cli \in CLIRecords /\ installed' \in Nat
      BY <1>1 DEF CLITyped
    <3>2. cli' = [cli EXCEPT !.held = "free"] /\ cut' = cut
      BY <1>3 DEF R!StopOutdated, R!Freed
    <3>3. cli' \in CLIRecords
      BY <3>1, <3>2 DEF CLIRecords, R!Holders
    <3>4. /\ cli'.client = cli.client /\ cli'.started = cli.started
          /\ cli'.outdated = cli.outdated
      BY <3>1, <3>2 DEF CLIRecords
    <3> QED
      BY <3>1, <3>2, <3>3, <3>4 DEF CLITyped
  <2>2. /\ TriesTyped' /\ \A q \in R!Tries \ {r} : try'[q] = try[q]
        /\ try'[r].todo = {} /\ try'[r].closing = None
        /\ try'[r].at \in {"won", "tick", "lost"}
    <3>1. \E how \in {R!Done(r), R!NotYet(r)} : try' = [try EXCEPT ![r] = how]
      BY <1>3 DEF R!StopOutdated, R!Ends
    <3>2. PICK how \in {R!Done(r), R!NotYet(r)} : try' = [try EXCEPT ![r] = how]
      BY <3>1
    <3>3. how \in TryRecords /\ how.todo = {} /\ how.closing = None
          /\ how.at \in {"won", "tick", "lost"}
      BY <3>2 DEF R!NoTry, R!Done, R!NotYet, TryRecords, Steps
    <3> QED
      BY <3>2, <3>3
  <2> USE <1>1, <1>2, <2>1, <2>2
  <2>3. Typed'
    BY DEF ThreadsTyped, JobsTyped
  <2>4. ClientsAreNew' /\ UsersAreCounted' /\ OpeningIsShown' /\ CutIsUnused'
    BY DEF ClientsAreNew, UsersAreCounted, OpeningIsShown, CutIsUnused
  <2>5. HeldByOne'
    BY DEF HeldByOne, Holding, R!Tries
  <2>6. ClosesIdle' /\ NoneOpens'
    BY DEF ClosesIdle, NoneOpens
  <2> QED
    BY <2>3, <2>4, <2>5, <2>6 DEF Inv
<1>4. CASE cli.outdated /\ tracked \cup counted = {}
  <2>1. /\ CLITyped' /\ cli'.client = 0 /\ cli'.started = cli.started
        /\ ~cli'.outdated /\ cli'.held = r /\ cut' = cut \cup {cli.client}
    <3>1. cli' = [cli EXCEPT !.client = 0, !.outdated = FALSE]
      BY <1>4 DEF R!StopOutdated, R!Gone
    <3>2. cli \in CLIRecords /\ installed' \in Nat
      BY <1>1 DEF CLITyped
    <3>3. cli' \in CLIRecords
      BY <3>1, <3>2 DEF CLIRecords
    <3>4. /\ cli'.client = 0 /\ cli'.started = cli.started
          /\ cli'.outdated = FALSE /\ cli'.held = cli.held
      BY <3>1, <3>2 DEF CLIRecords
    <3> QED
      BY <1>2, <1>4, <3>2, <3>3, <3>4 DEF CLITyped, R!StopOutdated
  <2>2. /\ TriesTyped' /\ \A q \in R!Tries \ {r} : try'[q] = try[q]
        /\ try'[r].todo = try[r].todo /\ try'[r].closing = try[r].closing
        /\ try'[r].at = "release"
    BY <1>4 DEF R!StopOutdated, TryRecords, Steps
  <2>3. /\ cli.client # 0 /\ tracked = {} /\ counted = {}
    BY <1>4 DEF ClientsAreNew
  <2> USE <1>1, <1>2, <2>1, <2>2
  <2>4. Typed'
    BY DEF ThreadsTyped, JobsTyped
  <2>5. ClientsAreNew'
    BY <2>3 DEF ClientsAreNew, ThreadsTyped, CLITyped, CLIRecords
  <2>6. UsersAreCounted' /\ OpeningIsShown'
    BY DEF UsersAreCounted, OpeningIsShown, ThreadsTyped
  <2>7. HeldByOne'
    BY DEF HeldByOne, Holding, R!Tries
  <2>8. ClosesIdle'
    BY DEF ClosesIdle
  <2>9. NoneOpens'
    BY <2>7 DEF NoneOpens, HeldByOne, Holding
  <2>10. CutIsUnused'
    BY <2>3 DEF CutIsUnused, UsersAreCounted, NoneOpens
  <2> QED
    BY <2>4, <2>5, <2>6, <2>7, <2>8, <2>9, <2>10 DEF Inv
<1> QED
  BY <1>3, <1>4

\* uam starts afresh, over what is listed.
LEMMA StartsAfresh ==
  ASSUME R!RestartConstants,
         listed' \subseteq R!Tasks, installed' \in Nat,
         cli' = R!NoCLI, tracked' = {}, counted' = {}, cut' = {},
         at' = R!AllOf("idle"), on' = R!AllOf(0), conv' = R!AllOf(0),
         opening' = R!AllOf(FALSE), job' = R!NoJobs,
         try' = [r \in R!Tries |-> R!NoTry]
  PROVE  Inv'
<1>1. /\ \A t \in R!Tasks : at'[t] = "idle" /\ on'[t] = 0 /\ conv'[t] = 0
      /\ \A j \in Jobs : job'[j].at = "idle" /\ job'[j].on = 0
      /\ \A r \in R!Tries : /\ try'[r].at = "idle" /\ try'[r].todo = {}
                            /\ try'[r].closing = None
      /\ cli'.client = 0 /\ cli'.started = 0 /\ cli'.outdated = FALSE
  BY DEF R!AllOf, R!NoJobs, R!NoTry, R!NoCLI
<1>2. CLITyped'
  BY DEF CLITyped, CLIRecords, R!NoCLI, R!Holders
<1>3. ThreadsTyped'
  BY DEF ThreadsTyped, R!AllOf
<1>4. JobsTyped'
  BY DEF JobsTyped, R!NoJobs
<1>5. TriesTyped'
  BY DEF TriesTyped, TryRecords, R!NoTry, Steps
<1>6. ClientsAreNew'
  BY <1>1 DEF ClientsAreNew
<1>7. UsersAreCounted' /\ OpeningIsShown' /\ HeldByOne'
  BY <1>1 DEF UsersAreCounted, OpeningIsShown, HeldByOne, Holding, R!Tries
<1>8. ClosesIdle' /\ NoneOpens' /\ CutIsUnused'
  BY <1>1 DEF ClosesIdle, NoneOpens, CutIsUnused
<1> QED
  BY <1>2, <1>3, <1>4, <1>5, <1>6, <1>7, <1>8 DEF Inv, Typed

LEMMA InitInv ==
  ASSUME R!RestartConstants,
         R!Init PROVE Inv
<1>1. /\ \A t \in R!Tasks : at[t] = "idle" /\ on[t] = 0 /\ conv[t] = 0
      /\ \A j \in Jobs : job[j].at = "idle" /\ job[j].on = 0
      /\ \A r \in R!Tries : /\ try[r].at = "idle" /\ try[r].todo = {}
                            /\ try[r].closing = None
      /\ cli.client = 0 /\ cli.started = 0 /\ cli.outdated = FALSE
  BY DEF R!Init, R!AllOf, R!NoJobs, R!NoTry, R!NoCLI
<1>2. CLITyped /\ TriesTyped
  BY DEF R!Init, CLITyped, CLIRecords, R!NoCLI, R!Holders, TriesTyped,
         TryRecords,
         R!NoTry, Steps
<1>3. ThreadsTyped
  BY DEF R!Init, ThreadsTyped, R!AllOf, R!Tasks
<1>4. JobsTyped
  BY DEF R!Init, JobsTyped, R!NoJobs
<1>5. ClientsAreNew
  BY <1>1 DEF R!Init, ClientsAreNew
<1>6. UsersAreCounted /\ OpeningIsShown
  BY <1>1 DEF R!Init, UsersAreCounted, OpeningIsShown
<1>7. HeldByOne /\ ClosesIdle /\ NoneOpens /\ CutIsUnused
  BY <1>1 DEF R!Init, HeldByOne, Holding, R!Tries, ClosesIdle, NoneOpens,
              CutIsUnused
<1> QED
  BY <1>2, <1>3, <1>4, <1>5, <1>6, <1>7 DEF Inv, Typed

LEMMA RestartServiceKeeps ==
  ASSUME R!RestartConstants, Inv, R!RestartService
  PROVE  Inv'
  BY StartsAfresh DEF R!RestartService, Inv, Typed, CLITyped, ThreadsTyped

\* What the argument does not look at may change.
LEMMA OthersKeep ==
  ASSUME Inv, UNCHANGED <<R!cliVars, R!threadVars, job, try>>
  PROVE  Inv'
<1> USE DEF R!cliVars, R!threadVars
<1>1. Typed'
  BY DEF Inv, Typed, CLITyped, ThreadsTyped, JobsTyped, TriesTyped
<1>2. ClientsAreNew' /\ UsersAreCounted' /\ OpeningIsShown'
  BY DEF Inv, ClientsAreNew, UsersAreCounted, OpeningIsShown
<1>3. HeldByOne' /\ ClosesIdle' /\ NoneOpens' /\ CutIsUnused'
  BY DEF Inv, HeldByOne, ClosesIdle, NoneOpens, CutIsUnused
<1> QED
  BY <1>1, <1>2, <1>3 DEF Inv

LEMMA NextKeeps ==
  ASSUME R!RestartConstants, Inv, [R!Next]_R!vars
  PROVE  Inv'
<1>1. ASSUME NEW t \in R!Tasks,
             R!Prompt(t) \/ R!View(t) \/ R!Create(t) \/ R!Handler(t) \/ R!TurnEnds(t)
      PROVE  Inv'
  BY <1>1, PromptKeeps, ViewKeeps, CreateKeeps, ViewRunsKeeps,
     EnsureStartedKeeps, TrackKeeps, AttachKeeps, SendKeeps, ExitKeeps,
     TurnEndsKeeps DEF R!Handler
<1>2. ASSUME NEW j \in Jobs, R!StartJob(j) \/ R!JobStep(j)
      PROVE  Inv'
  BY <1>2, StartJobKeeps, EnsureJobKeeps, CountJobKeeps, EndJobKeeps
     DEF R!JobStep
<1>3. ASSUME NEW r \in R!Tries, R!Attempt(r)
      PROVE  Inv'
  BY <1>3, CountKeeps, HoldKeeps, QuiesceCLIKeeps, SuspendForCLIKeeps,
     CloseForCLIKeeps, QuiescedKeeps, StopOutdatedKeeps, ReleasedKeeps
     DEF R!Attempt
<1>4. CASE R!CLIDies \/ R!RestartRuntime \/ R!RuntimeStopped
  BY <1>4, CLIDiesKeeps, RestartRuntimeKeeps, RuntimeStoppedKeeps
<1>5. CASE R!StartCLIUpdate \/ R!Stage \/ R!Install \/ R!Tick \/ R!Restarted \/ R!Updated
  BY <1>5, StartCLIUpdateKeeps, StageKeeps, InstallKeeps, TickKeeps,
     RestartedKeeps, UpdatedKeeps
<1>6. CASE R!InstallOutside \/ R!CLIOutdated \/ R!FollowCLI
  BY <1>6, InstallOutsideKeeps, CLIOutdatedKeeps, FollowCLIKeeps
<1>7. CASE \/ R!FileChanges \/ R!Look \/ R!RequestRestart \/ R!TryRestart \/ R!Begin
           \/ R!Postpone
  BY <1>7, OthersKeep
     DEF R!FileChanges, R!Look, R!RequestRestart, R!TryRestart, R!Begin,
         R!Postpone, R!updateVars
<1>8. CASE R!RestartService
  BY <1>8, RestartServiceKeeps
<1>9. CASE UNCHANGED R!vars
  BY <1>9, OthersKeep DEF R!vars, R!updateVars
<1> QED
  BY <1>1, <1>2, <1>3, <1>4, <1>5, <1>6, <1>7, <1>8, <1>9 DEF R!Next

\* Every reachable state satisfies the inductive invariant.
THEOREM InvHolds ==
  ASSUME R!RestartConstants
  PROVE  R!Spec => []Inv
<1>1. R!Init => Inv
  BY InitInv DEF R!RestartConstants
<1>2. Inv /\ [R!Next]_R!vars => Inv'
  BY NextKeeps DEF R!RestartConstants
<1> QED
  BY <1>1, <1>2, PTL DEF R!Spec

\* A restart of the CLI onto an installed release ends no conversation of a
\* listed Thread, none that such a Thread opens, and no utility prompt
\* (quiesceCLI and stopOutdated).
THEOREM RestartSpares ==
  ASSUME R!RestartConstants
  PROVE  R!Spec => []R!RestartSparesThreads
<1>1. Inv => R!RestartSparesThreads
  <2> SUFFICES ASSUME Inv PROVE R!RestartSparesThreads
    OBVIOUS
  <2>1. \A t \in listed : t \in R!Tasks
    BY DEF Inv, Typed, ThreadsTyped
  <2> QED
    BY <2>1 DEF Inv, CutIsUnused, R!RestartSparesThreads, R!Uses
<1> QED
  BY <1>1, InvHolds, PTL
=============================================================================

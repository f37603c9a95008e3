---------------------------- MODULE Persistence ----------------------------
(***************************************************************************)
(* What of a Thread survives the service: the dirty set, the flushes that  *)
(* write sessions.json, creation and deletion of records, shutdown, crash  *)
(* and restart.                                                            *)
(*                                                                         *)
(* A flush holds Manager.persistMu throughout, but Manager.mu only while   *)
(* it copies the dirty Threads and, after a failed write, marks them again *)
(* and notes the error: a step each.  store.Update replaces the file in    *)
(* one rename, so it is one step.  The durable part of a Thread is a       *)
(* number that counts its changes, its turn state and its last submission. *)
(***************************************************************************)
EXTENDS Naturals, FiniteSets

CONSTANTS
  Threads,    \* session IDs
  Requests,   \* request IDs of prompts
  Handlers,   \* goroutines that record a prompt's outcome
  None,       \* no record, no goroutine, no request
  MaxChanges  \* bound: durable changes of a Thread that are not restarts

Loop == "loop"  \* persistLoop
Main == "main"  \* Start, then Shutdown
Writers == Handlers \cup {Loop, Main}

ASSUME PersistenceConstants ==
  /\ MaxChanges \in Nat
  /\ {Loop, Main, None} \cap Handlers = {} /\ None \notin {Loop, Main}
  /\ None \notin Requests

VARIABLES
  run,        \* "up", "closing" once Shutdown has begun, "down"
  life,       \* where each Thread is between creation and deletion
  live,       \* the durable part as Manager holds it
  known,      \* s.submissions: the request IDs with a recorded outcome
  disk,       \* the Thread's record in sessions.json, or None
  dirty,      \* Manager.dirty
  wake,       \* Manager.wake holds its one token
  saveError,  \* Manager.saveError is not empty
  persistMu,  \* owner of Manager.persistMu
  step,       \* where each writer is in flush
  patch,      \* the record patches each writer took
  reply,      \* the outcome each handler answers after its flush
  heard       \* history: the change at which an outcome was answered and saved

memory == <<live, known, dirty, wake, saveError>>
flushing == <<persistMu, step, patch>>
vars == <<run, life, disk, memory, flushing, reply, heard>>

Turns == {"idle", "working", "interrupted"}
Durable == [at : Nat, turn : Turns, last : Requests \cup {None}]
Fresh == [at |-> 0, turn |-> "idle", last |-> None]
Later(d, turn, last) == [at |-> d.at + 1, turn |-> turn, last |-> last]
Replies == [thread : Threads, request : Requests, at : Nat]

ASSUME NoneIsNoRecord == None \notin Durable \cup Replies

TypeOK ==
  /\ run \in {"up", "closing", "down"}
  /\ life \in [Threads -> {"unborn", "stored", "listed", "unstored", "gone"}]
  /\ live \in [Threads -> Durable] /\ known \in [Threads -> SUBSET Requests]
  /\ disk \in [Threads -> Durable \cup {None}]
  /\ dirty \subseteq Threads /\ wake \in BOOLEAN /\ saveError \in BOOLEAN
  /\ persistMu \in Writers \cup {None}
  /\ step \in [Writers -> {"idle", "flush", "writing", "failed", "noting",
                           "ending", "exit"}]
  /\ patch \in [Writers -> [Threads -> Durable \cup {None}]]
  /\ reply \in [Handlers -> Replies \cup {None}]
  /\ heard \in [Threads -> [Requests -> Nat]]

NoPatch == [t \in Threads |-> None]

Init ==
  /\ run = "up" /\ life = [t \in Threads |-> "unborn"]
  /\ live = [t \in Threads |-> Fresh] /\ known = [t \in Threads |-> {}]
  /\ disk = [t \in Threads |-> None]
  /\ dirty = {} /\ wake = FALSE /\ saveError = FALSE
  /\ persistMu = None /\ step = [w \in Writers |-> "idle"]
  /\ patch = [w \in Writers |-> NoPatch]
  /\ reply = [h \in Handlers |-> None]
  /\ heard = [t \in Threads |-> [r \in Requests |-> 0]]

Goto(w, next) == step' = [step EXCEPT ![w] = next]

\* Manager.sessions holds the Thread.
Listed(t) == life[t] \in {"listed", "unstored"}

\* A handler holds s.op from the submission to its answer.
Held(t) == \E h \in Handlers : reply[h] # None /\ reply[h].thread = t

-----------------------------------------------------------------------------
(* changedLocked: the durable part changes.                                *)

MarkedFirst(t) == dirty' = dirty \cup {t} /\ wake' = (wake \/ dirty = {})
Marked(t) == dirty' = dirty \cup {t} /\ wake' = TRUE

\* Before the Thread is listed, nothing is marked.
ChangedUntilClosing(t, next) ==
  /\ live' = [live EXCEPT ![t] = next]
  /\ IF Listed(t) /\ run = "up" THEN Marked(t) ELSE UNCHANGED <<dirty, wake>>
Changed(t, next) ==
  /\ live' = [live EXCEPT ![t] = next]
  /\ IF Listed(t) THEN Marked(t) ELSE UNCHANGED <<dirty, wake>>

\* An event of the provider, or an action of the owner.
Turn(t, turn) ==
  /\ run = "up" /\ life[t] \in {"unborn", "stored", "listed"}
  /\ turn # live[t].turn /\ live[t].at < MaxChanges
  /\ Changed(t, Later(live[t], turn, live[t].last))
  /\ UNCHANGED <<run, life, disk, known, saveError, flushing, reply, heard>>

\* A page that shows the Thread clears its unseen mark, which wakes nobody.
Look(t) ==
  /\ run = "up" /\ life[t] = "listed"
  /\ dirty' = dirty \cup {t}
  /\ UNCHANGED <<run, life, disk, live, known, wake, saveError, flushing, reply,
                 heard>>

\* recordSubmission: the outcome, then a flush of its own, then the answer.
Record(h, t, r) ==
  /\ run # "down" /\ life[t] = "listed" /\ ~Held(t) /\ reply[h] = None
  /\ r \notin known[t] /\ live[t].at < MaxChanges
  /\ Changed(t, Later(live[t], live[t].turn, r))
  /\ known' = [known EXCEPT ![t] = @ \cup {r}]
  /\ Goto(h, "flush")
  /\ reply' = [reply EXCEPT ![h] =
                 [thread |-> t, request |-> r, at |-> live[t].at + 1]]
  /\ UNCHANGED <<run, life, disk, saveError, persistMu, patch, heard>>

-----------------------------------------------------------------------------
(* flush.                                                                  *)

LoopWakes ==
  /\ run = "up" \/ (run = "closing" /\ step[Main] = "idle")
  /\ wake /\ step[Loop] = "idle"
  /\ wake' = FALSE /\ Goto(Loop, "flush")
  /\ UNCHANGED <<run, life, disk, live, known, dirty, saveError, persistMu,
                 patch, reply, heard>>

Snapshot == [t \in Threads |-> IF t \in dirty /\ Listed(t) THEN live[t] ELSE None]

TakesPatch(w) ==
  /\ patch' = [patch EXCEPT ![w] = Snapshot]
  /\ dirty' = {}
  /\ Goto(w, IF Snapshot = NoPatch THEN "ending" ELSE "writing")
  /\ UNCHANGED <<run, life, disk, live, known, wake, saveError, reply, heard>>

FlushBeginsUnlocked(w) ==
  step[w] = "flush" /\ persistMu' = w /\ TakesPatch(w)
\* Nothing is dirty: nothing to wait for.
FlushBeginsUnlessClean(w) ==
  /\ step[w] = "flush"
  /\ persistMu = None \/ dirty = {}
  /\ persistMu' = IF persistMu = None THEN w ELSE persistMu
  /\ TakesPatch(w)
FlushBegins(w) ==
  step[w] = "flush" /\ persistMu = None /\ persistMu' = w /\ TakesPatch(w)

\* A record that was removed meanwhile is not written again.
WrittenAnyway(w, t) == IF patch[w][t] # None THEN patch[w][t] ELSE disk[t]
Written(w, t) ==
  IF patch[w][t] # None /\ disk[t] # None THEN patch[w][t] ELSE disk[t]

FlushWrites(w) ==
  /\ step[w] = "writing"
  /\ disk' = [t \in Threads |-> Written(w, t)]
  /\ Goto(w, "ending")
  /\ UNCHANGED <<run, life, memory, persistMu, patch, reply, heard>>

FlushFails(w) ==
  /\ step[w] = "writing"
  /\ Goto(w, "failed")
  /\ UNCHANGED <<run, life, disk, memory, persistMu, patch, reply, heard>>

\* The next change retries what was not written.
Dropped(w) == dirty
Redirtied(w) == dirty \cup {t \in Threads : patch[w][t] # None}

FlushRetries(w) ==
  /\ step[w] = "failed"
  /\ dirty' = Redirtied(w)
  /\ Goto(w, "noting")
  /\ UNCHANGED <<run, life, disk, live, known, wake, saveError, persistMu, patch,
                 reply, heard>>

\* noteSave and the unlock.  A handler then answers, saved or not.
FlushEnds(w) ==
  /\ step[w] \in {"ending", "noting"}
  /\ saveError' = (step[w] = "noting")
  /\ persistMu' = None /\ patch' = [patch EXCEPT ![w] = NoPatch]
  /\ Goto(w, IF w = Main /\ run = "closing" THEN "exit" ELSE "idle")
  /\ IF w \in Handlers
     THEN /\ reply' = [reply EXCEPT ![w] = None]
          /\ heard' = IF step[w] = "ending"
                      THEN [heard EXCEPT ![reply[w].thread][reply[w].request] =
                              reply[w].at]
                      ELSE heard
     ELSE UNCHANGED <<reply, heard>>
  /\ UNCHANGED <<run, life, disk, live, known, dirty, wake>>

-----------------------------------------------------------------------------
(* Creation and deletion.                                                  *)

\* register: the record is written as created, whatever happened during Open.
Put(t) ==
  /\ run = "up" /\ life[t] = "unborn"
  /\ disk' = [disk EXCEPT ![t] = Fresh] /\ life' = [life EXCEPT ![t] = "stored"]
  /\ UNCHANGED <<run, memory, flushing, reply, heard>>

\* register: the Thread is listed, and what changed since is marked.
ListUnchanged(t) ==
  /\ run = "up" /\ life[t] = "stored"
  /\ life' = [life EXCEPT ![t] = "listed"]
  /\ UNCHANGED <<run, disk, memory, flushing, reply, heard>>
List(t) ==
  /\ run = "up" /\ life[t] = "stored"
  /\ life' = [life EXCEPT ![t] = "listed"]
  /\ IF live[t] # Fresh THEN Marked(t) ELSE UNCHANGED <<dirty, wake>>
  /\ UNCHANGED <<run, disk, live, known, saveError, flushing, reply, heard>>

\* deleteTask removes the record, then forgetLocked the Thread.
Unstore(t) ==
  /\ run = "up" /\ life[t] = "listed" /\ ~Held(t)
  /\ disk' = [disk EXCEPT ![t] = None] /\ life' = [life EXCEPT ![t] = "unstored"]
  /\ UNCHANGED <<run, memory, flushing, reply, heard>>

Forget(t) ==
  /\ run # "down" /\ life[t] = "unstored"
  /\ life' = [life EXCEPT ![t] = "gone"]
  /\ dirty' = dirty \ {t}
  /\ UNCHANGED <<run, disk, live, known, wake, saveError, flushing, reply, heard>>

-----------------------------------------------------------------------------
(* The end of the service and the next start.                              *)

\* A turn cannot survive the service that drove it.
Interrupted(d) ==
  IF d.turn = "working" THEN Later(d, "interrupted", d.last) ELSE d

Shutdown ==
  /\ run = "up" /\ step[Main] = "idle"
  /\ run' = "closing"
  /\ LET ended == {t \in Threads : Listed(t) /\ live[t].turn = "working"}
     IN  /\ live' = [t \in Threads |-> IF t \in ended THEN Interrupted(live[t])
                                       ELSE live[t]]
         /\ dirty' = dirty \cup ended
         /\ wake' = (wake \/ ended # {})
  /\ UNCHANGED <<life, disk, known, saveError, flushing, reply, heard>>

\* Shutdown's own flush, once the loop has ended.
LastFlush ==
  /\ run = "closing" /\ step[Main] = "idle" /\ step[Loop] = "idle"
  /\ Goto(Main, "flush")
  /\ UNCHANGED <<run, life, disk, memory, persistMu, patch, reply, heard>>

Down ==
  /\ run' = "down"
  /\ step' = [w \in Writers |-> "idle"] /\ persistMu' = None
  /\ patch' = [w \in Writers |-> NoPatch]
  /\ reply' = [h \in Handlers |-> None]
  /\ UNCHANGED <<life, disk, memory, heard>>

Exit == step[Main] = "exit" /\ Down
Crash == run # "down" /\ Down

\* sessionFromRecord: of the outcomes only the last one is known.
RememberedAlways(d) == {d.last}
Remembered(d) == {d.last} \ {None}

\* Start: what is in the file is listed, and a working turn was interrupted.
Restart ==
  /\ run = "down" /\ run' = "up"
  /\ life' = [t \in Threads |-> IF disk[t] # None THEN "listed"
                                ELSE IF life[t] = "unborn" THEN "unborn"
                                ELSE "gone"]
  /\ live' = [t \in Threads |-> IF disk[t] # None THEN Interrupted(disk[t])
                                ELSE Fresh]
  /\ known' = [t \in Threads |->
                 IF disk[t] # None THEN Remembered(disk[t]) ELSE {}]
  /\ dirty' = {t \in Threads : disk[t] # None /\ disk[t].turn = "working"}
  /\ wake' = FALSE /\ saveError' = FALSE
  /\ Goto(Main, "flush")
  /\ UNCHANGED <<disk, persistMu, patch, reply, heard>>

-----------------------------------------------------------------------------

FlushStep(w) ==
  FlushBegins(w) \/ FlushWrites(w) \/ FlushFails(w) \/ FlushRetries(w)
  \/ FlushEnds(w)

ThreadStep(t) ==
  \/ \E turn \in Turns \ {"interrupted"} : Turn(t, turn)
  \/ \E h \in Handlers, r \in Requests : Record(h, t, r)
  \/ Look(t) \/ Put(t) \/ List(t) \/ Unstore(t) \/ Forget(t)

ServiceStep == LoopWakes \/ Shutdown \/ LastFlush \/ Exit \/ Crash \/ Restart

Next ==
  \/ \E w \in Writers : FlushStep(w)
  \/ \E t \in Threads : ThreadStep(t)
  \/ ServiceStep

Spec == Init /\ [][Next]_vars

\* The goroutines go on; persistMu is handed on in turn.
Fairness ==
  /\ \A w \in Writers : SF_vars(FlushBegins(w)) /\ WF_vars(FlushStep(w))
  /\ WF_vars(LoopWakes) /\ WF_vars(LastFlush) /\ WF_vars(Exit)

FairSpec == Spec /\ Fairness

-----------------------------------------------------------------------------

Unsaved(t) == run # "down" /\ life[t] = "listed" /\ live[t] # disk[t]

\* A change that is not on disk is marked for the next flush, or in the hands
\* of the flush that is writing it or will mark it again.
NothingForgotten ==
  \A t \in Threads : Unsaved(t) =>
    \/ t \in dirty
    \/ \E w \in Writers : /\ persistMu = w /\ step[w] \in {"writing", "failed"}
                          /\ patch[w][t] = live[t]

\* Of a change that is not on disk, the owner is told that saving failed, or
\* someone is about to save it.
WakeOrShown ==
  \A t \in Threads : Unsaved(t) /\ run = "up" =>
    wake \/ saveError \/ \E w \in Writers : step[w] # "idle"

\* Once an outcome was answered, and no failed save was shown, a crash does not
\* undo it ("The request ID must be durable before the browser hears").
HeardIsDurable ==
  \A t \in Threads : disk[t] # None =>
    \A r \in Requests : heard[t][r] <= disk[t].at

\* A deleted Thread's record does not come back, whatever was being written or
\* is read at the next start ("Never recreate a record removed").
RemovedStaysRemoved ==
  \A t \in Threads : life[t] \in {"unstored", "gone"} => disk[t] = None

\* The file never goes back to an older state of a Thread, though several
\* goroutines write it.
DiskNeverGoesBack ==
  [][\A t \in Threads : disk[t] # None /\ disk'[t] # None =>
       disk[t].at <= disk'[t].at]_disk

\* A service that ended in order, with no failed save, lost nothing.
CleanStopLosesNothing ==
  [][Exit /\ ~saveError /\ (\A h \in Handlers : reply[h] = None) =>
       \A t \in Threads : life[t] = "listed" => live[t] = disk[t]]_vars

\* A change is saved, or its failure is shown.
SavedOrShown ==
  \A t \in Threads :
    Unsaved(t) ~> (~Unsaved(t) \/ saveError)
=============================================================================

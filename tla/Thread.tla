------------------------------- MODULE Thread -------------------------------
(***************************************************************************)
(* One Thread (webSession) of the uam web service: how a prompt reaches    *)
(* the provider, how the in-memory queue drains, and how opening, closing, *)
(* stopping, settling and shutting down interleave with it.                *)
(*                                                                         *)
(* The code has two locks.  s.op is held across provider calls; it is the  *)
(* variable op.  m.mu is held for short sections only; every action below  *)
(* is one such section, so everything that may happen while an operation   *)
(* waits for the provider may happen between two actions.  Stop, the queue *)
(* actions, the provider's events and Shutdown need m.mu alone.            *)
(*                                                                         *)
(* The generation number s.gen only tells whether an open, an event or a   *)
(* check started before the conversation changed.  It is modelled by what  *)
(* it tells: opens = "stale", and membership in moved.                     *)
(***************************************************************************)
EXTENDS Naturals, Sequences, FiniteSets, SequencesExt

CONSTANTS
  Prompts,     \* request IDs of the prompts
  Handlers,    \* goroutines serving POST /prompt
  None,        \* no prompt, no owner
  MaxQueue,    \* maxQueue
  MaxKicks,    \* bound: drains waiting when a user resumes again
  MaxOwn,      \* bound: turns the provider starts by itself
  Unprompted,  \* the provider may start turns nobody waits for
  Subagents,   \* turns may leave subagents running, which may ask
  Detaches,    \* a stop the provider cannot confirm detaches the conversation
  External     \* the Thread was imported or linked to a terminal

ASSUME ThreadConstants ==
  /\ MaxQueue \in Nat \ {0}
  /\ MaxKicks \in Nat
  /\ MaxOwn \in Nat
  /\ {Unprompted, Subagents, Detaches, External} \subseteq BOOLEAN
  /\ None \notin Prompts \cup Handlers

Drain == "drain"
View == "view"
Senders == Handlers \cup {Drain}
Procs == Senders \cup {View}

ASSUME ProcsDistinct == {Drain, View} \cap (Handlers \cup {None}) = {}

VARIABLES
  stage,    \* StageActive, StageSettled or StageArchived
  removed,  \* the record was deleted
  closed,   \* Manager.closed: Shutdown has begun
  base,     \* webSession.base, the turn state
  conv,     \* s.conv is not nil
  opening,  \* s.opening is not nil
  opens,    \* the provider.Open in flight: its generation is current or stale
  pend,     \* an interaction waits for an answer
  agents,   \* subagents or background tasks run
  queue,    \* s.queue, as request IDs
  sending,  \* s.queueSending
  paused,   \* s.queuePaused
  outcome,  \* what findSubmission returns for each request ID
  op,       \* owner of s.op
  kicks,    \* drain goroutines that wait for s.op
  views,    \* viewOpen goroutines that wait for s.op
  pc,       \* where each goroutine is
  req,      \* the request ID each goroutine carries
  mode,     \* its prompt mode: send, queue or steer
  res,      \* the outcome it is about to record or report
  prev,     \* prevBase of the send in progress
  moved,    \* goroutines whose mark (turnSeq, or key, gen and stopSeq) is old
  pturn,    \* the adapter's turnRunning
  leaving,  \* the adapter ended the turn of a detach and will exit
  floating, \* prompts with an uncertain outcome the provider may still take
  own,      \* turns the provider started by itself
  taken,    \* history: the prompts the provider took, in order
  line,     \* history: the prompts that joined the queue, in order
  held      \* history: the prompts that waited when the queue had to pause

threadVars == <<stage, removed, closed>>
convVars == <<conv, opening, opens>>
askVars == <<pend, agents>>
queueVars == <<queue, sending, paused>>
procVars == <<pc, req, mode, res, op>>
waitVars == <<kicks, views>>
provVars == <<pturn, leaving, floating, own>>
history == <<taken, line, held>>
vars == <<threadVars, base, convVars, askVars, queueVars, outcome, procVars,
          waitVars, prev, moved, provVars, history>>

Bases == {"idle", "working", "completed", "cancelled", "failed",
          "interrupted", "closed"}
Outcomes == {"accepted", "rejected", "uncertain", "cancelled"}
Steps == {"idle", "route", "check", "holder", "open", "opening", "ready",
          "sent", "took", "back", "steer", "record", "epilogue"}
Results == Outcomes \cup {"none", "busy", "error", "held", "done"}

ThreadOK ==
  /\ stage \in {"active", "settled", "archived"}
  /\ removed \in BOOLEAN /\ closed \in BOOLEAN
  /\ base \in Bases /\ prev \in Bases
ConvOK ==
  /\ conv \in BOOLEAN /\ opening \in BOOLEAN
  /\ opens \in {"none", "current", "stale"}
  /\ pend \in BOOLEAN /\ agents \in BOOLEAN
  /\ pturn \in BOOLEAN /\ leaving \in BOOLEAN
QueueOK ==
  /\ queue \in Seq(Prompts) /\ sending \in Prompts \cup {None}
  /\ paused \in BOOLEAN
  /\ outcome \in [Prompts -> Outcomes \cup {"none"}]
ProcOK ==
  /\ op \in Procs \cup {None}
  /\ pc \in [Procs -> Steps]
  /\ req \in [Senders -> Prompts \cup {None}]
  /\ mode \in [Senders -> {"send", "queue", "steer"}]
  /\ res \in [Senders -> Results]
WaitOK == moved \subseteq Procs /\ kicks \in Nat /\ views \in Nat /\ own \in Nat
HistoryOK ==
  /\ floating \subseteq Prompts /\ held \subseteq Prompts
  /\ taken \in Seq(Prompts) /\ line \in Seq(Prompts)

TypeOK == ThreadOK /\ ConvOK /\ QueueOK /\ ProcOK /\ WaitOK /\ HistoryOK

Init ==
  /\ stage = "active" /\ removed = FALSE /\ closed = FALSE
  /\ base = "idle" /\ prev = "idle"
  /\ conv \in BOOLEAN /\ opening = FALSE /\ opens = "none"
  /\ pend = FALSE /\ agents = FALSE
  /\ queue = <<>> /\ sending = None /\ paused = FALSE
  /\ outcome = [r \in Prompts |-> "none"]
  /\ op = None /\ kicks = 0 /\ views = 0
  /\ pc = [p \in Procs |-> "idle"]
  /\ req = [p \in Senders |-> None]
  /\ mode = [p \in Senders |-> "send"]
  /\ res = [p \in Senders |-> "none"]
  /\ moved = {} /\ pturn = FALSE /\ leaving = FALSE /\ floating = {} /\ own = 0
  /\ taken = <<>> /\ line = <<>> /\ held = {}

-----------------------------------------------------------------------------
(* Derived state.                                                          *)

\* state(): opening wins, then a pending request, then the turn state.
State == IF opening THEN "starting" ELSE IF pend THEN "awaiting" ELSE base
TurnRunning == State \in {"working", "awaiting"}
Busy == State \in {"working", "awaiting", "starting"}

\* settleableLocked refuses what runs or waits; runsOrWaitsLocked is the same
\* question asked of the conversation.
RunsOrWaitsUnqueued == Busy \/ pend \/ agents
RunsOrWaits == Busy \/ pend \/ queue # <<>> \/ sending # None \/ agents

\* findRequest: a recorded outcome, or a place in the queue.
Known(r) == outcome[r] # "none" \/ r \in Range(queue)

\* autoOpenableLocked: merely looking opens neither a failed nor a closed one.
AutoOpenable ==
  /\ ~removed /\ stage = "active" /\ ~conv
  /\ base \notin {"failed", "closed"}

\* kickDrainLocked, for the queue as the caller leaves it.
NotKicked(q, isPaused) == kicks
Kicked(q, isPaused) ==
  IF closed \/ removed \/ q = <<>> \/ isPaused THEN kicks ELSE kicks + 1

\* pauseQueueLocked: an empty queue is not paused.
PauseQueue == paused' = (paused \/ queue # <<>>)

\* For the history only: what waits now, the head of a send that may yet put
\* it back included, waits for the owner.
Holds == held' = held \cup Range(queue) \cup ({sending} \ {None})

\* setBase bumps turnSeq, so both a send's mark and a holder check's key are
\* old; a change of the generation, the stop count or the rest of the key
\* only makes a holder check's key old.
AtHolder == {p \in Procs : pc[p] = "holder"}
AtSend == {p \in Procs : pc[p] \in {"sent", "took", "back"}}
TurnMoved == moved' = moved \cup AtHolder \cup AtSend
KeyMoved == moved' = moved \cup AtHolder

-----------------------------------------------------------------------------
(* How a goroutine leaves an operation.                                    *)

Goto(p, step) == pc' = [pc EXCEPT ![p] = step]

\* A handler answers its request and releases op.  The drain first runs its
\* epilogue, still holding op.
Finish(p, result) ==
  IF p = Drain
  THEN /\ Goto(p, "epilogue") /\ res' = [res EXCEPT ![p] = result]
       /\ UNCHANGED <<req, mode, op>>
  ELSE /\ Goto(p, "idle") /\ res' = [res EXCEPT ![p] = "none"]
       /\ req' = [req EXCEPT ![p] = None]
       /\ mode' = [mode EXCEPT ![p] = "send"]
       /\ op' = None

ToRecord(p, result) ==
  /\ Goto(p, "record") /\ res' = [res EXCEPT ![p] = result]
  /\ UNCHANGED <<req, mode, op>>

Advance(p, step) == Goto(p, step) /\ UNCHANGED <<req, mode, res, op>>

-----------------------------------------------------------------------------
(* submit: POST /api/sessions/{id}/prompt.                                 *)

\* The handler takes op and passes the first checks.  A known request ID, a
\* removed or read-only Thread and a closing service are answered at once,
\* which changes nothing.
Submit(h, r, m) ==
  /\ pc[h] = "idle" /\ op = None
  /\ ~Known(r) /\ ~removed /\ ~closed /\ stage = "active"
  /\ op' = h /\ Goto(h, "route")
  /\ req' = [req EXCEPT ![h] = r] /\ mode' = [mode EXCEPT ![h] = m]
  /\ UNCHANGED <<threadVars, base, convVars, askVars, queueVars, outcome, res,
                 waitVars, prev, moved, provVars, history>>

WillQueue(h) ==
  /\ mode[h] = "queue"
  /\ TurnRunning \/ sending # None \/ (queue # <<>> /\ ~paused)

\* A prompt that is asked for again during its own in-use check joins last.
Rejoined(r) ==
  LET n == CHOOSE i \in DOMAIN line : line[i] = r
  IN  [i \in DOMAIN line |-> IF i = Len(line) THEN r
                            ELSE IF i < n THEN line[i] ELSE line[i + 1]]

Enqueue(h) ==
  /\ pc[h] = "route" /\ WillQueue(h)
  /\ IF Len(queue) < MaxQueue
     THEN /\ queue' = Append(queue, req[h])
          /\ line' = IF req[h] \in Range(line) THEN Rejoined(req[h])
                     ELSE Append(line, req[h])
          /\ kicks' = IF Busy THEN kicks ELSE Kicked(queue', paused)
     ELSE UNCHANGED <<queue, line, kicks>>
  /\ Finish(h, "done")
  /\ UNCHANGED <<threadVars, base, convVars, askVars, sending, paused, outcome,
                 views, prev, moved, provVars, taken, held>>

\* checkHolder does nothing for a Thread only this service writes to.
ToCheck(p, next) == IF External THEN "check" ELSE next

RouteSteer(h) ==
  /\ pc[h] = "route" /\ mode[h] = "steer" /\ TurnRunning
  /\ IF conv THEN Advance(h, ToCheck(h, "steer")) ELSE ToRecord(h, "rejected")
  /\ UNCHANGED <<threadVars, base, convVars, askVars, queueVars, outcome,
                 waitVars, prev, moved, provVars, history>>

\* errTurnRunning, or on to send.
RouteSend(h) ==
  /\ pc[h] = "route" /\ ~WillQueue(h) /\ ~(mode[h] = "steer" /\ TurnRunning)
  /\ IF Busy \/ sending # None THEN Finish(h, "error")
     ELSE /\ Goto(h, ToCheck(h, "open"))
          /\ mode' = [mode EXCEPT ![h] = "send"]
          /\ UNCHANGED <<req, res, op>>
  /\ UNCHANGED <<threadVars, base, convVars, askVars, queueVars, outcome,
                 waitVars, prev, moved, provVars, history>>

-----------------------------------------------------------------------------
(* checkedPrompt: the in-use check releases op while it asks the provider. *)

CheckHolder(p) ==
  /\ pc[p] = "check"
  /\ Goto(p, "holder") /\ op' = None /\ moved' = moved \ {p}
  /\ UNCHANGED <<threadVars, base, convVars, askVars, queueVars, outcome, req,
                 mode, res, waitVars, prev, provVars, history>>

\* Why the prompt does not go on, or "none".  Another submission may have
\* completed, or queued, the same request while op was released.
Checked(p, inUse) ==
  IF Known(req[p]) THEN "done"
  ELSE IF closed \/ removed \/ p \in moved THEN "error"
  ELSE IF inUse THEN "held" ELSE "none"

HolderAnswered(p, inUse) ==
  /\ pc[p] = "holder" /\ op = None
  /\ moved' = moved \ {p}
  /\ LET next == IF mode[p] = "steer" THEN "steer" ELSE "open"
         result == Checked(p, inUse)
     IN  IF result = "none"
         THEN Goto(p, next) /\ op' = p /\ UNCHANGED <<req, mode, res>>
         ELSE IF p = Drain
         THEN /\ Goto(p, "epilogue") /\ res' = [res EXCEPT ![p] = result]
              /\ op' = p /\ UNCHANGED <<req, mode>>
         ELSE Finish(p, result)
  /\ UNCHANGED <<threadVars, base, convVars, askVars, queueVars, outcome,
                 waitVars, prev, provVars, history>>

-----------------------------------------------------------------------------
(* openLocked: reopening the exact conversation.                           *)

\* The section before provider.Open; explicit is FALSE for a viewer.
OpenBegins(p, explicit) ==
  LET skip == removed \/ conv \/ closed \/ (~explicit /\ ~AutoOpenable)
  IN  /\ opening' = ~skip
      /\ opens' = IF skip THEN "none" ELSE "current"
      /\ IF skip THEN UNCHANGED moved ELSE KeyMoved

OpenForPrompt(p) ==
  /\ pc[p] = "open"
  /\ OpenBegins(p, TRUE)
  /\ IF removed THEN ToRecord(p, "rejected")
     ELSE IF conv THEN Advance(p, "ready")
     ELSE IF closed THEN Finish(p, "error")
     ELSE Advance(p, "opening")
  /\ UNCHANGED <<threadVars, base, conv, askVars, queueVars, outcome, waitVars,
                 prev, provVars, history>>

\* viewOpen: a page load may reopen the conversation.
ViewOpen ==
  /\ ~closed /\ AutoOpenable /\ ~opening
  /\ opening' = TRUE /\ views' = views + 1
  /\ UNCHANGED <<threadVars, base, conv, opens, askVars, queueVars, outcome,
                 procVars, kicks, prev, moved, provVars, history>>

OpenForView ==
  /\ views > 0 /\ op = None
  /\ views' = views - 1
  /\ OpenBegins(View, FALSE)
  /\ IF opens' = "current" THEN Goto(View, "opening") /\ op' = View
     ELSE UNCHANGED <<pc, op>>
  /\ UNCHANGED <<threadVars, base, conv, askVars, queueVars, outcome, req, mode,
                 res, kicks, prev, provVars, history>>

\* The conversation an open brings is still the one that was asked for.
StaleToo == opens # "none"
Current == opens = "current" /\ ~closed

\* The section after provider.Open.  A conversation whose generation passed
\* is closed again.
OpenEnds(p, ok) ==
  /\ pc[p] = "opening"
  /\ opening' = FALSE /\ opens' = "none"
  /\ conv' = (ok /\ Current)
  /\ base' = IF ok /\ Current
             THEN IF base \in {"closed", "failed"} THEN "idle" ELSE base
             ELSE IF ~ok /\ opens = "current" THEN "failed" ELSE base
  /\ pturn' = (pturn /\ conv') /\ pend' = (pend /\ conv')
  /\ IF base' # base THEN TurnMoved ELSE UNCHANGED moved
  /\ IF p = View
     THEN Goto(p, "idle") /\ op' = None /\ UNCHANGED <<req, mode, res>>
     ELSE IF conv' THEN Advance(p, "ready") ELSE ToRecord(p, "rejected")
  /\ UNCHANGED <<threadVars, agents, queueVars, outcome, waitVars, prev,
                 leaving, floating, own, history>>

-----------------------------------------------------------------------------
(* send: the commit, the provider call and what follows it.                *)

\* Files, attachments or settings cannot be used any more.
Unready(p) ==
  /\ pc[p] = "ready"
  /\ ToRecord(p, "rejected")
  /\ UNCHANGED <<threadVars, base, convVars, askVars, queueVars, outcome,
                 waitVars, prev, moved, provVars, history>>

Commit(p) ==
  /\ pc[p] = "ready"
  /\ IF conv /\ ~Busy
     THEN /\ base' = "working" /\ prev' = base
          /\ moved' = (moved \cup AtHolder) \ {p}
          /\ Advance(p, "sent")
     ELSE /\ IF conv THEN Finish(p, "error") ELSE ToRecord(p, "rejected")
          /\ UNCHANGED <<base, prev, moved>>
  /\ UNCHANGED <<threadVars, convVars, askVars, queueVars, outcome, waitVars,
                 provVars, history>>

\* The provider starts a turn and reports TurnWorking.  Its event is dropped
\* unless it comes from the current generation.
Heard == conv \/ opens = "current"

TurnStarts ==
  /\ pturn' = TRUE /\ base' = "working"
  /\ TurnMoved

\* The provider takes the prompt of a Send in flight.
Takes(p) ==
  /\ pc[p] = "sent" /\ conv /\ ~pturn /\ ~leaving
  /\ taken' = Append(taken, req[p])
  /\ TurnStarts
  /\ Advance(p, "took")
  /\ UNCHANGED <<threadVars, convVars, askVars, queueVars, outcome, waitVars,
                 prev, leaving, floating, own, line, held>>

Accepts(p) ==
  /\ pc[p] = "took"
  /\ moved' = moved \ {p}
  /\ ToRecord(p, "accepted")
  /\ UNCHANGED <<threadVars, base, convVars, askVars, queueVars, outcome,
                 waitVars, prev, provVars, history>>

\* Send fails: ErrBusy while a turn runs, a plain refusal (ErrClosed among
\* them), or ErrSubmissionUncertain when the answer was lost.  A prompt that
\* was lost on its way may still be on it.
SendFails(p, result) ==
  /\ \/ pc[p] = "sent" /\ result \in {"rejected", "uncertain"}
     \/ pc[p] = "sent" /\ result = "busy" /\ conv /\ pturn
     \/ pc[p] = "took" /\ result = "uncertain"
  /\ ~leaving
  /\ Goto(p, "back") /\ res' = [res EXCEPT ![p] = result]
  /\ floating' = IF Unprompted /\ pc[p] = "sent" /\ result = "uncertain"
                 THEN floating \cup {req[p]} ELSE floating
  /\ UNCHANGED <<threadVars, base, convVars, askVars, queueVars, outcome, req,
                 mode, op, waitVars, prev, moved, pturn, leaving, own, history>>

RestoreAlways(p) ==
  /\ pc[p] = "back"
  /\ base' = prev
  /\ moved' = moved \ {p}
  /\ IF res[p] = "busy" THEN Finish(p, "error") ELSE ToRecord(p, res[p])
  /\ UNCHANGED <<threadVars, convVars, askVars, queueVars, outcome, waitVars,
                 prev, provVars, history>>

RestoreRejects(p) ==
  /\ pc[p] = "back"
  /\ base' = IF p \in moved THEN base ELSE prev
  /\ moved' = moved \ {p}
  /\ IF res[p] = "busy" THEN Finish(p, "error") ELSE ToRecord(p, "rejected")
  /\ UNCHANGED <<threadVars, convVars, askVars, queueVars, outcome, waitVars,
                 prev, provVars, history>>

\* The base state comes back unless the turn state changed since the commit.
Restore(p) ==
  /\ pc[p] = "back"
  /\ base' = IF p \in moved THEN base ELSE prev
  /\ moved' = moved \ {p}
  /\ IF res[p] = "busy" THEN Finish(p, "error") ELSE ToRecord(p, res[p])
  /\ UNCHANGED <<threadVars, convVars, askVars, queueVars, outcome, waitVars,
                 prev, provVars, history>>

\* conv.Steer.  The adapter does not ask whether a turn still runs: a prompt
\* that comes too late is kept by the provider for a turn of its own.
Steers(p, result) ==
  /\ pc[p] = "steer" /\ ~leaving
  /\ \/ /\ result \in {"accepted", "uncertain"}
        /\ conv /\ (pturn \/ Unprompted)
        /\ taken' = Append(taken, req[p])
        /\ UNCHANGED floating
     \/ /\ result \in {"rejected", "uncertain", "error"}
        /\ floating' = IF Unprompted /\ result = "uncertain"
                       THEN floating \cup {req[p]} ELSE floating
        /\ UNCHANGED taken
  /\ IF result = "error" THEN Finish(p, "error") ELSE ToRecord(p, result)
  /\ UNCHANGED <<threadVars, base, convVars, askVars, queueVars, outcome,
                 waitVars, prev, moved, pturn, leaving, own, line, held>>

\* recordSubmission: a prompt that was meant to start a turn and was not
\* accepted pauses the queue.
Record(p) ==
  /\ pc[p] = "record"
  /\ outcome' = [outcome EXCEPT ![req[p]] = res[p]]
  /\ LET stops == mode[p] # "steer" /\ res[p] # "accepted"
     IN  IF stops THEN PauseQueue /\ Holds ELSE UNCHANGED <<paused, held>>
  /\ KeyMoved
  /\ Finish(p, "done")
  /\ UNCHANGED <<threadVars, base, convVars, askVars, queue, sending, waitVars,
                 prev, provVars, taken, line>>

-----------------------------------------------------------------------------
(* drain: the queue's head goes through the same send.                     *)

DrainBegins ==
  /\ kicks > 0 /\ op = None
  /\ kicks' = kicks - 1
  /\ IF closed \/ removed \/ queue = <<>> \/ paused \/ sending # None \/ Busy
     THEN UNCHANGED <<queue, sending, op, pc, req>>
     ELSE /\ sending' = Head(queue) /\ queue' = Tail(queue)
          /\ op' = Drain /\ Goto(Drain, ToCheck(Drain, "open"))
          /\ req' = [req EXCEPT ![Drain] = Head(queue)]
  /\ UNCHANGED <<threadVars, base, convVars, askVars, paused, outcome, mode,
                 res, views, prev, moved, provVars, history>>

PutBackLast(q, r) == Append(q, r)
PutBack(q, r) == <<r>> \o q

\* After the send: a prompt nothing was sent of goes back to the front.
DrainEnds ==
  /\ pc[Drain] = "epilogue"
  /\ sending' = None
  /\ IF res[Drain] \in {"error", "held"} /\ ~closed /\ ~removed
     THEN /\ queue' = PutBack(queue, req[Drain])
          /\ paused' = (paused \/ res[Drain] = "held" \/ base = "closed")
     ELSE UNCHANGED <<queue, paused>>
  /\ Goto(Drain, "idle") /\ op' = None
  /\ req' = [req EXCEPT ![Drain] = None]
  /\ res' = [res EXCEPT ![Drain] = "none"]
  /\ UNCHANGED <<threadVars, base, convVars, askVars, outcome, mode, waitVars,
                 prev, moved, provVars, history>>

-----------------------------------------------------------------------------
(* The owner's queue actions need m.mu alone.                              *)

CancelQueued(i) ==
  /\ ~removed /\ ~closed /\ stage = "active"
  /\ queue' = RemoveAt(queue, i)
  /\ outcome' = [outcome EXCEPT ![queue[i]] = "cancelled"]
  /\ paused' = (paused /\ queue' # <<>>)
  /\ UNCHANGED <<threadVars, base, convVars, askVars, sending, procVars,
                 waitVars, prev, moved, provVars, history>>

ClearQueue ==
  /\ ~removed /\ ~closed /\ stage = "active" /\ queue # <<>>
  /\ queue' = <<>> /\ paused' = FALSE
  /\ outcome' = [r \in Prompts |->
                   IF r \in Range(queue) THEN "cancelled" ELSE outcome[r]]
  /\ UNCHANGED <<threadVars, base, convVars, askVars, sending, procVars,
                 waitVars, prev, moved, provVars, history>>

ResumeQueue ==
  /\ ~removed /\ ~closed /\ stage = "active"
  /\ queue # <<>> /\ kicks < MaxKicks
  /\ paused' = FALSE /\ held' = {}
  /\ kicks' = IF Busy THEN kicks ELSE Kicked(queue, FALSE)
  /\ UNCHANGED <<threadVars, base, convVars, askVars, queue, sending, outcome,
                 procVars, views, prev, moved, provVars, taken, line>>

\* Stop waits a bounded time for op and then goes on without it.  That the
\* provider may now end the turn as cancelled needs no step: it always may.
Stop ==
  /\ ~removed /\ stage = "active" /\ conv /\ ~opening /\ Busy
  /\ PauseQueue
  /\ KeyMoved
  /\ UNCHANGED <<threadVars, base, convVars, askVars, queue, sending, outcome,
                 procVars, waitVars, prev, provVars, history>>

-----------------------------------------------------------------------------
(* Close, the idle sweep, the stages and Delete hold op throughout.        *)

Detach == conv' = FALSE /\ pturn' = FALSE /\ pend' = FALSE /\ agents' = FALSE

\* disconnectLocked
Disconnect == Detach /\ PauseQueue /\ base' = "closed" /\ TurnMoved

Close ==
  /\ op = None /\ ~removed /\ ~leaving
  /\ Disconnect
  /\ Holds
  /\ UNCHANGED <<threadVars, opening, opens, queue, sending, outcome, procVars,
                 waitVars, prev, leaving, floating, own, taken, line>>

CloseIdle ==
  /\ op = None /\ ~removed /\ ~closed /\ conv /\ ~RunsOrWaits /\ ~leaving
  /\ Detach
  /\ KeyMoved
  /\ UNCHANGED <<threadVars, base, opening, opens, queueVars, outcome, procVars,
                 waitVars, prev, leaving, floating, own, history>>

\* moveStage
MoveStage(from, to) ==
  /\ op = None /\ ~removed /\ ~closed /\ stage = from /\ ~leaving
  /\ stage' = to
  /\ IF from = "active"
     THEN /\ ~RunsOrWaits
          /\ IF conv THEN Disconnect
             ELSE /\ KeyMoved
                  /\ UNCHANGED <<base, conv, pturn, pend, agents, paused>>
     ELSE /\ base' = IF from = "archived" THEN "completed" ELSE base
          /\ TurnMoved
          /\ UNCHANGED <<conv, pturn, pend, agents, paused>>
  /\ UNCHANGED <<removed, closed, opening, opens, queue, sending, outcome,
                 procVars, waitVars, prev, leaving, floating, own, history>>

Settle == MoveStage("active", "settled")
Reopen == MoveStage("settled", "active")
Archive == MoveStage("active", "archived") \/ MoveStage("settled", "archived")
Unarchive == MoveStage("archived", "active")

Delete ==
  /\ op = None /\ ~removed /\ ~closed /\ stage = "archived"
  /\ removed' = TRUE /\ conv' = FALSE
  /\ KeyMoved
  /\ UNCHANGED <<stage, closed, base, opening, opens, askVars, queueVars,
                 outcome, procVars, waitVars, prev, provVars, history>>

Shutdown ==
  /\ ~closed /\ ~removed
  /\ closed' = TRUE
  /\ base' = IF Busy /\ ~opening THEN "interrupted" ELSE base
  /\ Detach
  /\ opens' = IF opens = "none" THEN "none" ELSE "stale"
  /\ queue' = <<>> /\ paused' = FALSE /\ leaving' = FALSE
  /\ TurnMoved
  /\ UNCHANGED <<stage, removed, opening, sending, outcome, procVars, waitVars,
                 prev, floating, own, history>>

-----------------------------------------------------------------------------
(* The provider's events.                                                  *)

\* A turn nobody waits for: a late steer, an uncertain prompt that arrived
\* after all, or work the provider still had when its conversation reopened.
OwnTurn ==
  /\ Unprompted /\ own < MaxOwn /\ Heard /\ ~pturn /\ ~leaving
  /\ own' = own + 1
  /\ TurnStarts
  /\ UNCHANGED <<threadVars, convVars, askVars, queueVars, outcome, procVars,
                 waitVars, prev, leaving, floating, history>>

LateTake(r) ==
  /\ r \in floating /\ conv /\ ~pturn /\ ~leaving
  /\ floating' = floating \ {r}
  /\ taken' = Append(taken, r)
  /\ TurnStarts
  /\ UNCHANGED <<threadVars, convVars, askVars, queueVars, outcome, procVars,
                 waitVars, prev, leaving, own, line, held>>

\* applyTurnLocked at a turn's end.  What a subagent asks outlives the turn
\* unless the turn was stopped.
TurnEnds(kind) ==
  /\ pturn /\ Heard /\ ~leaving
  /\ pturn' = FALSE /\ base' = kind
  /\ IF kind = "completed"
     THEN kicks' = Kicked(queue, paused) /\ UNCHANGED <<paused, held>>
     ELSE PauseQueue /\ Holds /\ UNCHANGED kicks
  /\ pend' \in {FALSE, pend /\ agents /\ kind # "cancelled"}
  /\ TurnMoved
  /\ UNCHANGED <<threadVars, convVars, agents, queue, sending, outcome,
                 procVars, views, prev, leaving, floating, own, taken, line>>

Asks ==
  /\ Heard /\ ~leaving /\ ~pend /\ (pturn \/ agents)
  /\ pend' = TRUE /\ KeyMoved
  /\ UNCHANGED <<threadVars, base, convVars, agents, queueVars, outcome,
                 procVars, waitVars, prev, provVars, history>>

Answered ==
  /\ pend /\ ~leaving
  /\ pend' = FALSE /\ KeyMoved
  /\ UNCHANGED <<threadVars, base, convVars, agents, queueVars, outcome,
                 procVars, waitVars, prev, provVars, history>>

AgentStarts ==
  /\ Subagents /\ conv /\ pturn /\ ~agents /\ ~leaving
  /\ agents' = TRUE
  /\ UNCHANGED <<threadVars, base, convVars, pend, queueVars, outcome, procVars,
                 waitVars, prev, moved, provVars, history>>

AgentsEnd ==
  /\ agents /\ ~leaving
  /\ agents' = FALSE /\ pend' = (pend /\ pturn) /\ KeyMoved
  /\ UNCHANGED <<threadVars, base, convVars, queueVars, outcome, procVars,
                 waitVars, prev, provVars, history>>

\* EventExit: the conversation is gone.
ConversationExits(detached) ==
  LET lost == ~detached /\ RunsOrWaits
  IN  /\ Heard
      /\ Detach
      /\ opens' = IF opens = "none" THEN "none" ELSE "stale"
      /\ PauseQueue
      /\ base' = IF lost THEN "failed" ELSE base
      /\ IF lost THEN TurnMoved ELSE KeyMoved
      /\ Holds /\ leaving' = FALSE
      /\ UNCHANGED <<threadVars, opening, queue, sending, outcome, procVars,
                     waitVars, prev, floating, own, taken, line>>

Exits == ~leaving /\ ConversationExits(FALSE)

\* A stop the provider did not confirm: the adapter reports the turn as
\* cancelled and, after the events of others, the exit.
DetachBegins ==
  /\ Detaches /\ conv /\ ~leaving
  /\ pturn \/ \E p \in Senders : pc[p] \in {"sent", "took"}
  /\ leaving' = TRUE
  /\ pturn' = FALSE /\ base' = "cancelled" /\ Holds
  /\ pend' = FALSE
  /\ PauseQueue /\ TurnMoved
  /\ UNCHANGED <<threadVars, convVars, agents, queue, sending, outcome,
                 procVars, waitVars, prev, floating, own, taken, line>>

DetachEnds == leaving /\ ConversationExits(TRUE)

-----------------------------------------------------------------------------

\* What a goroutine does next once it holds op (or asks for it back).
SendStep(p) ==
  \/ CheckHolder(p)
  \/ \E inUse \in BOOLEAN : HolderAnswered(p, inUse)
  \/ OpenForPrompt(p)
  \/ \E ok \in BOOLEAN : OpenEnds(p, ok)
  \/ Unready(p) \/ Commit(p)
  \/ Takes(p) \/ Accepts(p)
  \/ \E result \in {"busy", "rejected", "uncertain"} : SendFails(p, result)
  \/ \E result \in {"accepted", "rejected", "uncertain", "error"} :
       Steers(p, result)
  \/ Restore(p) \/ Record(p)

HandlerStep(h) == Enqueue(h) \/ RouteSteer(h) \/ RouteSend(h) \/ SendStep(h)

DrainStep == SendStep(Drain) \/ DrainEnds

ViewStep == \E ok \in BOOLEAN : OpenEnds(View, ok)

OwnerStep ==
  \/ \E h \in Handlers, r \in Prompts, m \in {"send", "queue", "steer"} :
       Submit(h, r, m)
  \/ ViewOpen
  \/ \E i \in DOMAIN queue : CancelQueued(i)
  \/ ClearQueue \/ ResumeQueue \/ Stop \/ Close
  \/ Settle \/ Reopen \/ Archive \/ Unarchive \/ Delete

ServiceStep == CloseIdle \/ Shutdown

ProviderStep ==
  \/ OwnTurn
  \/ \E r \in Prompts : LateTake(r)
  \/ \E kind \in {"completed", "cancelled", "failed"} : TurnEnds(kind)
  \/ Asks \/ Answered \/ AgentStarts \/ AgentsEnd
  \/ Exits \/ DetachBegins \/ DetachEnds

Next ==
  \/ OwnerStep \/ ServiceStep \/ ProviderStep
  \/ \E h \in Handlers : HandlerStep(h)
  \/ DrainBegins \/ DrainStep
  \/ OpenForView \/ ViewStep

Spec == Init /\ [][Next]_vars

-----------------------------------------------------------------------------
(* Safety.                                                                 *)

\* The provider takes a prompt at most once: neither a retried request, nor
\* an uncertain answer, nor the queue sends it again ("Never resubmit").
TakenOnce == IsInjective(taken)

\* The queue is first in, first out, and a head that goes back to the front
\* after a refused send keeps its place.  A prompt that the owner asks for again
\* during its in-use check joins anew: the drain drops its own copy.
Dropped == sending \in Range(queue) \/ outcome[sending] # "none"
OldestFirst ==
  LET waiting == IF sending = None \/ Dropped THEN queue ELSE <<sending>> \o queue
      joined(i) == CHOOSE n \in DOMAIN line : line[n] = waiting[i]
  IN  \A i, j \in DOMAIN waiting : i < j => joined(i) < joined(j)

\* An empty queue is never paused, so a prompt queued later is not held by a
\* turn that ended before it was written.
EmptyNeverPaused == queue = <<>> => ~paused

\* A prompt whose cancellation was reported is not sent afterwards.
CancelledNeverSent ==
  \A r \in Prompts : outcome[r] = "cancelled" =>
    /\ r \notin Range(taken) \cup floating \cup Range(queue)
    /\ \A p \in Senders :
         req[p] = r => pc[p] \notin {"sent", "took", "back", "record"}

\* While the conversation is open, the Thread shows a running turn exactly
\* when the provider runs one or a prompt is on its way to it: a send whose
\* answer is late or lost neither hides a turn that began nor leaves one
\* showing that never did.
InFlight == \E p \in Senders : pc[p] \in {"sent", "took", "back"}
WorkingIsReal ==
  ~closed => /\ pturn => base = "working"
             /\ base = "working" => pturn \/ InFlight

\* A settled, archived or deleted Thread has no conversation, queue or work
\* in progress: nothing slips in while it is put away.
PutAwayIsQuiet ==
  stage # "active" \/ removed =>
    /\ ~conv /\ opens = "none" /\ queue = <<>> /\ sending = None
    /\ ~pturn /\ ~pend
    /\ \A p \in Senders : pc[p] \in {"idle", "route", "check", "holder"}

\* Shutdown leaves no conversation attached, whatever was opening meanwhile.
ShutdownDetaches == closed => ~conv

\* What waited when a turn was stopped, failed or was lost, or when a prompt
\* did not start its turn, is not sent until the owner resumes the queue.
NeverFollowsStop ==
  [][sending = None /\ sending' # None => sending' \notin held]_vars

\* A recorded outcome is final: a repeated request ID hears the same answer.
OutcomeIsFinal ==
  [][\A r \in Prompts : outcome[r] # "none" => outcome'[r] = outcome[r]]_vars

\* What Delivery promises: the provider takes a prompt at most once, an
\* accepted prompt did reach it, and a rejected or cancelled one never does,
\* however late the provider's answers are.
Promise == INSTANCE Delivery WITH given <- Range(taken), fate <- outcome
ImplementsDelivery == Promise!Spec

-----------------------------------------------------------------------------
(* The queue goes on.                                                      *)

\* The queue waits for nobody: no turn, request, owner or send holds its head,
\* and no send that just failed is about to pause it.
AboutToPause ==
  \E p \in Senders : pc[p] = "record" /\ mode[p] # "steer" /\ res[p] # "accepted"
Waiting ==
  /\ queue # <<>> /\ ~paused /\ sending = None /\ ~Busy
  /\ ~closed /\ ~removed /\ ~AboutToPause

\* The steps after which the code kicks no drain although the queue waits: the
\* drain puts its head back ("waits at the front for the next completed turn")
\* or drops it as answered already; a conversation that was opening when the
\* drain or the owner came has opened; and a request a subagent left open past
\* its turn is answered or ends.
HeadPutBack == sending # None /\ sending' = None
OpenedUnder == opening /\ ~opening'
AgentAnswered == pend /\ ~pend' /\ ~pturn

\* Every other step that leaves a waiting queue leaves a drain for it, and only
\* a drain uses it up: a turn that completes, a resumed queue and a prompt that
\* is queued are never forgotten, in any order of turns, requests, cancels,
\* failed sends and lost conversations.
KickKept ==
  [][Waiting' => \/ kicks' > 0
                 \/ Waiting /\ kicks = 0
                 \/ HeadPutBack \/ OpenedUnder \/ AgentAnswered]_vars
=============================================================================

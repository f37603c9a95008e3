---------------------------- MODULE CopilotTurns ----------------------------
(***************************************************************************)
(* A conversation of the Copilot adapter (internal/adapter/copilot/web.go, *)
(* stop.go, stall.go): prompts, steers, Stops and the retry of a stalled   *)
(* request, while the CLI's answers, its events and uam's timers arrive in *)
(* any order.                                                              *)
(*                                                                         *)
(* The record c is what conversation.mu guards, with the state that the    *)
(* Manager shows for the Thread; an action on c is one section of that     *)
(* mutex.  Each call to the CLI is one step when the CLI handles it and    *)
(* another when the call returns.  A turn runs in interactive mode:        *)
(* autopilot, its continuations and the control lock are left out.         *)
(***************************************************************************)
EXTENDS Naturals, Sequences

CONSTANTS
  MaxPrompts,   \* bound: prompts sent, numbered in their order
  Steers,       \* the steers sent
  MaxStops,     \* bound: Stops that arm a check
  MaxAborts,    \* bound: aborts on their way when a Stop is made
  Stalls,       \* a model request may stall
  OldCLI,       \* the CLI reports session.idle only
  MaxEvents     \* bound: events on their way from the CLI

ASSUME CopilotConstants ==
  /\ {MaxPrompts, MaxStops, MaxAborts, MaxEvents} \subseteq Nat \ {0}
  /\ Stalls \in BOOLEAN /\ OldCLI \in BOOLEAN

VARIABLES
  c,         \* the conversation and the Thread's state
  prompts,   \* where each prompt is
  sent,      \* how many prompts were sent
  calls,     \* where each steer's call is
  op,        \* who holds the Thread's s.op
  cli,       \* the CLI: what it runs and the steers it has not used
  events,    \* events on their way
  aborts,    \* aborts on their way
  stalled,   \* the abort of a stalled request is on its way
  retry,     \* the call that sends the continuation
  stopped    \* history: one more than c.idles at the last Stop, while the
             \* turn it was for runs or may start

uam == <<c, prompts, sent, calls, op>>
wire == <<cli, events, aborts, stalled, retry>>
vars == <<uam, wire, stopped>>

Prompts == 1..MaxPrompts
Stops == 1..MaxStops
Ends == {"completed", "failed", "cancelled"}

\* The conversation's record.  unmoved: neither c.idles nor the count of the
\* turns' starts moved since the send on its way began; waiting: the main agent
\* waits on the model; turnSeen: a turn was reported since the Manager's send
\* showed its turn.

\* A stopWatch; at follows its timer, upto is the number of prompts sent.
NoWatch == [at |-> "none", idles |-> 0, send |-> FALSE, ended |-> FALSE,
            upto |-> 0]
Watch == [at : {"none", "armed", "pinging", "over"}, idles : Nat,
          send : BOOLEAN, ended : BOOLEAN, upto : 0..MaxPrompts]

\* A steer: known, its message ID; state, the end of its turn; told, that it
\* was reported as not delivered; used, that the agent's use was.
NewSteer == [known |-> FALSE, state |-> "none", told |-> FALSE, used |-> FALSE]
Steer == [known : BOOLEAN, state : {"none"} \cup Ends, told : BOOLEAN,
          used : BOOLEAN]

Conversation ==
  [closed : BOOLEAN, running : BOOLEAN, fgIdle : BOOLEAN, idles : Nat,
   sending : 0..1, sawIdle : BOOLEAN, turnErr : BOOLEAN,
   unmoved : BOOLEAN,
   stopping : 0..MaxStops, watch : [Stops -> Watch],
   steers : SUBSET Steers, steer : [Steers -> Steer], seen : SUBSET Steers,
   timer : BOOLEAN, waiting : BOOLEAN, aborting : BOOLEAN,
   resending : BOOLEAN, retried : BOOLEAN,
   shown : {"ready", "working"}, turnSeen : BOOLEAN]

Event == {<<"start">>, <<"continuation">>, <<"error">>}
         \cup ({"idle", "session"} \X BOOLEAN) \cup ({"user"} \X Steers \X BOOLEAN)

TypeOK ==
  /\ c \in Conversation
  /\ prompts \in [Prompts -> {"new", "begun", "wire", "in", "returned", "took",
                              "unsure", "failed"}]
  /\ sent \in 0..MaxPrompts
  /\ calls \in [Steers -> {"new", "wire", "in", "done"}]
  /\ op \in {"none", "send", "steer", "stop"}
  /\ cli \in [run : {"idle", "running"}, steers : SUBSET Steers]
  /\ events \in Seq(Event) /\ Len(events) <= MaxEvents
  /\ aborts \in Nat /\ stalled \in BOOLEAN
  /\ retry \in {"none", "wire", "in", "failed"} /\ stopped \in Nat
  /\ c.timer \/ c.aborting => c.running

Init ==
  /\ c = [closed |-> FALSE, running |-> FALSE, fgIdle |-> FALSE, idles |-> 0,
          sending |-> 0, sawIdle |-> FALSE, turnErr |-> FALSE,
          unmoved |-> TRUE,
          stopping |-> 0, watch |-> [k \in Stops |-> NoWatch],
          steers |-> {}, steer |-> [s \in Steers |-> NewSteer], seen |-> {},
          timer |-> FALSE, waiting |-> FALSE, aborting |-> FALSE,
          resending |-> FALSE, retried |-> FALSE,
          shown |-> "ready", turnSeen |-> FALSE]
  /\ prompts = [p \in Prompts |-> "new"] /\ sent = 0
  /\ calls = [s \in Steers |-> "new"] /\ op = "none"
  /\ cli = [run |-> "idle", steers |-> {}] /\ events = <<>>
  /\ aborts = 0 /\ stalled = FALSE /\ retry = "none" /\ stopped = 0

-----------------------------------------------------------------------------
(* The turn's start and end, as the sections that call them see them.      *)

\* emitLocked of a turn's state: the Manager drops what a closed
\* conversation still reports.
Shows(x, state) ==
  IF x.closed THEN x ELSE [x EXCEPT !.shown = state, !.turnSeen = op = "send"]

Started(x) ==
  [Shows(x, "working") EXCEPT !.fgIdle = FALSE, !.running = TRUE]

InFlight(x) == x.running \/ x.sending > 0
StopPending(x) == x.stopping # 0 /\ x.watch[x.stopping].idles = x.idles

\* undeliveredLocked: a steer whose message ID is not known yet waits for it.
Undelivered(x, state) ==
  [x EXCEPT !.steers = {},
            !.steer = [s \in Steers |->
              LET t == x.steer[s]
                  told == t.told \/ (t.known /\ state # "completed")
              IN  IF s \in x.steers
                  THEN [t EXCEPT !.state = state, !.told = told] ELSE t]]

EndState(x, aborted) == IF aborted THEN "cancelled"
                        ELSE IF x.turnErr THEN "failed" ELSE "completed"

\* The idle of a stalled request's abort; a Stop since then ends the turn.
Continues(x, aborted) == aborted /\ x.aborting /\ ~StopPending(x)
Resends(x, aborted) == ~x.fgIdle /\ Continues(x, aborted) /\ ~x.resending

\* endStallLocked.
StallKept(x) == [x EXCEPT !.waiting = FALSE]
StallOver(x) == [x EXCEPT !.timer = FALSE, !.waiting = FALSE, !.retried = FALSE,
                          !.aborting = FALSE, !.resending = FALSE]

TurnOver(x, state) ==
  Shows(Undelivered([StallOver(x) EXCEPT
                       !.fgIdle = TRUE, !.running = FALSE, !.idles = @ + 1,
                       !.turnErr = FALSE, !.unmoved = x.sending = 0], state),
        "ready")

Finished(x, aborted) ==
  IF x.fgIdle THEN x
  ELSE IF Resends(x, aborted)
  THEN Undelivered([x EXCEPT !.resending = TRUE], "cancelled")
  ELSE IF Continues(x, aborted) THEN x
  ELSE TurnOver(x, EndState(x, aborted))

\* The goroutine of continueStalledLocked.
SendsRetry(x, aborted) == retry' = IF Resends(x, aborted) THEN "wire" ELSE retry

\* endLocked, and what the Manager makes of the exit.
Ended(x, detached) ==
  IF x.closed THEN x
  ELSE [x EXCEPT !.closed = TRUE, !.shown = IF detached THEN @ ELSE "ready"]

-----------------------------------------------------------------------------
(* A prompt.                                                               *)

\* Manager.send shows the turn before it calls Send.
SendBegins ==
  /\ op = "none" /\ ~c.closed /\ c.shown # "working"
  /\ sent < MaxPrompts /\ sent' = sent + 1 /\ op' = "send"
  /\ prompts' = [prompts EXCEPT ![sent + 1] = "begun"]
  /\ c' = [c EXCEPT !.shown = "working", !.turnSeen = FALSE]
  /\ UNCHANGED <<calls, wire, stopped>>

\* The Manager shows what it showed before a send that failed, unless a turn
\* was reported meanwhile.
Restored(x) == [x EXCEPT !.shown = IF c.turnSeen THEN @ ELSE "ready",
                         !.turnSeen = FALSE]

\* Send refuses a conversation that ended or has a turn by now.  A Stop before
\* it found neither a turn nor a send.
SendCalls(p) ==
  /\ prompts[p] = "begun"
  /\ IF c.closed \/ c.running
     THEN /\ prompts' = [prompts EXCEPT ![p] = "failed"] /\ op' = "none"
          /\ c' = Restored(c)
     ELSE /\ prompts' = [prompts EXCEPT ![p] = "wire"] /\ UNCHANGED op
          /\ c' = [c EXCEPT !.sending = 1]
  /\ UNCHANGED <<sent, calls, wire, stopped>>

OvertakenAnswer(x) ==
  /\ x.stopping # 0 /\ x.unmoved
  /\ LET w == x.watch[x.stopping]
     IN  w.send /\ x.running /\ x.idles = w.idles

\* abortStartedLocked: once per check.
Overtaken(x) ==
  /\ x.stopping # 0
  /\ LET w == x.watch[x.stopping]
     IN  w.send /\ x.running /\ x.idles = w.idles

AnyAnswerStarts(x) == ~x.running
AnswerStarts(x) == x.unmoved

\* Send was answered: its turn starts unless an event started or ended it.
SendAnswered(p) ==
  /\ prompts[p] = "in"
  /\ prompts' = [prompts EXCEPT ![p] = "returned"]
  /\ LET x == IF AnswerStarts(c) THEN Started(c) ELSE c
     IN  /\ c' = IF Overtaken(x) THEN [x EXCEPT !.watch[x.stopping].send = FALSE]
                 ELSE x
         /\ aborts' = aborts + IF Overtaken(x) THEN 1 ELSE 0
  /\ UNCHANGED <<sent, calls, op, cli, events, stalled, retry, stopped>>

\* sendEndedLocked, once the send no longer counts.
SendOver(x) ==
  LET y == [x EXCEPT !.sending = 0, !.unmoved = TRUE]
  IN  IF y.stopping # 0 /\ ~y.running
      THEN [y EXCEPT !.watch[y.stopping].ended = TRUE, !.stopping = 0]
      ELSE y

SendReturns(p) ==
  /\ prompts[p] = "returned"
  /\ prompts' = [prompts EXCEPT ![p] = "took"] /\ op' = "none"
  /\ c' = [SendOver(c) EXCEPT !.turnSeen = FALSE]
  /\ stopped' = IF InFlight(c') THEN stopped ELSE 0
  /\ UNCHANGED <<sent, calls, wire>>

\* A send that fails: refused, or given up while its outcome is uncertain:
\* the CLI took it, or never does.
SendFails(p) ==
  /\ prompts[p] \in {"wire", "in"} /\ op' = "none"
  /\ prompts' = [prompts EXCEPT ![p] = IF @ = "in" THEN "unsure" ELSE "failed"]
  /\ c' = Restored(SendOver(c))
  /\ stopped' = IF InFlight(c') THEN stopped ELSE 0
  /\ UNCHANGED <<sent, calls, wire>>

-----------------------------------------------------------------------------
(* A steer.                                                                *)

SteerBegins(s) ==
  /\ op = "none" /\ op' = "steer" /\ ~c.closed /\ c.shown = "working"
  /\ calls[s] = "new" /\ calls' = [calls EXCEPT ![s] = "wire"]
  /\ c' = [c EXCEPT !.steers = @ \cup {s}]
  /\ UNCHANGED <<prompts, sent, wire, stopped>>

Withdrawn(x, s) == [x EXCEPT !.seen = {}, !.steers = @ \ {s}]

\* The message ID is known: the turn may have ended, or used it, meanwhile.
SteerAnswered(s) ==
  /\ calls[s] = "in" /\ calls' = [calls EXCEPT ![s] = "done"] /\ op' = "none"
  /\ c' = IF s \in c.seen \/ c.closed THEN Withdrawn(c, s)
          ELSE [c EXCEPT !.seen = {},
                         !.steer[s] = [c.steer[s] EXCEPT
                           !.known = TRUE, !.state = "none",
                           !.told = c.steer[s].state \in {"failed", "cancelled"}]]
  /\ UNCHANGED <<prompts, sent, wire, stopped>>

SteerFails(s) ==
  /\ calls[s] \in {"wire", "in"} /\ op' = "none"
  /\ calls' = [calls EXCEPT ![s] = "done"]
  /\ c' = Withdrawn(c, s)
  /\ UNCHANGED <<prompts, sent, wire, stopped>>

-----------------------------------------------------------------------------
(* Stop.                                                                   *)

FreshWatch(x) == [at |-> "armed", idles |-> x.idles, send |-> ~x.running,
                  ended |-> FALSE, upto |-> sent]
OverWatch == [NoWatch EXCEPT !.at = "over"]
UnusedWatch == CHOOSE k \in Stops : c.watch[k].at = "none"

AnyWatchDoes(x) == InFlight(x) /\ x.stopping = 0
\* watchStopLocked: a repeated Stop keeps the first one's deadline.
NeedsWatch(x) == InFlight(x) /\ ~StopPending(x)
Watched(x) ==
  IF NeedsWatch(x)
  THEN [x EXCEPT !.watch[UnusedWatch] = FreshWatch(x), !.stopping = UnusedWatch]
  ELSE x

\* Manager.Cancel takes s.op when it is free and goes on without it when
\* not; the abort is on its way once the check is armed.
StopBegins ==
  /\ ~c.closed /\ c.shown = "working" /\ op # "stop"
  /\ aborts < MaxAborts
  /\ NeedsWatch(c) => \E k \in Stops : c.watch[k].at = "none"
  /\ c' = Watched(c) /\ aborts' = aborts + 1
  /\ op' = IF op = "none" THEN "stop" ELSE op
  /\ stopped' = IF InFlight(c) THEN c.idles + 1 ELSE stopped
  /\ UNCHANGED <<prompts, sent, calls, cli, events, stalled, retry>>

StopReturns ==
  /\ op = "stop" /\ op' = "none"
  /\ UNCHANGED <<c, prompts, sent, calls, wire, stopped>>

\* stopEndedLocked.
StopEnded(x, k) ==
  \/ x.watch[k].ended \/ x.closed \/ x.idles # x.watch[k].idles
  \/ ~InFlight(x)

\* webStopGrace after Stop: the check no longer counts as pending.
StopUnconfirmed(k) ==
  /\ c.watch[k].at = "armed"
  /\ c' = [c EXCEPT !.stopping = IF @ = k THEN 0 ELSE @,
                    !.watch[k] = IF StopEnded(c, k) THEN OverWatch
                                ELSE [@ EXCEPT !.at = "pinging"]]
  /\ UNCHANGED <<prompts, sent, calls, op, wire, stopped>>

\* The ping was answered, or only timed out: the conversation alone ends.
Detach(k) ==
  /\ c.watch[k].at = "pinging"
  /\ LET x == [c EXCEPT !.watch[k] = OverWatch]
         y == [x EXCEPT !.fgIdle = FALSE]
     IN  IF StopEnded(c, k) THEN c' = x /\ UNCHANGED retry
         ELSE /\ c' = Ended(Finished(y, TRUE), TRUE)
              /\ SendsRetry(y, TRUE)
  /\ UNCHANGED <<prompts, sent, calls, op, cli, events, aborts, stalled, stopped>>

\* The CLI is gone, as a ping or the SDK found: every conversation exits.
Exits ==
  /\ ~c.closed /\ c' = Ended(c, FALSE)
  /\ UNCHANGED <<prompts, sent, calls, op, wire, stopped>>

\* The Manager closes a conversation that runs nothing.
Close ==
  /\ op = "none" /\ ~c.closed /\ c.shown # "working"
  /\ c' = [c EXCEPT !.closed = TRUE]
  /\ UNCHANGED <<prompts, sent, calls, op, wire, stopped>>

-----------------------------------------------------------------------------
(* The retry of a stalled request.                                         *)

\* checkStall: the request heard nothing.  The first stall of a turn is
\* retried, the second ends it.
CheckStall ==
  /\ Stalls /\ c.timer /\ ~c.closed /\ c.running /\ c.waiting /\ events = <<>>
  /\ ~StopPending(c) /\ ~c.aborting /\ ~stalled
  /\ c' = [c EXCEPT !.timer = FALSE, !.aborting = ~c.retried, !.retried = TRUE]
  /\ stalled' = TRUE
  /\ UNCHANGED <<prompts, sent, calls, op, cli, events, aborts, retry, stopped>>

\* A failed abort leaves the turn to Stop, and the watch looks again.
AbortFails ==
  /\ stalled /\ stalled' = FALSE
  /\ c' = [c EXCEPT !.aborting = FALSE, !.timer = @ \/ (~c.closed /\ c.running)]
  /\ UNCHANGED <<prompts, sent, calls, op, cli, events, aborts, retry, stopped>>

\* sendContinuation: an error after the continuation was seen changes nothing.
RetryReturns ==
  /\ retry = "in" /\ retry' = "none"
  /\ UNCHANGED <<uam, cli, events, aborts, stalled, stopped>>

RetryFails ==
  /\ retry = "wire"
  /\ retry' = "failed"
  /\ c' = IF c.resending
          THEN Finished([c EXCEPT !.aborting = FALSE, !.resending = FALSE], TRUE)
          ELSE c
  /\ UNCHANGED <<prompts, sent, calls, op, cli, events, aborts, stalled, stopped>>

-----------------------------------------------------------------------------
(* The CLI.                                                                *)

Emits(es) == events' = events \o es /\ Len(events) + Len(es) <= MaxEvents
Idle == cli.run = "idle"
Runs == cli.run = "running"
EndEvents(aborted) == IF OldCLI THEN <<<<"session", aborted>>>>
                      ELSE <<<<"idle", aborted>>, <<"session", aborted>>>>

TakesPrompt(p) ==
  /\ Idle /\ prompts[p] = "wire" /\ prompts' = [prompts EXCEPT ![p] = "in"]
  /\ cli' = [cli EXCEPT !.run = "running"] /\ Emits(<<<<"start">>>>)
  /\ UNCHANGED <<c, sent, calls, op, aborts, stalled, retry, stopped>>

\* A steer that comes after the turn's end starts a turn with it.
TakesSteer(s) ==
  /\ calls[s] = "wire" /\ calls' = [calls EXCEPT ![s] = "in"]
  /\ \/ Runs /\ cli' = [cli EXCEPT !.steers = @ \cup {s}] /\ UNCHANGED events
     \/ /\ Idle /\ cli' = [cli EXCEPT !.run = "running"]
        /\ Emits(<<<<"user", s, TRUE>>, <<"start">>>>)
  /\ UNCHANGED <<c, prompts, sent, op, aborts, stalled, retry, stopped>>

\* The running turn goes on with another model call, or uses a steer.
NextCall ==
  /\ Runs
  /\ \/ events = <<>> /\ Emits(<<<<"start">>>>) /\ UNCHANGED cli
     \/ \E s \in cli.steers : /\ Emits(<<<<"user", s, FALSE>>>>)
                              /\ cli' = [cli EXCEPT !.steers = @ \ {s}]
  /\ UNCHANGED <<uam, aborts, stalled, retry, stopped>>

\* A turn that completes has used its steers.
TurnEnds ==
  /\ Runs
  /\ \/ cli.steers = {} /\ Emits(EndEvents(FALSE))
     \/ Emits(<<<<"error">>>> \o EndEvents(FALSE))
  /\ cli' = [run |-> "idle", steers |-> {}]
  /\ UNCHANGED <<uam, aborts, stalled, retry, stopped>>

\* An abort that ends the turn, or that a stuck turn ignores.
TakesAbort ==
  /\ \/ aborts > 0 /\ aborts' = aborts - 1 /\ UNCHANGED stalled
     \/ stalled /\ stalled' = FALSE /\ UNCHANGED aborts
  /\ \/ Runs /\ cli' = [run |-> "idle", steers |-> {}] /\ Emits(EndEvents(TRUE))
     \/ UNCHANGED <<cli, events>>
  /\ UNCHANGED <<uam, retry, stopped>>

TakesRetry ==
  /\ Idle /\ retry = "wire" /\ retry' = "in"
  /\ cli' = [cli EXCEPT !.run = "running"]
  /\ Emits(<<<<"continuation">>, <<"start">>>>)
  /\ UNCHANGED <<uam, aborts, stalled, stopped>>

-----------------------------------------------------------------------------
(* onEvent.                                                                *)

OnStart(x) == Started([x EXCEPT !.waiting = TRUE, !.timer = TRUE,
                                !.unmoved = x.sending = 0])

\* A message that is delivered while idle starts a turn.
OnUser(x, s, idle) ==
  LET y == [x EXCEPT !.steers = IF x.steer[s].known THEN @ \ {s} ELSE @,
                     !.seen = IF op = "steer" THEN @ \cup {s} ELSE @,
                     !.steer[s].used = TRUE]
  IN  IF idle THEN Started(y) ELSE y

OnContinuation(x) == Started([x EXCEPT !.aborting = FALSE, !.resending = FALSE])

\* The session's idle counts only for a CLI without the assistant's.
IdleEnds(x, ev) == ev[1] = "idle" \/ ~x.sawIdle

OnIdle(x, ev) ==
  LET y == [x EXCEPT !.waiting = FALSE, !.sawIdle = @ \/ ev[1] = "idle"]
  IN  IF IdleEnds(x, ev) THEN Finished(y, ev[2]) ELSE y

OnEvent ==
  /\ events # <<>> /\ ~c.closed /\ events' = Tail(events)
  /\ LET ev == Head(events)
         idle == ev[1] \in {"idle", "session"}
     IN  /\ c' = CASE ev[1] = "start" -> OnStart(c)
                   [] ev[1] = "user" -> OnUser(c, ev[2], ev[3])
                   [] ev[1] = "continuation" -> OnContinuation(c)
                   [] ev[1] = "error" -> [c EXCEPT !.turnErr = TRUE]
                   [] OTHER -> OnIdle(c, ev)
         /\ IF idle /\ IdleEnds(c, ev) THEN SendsRetry(c, ev[2]) ELSE UNCHANGED retry
  /\ UNCHANGED <<prompts, sent, calls, op, cli, aborts, stalled, stopped>>

-----------------------------------------------------------------------------

CLI == /\ ~c.closed
       /\ \/ \E p \in Prompts : TakesPrompt(p)
          \/ \E s \in Steers : TakesSteer(s)
          \/ NextCall \/ TurnEnds \/ TakesAbort \/ TakesRetry

Next ==
  \/ SendBegins
  \/ \E p \in Prompts :
       SendCalls(p) \/ SendAnswered(p) \/ SendReturns(p) \/ SendFails(p)
  \/ \E s \in Steers : SteerBegins(s) \/ SteerAnswered(s) \/ SteerFails(s)
  \/ StopBegins \/ StopReturns
  \/ \E k \in Stops : StopUnconfirmed(k) \/ Detach(k)
  \/ Exits \/ Close
  \/ CheckStall \/ AbortFails \/ RetryReturns
  \/ RetryFails \/ OnEvent
  \/ CLI

Spec == Init /\ [][Next]_vars

\* The timers and the pings are bounded; nothing of the CLI is fair.
FairSpec ==
  /\ Spec
  /\ \A k \in Stops : /\ WF_vars(StopUnconfirmed(k))
                      /\ WF_vars(Detach(k))

-----------------------------------------------------------------------------
(* Properties.                                                             *)

\* Nothing is on its way.  After a continuation that failed, a message that
\* came meanwhile may run although its turn was ended.
Settled ==
  /\ ~c.closed /\ events = <<>> /\ op \in {"none", "stop"}
  /\ retry = "none"

\* Once every call has returned and every event was handled, the Thread's
\* conversation runs a turn exactly when the CLI does: a prompt's answer that
\* comes after its turn's idle starts no turn, and the idle of an abort that
\* uam made itself ends none (web.go: send; stall.go: continueStalledLocked).
TurnIsReal == Settled => (c.running <=> cli.run = "running")

\* A steer the CLI accepted is not lost in silence: once nothing is on its way,
\* it was used, waits for the running turn or was reported as not delivered
\* (web.go: Steer, undeliveredLocked).  A prompt with an uncertain outcome is
\* exempt: its turn may follow another's idle at once.  It does not hold: a
\* steer that lands in the turn a late steer began, sent before uam handled the
\* idle of the turn before, is taken for one that was sent in that turn.
SteerHasFate ==
  Settled /\ (\A p \in Prompts : prompts[p] # "unsure") =>
    \A s \in Steers : c.steer[s].known =>
      c.steer[s].used \/ c.steer[s].told \/ s \in cli.steers

\* A Stop that overtook a prompt on its way aborts once more when the prompt's
\* turn runs: its own abort found no turn.  Once that prompt's send was
\* answered, no turn runs under such a Stop with the abort still to come; a
\* send that fails leaves the turn to the check's end (stop.go:
\* abortStartedLocked).
OvertakenIsAborted ==
  StopPending(c) /\ c.watch[c.stopping].send /\ c.running =>
    prompts[c.watch[c.stopping].upto] \notin {"returned", "took"}

\* A Stop ends the turn that ran or that a prompt on its way was to start,
\* whatever the CLI does: only uam's own timer and ping are fair (stop.go).
\* The prompts and a steer that comes late start at most MaxPrompts + 1 turns.
StopEnds ==
  \A n \in 0..MaxPrompts :
    (stopped = n + 1) ~> (c.idles > n \/ c.closed \/ ~InFlight(c))

\* A conversation that was detached after a Stop ended its turn first: the
\* Thread does not stay working (agentapi.go: Event.Detached).
DetachedEndedTurn == c.closed => c.shown # "working"

\* The check of a Stop ends no prompt that was sent after that Stop: "a later
\* prompt's turn is not the one Stop was for" (stop.go: sendEndedLocked).
SparesLaterPrompts ==
  [][\A k \in Stops :
       c.watch[k].at = "pinging" /\ c'.watch[k].at = "over" /\ ~c.closed
         /\ c'.closed
       => \A p \in Prompts : p > c.watch[k].upto => prompts[p] \in {"new", "failed"}]_vars
=============================================================================

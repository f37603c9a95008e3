# A TLA+ model of the uam web service

`uam` runs coding agents for one owner. Its web service (`src/internal/web`)
keeps *Threads*: each is a conversation with a provider (Copilot, through
`src/internal/adapter/copilot`), with a queue of prompts, a turn state, requests
the agent makes of the owner, a budget, and a lifecycle stage. Threads run in a
project's folder or in worktrees, may be started by routines or by other
Threads, and may write to each other. The service is one process; its
concurrency is between HTTP handlers, the provider's event callbacks, queue
drains, timers and the goroutine that saves to disk.

This directory models the parts of it where an order of steps nobody wrote a
test for decides whether a prompt is sent twice, sent after it was cancelled,
left standing, or forgotten; whether a turn runs where a git write, a removal or
a restart pulls the ground from under it; and whether the page comes to show
what is there.

| Module | What it is |
|---|---|
| `Thread` | one Thread: submit, send, steer, the in-use check, open, drain, the queue actions, stop, close, stages, deletion, shutdown, the provider's events |
| `ThreadProofs` | proofs of its types, of delivery (at most once, never after a cancellation, final outcomes), of the queue and its order, of shutdown, of the turn it shows and of its stages, and that `Thread` implements `Delivery` |
| `Delivery` | the abstract specification of what a Thread promises of its prompts |
| `Persistence` | what survives: dirty set, flush, register, delete, shutdown, crash, restart |
| `PersistenceRestartsProofs` | proofs of all its safety and step properties; for the restarts (as the instance `R`), that no restart of the CLI ends the work of a listed Thread |
| `Interactions` | the requests a provider makes of the owner, their answers, and the permission mode |
| `InteractionsProofs` | proofs that the first answer wins, that yolo leaves no permission waiting, and of the recorded mode |
| `EventStream` | how a page follows one item of a Thread: its two event streams, paced output, and the state the browser keeps |
| `EventStreamProofs` | proofs that a body the page holds is what the item was at its number, and that the row it shows is the item's |
| `CopilotTurns` | one conversation of the Copilot adapter: prompts, steers, stops and stalls against a CLI that answers and reports in any order |
| `CopilotProofs` | proofs that the turn it shows is the CLI's, and that a Stop that overtook a prompt aborts again |
| `PeerMessages` | messages and replies between two Threads, under a pair the owner allows, charges and revokes |
| `PeerProofs` | proofs that the status a message shows is where it is, that the charge covers the deliveries, that a message is answered once unless a refused send's turn was another's, and that none is sent under a pair that forbids it |
| `Budget` | a Thread's budget and the wrap-up that ends a turn at it |
| `Routines` | recurring work: the schedule, the runs and their Threads, restarts |
| `RoutinesBudgetProofs` | proofs that runs do not overlap, that missed firings run once and that the active run is the recorded one; for the budgets (as the instance `B`), that a wrap-up that is shown goes on, that none is left, and whose handoff stays |
| `Workplaces` | how Threads are made and where they run: creates and their request IDs, worktrees, git writes, removal of a project |
| `WorkplacesProofs` | proofs that a removed project leaves no Thread, a request makes one Thread, a failed create leaves nothing but what git refused to undo, and a turn has its folder to itself |
| `Restarts` | updates and restarts of the provider's CLI, and of uam itself, under running work |
| `MC<module>` and its `.cfg` | the instances for TLC; `MCThread` and `MCCopilotTurns` have two |

The modules meet at the Thread. `Delivery` says what the browser may rely on;
`Thread` implements it. `CopilotTurns` is what is below: the provider that
`Thread` takes as nondeterministic. `PeerMessages`, `Budget`, `Workplaces` and
`Restarts` each carry the part of a Thread's life their hazard needs (a
send with its lock, its opening and its outcome; a turn), in the same steps as
`Thread` has it, and leave out the rest; a product of them all is beyond TLC.

## 1. The system

### Locks and goroutines

`Manager.mu` guards every Thread's fields and is never held across a call that
waits. `webSession.op` is held across the provider calls of one Thread: open,
send, steer, close, stage moves. `Manager.persistMu` serialises flushes;
`store.Update` replaces `sessions.json` in one rename. `projectMu` joins a
create's check of its project with its listing. `routines.mu` is held across the
write of a routine. `webProvider.mu` and `conversation.mu` guard the adapter. In
every module an action is one section of such a lock (or one file replacement),
so whatever may happen while a goroutine waits for the provider, for a lock or
for the disk, may happen between two actions. Where two sections are merged,
nothing can tell them apart; section 7 lists these places.

### Components

**Thread** (`manager.go`, `import.go`, `items.go`). State: turn state `base`,
conversation, opening, queue, the head being sent, the pause, recorded outcomes
by request ID, stage. Operations: prompts in three modes (send, queue, steer),
drain, cancel, clear, resume, stop, close, idle sweep, settle, reopen, archive,
unarchive, delete, shutdown. It calls the provider and receives its events. Hard:
a send's answer may be lost or late; a stop, an exit, a close or a shutdown meets
it at every step; the drain takes the head out of the queue before it is sent;
the in-use check of an imported Thread gives `op` away in the middle of a
submission. Correct when: a prompt is taken at most once and in order, a
cancelled one never; the shown state is the provider's; a prompt that waits has a drain on its way, or a turn or a
pause to wait for, and is not sent after a stopped turn; nothing runs in a Thread that was
put away.

**Persistence and restart** (`manager.go`, `store.go`). State: dirty set, one
wake token, `saveError`, the file. Operations: mark, flush by the loop, by each
handler before it answers, and by `Start` and `Shutdown`; register; delete;
restart. Hard: `flush` clears the dirty set before it writes; saves fail; several
goroutines write; events arrive before a Thread is listed. Correct when: no
change is forgotten, undone, or written over a newer one; what was answered is
durable; a deleted record stays deleted.

**Interactions and permission modes** (`manager.go`, `items.go`,
`owner_confirm.go`). State: pending requests, who is answering, `mode`
(safe, assisted, yolo) and the runtime's own. Operations: answer, automatic
approval, expiry, mode change with read-back. Hard: an answer in flight meets an
expiry or an automatic approval; a mode change that times out. Correct when: the
first answer wins, none is shown as answered that the provider did not take, and
the recorded mode is the runtime's or known to be unknown.

**Event stream** (`events.go`, `detail_events.go`, `items.go`, and in the browser
`state.ts`, `detail-state.ts`, `Details.tsx`). State: a sequence number, the
number at which each item last changed, held-back tool output, viewers with
bounded queues; in the page, rows and bodies with the numbers they reached.
Operations: subscribe with a snapshot, publish, drop, and in the page receive,
reconnect, open and close a card. Hard: rows and bodies come on two connections;
the snapshot and the registration must be one step; a dropped viewer must come
back to what it missed and to nothing twice; output is paced. Correct when: a body
is at every number what it was at that number, and what a page shows is the
service's state once its queues are empty.

**Copilot adapter** (`adapter/copilot/web.go`, `stop.go`, `stall.go`,
`runtime_restart.go`). State: the running turn, the count of idles, the
prompts and steers on their way, the watch of a Stop, the stall. It turns the
CLI's events into turns and reports each send as accepted, busy, rejected or
uncertain. Hard: an answer comes before or after the events of what it answers; a
Stop overtakes the send it is for; an idle ends one turn or two. Correct when: it
shows a turn when there is one, knows what became of each steer, and aborts what
it was told to stop.

**Messages between Threads** (`messages.go`). State: a pair with its mode,
allowance and charge, its messages and their statuses; marked prompts in the
queues. Operations: send, allow, deny, reset, switch off, drain with the check at
the commit, reply. Correct when: the recorded status is where the message is, a
charge covers the deliveries and is refunded when there was none, a message
is answered once, and a revoked one is not sent.

**Budgets and wrap-up** (`budget.go`). State: the budget, the spent, the running
wrap-up and the handoff it leaves. Correct when: a Thread that says it
wraps up does, and the wrap-up of a turn ends, with a handoff.

**Routines** (`routines.go`). State: the routine with its next time and its
latest runs, the run that goes on. Correct when: runs do not overlap, the run that
goes on is the recorded one, what was missed while uam was down is made up once,
and every run ends.

**Creation, projects, git writes, worktrees** (`manager.go`, `create_task.go`,
`worktrees.go`, `worktree_cleanup.go`, `git_actions.go`). State: the request IDs
being created, the Threads and their folders, worktrees on disk, who writes in
which repository, the removal of a worktree or a project. Correct when: a request
makes one Thread or none, a failed create leaves nothing behind that git would remove, a working Thread
has its folder and no git write beside it, and a removed project has no Thread.

**Restarts** (`restart.go`, `cli_update.go`, the adapter's `cli_update.go` and
`runtime_restart.go`). State: the client and its release, who holds its starts,
who uses it, the goroutines that wait to restart it, the change of uam's binary.
Correct when: the new release is used once nothing runs on the old one, no work is
ended for it, and nobody waits for ever.

**Rewind and fork, history files, titles, sign-in, terminals, notices, HTTP
decoding, token ledger**: not modelled; see section 9.

## 2. The plan

1. `Thread`, `Delivery` and their proofs: done.
2. `Persistence` and its proofs: done.
3. `Interactions`, `EventStream`: done, checked, their safety proved.
4. `CopilotTurns`, `PeerMessages`, `Budget`, `Routines`: done, checked, their safety
   proved but for `SteerHasFate` of `CopilotTurns`, which the code does not keep.
5. `Workplaces`, `Restarts`: done, checked, their safety proved.

Left: the rewind and the fork of a Thread (the only operations that hold `op` and
are not modelled); `CopilotTurns` shown to implement the provider of `Thread`; a
`DurableStore` for `Persistence`.

## 3. Thread

### State and actions

The variables are the fields of `webSession`, named after them where they are
the same (`queue`, `sending` is `queueSending`, `paused`, `base`, `stage`,
`removed`). `op` is the owner of `s.op`; `pc`, `req`, `mode`, `res` are the
locals of the goroutines: one per handler, one drain, one viewer that opens.
`kicks` and `views` count goroutines that wait for `op`.

A submission is `Submit` (under `op`), then `Enqueue`, `RouteSteer` or
`RouteSend`; with `External` the in-use check `CheckHolder`/`HolderAnswered`
follows, which releases `op`. A send is `OpenForPrompt`, `OpenEnds`, `Unready` or
`Commit` (the state becomes working before the call), then `Accepts`, perhaps
after `Takes` (the turn begins before its answer comes), or `SendFails`, then
`Restore`, and `Record` (`recordSubmission`). The drain is `DrainBegins`, the
same send, and `DrainEnds`. A handler's answer to the browser is part of its last
step.

The generation `gen` and the counter `turnSeq` are modelled by what they are
compared for: whether the open in flight is `current` or `stale`, and whether a
goroutine's mark is in `moved`.

The provider is what the adapter may do to a Thread: take a prompt before or
with its answer, refuse it, lose its answer and take it later (`floating`), start
turns of its own, run subagents that ask while no turn runs, end a turn, exit, or
detach a conversation whose stop it could not confirm (`leaving`).

### Runs

| Run | Instance | Shows |
|---|---|---|
| `thread` | 2 prompts, 1 handler, in-use check, the provider at its worst | queue order; the shown turn is the provider's; a Thread put away is quiet; shutdown leaves nothing attached; it implements `Delivery`: a prompt is taken once, never after its cancellation, with a true and final record; the queue goes on (`KickKept`) |
| `thread_unpaused` | 3 prompts, 2 handlers, subagents | the disagreement below |

The flags keep each run within TLC's reach: each switches a source of
interleavings on, none changes what an action does. `External` is the in-use check
of an imported Thread, `Unprompted` turns the provider starts by itself,
`Detaches` a stop that is not confirmed. `thread` has them all.

`OldestFirst` exempts a prompt that the browser retries while the drain
checks it (below).

### The queue goes on

The code sends a queued prompt only from a drain, and starts a drain by a kick. A
queue that *waits* (not empty, not paused, no head on its way, no turn, no
opening, no open request, and no failed send about to pause it) is sent exactly
when a kick is left. `KickKept` says that no step leaves such a queue without one,
with three exceptions, each a step that the code does not follow by a kick:

- `HeadPutBack`: the drain gives up and puts its head back, or drops it because
  its request was answered meanwhile, with others behind it. The comment of
  `drain` has the first wait "for the next completed turn".
- `OpenedUnder`: the conversation was opening when the drain came, or when the owner
  queued or resumed, so it gave up or was not kicked; nothing kicks when
  the opening ends.
- `AgentAnswered`: a subagent's request was open when the turn completed. The
  one kick of that turn (`manager.go:2957`) starts a drain that finds the Thread
  awaiting and gives up (`manager.go:4245-4263`), and neither the answer nor the
  subagent's end kicks again. `docs/adr/0004-web-interface.md:648` promises more:
  "When a turn ends `completed`, UAM sends the head through the normal submit path".

After any of the three the queue stands until the owner sends, queues or resumes, or
another turn completes. In every other case a drain that is scheduled sends it, so with the fairness
of Go's scheduler and mutexes the queue goes on. The step form is checked rather
than the liveness because the liveness is false by these three alone.

### Bounds

`MaxQueue` is `maxQueue`: 2 lets a prompt wait behind another and makes a full
queue happen when the head is put back. `MaxKicks` bounds how often the owner
resumes a queue while drains wait; the code's own kicks are not bounded by it.
`MaxOwn` bounds the turns the provider starts by itself. Two prompts show order
and repetition, a third what joins while one is on its way; the drain beside one
handler is two senders, two handlers a third. `HistoryOK` needs
no bound: the histories hold each prompt once. `CHECK_DEADLOCK FALSE`: once
`closed` holds and the goroutines ended, nothing remains to happen.

### What a Thread promises

`Delivery` has two variables, the prompts the provider took and what is recorded
of each, and three steps: the provider takes a prompt, the service records an
answer, the owner cancels. An accepted prompt was taken, a rejected or cancelled
one is never taken, of an uncertain one nothing is said. It is what
`agentapi.go:47-50` and `docs/web.md:2602-2609` promise. `ImplementsDelivery`
maps `given` to the prompts in `taken` and `fate` to `outcome`.

### Where it disagrees with the documents

`thread_unpaused` (`NeverFollowsStop`). While its only prompt is on its way the
queue is empty, and `pauseQueueLocked` does not pause an empty queue; the head
that is put back is not paused, and the next kick sends it after the stop.

Without a run of their own:

- The loss `AgentAnswered` of `KickKept`, against the sentence quoted above.
- During the drain's in-use check its head is in neither the queue nor the
  outcomes, so a retry queues it again, behind others (`manager.go:4256`;
  `docs/adr/0004-web-interface.md:719` says a retry never queues it twice). It is
  still taken once. `Dropped` in `OldestFirst` excuses it.

`TakenOnce`, `OutcomeIsFinal`, `EmptyNeverPaused` and `CancelledNeverSent` are
proved.

## 4. Persistence

### State and actions

The durable part of a Thread (`persistKey`) is a number that counts its changes,
its turn state, and its last request. `life` is where a Thread is between
creation and deletion: `stored` is between the two halves of `register`,
`unstored` between the removal of the record and `forgetLocked`. Each writer (the
loop, each handler, `Main` for `Start` and `Shutdown`) has its `step` in `flush`
and the `patch` it took. `FlushFails` is a write that returned an error.
`Crash` may come at any point; `Exit` only after the last flush. `heard` is a
history: what an owner was answered after a flush that succeeded.

### The run

`persistence`: two Threads, one handler, the loop and `Main`, one change each
besides restarts; saves that fail, creation, deletion, crashes and restarts at
every step. A change that is not saved is dirty or in the hands of its flush, and
somebody comes for it or the failure is shown; what was answered is in the file; a
removed record stays removed. `DiskNeverGoesBack` and `CleanStopLosesNothing` are
proved. `MaxChanges` = 1 is enough for a change to meet a flush of an older state,
because registration and each restart change a Thread too; the number of restarts
is not bounded, a restart changes a Thread only if its turn was working.

`FairSpec` (the goroutines go on, `persistMu` is handed on in turn, nothing is
asked of the disk) gives `SavedOrShown`: a change is saved *or* its failure is
shown. It holds in this instance; the run checks its safety part, `WakeOrShown`.

## 5. Interactions

### State and actions

A request is held three times: by the runtime that waits (`run`), by the
adapter (`apend`, its `pending` and `answering`) and by Manager (`ix`, with
`answering` and `auto` for the claim, `reviewed` for an assisted review that
approved it). `shown` is what the last frame said of it. `took` and `told` are
histories: whose answer the runtime took, and who was told that it did.

An answer is `Answer` (the owner's claim) or `AutoAllow` (uam's, which starts a
goroutine `Automatic(r)`), then `Respond` in the adapter, the runtime's
`RuntimeTakes`, the adapter's `Replied` or `ReplyLost`, and `Responded` under
`m.mu`. Meanwhile the CLI may decide the request itself (`Decided`,
`Completed`), report it again (`AskAgain`), the turn may abort, the conversation
close or exit (`lapsed` marks the responders whose conversation ended). An open
is `OpenBegins`, `Opened` (events are heard from here on) and `OpenEnds` or
`OpenFails`.

A change of mode between safe and yolo is one step (`SetPlain`). One that
concerns the runtime holds `op`: `SetWaits`, `SetBegins` or `SetRefused`,
`Change`, then `SetEnds`, or `ReadBack` and `SetFails`. The end of each looks at
the pending requests once more (`AutoAllowPending`), in the same section of
`m.mu`.

The runtime is assumed to handle its session's calls in order, so a change whose
reply timed out is not applied after the mode was read back.

### The run

`interactions`: a permission, a question, two clients, one change of mode, replies
that are lost and requests that come during an open. One answer is reported as
taken, and it is the one that was; yolo leaves no permission waiting; the mode is
the runtime's or unknown. `ClaimIsHeld` (a claim ends with its goroutine),
`ShownIsPublic` and `ReviewNeedsRuntime` hold in this instance as well.

One permission meets every automatic approval and both clients, the question is
the request that is never approved automatically and is answered without a call
to the runtime. A second setter would only wait for `op`. The two clients are
interchangeable, hence the symmetry, which the safety properties of this module
are not affected by. `CHECK_DEADLOCK FALSE`: when every request is over and nobody
sets a mode, the owner need do nothing more. Requests do not come back, so no
bound is needed.

### Where it disagrees with the documents

Stated in the module and violated; the flags `Lost` and `Early` switch off what
violates them, and then they hold:

- `AwaitingIsReal`, with `Lost`. `permissionCompletedLocked`
  (`adapter/copilot/web.go:4252`) drops the report that a request is over while
  its answer is on its way; when that answer's reply is lost, the request is
  pending again, and nothing reports its end a second time. The Thread awaits
  nobody.
- `NothingAbandoned`, with `Early`. Events are heard before `s.conv` is set; an
  answer in that time expires its request (`manager.go:5112`), although the
  provider waits for it, and a resolved interaction never returns to pending.

## 6. EventStream

### State and actions

One item of a Thread, a tool call or a thought, and one page that shows the
Thread. The service keeps the item, the number at which it last changed
(`marked`, `s.itemSeq`) and what it holds back of a running tool's output
(`pace`). `main` and `detail` are the page's two `Subscriber`s, each with the
frames it is sent first and its queue. The page keeps the row (`page.row`, with
`floor`, the number its body has to reach), the `body` with its status, whether
the item's card is open (`card`, with the delay before its interest is let go, and
the tick that reads the interests), and its two connections (`up`, `es`).

An output is the sequence of the changes it was made by, so that a text applied
twice, left out, or applied to the wrong output makes another sequence. `log` is a
history: the item's output at each number of this epoch. What a section publishes is
at most a row for the main stream and one frame for the detail stream, in this order.

Each action of the service is one section of `m.mu`: an upsert with its mark, its
pacing and its frames (`Appear`, `Progress`, `Complete`, `Correct`, `Output`), a
delta (`Think`), the timer (`TimerFires`), a reread history (`HistoryRead`), a trim
(`Trim`), and the two registrations (`MainOpens`, `DetailOpens`). Each action of the
page is one event handler with the effects React runs after it (`ReceiveMain`,
`ReceiveDetail`, `MainLost`, `DetailLost`, `Tick`, ...). Whether the pacing interval
has passed is a choice (`soon`).

### The run

`eventstream`: a tool call and a thought, 2 changes, 2 events, queues of 2 frames,
1 reconnect. A body is never one that was not; with nothing on its way the page
shows the item; under fairness it comes to. `LoadedCoversRow` and `BodyIsRight`
hold as well.

An *event* is a broken connection, a restart of the service, or a click of the
owner. With two, a card is opened and one more thing happens to it. The item may
be running for a while when the page opens, with its output paced
already, so two changes reach every branch of the pacing: the second is
held back behind the first. One change publishes up to two frames for a
connection, so a queue of two overflows with the second change. The service
reconnects four times and holds 256 frames; the numbers matter only in that they
are reached.

Fairness: timers fire, frames are delivered, and a connection that was lost is
opened again. Nothing is asked of the provider or the owner. `Converges` does not
ask for a stream of a card whose detail stream was given up, nor for a body of an
item the service told it not to hold. `CHECK_DEADLOCK FALSE`: once the bounds are
used up nothing need happen any more.

### Where it disagrees with the documents

`GivenUpIsShown`, stated in the module and violated. The detail stream is given up
after its reconnects, and an open card says so and offers to retry. The next row
of the item on the main stream sets the status of the body from its numbers
alone (`detail-state.ts:67`): the card says that it loads, without a stream, a
timer or the offer.

## 7. What surrounds a Thread

### CopilotTurns

The record `c` is what `conversation.mu` guards (the turn, `idles`, `sending`,
`steering`, `seen`, the stall, the watches of Stops) with the state Manager shows.
A call to the CLI is two steps, one when the CLI handles it and one when it
returns; `events` are on their way in order, `aborts` on theirs. A prompt is
`SendBegins` (Manager shows the turn), `SendCalls` (the adapter counts the send),
`TakesPrompt`, `SendAnswered`, `SendReturns` or `SendFails`, and what its events do
is in `OnStart`, `OnIdle`, `OnUser`. A Stop is `StopBegins`, `TakesAbort`,
`StopReturns`, then for one that arms a check the ping (`StopUnconfirmed`) and the
end by force (`Detach`). A stall is `CheckStall`, its abort and the continuation
(`TakesRetry`, `RetryReturns`, `RetryFails`).

`copilot`: one prompt, a steer, a Stop, a stall, three events on their way. Once every
call has returned and every event was handled, the conversation runs a turn exactly
when the CLI does (`TurnIsReal`); once the send that
a Stop overtook was answered, its turn does not run with that Stop's abort still to
come (`OvertakenIsAborted`); a Stop comes to an end (`StopEnds`).
The last needs only that the check's timer fires and its calls time out; nothing
is asked of the CLI, which may report nothing any more. One prompt meets the
steer, the Stop, the stall and its continuation, which is the second turn that the
counting of idles is for. `MaxAborts` bounds the aborts on their way at once.

A Stop that comes after Manager showed the turn (`manager.go:4022`) and before the
adapter counted the send (`web.go:2774`) finds neither a turn nor a send: it arms
no check, and its one abort may reach the CLI before the prompt. The turn then
runs on as if nobody had stopped it. `StopBegins` has this case; `OvertakenIsAborted`
and `StopEnds` speak of a Stop that found one of the two, as the code's
`watchStopLocked` does.

`copilot_steers`: two steers, no stall, a Stop. `SteerHasFate` says that a steer the CLI
accepted is used, waits, or is reported once nothing is on its way, which
`web.go:2845-2847` and `docs/adr/0004-web-interface.md:674-677` say of each. It is
violated. The turn completes; its idle is on its way. The first steer reaches the CLI
after the turn's end, so it starts a turn of its own; the second lands in that turn.
uam handles the first turn's idle and drops the steers it knows as used or as starting
a turn (`undeliveredLocked`). A Stop then aborts the running turn, the CLI drops the
second steer, and nobody reports it. With one steer the property holds.

The model takes from the CLI that it starts each turn with
`assistant.turn_start`, reports in order, and does not handle a call uam gave up
before it was handled; a call that was handled and not answered is uncertain. Left
out: the hold of a turn's end for a todo list, completion receipts, interactions
(`Interactions`), subagents, usage, autopilot, older CLIs (`OldCLI` is there for
them and off in the run). The proof of tools and the refresh before a send are
part of it.

Observations: a send with an uncertain outcome that a Stop overtook and whose turn
starts late runs on; a Stop's abort names no turn, so it may end the next one; a
steer answered after the aborted idle and before its user event is reported as not
delivered and then used; after a continuation that failed, a turn
begun meanwhile by a steer runs although it is shown as ended; an exit reports no
undelivered steers. Two properties are stated and violated, with `MaxPrompts` 2:
`SparesLaterPrompts` (`stop.go:176`, against its comment at 83-85: the check of a
Stop may detach a conversation whose turn is a later prompt's), and
`DetachedEndedTurn` (`stop.go:260`: the watch is cleared before
`finishTurnLocked`, which keeps the turn while the abort of a stall is on its way,
so a detached conversation leaves its Thread working; `agentapi.go:1082-1085`).

### PeerMessages

`book` is what Manager keeps of the pair (mode, ID, allowance, charge, messages by
status), `queue`, `base`, `send` the part of each Thread that a message passes
through; a prompt carries its message, the pair's ID at that time, and whether it
is the reply. `Send` is `uam_send`, `Allow`, `Deny`, `Reset`, `Switch` and
`SetMode` are the owner's, `DrainTakes` to `DrainEnds` the send with the check of
the pair at the drain (`DrainChecks`) and at the commit (`Commits`, `Drops`),
`Replies` the end of the receiver's turn that sends its reply, `Restart` a restart
of uam.

`messages`: two Threads, two messages, two allowances, two pairs, one revocation,
an allowance of 2, full queues; sends that are refused, lost or late, turns that
the provider starts by itself at any time, also during a send, stage moves,
cancellations. A message's status is where it is (`StatusIsTrue`); the charge
covers what was or may be delivered (`UsedCoversDeliveries`); a message is answered
once (`AnsweredOnce`); no step sends one of a pair that was revoked
(`RevokedIsNotSent`). The first three exempt a message that is in `tangled`, the
last nothing.

A message is *tangled* when its send is refused although a turn had begun in its
name. The commit arms the Thread for the message (`s.peerArm`) before the provider
is asked; a turn that the provider starts by itself, or late from an earlier
uncertain send, takes the arm and is shown as the message's. If the provider then
refuses the prompt, or says that it is busy, the arm is gone, so nothing is taken back
(`manager.go:4052-4054`), and a busy head goes back to the queue and is sent again.
The message may then be answered twice, once with the reply of a turn that was not
its own, or be shown as failed while its turn runs, and its refund may pay for what is
still delivered. `messages.go:20-23` has a message start one turn, whose final reply
goes back to the sender. `tangled` holds exactly the messages of that race: without the exemption
`AnsweredOnce` is violated, with it the run and the proofs cover the race for all others.

Two messages fill the allowance and the queue; the second
pair is what a reset needs. Symmetry of Threads and of messages is sound for
these: none names one. There is no liveness here: a message may wait for the owner
for ever.

Where the code ends several messages in a loop (a cleared queue, a restart),
`AllEnded` is what the loop comes to: what each gives back is added up, and the
charge stops at zero.

`MaxDecisions` bounds allowances, revocations and tangled messages together. Whether
the receiver's budget is reached is free where it may matter (`DrainTakes`,
`Allow`; in `Send` it only refuses). A call of `uam_send` with the ID of a listed
message is answered with that message and changes nothing, and so does a full set of
pairs (`store.MaxMessagePairs`): both are left out as steps that change nothing.

Left out: deletion of a Thread, waits of a Stop; the owner's
prompts are turns of their own. A late turn keeps nothing of the message but what the
arm says, as in the code. The record and the restore of a failed send are
one step. Observations: the owner's decision is answered before it is flushed, so a
crash may bring back what was allowed before. `ReplyingIsReal` is stated and violated: a
refused send clears the mark of a turn that a late prompt began meanwhile
(`manager.go:4052-4054`, against the comment at `messages.go:431-434`).

### Budget

`wraps` are the wrap-ups, told apart by number as the code does by pointer, each
with its goroutines (the facts it reads, the timer, the prompt); `budget` is the
budget, `over` whether it is spent. `Calls` is a model call of the running turn,
`CallPast` one after the budget, `Prompts` the prompt of uam, `Sets` a new budget,
`BudgetStops` the stop of a turn that goes on after its wrap-up. The send is
`Thread`'s with what a wrap-up can tell apart.

`budget`: two wrap-ups, one change of the budget, one call a wrap-up may make,
subagents that call between turns. The wrapping-up that is saved and shown is one
that goes on, across a new budget, facts read for an earlier one and a restart
(`WrapUpIsReal`), and a wrap-up that goes on while a turn runs ends
(`TurnWrapsUp`). Fairness: goroutines, timers and sends go on, and a turn ends; it
is strong for the prompt's goroutine, which waits for `op`. `HandoffIsCurrent` and
`DroppedLeavesNone` hold as well.

Observations: a wrap-up that began while a send was on its way which is then refused
never ends, and a subagent's call past the last one between turns makes the prompt's
goroutine return without ending it (`StoppedIdle`, exempt in `TurnWrapsUp`); a new
budget or a Stop between the check that the wrap-up goes on and the send's commit
does not hold its prompt back. `HandoffIsAfterTold` is stated and violated: the
handoff may be a reply given before the instruction (`budget.go:514`,
`docs/web.md:1017`).

### Routines

`routine` is the record in `sessions.json` with its runs, `active` the run that
goes on, `started` and `toStart` what the loop carries, `creating` the goroutines
that create a run's Thread, `firings` a history. `Check` is the loop's look at the
clock, the runs' Threads and the limits; `LoopStarts` and `RunNow` start a run;
`Registers`, `Sends`, `Recorded`, `CreateFails` are its creation; `Restart` reads
what was written, with Threads' states perhaps older, and ends or makes up for
runs.

`routines`: three hours, two firings, a restart, one act of the owner, a limit of
an hour, one run a day, two runs kept. Runs do not overlap (`NoOverlap`), the one
that goes on is recorded and has its Thread (`ActiveIsRecorded`), no time fires twice and what was
missed while uam was down runs once (`MissedRunOnce`), every run ends (`RunEnds`). The bounds reach a
second firing on the day of a run, a run over its limit and a restart in every state;
the history is never overfull in this instance, and the theorem covers one that is.
Fairness: the loop and the goroutines go on, a turn ends, uam comes back.

Left out: the calendar (a step of hours stands for it), writes that fail, the
autopilot command; the cancellation of a turn over the limit is its end. A first
message with an uncertain outcome may start its turn after its run ended (exempt in
`NoOverlap`). Observations: a crash between a Thread's creation and its record in
the run leaves a run that "stopped before the thread started" beside that Thread;
`DailyLimit` holds only while the kept runs reach back a day, and a run that goes on
leaves the history once a hundred firings were skipped meanwhile, the one exception
of `ActiveIsRecorded` (`Outnumbered`; `routines.go:427`).

### Workplaces

`jobs` are the creates, each in one of six kinds (in the folder, on another branch,
in a new worktree, again in an old one, by an agent in a worktree or in the folder),
with the step it is at;
`creating` the claimed request IDs; `disk` and `branches` what git has; `ops`
the worktrees being removed; `writes` and `git` the owner's git action; `removal`
and `project` the two removals. A create is `Claim`, `PlaceOf` or `Recreate` and
`Take` or `Check` and `Switch`, `Open`, `Store`, `List`, `Prompt`, and on failure
`Undo` and `Return`. Threads send, open, end turns, change stage and are deleted,
which kicks off the removal of their worktree (`Kick`, `Removes`).

`workplaces`: two creates, two request IDs, a Thread that exists, all kinds, one
spawned Thread, two acts of the owner. No turn runs in a repository where git
writes (`WritesAreQuiet`); a working Thread has its folder (`WorkingHasFolder`,
except that a removal reads its users before it waits, see below); a create that
fails leaves no record, worktree or branch, or, where git refused to undo its place,
no record and no worktree without its branch (`AllOrNothing`, except once uam
is closing); a request that waited is answered by what the first made
(`RequestsAreAnswered`); no stored Thread is of a project that is gone
(`NoOrphans`). Two
creates are enough for each pair of kinds to meet with the same or different
requests, and two acts for a removal against a git write. Symmetry of creates and of
requests: no property names one. There is no liveness in this module.
`RoomIsKept` (an agent's limit) holds as well.

A step that fails is a choice: git refuses a place or a switch, a conversation does not
open, the write of a record (`Store`) or of a removal (`ProjectStored`) fails, and the
undo fails. `Undo` removes worktree and branch; or git refuses to remove the
worktree, which is logged, and both stay; or only the branch stays. A create that ended so is
"kept", and the branch is what keeps the worktree's work.

Left out: the value of the folder's branch, so also what a refused undo of a switch
(`worktrees.go:410-422`, `463-473`) leaves checked out; the idle close, turns the provider
starts by itself or late (they do not wait for a git write, so `WritesAreQuiet` is of
the turns that uam sends), worktrees of forks, the question a spawned Thread asks, the answer of the first prompt. The
claim and its check, and the three releases at the end, are one step each.

Observations, the first two stated and violated: the undo of a create on a branch
switches the folder back without `beginWrite` (`SwitchesQuietFolder`;
`worktrees.go:462-472`, `docs/web.md:480-483`); `RemoveWorktree` reads who uses the
worktree before it waits for it, and does not see creates that are being made
there (`RemovalSparesWorking`; `worktree_cleanup.go:629`, `docs/web.md:559-560`); when
Shutdown begins between the write of a create's record and its listing, the record
stays and the undo deletes the worktree and branch (`manager.go:3262`).

### Restarts

`cli` is the adapter's client with its release, whether it is outdated, and who
holds its starts; `tracked` and `counted` are the conversations and utility prompts
the adapter counts; `at`, `on`, `conv`, `opening`, `busy` the part of a Thread that
uses a client. `StartCLIUpdate`, `Stage`, `Install`, `Updated` are an update from the
page, `InstallOutside` one from a terminal. A restart is a goroutine in `try`
(the update's, or the one that waits for quiet): `Count`, `Open`,
`QuiesceCLI` takes `op` of the Threads that do not work (`SuspendForCLI`,
`CloseForCLI`), `StopOutdated` stops the client. `svc` is the restart of uam:
`FileChanges`, `Look`, `RequestRestart`, `TryRestart`, `Begin`, `Postpone`. `cut` is a
history: the clients that an update's restart stopped.

`restarts`: a Thread, one being created, a utility prompt, two uses, two events
(updates, installs, deaths of the CLI or restarts by the owner, a new binary). No
update's restart ends work of a listed Thread (`RestartSparesThreads`); once no
turn runs any more, the old release is replaced (`OldIsReplaced`), a start that
waits goes on (`StartsGoOn`), and a wanted restart of uam happens
(`WantedRestarts`). Two uses are a turn that holds a restart back and a start that
waits for it; two events an update during which another one, or the death of the
CLI, happens.

Fairness: strong for handlers and utility prompts, which wait for mutexes that
starve nobody and for starts that are released by a broadcast; weak for the update, the
goroutines that wait with a tick, and the daemon's loop. Nothing is asked of owner
or provider: a turn may run for ever, so the liveness is under `<>[]` of no turn.

Merged: the read of `outdated` with the hold of starts, the owner's restart with
its detach, `op` with the opening that follows, the CLI's death with its notice.
Left out: the idle close, the queue, stage moves, a CLI that does not start
(`EnsureStarted` ends with a client), a CLI whose file could not be read at
its start (`cliFile` is nil, `web.go:1916-1921`: an install outside uam is then never
noticed, `cli_update.go:478`, and `OldIsReplaced` would not hold), calls
that count as no use (reading a history, models, forks); uam's restart
begins afresh.

Observations: `RestartSparesNew` is stated and violated: a create opens its
conversation before its Thread is listed, so `quiesceCLI`
(`cli_update.go:426-449`) does not see it and stops the CLI under it; the create
fails (`docs/web.md:293-294`: new conversations keep using the running version). The
owner's restart fails a Thread that is opening. A refused `pending` in `runCLIUpdate`
may skip the goroutine that waits while an earlier one is about to end; the next
look, within a minute, makes up for it.

## 8. Proofs

All are checked by TLAPS for every value of the constants, under the assumptions
the modules name (`ThreadConstants`, `ProcsDistinct`, `PersistenceConstants`,
`NoneIsNoRecord`, `InteractionConstants`, `RoutinesConstants`, `WorkplacesConstants`,
`RestartConstants`, `BudgetConstants`, `CopilotConstants`, `EventStreamConstants`,
`PeerConstants`: the bounds are natural numbers, and `None` and the names of the
goroutines are distinct from the sets they join). `PersistenceRestartsProofs` and
`RoutinesBudgetProofs` hold the proofs of two components each. The second is an
instance, `R` (`Restarts`) or `B` (`Budget`), whose assumption is a hypothesis of each
of its theorems.

**Thread.** `TypeOK` is not inductive: that a goroutine past `route` carries a
prompt, and that the head being sent is the drain's, must be known. `TypeCorrect`
adds what each goroutine carries at each step. `OnceInductive` then adds three
parts: *ownership* (at most one goroutine is past the point where `op` is needed,
and it owns it), *freshness* (a prompt that is queued or carried towards the
provider has no recorded outcome, and is in one place only), and *delivery* (what
was taken, what is on its way and what may still arrive are disjoint, and a taken
prompt has an outcome that is not `cancelled` or is being given one). From it
follow `NeverTakenTwice`, `CancelledStaysUnsent`, `OutcomesAreFinal`.
`EmptyQueueNeverPaused` and `ShutdownLeavesNone` need less. `ThreadDelivers`
adds `Honest` (a goroutine records accepted only after its prompt was taken, and
a prompt that may still arrive is recorded as uncertain), and maps each step to a
step of `Delivery` or a stutter: only three actions append to `taken`, only three
write an outcome, and none does both.

The queue and the turn have invariants of their own. `QueueInOrder` follows from what
`line` remembers: the queue, with the head that is being sent before it, is a
subsequence of the order in which prompts joined, and a step removes one, appends
the newest, or puts the head back. `TurnsInductive` rests on `Once` and joins six
parts. *Opening* and *Quiet* say that only the holder of `op` opens or puts away, so
a Thread that is put away has nothing under way. *Heard*, *Marked* and
`WorkingIsReal` follow a prompt from its commit to its turn: before the provider
takes it the Thread already shows working, after it `moved` remembers whether an
event of the turn came, and what the answer writes depends on that alone. *Closed*
gives what shutdown leaves. `ShownTurnIsReal` and `PutAwayStaysQuiet` read their
properties off it.

**Persistence.** `KeptInductive` has four parts. *Lock*: whoever is inside a
flush owns `persistMu`, and has a patch only then. *Order*: the file, each patch
and the live state of a Thread are ordered by their change number, equal numbers
mean equal states, and a record exists only from registration to deletion.
*Attention*: a change that is not saved is dirty or in the flush that holds it,
and a dirty Thread has a wake token, a flush that is coming, or a shown failure.
*Answers*: an outcome that is being flushed is in the live state, and is in the
file, the patch or the dirty set where its handler is. The six theorems after it
read their properties off these parts, and `CleanStop` that the last flush comes
after the last change.

**Restarts.** `RestartSparesThreads` speaks of stopped clients, which nothing in
the state remembers but the history; the invariant `Inv` of the restarts says why
nobody is on one. *Clients*: a stopped client is older than the running one.
*Counted*: whoever uses the running client is tracked or counted, or was given it
and is still to be tracked. *Shown*: a listed Thread that opens has `opening`
set, and one that works is busy, so `quiesceCLI` gives up. *Held*: at most one
goroutine holds the starts, and from then to its end nobody is given an outdated
client. *Idle*: what `quiesceCLI` has closed stays closed while its `op` is held.
From these the stop, which looks at `tracked` and `counted` in the section that
stops, meets no user among the listed Threads. The proof has one lemma per action.

**Workplaces.** Two locks do the work. `projectMu` is held by a create from its check
that the project is there to its listing, and by the removal from its listing of
Threads to the end, so a Thread is listed before the removal looks, or not at all
(`NoneIsOrphaned`). A request is in `creating` exactly while one create of it is past
its claim and not at its end, so a second one of that request waits, finds the Thread
that has it, or claims it after the first failed (`RequestsAnswered`).

`PlacesInductive` adds the folders. *Writers*: who writes a folder is at the step that
writes, and a turn begins only where nobody does. *Removes*: whoever holds
`worktrees.ops` found no conversation in the worktree it removes, and an opening there
needs `ops`. *Locked*: the owner's removal, and the project's, hold the Threads they
listed, and the Threads that came since are `missed`. *Branched*: the worktree
and branch of a create exist from its placing to its undo, which takes both, leaves
both, or leaves the branch. *Kinds*, *Ended* and
*Unmade* say how far a create of each kind is. From these follow `WritesQuiet`,
`WorkingHasPlace` and `CreateIsAllOrNothing`; the last holds until uam closes.

**Interactions.** Three invariants, one for each property, with one lemma per group of
actions. *Answers*: the runtime decides a request once and keeps who decided it, and
whoever returns with "ok" is that one and has not reported yet; so at most one reports
(`FirstWins`). *Yolo*: a permission comes to wait, and the mode or the
conversation changes, only in a section of `m.mu` that looks at what waits before it
ends (`YoloWaitsForNone`). *Mode*: whoever changes the mode holds `op`, so
what it found of the runtime's mode is still true when it records it, and a
conversation that goes meanwhile leaves the mode unknown (`ModeIsTrue`).

**Routines.** A firing is on its way from the section that starts it to the end of its
turn. While the routine is held, what is on its way is the active run, and nothing
fires while one is active; the loop ends an active run only once its Thread is
recorded, so its create has ended, and its Thread does not work. Hence one at
most is on its way (`RunsDoNotOverlap`), also after a deletion, which ends all firing.
For the history (`HistoryInv`): its entries are the latest firings in their order, so
the active run is dropped only by later ones, and a new run is recorded only
while none is active (`ActiveRunIsRecorded`).
For the schedule: the next firing is after now whenever it is set, and every
scheduled firing came at or before now (`MissedFireOnce`); `NextIsLater` is the
arithmetic of `nextRun`.

**Budget.** `WrapUpIsReal` needs that the wrap-up a Thread keeps has begun and is not
done, or waits for its facts (`WrapEnds`), that the prompt's goroutine has a wrap-up,
and that no handoff stays beside one (`HandoffIsCurrent`). The lemmas say once what
each section of `m.mu` does to the wrap-up it finds, so that each action is an
instance. `DroppedWrapUpLeavesNone` is a step of the same invariant.

**CopilotTurns.** An event on its way is a promise: the last of them that starts
or ends a turn tells the CLI's state, and with none on its way the conversation
agrees with the CLI (`EventsTell`). That holds only together with the counts
of idles (`IdlesFit`), with what is known of a prompt the CLI took
(`TakenIsSeen`) and of a continuation (`ResendIsSeen`): an answer that comes after
its turn's idle starts nothing because the idle was counted. `StopInv` adds that
a check that pends is of the running turn or of the prompt on its way. Lemmas named
`...Fields` say what a section of the conversation's mutex leaves, those named
`...Does` what an action does.

**EventStream.** Two streams, one invariant each. *Rows* (`RowFollows`): the last row
that waits on the main stream, or the one shown where none waits, is the item's, or
a row is due and its timer runs; so once all is delivered and no timer runs the
page shows the item's (`RowShownIs`). *Bodies* (`StreamKept`): what waits on the
detail stream is a chain (`Chained`). Each frame has a number no lower than the one
before it and says how the output came from that number to its own: a body is
`log` at its number, a delta what `log` gained since, `current` that it gained
nothing. `Synced` says that the chain ends at the item's output, or that the pacing will
publish all of it. Holding back output, dropping a subscriber whose queue is full
and answering a reconnect each have a lemma that the chain is still one; what the page
takes is then `log` at the number it notes (`BodyShownWas`). After a restart of uam the
numbers start again, so the invariant speaks of a page of this epoch (`Fresh`).

**PeerMessages.** A prompt of a message that is not tangled (section 7) is in one of
six places (`Kinds`): a queue, the
hand of a send that may still start its turn, a rejected send, a send whose
conversation ended under it, the arm, the turn. `Inv` says that a message is in one of
them at most (`OnePlace`, `NoneTwice`), that what the pair shows and the answers so far
fit the place (`PlacedOK`), that what is shown as queued or working is in one
(`ShownOK`), and that the charge covers what is owed (`BookOK`). `Steady` ties a
send to the turns that begin during it: from the first one on the arm is empty, so the
message of that send is in no place, and its refusal makes it tangled. Of a tangled message
`KnownOK` says only that it was delivered once, and `Cleared` that no
charge is claimed for the allowance it belongs to. Most steps move one
message, or end some: `Moves` says once that whatever a step does not touch keeps its
place and its record. The charge is a cardinality, so ending a set of messages
gives back what each of them had (`AllEnded`). The theorems have no hypothesis on the
provider. `NotSentWhenRevoked` has an invariant of its own.

**Only model-checked.** `KickKept` of `Thread`, and everything under fairness
(`Converges`, `TurnWrapsUp`, `RunEnds`, `StopEnds`, `OldIsReplaced`,
`StartsGoOn`, `WantedRestarts`, and `SavedOrShown` without a run).
`NeverFollowsStop` of `Thread` and `SteerHasFate` of `CopilotTurns` are false (sections 3 and 7).
Liveness and `ENABLED` are beyond the prover, and so are recursive operators and
induction over data, which the proved modules avoid.

## 9. What is left out

Thread leaves out what does not move a prompt: names, models, effort, titles,
token counts, the text of a prompt and its attachments. Budgets, messages and the
git wait are in modules of their own; the rewind's hold of the queue and the
refusal of slash commands (refused before anything changes) are in none. A provider
that is not available behaves as an open that fails. The eviction of outcomes beyond
64 is not modelled, nor is a restart of the service: Persistence has it.

Persistence leaves out the other ledgers a flush writes (turn evidence, token
usage, message pairs), each of which is retried in the same way, and the
quarantine of a file that cannot be read.

Interactions leaves out the questions uam asks itself, the expiry of a stopped
subagent's requests (the same `Expired`), permissions without an option to allow
once (never claimed), plan reviews, the fuses that stop repeated approvals, and
the order of frames. Removal and shutdown act on it as a close.

EventStream leaves out pages of older items, subagents' transcripts and their
part of the detail stream, bodies the service holds shortened and reads from the
provider's record, the byte bound of a queue, viewers of the older protocol, and
the batching of rows in animation frames, which only delays them.

Not modelled at all: rewind and fork (long operations of one Thread under `op`; the
in-use check they share with a send is in `Thread`), history, archive and turn
evidence (paging and file formats), titles and suggestions (background jobs that
change a name), sign-in and limits, notices and the monitors that poll outside
services, terminals (byte streams), HTTP decoding and settings (one section of
`m.mu` each), and the token ledger (a counter saved with each flush). Most of the
repository's lines are there, or are rendering, parsing, translation between the
runtime's events and uam's items, and the command line.

Observations that are no disagreement with a document: only the last of a
Thread's answered requests survives a restart (`persistKey.reqID`,
`docs/adr/0004-web-interface.md:71`), so a retry of an earlier one is sent as a new
prompt; a card opened again in the instant between the release of its interest
and the tick that reads the interests leaves the list of interests as it was, so
it shows no body until the detail stream is opened anew (the model has this step,
and `Present` in `BodyIsRight` excuses it); a permission the CLI
allows by itself between an automatic claim and its call is recorded as allowed
by the automatic mode; a creation refused because
Shutdown began between its two halves leaves its record in the file, and the next
start lists it; clearing an unseen mark marks the Thread dirty and wakes nobody,
so the mark is saved with the next change; the queue may hold one prompt more
than its limit when a head is put back.

----------------------------- MODULE EventStream -----------------------------
(***************************************************************************)
(* How a page follows one item of the Thread it shows: a tool call, or a   *)
(* thought.  The main stream carries the item's row, what the transcript   *)
(* shows of it; the detail stream carries its body, for a card that is     *)
(* open.  The two are separate connections of one sequence counter: what   *)
(* arrives first on one may have been sent last on the other.              *)
(*                                                                         *)
(* The service publishes under Manager.mu, numbers each frame and queues   *)
(* it without waiting; a subscriber whose queue is full is dropped.  The   *)
(* output of a running tool is paced: its rows, and output that replaces   *)
(* what came before, are held back for a timer.  A page that reconnects    *)
(* says up to which number it holds the body, and is sent it again only if *)
(* it has changed since.                                                   *)
(*                                                                         *)
(* An output is the sequence of the changes it was made by: one that       *)
(* extends it appends its number, one that replaces it starts anew.  A row *)
(* is the number of the change it shows, 0 when there is none.             *)
(***************************************************************************)
EXTENDS Integers, Sequences, SequencesExt

CONSTANTS
  Queue,        \* subscriberQueue, in frames
  Attempts,     \* reconnects in a row of the detail stream
  Kinds,        \* the kinds of item: "tool", "thought"
  MaxChanges,   \* bound: changes of the item
  MaxEvents     \* bound: broken connections, restarts and the owner's clicks

ASSUME EventStreamConstants ==
  /\ Queue \in Nat \ {0} /\ Attempts \in Nat
  /\ Kinds \subseteq {"tool", "thought"}
  /\ {MaxChanges, MaxEvents} \subseteq Nat

VARIABLES
  epoch,   \* m.epoch
  seq,     \* m.seq
  item,    \* the item in s.items
  marked,  \* s.itemSeq of it
  pace,    \* s.outputs of it
  main,    \* the Subscriber of the main stream
  detail,  \* the Subscriber of the detail stream
  up,      \* the page's main EventSource
  es,      \* its detail EventSource, with what its URL says
  page,    \* the page's state of the main stream
  card,    \* the item's card and the interests of the detail stream
  body,    \* DetailState.bodies of the item
  log,     \* history: the output at each number of this epoch
  spent    \* how much of each bound is used

service == <<epoch, seq, item, marked, pace, log>>
browser == <<up, es, page, card, body>>
vars == <<service, main, detail, browser, spent>>

None == -1
NoItem == [held |-> FALSE, kind |-> "tool", running |-> FALSE,
           out |-> <<>>, row |-> 0]
NoPace == [on |-> FALSE, whole |-> FALSE, row |-> FALSE, timer |-> FALSE,
           at |-> FALSE, rowAt |-> FALSE]
Gone == [open |-> FALSE, watch |-> FALSE, first |-> <<>>, queue |-> <<>>]
NoBody == [status |-> "absent", seq |-> None, floor |-> None, has |-> FALSE,
           out |-> <<>>]
Idle == [phase |-> "none", epoch |-> 0, covered |-> None, tries |-> 0]

Frame(kind) == [kind |-> kind, seq |-> 0, epoch |-> epoch, out |-> <<>>,
                row |-> 0]

Statuses == {"absent", "loading", "loaded", "refreshing", "unavailable",
             "error"}
Numbers == 1..(MaxChanges + 1)
Changes == Seq(Numbers)
Rows == {0} \cup Numbers
Items == [held : BOOLEAN, kind : {"tool", "thought"}, running : BOOLEAN,
          out : Changes, row : Rows]
Paces == [on : BOOLEAN, whole : BOOLEAN, row : BOOLEAN, timer : BOOLEAN,
          at : BOOLEAN, rowAt : BOOLEAN]
FrameRecords ==
  [kind : {"snapshot", "row", "history", "trimmed", "body", "delta", "current",
           "unavailable", "ready", "reset"},
   seq : Nat, epoch : Nat, out : Changes, row : Rows]
Frames == Seq(FrameRecords)
Subscribers == [open : BOOLEAN, watch : BOOLEAN, first : Frames,
                queue : Frames]

\* Every variable has its type, and no queue grows beyond its bound.
TypeOK ==
  /\ epoch \in Nat /\ seq \in Nat /\ marked \in 0..seq
  /\ item \in Items /\ pace \in Paces
  /\ {main, detail} \subseteq Subscribers
  /\ \A s \in {main, detail} : Len(s.queue) <= Queue
  /\ up \in {"asking", "on"}
  /\ es \in [phase : {"none", "asking", "on", "waiting", "failed"}, epoch : Nat,
             covered : Nat \cup {None}, tries : 0..Attempts]
  /\ page \in [epoch : Nat, row : Rows, floor : Nat \cup {None},
               live : BOOLEAN]
  /\ card \in [open : BOOLEAN, fading : BOOLEAN, blocked : BOOLEAN,
               listed : BOOLEAN, tick : BOOLEAN, retry : BOOLEAN]
  /\ body \in [status : Statuses, seq : Nat \cup {None},
               floor : Nat \cup {None}, has : BOOLEAN, out : Changes]
  /\ log \in [0..seq -> Changes]
  /\ spent \in [changes : 0..MaxChanges, events : 0..MaxEvents]

\* When the page opens, the item is not there yet, or it is a tool that has
\* run for a while: change 1 replaced its output and showed in its row.
Old == [held |-> TRUE, kind |-> "tool", running |-> TRUE, out |-> <<1>>,
        row |-> 1]

Init ==
  /\ epoch = 0 /\ spent = [changes |-> 0, events |-> 0]
  /\ \/ /\ item = NoItem /\ seq = 0 /\ marked = 0 /\ pace = NoPace
        /\ log = [k \in {0} |-> <<>>]
     \/ /\ "tool" \in Kinds /\ item = Old /\ seq = 1 /\ marked = 1
        /\ pace = [NoPace EXCEPT !.on = TRUE, !.at = TRUE, !.rowAt = TRUE]
        /\ log = [k \in 0..1 |-> IF k = 0 THEN <<>> ELSE Old.out]
  /\ main = Gone /\ detail = Gone
  /\ up = "asking" /\ es = Idle
  /\ page = [epoch |-> 0, row |-> 0, floor |-> None, live |-> FALSE]
  /\ card = [open |-> FALSE, fading |-> FALSE, blocked |-> FALSE,
             listed |-> FALSE, tick |-> FALSE, retry |-> FALSE]
  /\ body = NoBody

Spend(what, bound) ==
  spent[what] < bound /\ spent' = [spent EXCEPT ![what] = @ + 1]

-----------------------------------------------------------------------------
(* The service: events.go, detail_events.go and items.go.                  *)

\* A frame is queued or the subscriber is dropped, with what it was not sent.
Push(sub, f) ==
  IF ~sub.open THEN sub
  ELSE IF Len(sub.queue) < Queue THEN [sub EXCEPT !.queue = Append(@, f)]
  ELSE [sub EXCEPT !.open = FALSE]

\* The detail stream takes no body of an item that it does not watch.
ToDetail(f) == \/ f.kind = "reset"
               \/ f.kind \in {"body", "delta", "current"} /\ detail.watch

\* A row for the main stream and what the detail stream is sent after it, each
\* numbered after n as it is published; either may be missing.
NoFrame == Frame("none")
Publish(n, row, f) ==
  LET r == IF row = NoFrame THEN n ELSE n + 1
      b == IF f = NoFrame THEN r ELSE r + 1
  IN /\ seq' = b
     /\ main' = IF row = NoFrame THEN main ELSE Push(main, [row EXCEPT !.seq = r])
     /\ detail' = IF ToDetail(f) THEN Push(detail, [f EXCEPT !.seq = b]) ELSE detail

\* What the item's output was at each number: out, from n on.
Logged(n, out) == log' = [k \in 0..seq' |-> IF k < n THEN log[k] ELSE out]

Row(it) == [Frame("row") EXCEPT !.row = it.row]
Body(it) == [Frame("body") EXCEPT !.out = it.out]
Delta(text) == [Frame("delta") EXCEPT !.out = text]

\* publishItemLocked: the row goes before the body it announces.
RowIf(due, it) == IF due THEN Row(it) ELSE NoFrame

\* The item becomes it: marked, when it changed, before it is published.
Becomes(it, row, f) ==
  LET n == IF it # item THEN seq + 1 ELSE seq
  IN /\ item' = it
     /\ marked' = IF it # item THEN n ELSE marked
     /\ Publish(n, row, f)
     /\ Logged(n, it.out)

Change == spent.changes + 2
Changing == Spend("changes", MaxChanges) /\ UNCHANGED <<epoch, browser>>

\* A new item: of the provider, or one that was trimmed and comes again.
Appear(kind) ==
  /\ ~item.held
  /\ \E out \in {<<>>, <<Change>>} :
       LET it == [held |-> TRUE, kind |-> kind, running |-> kind = "tool",
                  out |-> out, row |-> Change]
       IN Becomes(it, Row(it), Body(it))
  /\ pace' = NoPace
  /\ Changing

\* A change of a tool that is not only one of its live output, or of a
\* thought: its row is published when it shows something new.
Update(it) ==
  /\ pace' = NoPace
  /\ Becomes(it, RowIf(it.row # item.row, it), Body(it))
  /\ Changing

Progress ==
  /\ item.held /\ item.running
  /\ Update([item EXCEPT !.row = Change])

Complete ==
  /\ item.held /\ item.running
  /\ \E out \in {item.out, Append(item.out, Change), <<Change>>} :
       Update([item EXCEPT !.running = FALSE, !.row = Change, !.out = out])

\* What is over is corrected; the row may show nothing of it.
Correct ==
  /\ item.held /\ ~item.running
  /\ \E row \in {item.row, Change} :
       Update([item EXCEPT !.out = <<Change>>, !.row = row])

\* applyDeltaLocked of a thought: its row shows that there is one.
Think ==
  /\ item.held /\ item.kind = "thought"
  /\ LET new == item.out = <<>>
         it == [item EXCEPT !.out = Append(@, Change),
                            !.row = IF new THEN Change ELSE @]
     IN Becomes(it, RowIf(new, it), Delta(<<Change>>))
  /\ Changing /\ UNCHANGED pace

\* paceToolOutputLocked.  Whether the interval has passed since the last
\* publication is not known: soon says that it has not.
PacedAnew(it) == [pace EXCEPT !.on = TRUE, !.row = it.row # item.row]
Paced(it) ==
  [pace EXCEPT !.on = TRUE, !.row = @ \/ it.row # item.row]

\* While a whole publication is pending the page's copy is older than the
\* item: nothing is sent until then.
HeldBack(it) ==
  /\ pace.whole
  /\ pace' = Paced(it)
  /\ Becomes(it, NoFrame, NoFrame)

\* Output that replaces the previous one is published whole.
Replaced(it, soon) ==
  /\ ~pace.whole /\ ~IsPrefix(item.out, it.out)
  /\ IF soon /\ pace.at
       THEN /\ pace' = [Paced(it) EXCEPT !.whole = TRUE, !.timer = TRUE]
            /\ Becomes(it, NoFrame, NoFrame)
       ELSE /\ pace' = [Paced(it) EXCEPT !.at = TRUE, !.timer = FALSE,
                                         !.row = FALSE,
                                         !.rowAt = @ \/ Paced(it).row]
            /\ Becomes(it, RowIf(Paced(it).row, it), Body(it))

\* Output that grows goes out at once, after the row when that is due.
Grown(it, soon) ==
  /\ ~pace.whole /\ IsPrefix(item.out, it.out)
  /\ LET grew == it.out # item.out
         due == Paced(it).row /\ ~pace.timer
         now == due /\ ~(soon /\ pace.rowAt)
         text == SubSeq(it.out, Len(item.out) + 1, Len(it.out))
     IN /\ pace' = [Paced(it) EXCEPT !.timer = @ \/ (due /\ ~now),
                                     !.row = @ /\ ~now,
                                     !.rowAt = @ \/ now]
        /\ Becomes(it, RowIf(now, it), IF grew THEN Delta(text)
                                       ELSE IF now THEN Frame("current")
                                       ELSE NoFrame)

Output ==
  /\ item.held /\ item.running
  /\ \E out \in {item.out, Append(item.out, Change), <<Change>>},
        row \in {item.row, Change}, soon \in BOOLEAN :
       LET it == [item EXCEPT !.out = out, !.row = row]
       IN /\ it # item
          /\ HeldBack(it) \/ Replaced(it, soon) \/ Grown(it, soon)
  /\ Changing

\* The timer of paced output publishes what was held back.
TimerFires ==
  /\ pace.timer
  /\ IF ~item.held
       THEN /\ pace' = NoPace
            /\ UNCHANGED <<seq, item, marked, log, main, detail>>
     ELSE IF pace.whole
       THEN /\ pace' = [pace EXCEPT !.at = TRUE, !.timer = FALSE,
                                    !.whole = FALSE, !.row = FALSE,
                                    !.rowAt = @ \/ pace.row]
            /\ Becomes(item, RowIf(pace.row, item), Body(item))
       ELSE /\ pace' = [pace EXCEPT !.timer = FALSE, !.row = FALSE,
                                    !.rowAt = TRUE]
            /\ Becomes(item, Row(item), Frame("current"))
  /\ UNCHANGED <<epoch, browser, spent>>

\* The provider's record of the conversation replaces what is held.
HistoryRead ==
  /\ \E kind \in IF item.held THEN {item.kind} ELSE Kinds,
        out \in {item.out, <<Change>>}, run \in BOOLEAN :
       LET it == [held |-> TRUE, kind |-> kind, out |-> out, row |-> Change,
                  running |-> run /\ kind = "tool"]
       IN Becomes(it, [Frame("history") EXCEPT !.row = Change], Frame("reset"))
  /\ Changing /\ UNCHANGED pace

\* The item is the oldest of more than are retained.
Trim ==
  /\ item.held
  /\ item' = NoItem /\ marked' = 0
  /\ seq' = seq + 1
  /\ LET f == [Frame("trimmed") EXCEPT !.seq = seq + 1]
     IN /\ main' = Push(main, f)
        /\ detail' = [Push(detail, f) EXCEPT !.watch = FALSE]
  /\ Logged(seq + 1, NoItem.out)
  /\ Changing /\ UNCHANGED pace

Restart ==
  /\ Spend("events", MaxEvents)
  /\ epoch' = epoch + 1
  /\ seq' = 0 /\ item' = NoItem /\ marked' = 0 /\ pace' = NoPace
  /\ log' = [k \in {0} |-> NoItem.out]
  /\ main' = [main EXCEPT !.open = FALSE]
  /\ detail' = [detail EXCEPT !.open = FALSE]
  /\ UNCHANGED browser

\* captureSubscription: registered with the snapshot it is sent first.
MainOpens ==
  /\ up = "asking"
  /\ up' = "on"
  /\ main' = [Gone EXCEPT !.open = TRUE,
                          !.first = <<[Frame("snapshot") EXCEPT !.seq = seq,
                                                !.row = item.row]>>]
  /\ UNCHANGED <<service, detail, es, page, card, body, spent>>

\* The page holds the body as it is: nothing was marked after what it covers.
CurrentAnyway(request) ==
  request.covered # None /\ request.epoch = epoch /\ request.covered <= seq
Current(request) ==
  /\ request.covered # None /\ request.epoch = epoch
  /\ request.covered <= seq /\ marked <= request.covered

\* subscribeDetailWindow
DetailOpens ==
  /\ es.phase = "asking"
  /\ es' = [es EXCEPT !.phase = "on"]
  /\ LET f == IF ~item.held THEN Frame("unavailable")
              ELSE IF Current(es) THEN Frame("current")
              ELSE Body(item)
     IN detail' = [open |-> TRUE, watch |-> item.held, queue |-> <<>>,
                   first |-> <<[f EXCEPT !.seq = seq],
                               [Frame("ready") EXCEPT !.seq = seq]>>]
  /\ UNCHANGED <<service, main, up, page, card, body, spent>>

-----------------------------------------------------------------------------
(* The page: detail-state.ts, Details.tsx and state.ts.                    *)

Waiting(sub) == sub.first \o sub.queue
Taken(sub) == IF sub.first # <<>> THEN [sub EXCEPT !.first = Tail(@)]
              ELSE [sub EXCEPT !.queue = Tail(@)]

Present(b) == b.status # "absent"

\* A body that reached number n.
Reached(b, n) ==
  [b EXCEPT !.seq = n, !.status = IF n >= b.floor THEN "loaded"
                                  ELSE "refreshing"]

Unavailable(f) ==
  [NoBody EXCEPT !.status = "unavailable", !.seq = f.seq, !.floor = f.seq]

\* detailReducer: a frame of the detail stream.
Reduce(b, f) ==
  CASE f.kind = "body" /\ Present(b) /\ f.seq >= b.seq ->
         Reached([b EXCEPT !.has = TRUE, !.out = f.out], f.seq)
    [] f.kind = "delta" /\ b.has /\ f.seq > b.seq ->
         Reached([b EXCEPT !.out = @ \o f.out], f.seq)
    [] f.kind = "current" /\ b.has /\ f.seq >= b.seq -> Reached(b, f.seq)
    [] f.kind \in {"unavailable", "trimmed"} /\ Present(b) -> Unavailable(f)
    [] f.kind = "reset" -> NoBody
    [] OTHER -> b

Refreshed(b) == IF b.has THEN "refreshing" ELSE "loading"

\* detailReducer: the row reached number n, the body has to.
Invalidated(b, n) ==
  IF ~Present(b) \/ n <= b.floor THEN b
  ELSE [b EXCEPT !.floor = n,
                 !.status = IF b.seq >= n THEN "loaded" ELSE Refreshed(b)]

\* detailReducer: the interests of a new detail stream.
Interested(b, listed) ==
  CASE listed -> [b EXCEPT !.status = Refreshed(b)]
    [] ~listed /\ b.status = "unavailable" -> b
    [] OTHER -> NoBody

\* detailReducer: the detail stream failed.
Failed(b, terminal) ==
  IF ~Present(b) THEN b
  ELSE [b EXCEPT !.status = IF terminal THEN "error" ELSE Refreshed(b)]

\* A detail stream is asked for, with what the page covers.
Asking(b, pg, tries) ==
  [phase |-> "asking", epoch |-> pg.epoch, tries |-> tries,
   covered |-> IF b.has THEN b.seq ELSE None]

\* The effect that owns the detail stream: the old one is closed, and one is
\* opened for what is listed while the main stream is live.
Stream(b, pg, listed) ==
  LET now == Invalidated(Interested(b, listed), pg.floor)
  IN /\ detail' = Gone
     /\ body' = IF pg.live THEN now ELSE b
     /\ es' = IF pg.live /\ listed THEN Asking(now, pg, 0) ELSE Idle

\* A card registers its interest again when the context it uses is renewed;
\* one whose row is gone lets it go.
Renewed(c) == [c EXCEPT !.fading = @ \/ c.open, !.tick = @ \/ c.open,
                        !.blocked = @ /\ ~c.open]
Unmounted(c) == [c EXCEPT !.fading = @ \/ c.open, !.open = FALSE]

\* A snapshot or a history: what was shown of the Thread is replaced.
ReplaceRows(f) ==
  /\ page' = [epoch |-> IF f.kind = "snapshot" THEN f.epoch ELSE page.epoch,
              row |-> f.row, floor |-> None, live |-> TRUE]
  /\ card' = [IF f.row = 0 THEN Unmounted(card) ELSE Renewed(card)
              EXCEPT !.blocked = FALSE, !.tick = TRUE]
  /\ IF f.kind = "snapshot" THEN Stream(NoBody, page', card.listed)
     ELSE body' = NoBody /\ UNCHANGED <<detail, es>>
Replace(f) ==
  /\ page' = [epoch |-> IF f.kind = "snapshot" THEN f.epoch ELSE page.epoch,
              row |-> f.row, floor |-> None, live |-> TRUE]
  /\ card' = [IF f.row = 0 THEN Unmounted(card) ELSE Renewed(card)
              EXCEPT !.blocked = FALSE, !.tick = TRUE]
  /\ Stream(NoBody, page', card.listed)

ReceiveMain ==
  /\ up = "on" /\ Waiting(main) # <<>>
  /\ main' = Taken(main)
  /\ LET f == Head(Waiting(main))
     IN CASE f.kind \in {"snapshot", "history"} -> Replace(f)
          [] f.kind = "row" ->
               /\ page' = [page EXCEPT !.row = f.row, !.floor = f.seq]
               /\ body' = Invalidated(body, f.seq)
               /\ UNCHANGED <<detail, es, card>>
          [] f.kind = "trimmed" ->
               /\ page' = [page EXCEPT !.row = 0, !.floor = None]
               /\ card' = Unmounted(card)
               /\ UNCHANGED <<detail, es, body>>
  /\ UNCHANGED <<service, up, spent>>

\* A connection ends because the service dropped it, or breaks by itself.
Ends(sub) ==
  \/ ~sub.open /\ UNCHANGED spent
  \/ sub.open /\ Spend("events", MaxEvents)

MainLost ==
  /\ up = "on" /\ Ends(main)
  /\ up' = "asking" /\ main' = Gone
  /\ page' = [page EXCEPT !.live = FALSE]
  /\ card' = Renewed(card)
  /\ Stream(body, page', card.listed)
  /\ UNCHANGED service

ReceiveDetail ==
  /\ es.phase = "on" /\ Waiting(detail) # <<>>
  /\ LET f == Head(Waiting(detail))
     IN IF f.epoch # page.epoch
          THEN /\ body' = Failed(body, TRUE)
               /\ es' = Idle /\ detail' = Gone
               /\ UNCHANGED card
          ELSE /\ body' = Reduce(body, f)
               /\ IF f.kind = "reset"
                    THEN es' = Idle /\ detail' = Gone
                    ELSE /\ es' = [es EXCEPT !.tries =
                                     IF f.kind = "ready" THEN 0 ELSE @]
                         /\ detail' = Taken(detail)
               /\ card' = IF f.kind \notin {"unavailable", "trimmed"}
                            THEN card
                          ELSE [card EXCEPT !.tick = TRUE, !.blocked =
                                 f.kind = "unavailable" \/ card.open
                                 \/ card.fading \/ @]
  /\ UNCHANGED <<service, main, up, page, spent>>

DetailLost ==
  /\ es.phase = "on" /\ Ends(detail)
  /\ detail' = Gone
  /\ body' = Failed(body, es.tries >= Attempts)
  /\ es' = IF es.tries >= Attempts THEN [es EXCEPT !.phase = "failed"]
           ELSE [es EXCEPT !.phase = "waiting", !.tries = @ + 1]
  /\ UNCHANGED <<service, main, up, page, card>>

DetailRetries ==
  /\ es.phase = "waiting"
  /\ es' = Asking(body, page, es.tries)
  /\ UNCHANGED <<service, main, detail, up, page, card, body, spent>>

OpenCard ==
  /\ page.row # 0 /\ ~card.open /\ Spend("events", MaxEvents)
  /\ card' = [card EXCEPT !.open = TRUE, !.blocked = FALSE, !.tick = TRUE]
  /\ UNCHANGED <<service, main, detail, up, es, page, body>>

CloseCard ==
  /\ card.open /\ Spend("events", MaxEvents)
  /\ card' = [card EXCEPT !.open = FALSE, !.fading = TRUE]
  /\ UNCHANGED <<service, main, detail, up, es, page, body>>

\* A card that closed lets its body go after it has faded.
Release ==
  /\ card.fading
  /\ card' = [card EXCEPT !.fading = FALSE, !.tick = TRUE,
                          !.blocked = @ /\ card.open]
  /\ body' = IF card.open THEN body ELSE NoBody
  /\ UNCHANGED <<service, main, detail, up, es, page, spent>>

RetryCard ==
  /\ card.open /\ body.status = "error" /\ ~card.retry
  /\ card' = [card EXCEPT !.blocked = FALSE, !.retry = TRUE, !.tick = TRUE]
  /\ UNCHANGED <<service, main, detail, up, es, page, body, spent>>

\* The interests are read; the stream is opened anew when they changed.
Wanted == (card.open \/ card.fading) /\ ~card.blocked
Tick ==
  /\ card.tick
  /\ card' = [card EXCEPT !.tick = FALSE, !.retry = FALSE, !.listed = Wanted]
  /\ IF Wanted # card.listed \/ card.retry
       THEN Stream(body, page, Wanted)
       ELSE UNCHANGED <<detail, es, body>>
  /\ UNCHANGED <<service, main, up, page, spent>>

\* Another card is opened or closed: this one's body continues.
OtherCard ==
  /\ card.listed /\ Spend("events", MaxEvents)
  /\ card' = [card EXCEPT !.tick = FALSE, !.retry = FALSE, !.listed = Wanted]
  /\ Stream(body, page, Wanted)
  /\ UNCHANGED <<service, main, up, page>>

-----------------------------------------------------------------------------

Provider == (\E kind \in Kinds : Appear(kind)) \/ Progress \/ Complete
            \/ Correct \/ Think \/ Output \/ HistoryRead \/ Trim
Owner == OpenCard \/ CloseCard \/ RetryCard \/ OtherCard
Connections == MainOpens \/ DetailOpens \/ MainLost \/ DetailLost
               \/ DetailRetries
Page == ReceiveMain \/ ReceiveDetail \/ Release \/ Tick

Next == Provider \/ TimerFires \/ Restart \/ Connections \/ Page \/ Owner

Spec == Init /\ [][Next]_vars

\* Timers fire, frames are delivered, connections are opened again.
Fairness ==
  /\ WF_vars(TimerFires) /\ WF_vars(MainOpens) /\ WF_vars(DetailOpens)
  /\ WF_vars(MainLost /\ ~main.open) /\ WF_vars(DetailLost /\ ~detail.open)
  /\ WF_vars(DetailRetries) /\ WF_vars(ReceiveMain) /\ WF_vars(ReceiveDetail)
  /\ WF_vars(Release) /\ WF_vars(Tick)

FairSpec == Spec /\ Fairness

-----------------------------------------------------------------------------

\* What the page holds of a body at a number is what the item was then: no
\* text is applied twice, to the wrong output or not at all, and a body it need
\* not be sent again had not changed.
BodyIsAsOf ==
  body.has /\ page.epoch = epoch => body.out = log[body.seq]

\* A body said to be loaded is not older than the row above it, in whichever
\* order the two streams deliver.
LoadedCoversRow == body.status = "loaded" => body.seq >= page.floor

Drained(sub) == sub.open /\ Waiting(sub) = <<>>
Quiet == up = "on" /\ Drained(main) /\ ~pace.timer /\ ~card.tick
BodyShown == body.status = "loaded" /\ body.out = item.out

\* When the main stream has nothing on its way and no output is held back, the
\* page shows the row of the item as it is: what was paced, trimmed, replaced
\* or published while the page was away is not lost.
RowIsRight == Quiet => page.row = item.row

\* When the detail stream has nothing on its way either, an open card shows the
\* whole body and does not wait for more: each row that raises the number the
\* body has to reach is followed by a frame that reaches it.
BodyIsRight ==
  Quiet /\ Drained(detail) /\ detail.watch /\ Present(body) => BodyShown

\* Whatever was cut, dropped or restarted, once it is over the page comes to
\* show the item as it is: an open card has its stream, unless that was given
\* up, and the body it is sent.
Converged ==
  /\ page.live /\ page.row = item.row
  /\ card.listed => es.phase \in {"on", "failed"}
  /\ detail.watch /\ Present(body) => BodyShown
Converges == <>[]Converged

\* A detail stream that was given up is not waited for: the card says so and
\* offers to retry.
GivenUpIsShown ==
  es.phase = "failed" => body.status \notin {"loading", "refreshing"}
=============================================================================

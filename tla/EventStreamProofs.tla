------------------------ MODULE EventStreamProofs ------------------------
(***************************************************************************)
(* What a page shows of an item, for any number of changes, of broken      *)
(* connections, of restarts of uam, and any length of a subscriber's       *)
(* queue.                                                                  *)
(***************************************************************************)
EXTENDS EventStream, TLAPS, SequenceTheorems

-----------------------------------------------------------------------------

\* The item and what it was.
ItemKept ==
  /\ ~item.held => item = NoItem
  /\ item.kind = "thought" => ~item.running
  /\ item.held => \A n \in marked..seq : log[n] = item.out
  /\ pace.whole => pace.timer
  /\ item.row <= spent.changes + 1

\* The row that the page shows once it has what waits for it.
LastRow == LET w == Waiting(main)
           IN IF w = <<>> THEN page.row ELSE w[Len(w)].row

\* A row that the page does not have is due, and its timer runs.
RowDue == item.held /\ item.running /\ pace.row /\ pace.timer
RowFollows == up = "on" /\ main.open => LastRow = item.row \/ RowDue

\* Epochs go forward.  What waits on the main stream is about the item's row.
MainFrame(f) ==
  /\ f.epoch <= epoch
  /\ f.kind \in {"snapshot", "history", "row", "trimmed"}
  /\ f.kind = "trimmed" => f.row = 0
MainKept ==
  /\ page.epoch <= epoch
  /\ \A i \in DOMAIN Waiting(main) : MainFrame(Waiting(main)[i])

\* The page is of this life of uam.
Fresh == page.epoch = epoch

\* The number that a frame of w builds on: of the frame before it, or of the
\* body that the page holds.
Known(b, i) == i > 1 \/ b.has
Prev(b, w, i) == IF i = 1 THEN b.seq ELSE w[i - 1].seq

DetailKinds == {"body", "delta", "current", "unavailable", "trimmed", "ready",
                "reset"}

\* A frame says how the item, which was as in lg, got from the number before it
\* to its own.
Follows(lg, b, w, i) ==
  LET f == w[i]
      p == Prev(b, w, i)
  IN /\ p <= f.seq
     /\ f.kind = "delta" => p < f.seq /\ lg[f.seq] = lg[p] \o f.out
     /\ f.kind = "current" => lg[f.seq] = lg[p]
     /\ f.kind = "ready" => f.seq = p

Fits(lg, n, b, w, i) ==
  /\ w[i].kind \in DetailKinds /\ w[i].epoch = epoch /\ w[i].seq \in 0..n
  /\ w[i].kind = "body" => w[i].out = lg[w[i].seq]
  /\ Known(b, i) => Follows(lg, b, w, i)

Chained(b, w) == \A i \in DOMAIN w : Fits(log, seq, b, w, i)

\* What the page holds, and what its next request says of it.
Holds == /\ body.has => /\ Present(body)
                        /\ body.seq \in 0..seq
                        /\ body.out = log[body.seq]
         /\ es.phase = "asking" /\ body.has => es.covered = body.seq

\* The output that goes to the page is built on what it has by then, unless all
\* of it is to be published again.
Exact == item.kind = "thought" \/ ~pace.whole
Synced(b, w) ==
  detail.open /\ detail.watch =>
    /\ item.held
    /\ Exact /\ Known(b, Len(w) + 1) => log[Prev(b, w, Len(w) + 1)] = item.out

StreamKept ==
  Fresh => Holds /\ Chained(body, Waiting(detail))
                 /\ Synced(body, Waiting(detail))

-----------------------------------------------------------------------------
(* Types.                                                                  *)

SubTyped(sub) == sub \in Subscribers /\ Len(sub.queue) <= Queue
ItemTyped == item \in Items /\ pace \in Paces
BodyRecords == [status : Statuses, seq : Nat \cup {None},
                floor : Nat \cup {None}, has : BOOLEAN, out : Changes]
EsRecords == [phase : {"none", "asking", "on", "waiting", "failed"}, epoch : Nat,
              covered : Nat \cup {None}, tries : 0..Attempts]
PageRecords == [epoch : Nat, row : Rows, floor : Nat \cup {None}, live : BOOLEAN]
CardRecords == [open : BOOLEAN, fading : BOOLEAN, blocked : BOOLEAN,
                listed : BOOLEAN, tick : BOOLEAN, retry : BOOLEAN]

ServiceTyped == /\ epoch \in Nat /\ seq \in Nat /\ marked \in 0..seq
                /\ item \in Items /\ pace \in Paces
                /\ log \in [0..seq -> Changes]
                /\ spent \in [changes : 0..MaxChanges, events : 0..MaxEvents]
PageTyped == /\ up \in {"asking", "on"} /\ es \in EsRecords
             /\ page \in PageRecords /\ card \in CardRecords
             /\ body \in BodyRecords

Typed == ServiceTyped /\ PageTyped /\ SubTyped(main) /\ SubTyped(detail)

Inv == Typed /\ ItemKept /\ RowFollows /\ MainKept /\ StreamKept

LEMMA TypeParts == TypeOK <=> Typed
  BY DEF TypeOK, Typed, ServiceTyped, PageTyped, SubTyped, EsRecords, PageRecords,
         CardRecords, BodyRecords

LEMMA PushTyped ==
  ASSUME NEW sub, SubTyped(sub), NEW f \in FrameRecords
  PROVE  SubTyped(Push(sub, f))
  <1> DEFINE q == Append(sub.queue, f)
  <1>1. sub \in [open : BOOLEAN, watch : BOOLEAN, first : Frames, queue : Frames]
    BY DEF SubTyped, Subscribers
  <1>2. CASE sub.open /\ Len(sub.queue) < Queue
    <2>1. q \in Frames /\ Len(q) = Len(sub.queue) + 1 /\ Len(sub.queue) \in Nat
      BY <1>1 DEF Frames
    <2>2. Push(sub, f) = [sub EXCEPT !.queue = q]
      BY <1>2 DEF Push
    <2>3. Push(sub, f) \in Subscribers /\ Push(sub, f).queue = q
      BY <1>1, <2>1, <2>2 DEF Subscribers
    <2> QED
      BY <1>2, <2>1, <2>3, EventStreamConstants DEF SubTyped
  <1>3. CASE ~(sub.open /\ Len(sub.queue) < Queue)
    BY <1>1, <1>3 DEF Push, SubTyped, Subscribers
  <1> QED
    BY <1>2, <1>3

\* One more frame.
LEMMA OneMore ==
  ASSUME NEW w \in Seq(FrameRecords), NEW g \in FrameRecords
  PROVE  /\ Append(w, g) \in Seq(FrameRecords) /\ Append(w, g) # <<>>
         /\ Len(w) \in Nat /\ Len(Append(w, g)) = Len(w) + 1
         /\ DOMAIN w = 1..Len(w) /\ DOMAIN Append(w, g) = 1..(Len(w) + 1)
         /\ Append(w, g)[Len(w) + 1] = g
         /\ \A i \in 1..Len(w) : Append(w, g)[i] = w[i]
  OBVIOUS

\* The frames that wait: the head is one, and what is taken is the head.
LEMMA WaitingHead ==
  ASSUME NEW a \in Seq(FrameRecords), NEW b \in Seq(FrameRecords), a \o b # <<>>
  PROVE  /\ Head(a \o b) = IF a # <<>> THEN Head(a) ELSE Head(b)
         /\ Head(a \o b) \in FrameRecords
         /\ Tail(a \o b) = IF a # <<>> THEN Tail(a) \o b ELSE a \o Tail(b)
         /\ a = <<>> => b # <<>>
  <1>1. CASE a # <<>>
    <2>1. Len(a) > 0 /\ Len(a \o b) > 0
      BY <1>1
    <2>2. Head(a \o b) = Head(a) /\ Head(a) \in FrameRecords
      BY <1>1, <2>1
    <2>3. Tail(a \o b) = Tail(a) \o b
      BY <1>1, <2>1
    <2> QED
      BY <1>1, <2>2, <2>3
  <1>2. CASE a = <<>>
    <2>1. a \o b = b /\ a \o Tail(b) = Tail(b)
      BY <1>2
    <2> QED
      BY <1>2, <2>1
  <1> QED
    BY <1>1, <1>2

LEMMA TakenTyped ==
  ASSUME NEW sub, SubTyped(sub), Waiting(sub) # <<>>
  PROVE  /\ SubTyped(Taken(sub)) /\ Head(Waiting(sub)) \in FrameRecords
         /\ Waiting(Taken(sub)) = Tail(Waiting(sub))
         /\ Taken(sub).open = sub.open /\ Taken(sub).watch = sub.watch
  <1>1. /\ sub \in [open : BOOLEAN, watch : BOOLEAN, first : Frames, queue : Frames]
        /\ sub.first \in Seq(FrameRecords) /\ sub.queue \in Seq(FrameRecords)
    BY DEF SubTyped, Subscribers, Frames
  <1>2. /\ Head(Waiting(sub)) \in FrameRecords
        /\ Tail(Waiting(sub)) = IF sub.first # <<>> THEN Tail(sub.first) \o sub.queue
                                ELSE sub.first \o Tail(sub.queue)
        /\ sub.first = <<>> => sub.queue # <<>>
    BY <1>1, WaitingHead DEF Waiting
  <1>3. CASE sub.first # <<>>
    <2>1. Tail(sub.first) \in Frames
      BY <1>1, <1>3 DEF Frames
    <2> QED
      BY <1>1, <1>2, <1>3, <2>1 DEF SubTyped, Subscribers, Taken, Waiting
  <1>4. CASE sub.first = <<>>
    <2>1. Tail(sub.queue) \in Frames /\ Len(Tail(sub.queue)) < Len(sub.queue)
      BY <1>1, <1>2, <1>4 DEF Frames
    <2>2. Len(Tail(sub.queue)) \in Nat /\ Len(sub.queue) \in Nat
      BY <1>1, <2>1 DEF Frames
    <2>3. Taken(sub) = [sub EXCEPT !.queue = Tail(sub.queue)]
      BY <1>4 DEF Taken
    <2>4. /\ Taken(sub) \in Subscribers /\ Taken(sub).first = sub.first
          /\ Taken(sub).queue = Tail(sub.queue)
          /\ Taken(sub).open = sub.open /\ Taken(sub).watch = sub.watch
      BY <1>1, <2>1, <2>3 DEF Subscribers
    <2>5. Len(Tail(sub.queue)) <= Queue
      BY <2>1, <2>2, EventStreamConstants DEF SubTyped
    <2> QED
      BY <1>2, <1>4, <2>4, <2>5 DEF SubTyped, Waiting
  <1> QED
    BY <1>3, <1>4

LEMMA NoneTyped ==
  ASSUME ServiceTyped
  PROVE  /\ SubTyped(Gone) /\ NoBody \in BodyRecords /\ Idle \in EsRecords
         /\ NoItem \in Items /\ NoPace \in Paces /\ <<>> \in Changes
  BY EventStreamConstants
     DEF SubTyped, Subscribers, Gone, Frames, NoBody, BodyRecords, Statuses,
         Idle, EsRecords, NoItem, Items, NoPace, Paces, Changes, Rows, None

\* Every frame is one.
LEMMA FramesTyped ==
  ASSUME ServiceTyped, NEW n \in Nat, NEW it \in Items, NEW text \in Changes,
         NEW row \in Rows
  PROVE  /\ [Row(it) EXCEPT !.seq = n] \in FrameRecords
         /\ [Body(it) EXCEPT !.seq = n] \in FrameRecords
         /\ [Delta(text) EXCEPT !.seq = n] \in FrameRecords
         /\ \A kind \in {"current", "reset", "trimmed", "unavailable", "ready"} :
              [Frame(kind) EXCEPT !.seq = n] \in FrameRecords
         /\ [[Frame("history") EXCEPT !.row = row] EXCEPT !.seq = n] \in FrameRecords
         /\ [Frame("snapshot") EXCEPT !.seq = n, !.row = row] \in FrameRecords
         /\ Row(it) # NoFrame /\ Body(it) # NoFrame /\ Delta(text) # NoFrame
  BY NoneTyped
     DEF ServiceTyped, Row, Body, Delta, Frame, NoFrame, FrameRecords, Items, Rows

-----------------------------------------------------------------------------
(* What a change of the item publishes.                                    *)

Publishable(f) ==
  f # NoFrame => \A n \in Nat : [f EXCEPT !.seq = n] \in FrameRecords

LEMMA FramesArePublishable ==
  ASSUME ServiceTyped, NEW it \in Items, NEW text \in Changes, NEW row \in Rows
  PROVE  /\ Publishable(Row(it)) /\ Publishable(Body(it))
         /\ Publishable(Delta(text)) /\ Publishable(NoFrame)
         /\ Publishable(Frame("current")) /\ Publishable(Frame("reset"))
         /\ Publishable([Frame("history") EXCEPT !.row = row])
         /\ \A due \in BOOLEAN : Publishable(RowIf(due, it))
  BY FramesTyped DEF Publishable, RowIf

\* The numbers go up, what the item was stays, and it is what it becomes from
\* the number on at which it is marked.
LEMMA BecomesLogged ==
  ASSUME ServiceTyped, ItemKept, NEW it \in Items, item.held \/ it # item,
         NEW row, NEW f, Becomes(it, row, f)
  PROVE  /\ seq' \in Nat /\ seq' >= seq /\ (f # NoFrame => seq' > seq)
         /\ item' = it /\ marked' \in 0..seq'
         /\ log' \in [0..seq' -> Changes]
         /\ \A k \in 0..seq : log'[k] = log[k]
         /\ \A k \in marked'..seq' : log'[k] = it.out
         /\ log'[seq'] = it.out
  <1> DEFINE n == IF it # item THEN seq + 1 ELSE seq
  <1>1. /\ seq \in Nat /\ marked \in 0..seq /\ log \in [0..seq -> Changes]
        /\ it.out \in Changes /\ n \in Nat /\ n \in {seq, seq + 1}
    BY DEF ServiceTyped, Items
  <1>2. /\ item' = it /\ marked' = IF it # item THEN n ELSE marked
        /\ log' = [k \in 0..seq' |-> IF k < n THEN log[k] ELSE it.out]
    BY DEF Becomes, Logged
  <1>3. seq' \in {n, n + 1, n + 2} /\ (f # NoFrame => seq' > n)
    BY <1>1 DEF Becomes, Publish
  <1>4. it = item => item.held /\ n = seq
    OBVIOUS
  <1>5. \A k \in 0..seq' : log'[k] = IF k < n THEN log[k] ELSE it.out
    BY <1>2
  <1>6. it = item => \A k \in marked..seq : log[k] = it.out
    BY <1>4 DEF ItemKept
  <1>7. \A k \in 0..seq : log'[k] = log[k]
    BY <1>1, <1>3, <1>4, <1>5, <1>6
  <1>8. \A k \in marked'..seq' : log'[k] = it.out
    <2>1. CASE it # item
      BY <1>1, <1>2, <1>3, <1>5, <2>1
    <2>2. CASE it = item
      BY <1>1, <1>2, <1>3, <1>4, <1>5, <1>6, <2>2
    <2> QED
      BY <2>1, <2>2
  <1>9. log' \in [0..seq' -> Changes]
    BY <1>1, <1>2, <1>3
  <1>10. seq' \in Nat /\ seq' >= n /\ n >= seq /\ marked' \in 0..seq'
    BY <1>1, <1>2, <1>3
  <1>11. log'[seq'] = it.out
    BY <1>1, <1>5, <1>10
  <1>12. seq' >= seq /\ (f # NoFrame => seq' > seq)
    <2> HIDE DEF n
    <2> QED
      BY <1>1, <1>3, <1>10
  <1> QED
    BY <1>2, <1>7, <1>8, <1>9, <1>10, <1>11, <1>12

LEMMA BecomesSends ==
  ASSUME ServiceTyped, NEW it, NEW row, NEW f, Becomes(it, row, f)
  PROVE  /\ \E r \in Nat : main' = IF row = NoFrame THEN main
                                   ELSE Push(main, [row EXCEPT !.seq = r])
         /\ detail' = IF ToDetail(f) THEN Push(detail, [f EXCEPT !.seq = seq'])
                      ELSE detail
  <1> DEFINE n == IF it # item THEN seq + 1 ELSE seq
             r == IF row = NoFrame THEN n ELSE n + 1
  <1>1. r \in Nat
    BY DEF ServiceTyped
  <1>2. Publish(n, row, f)
    BY DEF Becomes
  <1>3. main' = IF row = NoFrame THEN main ELSE Push(main, [row EXCEPT !.seq = r])
    BY <1>2 DEF Publish
  <1>4. detail' = IF ToDetail(f) THEN Push(detail, [f EXCEPT !.seq = seq'])
                  ELSE detail
    BY <1>2 DEF Publish
  <1> HIDE DEF r
  <1> QED
    BY <1>1, <1>3, <1>4

LEMMA BecomesTyped ==
  ASSUME ServiceTyped, SubTyped(main), SubTyped(detail), seq' \in Nat,
         NEW it \in Items, NEW row, NEW f, Publishable(row), Publishable(f),
         Becomes(it, row, f)
  PROVE  SubTyped(main') /\ SubTyped(detail')
  <1>1. PICK r \in Nat : main' = IF row = NoFrame THEN main
                                ELSE Push(main, [row EXCEPT !.seq = r])
    BY BecomesSends
  <1>2. detail' = IF ToDetail(f) THEN Push(detail, [f EXCEPT !.seq = seq'])
                  ELSE detail
    BY BecomesSends
  <1>3. row # NoFrame => SubTyped(Push(main, [row EXCEPT !.seq = r]))
    BY PushTyped DEF Publishable
  <1>4. f # NoFrame => SubTyped(Push(detail, [f EXCEPT !.seq = seq']))
    BY PushTyped DEF Publishable
  <1>5. ToDetail(f) => f # NoFrame
    BY DEF ToDetail, NoFrame, Frame
  <1> QED
    BY <1>1, <1>2, <1>3, <1>4, <1>5

-----------------------------------------------------------------------------
(* Every change of the item, and the timer, are publications: a frame says *)
(* truly how the output came from what it was, or what it is; a row that   *)
(* is not sent is as it was, or due.                                       *)

ExactAt(it, pc) == it.kind = "thought" \/ ~pc.whole
DueAt(it, pc) == it.held /\ it.running /\ pc.row /\ pc.timer

BodySuits(it, f) ==
  /\ f.kind \in {"none", "body", "delta", "current", "reset"}
  /\ f.epoch = epoch
  /\ f.kind = "body" => f.out = it.out
  /\ f.kind = "delta" => /\ item.held /\ ExactAt(item, pace)
                         /\ it.out = item.out \o f.out
  /\ f.kind = "current" => /\ item.held /\ ExactAt(item, pace)
                           /\ it.out = item.out
  /\ f.kind = "none" =>
       /\ f = NoFrame /\ item.held
       /\ ExactAt(it, pace') => ExactAt(item, pace) /\ it.out = item.out

RowSuits(it, row) ==
  /\ row # NoFrame => /\ row.row = it.row /\ row.epoch = epoch
                     /\ row.kind \in {"row", "history"}
  /\ row = NoFrame => \/ DueAt(it, pace')
                      \/ it.row = item.row /\ ~DueAt(item, pace)

SpentTyped == spent \in [changes : 0..MaxChanges, events : 0..MaxEvents]

Publication(it, row, f) ==
  /\ it \in Items /\ it.held /\ (it.kind = "thought" => ~it.running)
  /\ item.held \/ it # item
  /\ pace' \in Paces /\ (pace'.whole => pace'.timer)
  /\ Publishable(row) /\ Publishable(f) /\ Becomes(it, row, f)
  /\ BodySuits(it, f) /\ RowSuits(it, row)
  /\ SpentTyped' /\ UNCHANGED <<epoch, browser>>
  /\ it.row <= spent'.changes + 1

LEMMA ChangingSpends ==
  ASSUME ServiceTyped, Changing
  PROVE  /\ SpentTyped' /\ UNCHANGED <<epoch, browser>>
         /\ spent'.changes + 1 = Change /\ spent.changes + 1 < Change
         /\ Change \in Numbers /\ Change \in Rows /\ <<Change>> \in Changes
         /\ \A out \in Changes : Append(out, Change) \in Changes
  <1>1. /\ spent \in [changes : 0..MaxChanges, events : 0..MaxEvents]
        /\ spent.changes < MaxChanges
        /\ spent' = [spent EXCEPT !.changes = @ + 1]
    BY DEF ServiceTyped, Changing, Spend
  <1>2. MaxChanges \in Nat /\ MaxEvents \in Nat
    BY EventStreamConstants
  <1>3. Change \in Numbers
    BY <1>1, <1>2 DEF Change, Numbers
  <1>4. SpentTyped'
    BY <1>1, <1>2 DEF SpentTyped
  <1>5. spent'.changes + 1 = Change /\ spent.changes + 1 < Change
    BY <1>1 DEF Change
  <1> QED
    BY <1>3, <1>4, <1>5 DEF Changing, Rows, Changes

LEMMA FrameKinds ==
  ASSUME NEW it, NEW text, NEW row
  PROVE  /\ Row(it).kind = "row" /\ Row(it).row = it.row /\ Row(it) # NoFrame
         /\ Body(it).kind = "body" /\ Body(it).out = it.out
         /\ Delta(text).kind = "delta" /\ Delta(text).out = text
         /\ Frame("current").kind = "current" /\ Frame("reset").kind = "reset"
         /\ NoFrame.kind = "none" /\ NoFrame.epoch = epoch
         /\ Row(it).epoch = epoch /\ Body(it).epoch = epoch /\ Delta(text).epoch = epoch
         /\ Frame("current").epoch = epoch /\ Frame("reset").epoch = epoch
         /\ [Frame("history") EXCEPT !.row = row].epoch = epoch
         /\ [Frame("history") EXCEPT !.row = row].row = row
         /\ [Frame("history") EXCEPT !.row = row].kind = "history"
         /\ [Frame("history") EXCEPT !.row = row] # NoFrame
  BY DEF Row, Body, Delta, NoFrame, Frame

\* A row that is sent is the item's; one that is not is as it was, or due.
LEMMA RowsSuit ==
  ASSUME NEW it, NEW due,
         \/ due \/ DueAt(it, pace')
         \/ it.row = item.row /\ ~DueAt(item, pace)
  PROVE  RowSuits(it, RowIf(due, it))
  <1>1. CASE due
    <2>1. RowIf(due, it) = Row(it) /\ Row(it) # NoFrame
      BY <1>1, FrameKinds DEF RowIf
    <2> QED
      BY <2>1 DEF RowSuits, Row, Frame
  <1>2. CASE ~due
    BY <1>2 DEF RowSuits, RowIf
  <1> QED
    BY <1>1, <1>2

LEMMA AppearPublishes ==
  ASSUME Typed, ItemKept, NEW kind \in Kinds, Appear(kind)
  PROVE  \E it, row, f : Publication(it, row, f)
  <1>1. ServiceTyped /\ Kinds \subseteq {"tool", "thought"}
    BY EventStreamConstants DEF Typed
  <1>2. /\ SpentTyped' /\ UNCHANGED <<epoch, browser>>
        /\ Change \in Rows /\ <<Change>> \in Changes /\ spent'.changes + 1 = Change
    BY <1>1, ChangingSpends DEF Appear
  <1>3. PICK out \in {<<>>, <<Change>>} :
          LET it == [held |-> TRUE, kind |-> kind, running |-> kind = "tool",
                     out |-> out, row |-> Change]
          IN Becomes(it, Row(it), Body(it))
    BY DEF Appear
  <1> DEFINE it == [held |-> TRUE, kind |-> kind, running |-> kind = "tool",
                    out |-> out, row |-> Change]
  <1>4. it \in Items
    BY <1>1, <1>2, NoneTyped DEF Items
  <1>5. pace' = NoPace /\ NoPace \in Paces /\ ~NoPace.whole
    BY <1>1, NoneTyped DEF Appear, NoPace
  <1>6. Publishable(Row(it)) /\ Publishable(Body(it))
    BY <1>1, <1>2, <1>4, NoneTyped, FramesArePublishable
  <1>7. BodySuits(it, Body(it)) /\ RowSuits(it, Row(it))
    BY FrameKinds, ZenonT(60) DEF BodySuits, RowSuits
  <1>8. it # item
    BY DEF Appear
  <1>9. it.held /\ (it.kind = "thought" => ~it.running) /\ it.row = Change
    OBVIOUS
  <1>11. Change <= spent'.changes + 1
    BY <1>1, <1>2 DEF ServiceTyped, Change
  <1> HIDE DEF it
  <1>10. Publication(it, Row(it), Body(it))
    BY <1>2, <1>4, <1>5, <1>6, <1>7, <1>8, <1>9, <1>11, <1>3 DEF Publication, it
  <1> QED
    BY <1>10

\* What Progress, Complete and Correct share.
LEMMA UpdatePublishes ==
  ASSUME Typed, ItemKept, item.held, NEW it \in Items, it.held,
         it.kind = "thought" => ~it.running,
         item.running => it.row # item.row,
         it.row = item.row \/ it.row = Change, Update(it)
  PROVE  \E jt, row, f : Publication(jt, row, f)
  <1>1. ServiceTyped
    BY DEF Typed
  <1>2. /\ SpentTyped' /\ UNCHANGED <<epoch, browser>>
        /\ spent'.changes + 1 = Change /\ spent.changes + 1 < Change
    BY <1>1, ChangingSpends DEF Update
  <1>7. it.row <= spent'.changes + 1
    <2>1. item.row \in Nat /\ spent.changes \in Nat /\ Change \in Nat
      BY <1>1, EventStreamConstants DEF ServiceTyped, Items, Rows, Numbers, Change
    <2> QED
      BY <1>2, <2>1 DEF ItemKept
  <1> DEFINE row == RowIf(it.row # item.row, it)
  <1>3. pace' = NoPace /\ NoPace \in Paces /\ ~NoPace.whole /\ Becomes(it, row, Body(it))
    BY <1>1, NoneTyped DEF Update, NoPace
  <1>4. Publishable(row) /\ Publishable(Body(it))
    <2>1. <<>> \in Changes /\ 0 \in Rows
      BY <1>1, NoneTyped DEF Rows
    <2>2. (it.row # item.row) \in BOOLEAN
      OBVIOUS
    <2> QED
      BY <1>1, <2>1, <2>2, FramesArePublishable
  <1>5. BodySuits(it, Body(it))
    BY FrameKinds DEF BodySuits
  <1>6. RowSuits(it, row)
    BY FrameKinds DEF RowSuits, RowIf, DueAt
  <1> QED
    BY <1>2, <1>3, <1>4, <1>5, <1>6, <1>7 DEF Publication

\* A change that shows in the row is a new one.
LEMMA ChangeIsNew ==
  ASSUME ServiceTyped, ItemKept
  PROVE  item.row # Change
  <1>1. item.row \in Nat /\ spent.changes \in Nat
    BY EventStreamConstants DEF ServiceTyped, Items, Rows, Numbers
  <1> QED
    BY <1>1 DEF ItemKept, Change

LEMMA ProgressPublishes ==
  ASSUME Typed, ItemKept, Progress
  PROVE  \E it, row, f : Publication(it, row, f)
  <1> DEFINE it == [item EXCEPT !.row = Change]
  <1>1. ServiceTyped /\ Changing
    BY DEF Typed, Progress, Update
  <1>2. Change \in Rows /\ item.row # Change
    BY <1>1, ChangingSpends, ChangeIsNew
  <1>3. /\ it \in Items /\ it.held /\ it.row = Change /\ it.kind = item.kind
        /\ it.running = item.running
    BY <1>1, <1>2 DEF Progress, ServiceTyped, Items
  <1> QED
    BY <1>2, <1>3, UpdatePublishes DEF Progress, ItemKept

LEMMA CompletePublishes ==
  ASSUME Typed, ItemKept, Complete
  PROVE  \E it, row, f : Publication(it, row, f)
  <1>1. ServiceTyped /\ Changing
    BY DEF Typed, Complete, Update
  <1>2. PICK out \in {item.out, Append(item.out, Change), <<Change>>} :
          Update([item EXCEPT !.running = FALSE, !.row = Change, !.out = out])
    BY DEF Complete
  <1> DEFINE it == [item EXCEPT !.running = FALSE, !.row = Change, !.out = out]
  <1>3. /\ item \in Items /\ item.out \in Changes /\ Change \in Rows
        /\ out \in Changes /\ item.row # Change
    BY <1>1, ChangingSpends, ChangeIsNew DEF ServiceTyped, Items
  <1>4. it \in Items /\ it.held = item.held /\ ~it.running /\ it.row = Change
    BY <1>3 DEF Items
  <1> HIDE DEF it
  <1> QED
    BY <1>2, <1>3, <1>4, UpdatePublishes DEF Complete, it

LEMMA CorrectPublishes ==
  ASSUME Typed, ItemKept, Correct
  PROVE  \E it, row, f : Publication(it, row, f)
  <1>1. ServiceTyped /\ Changing
    BY DEF Typed, Correct, Update
  <1>2. PICK new \in {item.row, Change} :
          Update([item EXCEPT !.out = <<Change>>, !.row = new])
    BY DEF Correct
  <1> DEFINE it == [item EXCEPT !.out = <<Change>>, !.row = new]
  <1>3. item \in Items /\ new \in Rows /\ <<Change>> \in Changes
    BY <1>1, ChangingSpends DEF ServiceTyped, Items
  <1>4. it \in Items /\ it.held = item.held /\ it.running = item.running /\ it.row = new
    BY <1>3 DEF Items
  <1> HIDE DEF it
  <1> QED
    BY <1>2, <1>3, <1>4, UpdatePublishes DEF Correct, it

LEMMA ThinkPublishes ==
  ASSUME Typed, ItemKept, Think
  PROVE  \E it, row, f : Publication(it, row, f)
  <1> DEFINE new == item.out = <<>>
             it == [item EXCEPT !.out = Append(@, Change),
                                !.row = IF new THEN Change ELSE @]
             row == RowIf(new, it)
             f == Delta(<<Change>>)
  <1>1. ServiceTyped /\ Changing /\ item.held /\ item.kind = "thought"
    BY DEF Typed, Think
  <1>2. /\ item \in Items /\ item.out \in Changes /\ Change \in Rows
        /\ Append(item.out, Change) \in Changes /\ <<Change>> \in Changes
        /\ Append(item.out, Change) = item.out \o <<Change>>
    BY <1>1, ChangingSpends DEF ServiceTyped, Items, Changes
  <1>3. /\ it \in Items /\ it.held /\ it.kind = "thought" /\ ~it.running
        /\ it.out = item.out \o <<Change>> /\ it.row \in {item.row, Change}
        /\ ~new => it.row = item.row
    BY <1>1, <1>2 DEF Items, ItemKept
  <1>4. Becomes(it, row, f) /\ pace' = pace /\ pace \in Paces
    BY <1>1 DEF Think, ServiceTyped
  <1>5. it.row <= spent'.changes + 1 /\ SpentTyped' /\ UNCHANGED <<epoch, browser>>
    <2>1. item.row \in Nat /\ spent.changes \in Nat /\ Change \in Nat
      BY <1>1, EventStreamConstants DEF ServiceTyped, Items, Rows, Numbers, Change
    <2> HIDE DEF it
    <2> QED
      BY <1>1, <1>3, <2>1, ChangingSpends DEF ItemKept
  <1> HIDE DEF it
  <1>6. Publishable(row) /\ Publishable(f)
    BY <1>1, <1>2, <1>3, FramesArePublishable
  <1>7. BodySuits(it, f)
    BY <1>1, <1>3, FrameKinds DEF BodySuits, ExactAt
  <1>8. RowSuits(it, row)
    BY <1>1, <1>3, RowsSuit DEF DueAt, ItemKept
  <1> QED
    BY <1>1, <1>3, <1>4, <1>5, <1>6, <1>7, <1>8 DEF Publication, ItemKept

LEMMA HistoryPublishes ==
  ASSUME Typed, ItemKept, HistoryRead
  PROVE  \E it, row, f : Publication(it, row, f)
  <1>1. ServiceTyped /\ Changing /\ Kinds \subseteq {"tool", "thought"}
    BY EventStreamConstants DEF Typed, HistoryRead
  <1> DEFINE row == [Frame("history") EXCEPT !.row = Change]
             f == Frame("reset")
  <1>2. PICK kind \in IF item.held THEN {item.kind} ELSE Kinds,
             out \in {item.out, <<Change>>}, run \in BOOLEAN :
          Becomes([held |-> TRUE, kind |-> kind, out |-> out, row |-> Change,
                   running |-> run /\ kind = "tool"], row, f)
    BY DEF HistoryRead
  <1> DEFINE it == [held |-> TRUE, kind |-> kind, out |-> out, row |-> Change,
                    running |-> run /\ kind = "tool"]
  <1>3. /\ item \in Items /\ item.out \in Changes /\ Change \in Rows
        /\ <<Change>> \in Changes /\ item.row # Change
        /\ item.kind \in {"tool", "thought"}
    BY <1>1, ChangingSpends, ChangeIsNew DEF ServiceTyped, Items
  <1>4. /\ it \in Items /\ it.held /\ it.row = Change
        /\ it.kind = "thought" => ~it.running
    BY <1>1, <1>3 DEF Items
  <1>5. it # item
    BY <1>3, <1>4
  <1>6. pace' = pace /\ pace \in Paces
    BY <1>1 DEF HistoryRead, ServiceTyped
  <1>7. Change <= spent'.changes + 1 /\ SpentTyped' /\ UNCHANGED <<epoch, browser>>
    BY <1>1, ChangingSpends DEF ServiceTyped, Change
  <1> HIDE DEF it
  <1>8. Publishable(row) /\ Publishable(f)
    BY <1>1, <1>3, <1>4, FramesArePublishable
  <1>9. BodySuits(it, f) /\ RowSuits(it, row)
    <2>1. /\ row # NoFrame /\ row.row = Change /\ row.epoch = epoch
          /\ row.kind = "history" /\ f.kind = "reset" /\ f.epoch = epoch
      BY DEF NoFrame, Frame
    <2> HIDE DEF row, f
    <2> QED
      BY <1>4, <2>1 DEF BodySuits, RowSuits
  <1> QED
    BY <1>2, <1>4, <1>5, <1>6, <1>7, <1>8, <1>9 DEF Publication, ItemKept, it

LEMMA TimerPublishes ==
  ASSUME Typed, ItemKept, TimerFires, item.held
  PROVE  \E it, row, f : Publication(it, row, f)
  <1>1. ServiceTyped /\ item \in Items /\ pace \in Paces
    BY DEF Typed, ServiceTyped
  <1>2. SpentTyped' /\ UNCHANGED <<epoch, browser>> /\ item.row <= spent'.changes + 1
    BY <1>1 DEF TimerFires, ServiceTyped, SpentTyped, ItemKept
  <1>3. /\ <<>> \in Changes /\ 0 \in Rows
        /\ pace.whole \in BOOLEAN /\ pace.row \in BOOLEAN
    BY <1>1, NoneTyped DEF Rows, Paces
  <1>4. CASE pace.whole
    <2> DEFINE row == RowIf(pace.row, item)
    <2>1. /\ pace' = [pace EXCEPT !.at = TRUE, !.timer = FALSE, !.whole = FALSE,
                                  !.row = FALSE, !.rowAt = @ \/ pace.row]
          /\ Becomes(item, row, Body(item))
      BY <1>4 DEF TimerFires
    <2>2. pace' \in Paces /\ ~pace'.whole
      BY <1>1, <2>1 DEF Paces
    <2>3. Publishable(row) /\ Publishable(Body(item))
      BY <1>1, <1>3, FramesArePublishable
    <2>4. BodySuits(item, Body(item))
      BY FrameKinds DEF BodySuits
    <2>5. RowSuits(item, row)
      <3>1. \/ pace.row \/ DueAt(item, pace')
            \/ item.row = item.row /\ ~DueAt(item, pace)
        BY DEF DueAt
      <3> QED
        BY <3>1, RowsSuit
    <2> QED
      BY <1>1, <1>2, <2>1, <2>2, <2>3, <2>4, <2>5 DEF Publication, ItemKept
  <1>5. CASE ~pace.whole
    <2>1. /\ pace' = [pace EXCEPT !.timer = FALSE, !.row = FALSE, !.rowAt = TRUE]
          /\ Becomes(item, Row(item), Frame("current"))
      BY <1>5 DEF TimerFires
    <2>2. pace' \in Paces /\ ~pace'.whole
      BY <1>1, <1>5, <2>1 DEF Paces
    <2>3. Publishable(Row(item)) /\ Publishable(Frame("current"))
      BY <1>1, <1>3, FramesArePublishable
    <2>4. BodySuits(item, Frame("current")) /\ RowSuits(item, Row(item))
      BY <1>5, FrameKinds DEF BodySuits, RowSuits, ExactAt
    <2> QED
      BY <1>1, <1>2, <2>1, <2>2, <2>3, <2>4 DEF Publication, ItemKept
  <1> QED
    BY <1>4, <1>5

\* Output that grows is what it was and what was added.
LEMMA GrownBy ==
  ASSUME NEW a \in Changes, NEW b \in Changes, IsPrefix(a, b)
  PROVE  /\ SubSeq(b, Len(a) + 1, Len(b)) \in Changes
         /\ b = a \o SubSeq(b, Len(a) + 1, Len(b))
  <1> DEFINE t == SubSeq(b, Len(a) + 1, Len(b))
  <1>1. /\ a \in Seq(Numbers) /\ b \in Seq(Numbers) /\ Len(a) \in Nat /\ Len(b) \in Nat
        /\ Len(a) <= Len(b) /\ SubSeq(a, 1, Len(a)) = SubSeq(b, 1, Len(a))
    BY DEF Changes, IsPrefix
  <1>2. t \in Seq(Numbers) /\ Len(t) = Len(b) - Len(a)
    BY <1>1
  <1>3. \A i \in 1..Len(a) : a[i] = b[i]
    <2>1. \A i \in 1..Len(a) : SubSeq(a, 1, Len(a))[i] = a[i]
      BY <1>1
    <2>2. \A i \in 1..Len(a) : SubSeq(b, 1, Len(a))[i] = b[i]
      BY <1>1
    <2> QED
      BY <1>1, <2>1, <2>2
  <1>4. \A i \in 1..Len(t) : t[i] = b[Len(a) + i]
    BY <1>1, <1>2
  <1>5. a \o t \in Seq(Numbers) /\ Len(a \o t) = Len(b)
    BY <1>1, <1>2
  <1>6. \A i \in 1..Len(b) : (a \o t)[i] = b[i]
    <2> HIDE DEF t
    <2> TAKE i \in 1..Len(b)
    <2>1. CASE i <= Len(a)
      BY <1>1, <1>2, <1>3, <2>1
    <2>2. CASE i > Len(a)
      <3>1. i - Len(a) \in 1..Len(t)
        BY <1>1, <1>2, <2>2
      <3>2. (a \o t)[i] = t[i - Len(a)]
        BY <1>1, <1>2, <2>2
      <3> QED
        BY <1>1, <1>4, <3>1, <3>2
    <2>3. i <= Len(a) \/ i > Len(a)
      BY <1>1
    <2> QED
      BY <2>1, <2>2, <2>3
  <1>7. b = a \o t
    <2> HIDE DEF t
    <2>1. /\ b \in Seq(Numbers) /\ a \o t \in Seq(Numbers)
          /\ Len(b) = Len(a \o t)
          /\ \A i \in 1..Len(b) : b[i] = (a \o t)[i]
      BY <1>1, <1>5, <1>6
    <2> QED
      BY <2>1, SeqEqual, Zenon
  <1> QED
    BY <1>2, <1>7 DEF Changes

LEMMA OutputPublishes ==
  ASSUME Typed, ItemKept, Output
  PROVE  \E it, row, f : Publication(it, row, f)
  <1>1. ServiceTyped /\ Changing /\ item.held /\ item.running
    BY DEF Typed, Output
  <1>2. PICK out \in {item.out, Append(item.out, Change), <<Change>>},
             new \in {item.row, Change}, soon \in BOOLEAN :
          LET it == [item EXCEPT !.out = out, !.row = new]
          IN /\ it # item
             /\ HeldBack(it) \/ Replaced(it, soon) \/ Grown(it, soon)
    BY DEF Output
  <1> DEFINE it == [item EXCEPT !.out = out, !.row = new]
  <1>3. /\ item \in Items /\ item.out \in Changes /\ item.row \in Rows
        /\ Change \in Rows /\ <<Change>> \in Changes
        /\ Append(item.out, Change) \in Changes
        /\ pace \in Paces
    BY <1>1, ChangingSpends DEF ServiceTyped, Items
  <1>4. /\ it \in Items /\ it.held /\ it.running /\ it.kind = item.kind
        /\ it.kind # "thought" /\ it.out \in Changes /\ it.row \in {item.row, Change}
    BY <1>1, <1>3 DEF Items, ItemKept
  <1>5. HeldBack(it) \/ Replaced(it, soon) \/ Grown(it, soon)
    BY <1>2
  <1> HIDE DEF it
  <1>6. it.row <= spent'.changes + 1 /\ SpentTyped' /\ UNCHANGED <<epoch, browser>>
    <2>1. item.row \in Nat /\ spent.changes \in Nat /\ Change \in Nat
      BY <1>1, EventStreamConstants DEF ServiceTyped, Items, Rows, Numbers, Change
    <2> QED
      BY <1>1, <1>4, <2>1, ChangingSpends DEF ItemKept
  <1>7. Paced(it) = [pace EXCEPT !.on = TRUE, !.row = pace.row \/ it.row # item.row]
    BY DEF Paced
  <1>8. /\ Paced(it) \in Paces /\ Paced(it).whole = pace.whole
        /\ Paced(it).timer = pace.timer
        /\ Paced(it).row = (pace.row \/ it.row # item.row)
    BY <1>3, <1>7 DEF Paces
  <1>9. \A row, f :
          /\ pace' \in Paces /\ (pace'.whole => pace'.timer)
          /\ Publishable(row) /\ Publishable(f) /\ Becomes(it, row, f)
          /\ BodySuits(it, f) /\ RowSuits(it, row)
          => Publication(it, row, f)
    BY <1>1, <1>4, <1>6 DEF Publication
  <1>10. /\ Publishable(NoFrame) /\ Publishable(Body(it)) /\ Publishable(Row(it))
         /\ Publishable(Frame("current"))
         /\ \A due \in BOOLEAN : Publishable(RowIf(due, it))
         /\ \A text \in Changes : Publishable(Delta(text))
    BY <1>1, <1>3, <1>4, FramesArePublishable
  <1>11. CASE HeldBack(it)
    <2>1. /\ pace.whole /\ pace' = Paced(it) /\ Becomes(it, NoFrame, NoFrame)
      BY <1>11 DEF HeldBack
    <2>2. BodySuits(it, NoFrame)
      BY <1>1, <1>4, <1>8, <2>1, FrameKinds DEF BodySuits, ExactAt
    <2>3. RowSuits(it, NoFrame)
      BY <1>1, <1>4, <1>8, <2>1 DEF RowSuits, DueAt, ItemKept
    <2>4. pace' \in Paces /\ (pace'.whole => pace'.timer)
      BY <1>8, <2>1 DEF ItemKept
    <2> QED
      BY <1>9, <1>10, <2>1, <2>2, <2>3, <2>4
  <1>12. CASE Replaced(it, soon)
    <2>1. CASE soon /\ pace.at
      <3>1. /\ pace' = [Paced(it) EXCEPT !.whole = TRUE, !.timer = TRUE]
            /\ Becomes(it, NoFrame, NoFrame)
        BY <1>12, <2>1 DEF Replaced
      <3>2. /\ pace' \in Paces /\ pace'.whole /\ pace'.timer
            /\ pace'.row = Paced(it).row
        BY <1>8, <3>1 DEF Paces
      <3>3. BodySuits(it, NoFrame)
        BY <1>1, <1>4, <3>2, FrameKinds DEF BodySuits, ExactAt
      <3>4. RowSuits(it, NoFrame)
        BY <1>1, <1>4, <1>8, <3>2 DEF RowSuits, DueAt
      <3> QED
        BY <1>9, <1>10, <3>1, <3>2, <3>3, <3>4
    <2>2. CASE ~(soon /\ pace.at)
      <3> DEFINE row == RowIf(Paced(it).row, it)
      <3>1. /\ pace' = [Paced(it) EXCEPT !.at = TRUE, !.timer = FALSE, !.row = FALSE,
                                         !.rowAt = @ \/ Paced(it).row]
            /\ Becomes(it, row, Body(it)) /\ ~pace.whole
        BY <1>12, <2>2 DEF Replaced
      <3>2. pace' \in Paces /\ ~pace'.whole
        BY <1>8, <3>1 DEF Paces
      <3>3. BodySuits(it, Body(it))
        BY FrameKinds DEF BodySuits
      <3>4. RowSuits(it, row)
        <4>1. \/ Paced(it).row \/ DueAt(it, pace')
              \/ it.row = item.row /\ ~DueAt(item, pace)
          BY <1>8 DEF DueAt
        <4> QED
          BY <4>1, RowsSuit
      <3>5. Publishable(row)
        BY <1>8, <1>10 DEF Paces
      <3> QED
        BY <1>9, <1>10, <3>1, <3>2, <3>3, <3>4, <3>5
    <2> QED
      BY <2>1, <2>2
  <1>13. CASE Grown(it, soon)
    <2> DEFINE grew == it.out # item.out
               due == Paced(it).row /\ ~pace.timer
               now == due /\ ~(soon /\ pace.rowAt)
               text == SubSeq(it.out, Len(item.out) + 1, Len(it.out))
               row == RowIf(now, it)
               f == IF grew THEN Delta(text)
                    ELSE IF now THEN Frame("current") ELSE NoFrame
    <2>1. /\ pace' = [Paced(it) EXCEPT !.timer = @ \/ (due /\ ~now), !.row = @ /\ ~now,
                                       !.rowAt = @ \/ now]
          /\ Becomes(it, row, f) /\ ~pace.whole /\ IsPrefix(item.out, it.out)
      BY <1>13 DEF Grown
    <2>2. text \in Changes /\ it.out = item.out \o text
      BY <1>3, <1>4, <2>1, GrownBy
    <2>3. /\ pace' \in Paces /\ ~pace'.whole
          /\ pace'.timer = (pace.timer \/ (due /\ ~now))
          /\ pace'.row = (Paced(it).row /\ ~now)
      BY <1>8, <2>1, ZenonT(60) DEF Paces
    <2>4. now \in BOOLEAN
      OBVIOUS
    <2>5. Publishable(row) /\ Publishable(f)
      BY <1>10, <2>2, <2>4
    <2> HIDE DEF text
    <2>6. BodySuits(it, f)
      <3>1. f.kind = IF grew THEN "delta" ELSE IF now THEN "current" ELSE "none"
        BY FrameKinds
      <3>2. f.kind = "delta" => it.out = item.out \o f.out
        <4>1. Delta(text).out = text
          BY FrameKinds
        <4>2. f.kind = "delta" => f = Delta(text)
          BY <3>1
        <4> HIDE DEF f
        <4> QED
          BY <2>2, <4>1, <4>2
      <3>3. f.kind \in {"current", "none"} => it.out = item.out
        BY <3>1
      <3>4. f.epoch = epoch /\ (f.kind = "none" => f = NoFrame)
        BY <3>1, FrameKinds
      <3> HIDE DEF f, grew, now
      <3> QED
        BY <1>1, <2>1, <3>1, <3>2, <3>3, <3>4 DEF BodySuits, ExactAt
    <2>7. RowSuits(it, row)
      <3>1. \/ now \/ DueAt(it, pace')
            \/ it.row = item.row /\ ~DueAt(item, pace)
        BY <1>1, <1>4, <1>8, <2>3 DEF DueAt
      <3> QED
        BY <3>1, RowsSuit
    <2> QED
      BY <1>9, <2>1, <2>3, <2>5, <2>6, <2>7
  <1> QED
    BY <1>5, <1>11, <1>12, <1>13

-----------------------------------------------------------------------------
(* A publication keeps the page's path to the item.                        *)

\* A frame that is queued waits behind the others.
LEMMA PushWaits ==
  ASSUME NEW sub, SubTyped(sub), NEW f \in FrameRecords
  PROVE  LET new == Push(sub, f)
         IN /\ new.watch = sub.watch
            /\ Waiting(sub) \in Seq(FrameRecords)
            /\ \/ Waiting(new) = Waiting(sub) /\ ~new.open
               \/ Waiting(new) = Append(Waiting(sub), f) /\ new.open /\ sub.open
  <1>1. /\ sub \in [open : BOOLEAN, watch : BOOLEAN, first : Frames, queue : Frames]
        /\ sub.first \in Seq(FrameRecords) /\ sub.queue \in Seq(FrameRecords)
    BY DEF SubTyped, Subscribers, Frames
  <1>2. sub.first \o Append(sub.queue, f) = Append(sub.first \o sub.queue, f)
    BY <1>1
  <1>3. Waiting(sub) \in Seq(FrameRecords)
    BY <1>1 DEF Waiting
  <1> QED
    BY <1>1, <1>2, <1>3 DEF Push, Waiting

LEMMA RowsPublished ==
  ASSUME SubTyped(main), RowFollows, MainKept, epoch \in Nat,
         NEW it, NEW row, NEW r \in Nat, Publishable(row), RowSuits(it, row),
         main' = IF row = NoFrame THEN main ELSE Push(main, [row EXCEPT !.seq = r]),
         item' = it, UNCHANGED <<epoch, up, page>>
  PROVE  RowFollows' /\ MainKept'
  <1> DEFINE w == Waiting(main)
             g == [row EXCEPT !.seq = r]
  <1>1. CASE row = NoFrame
    <2>1. main' = main
      BY <1>1
    <2>2. RowFollows'
      BY <1>1, <2>1 DEF RowFollows, LastRow, RowDue, DueAt, RowSuits
    <2>3. MainKept'
      BY <2>1 DEF MainKept, MainFrame
    <2> QED
      BY <2>2, <2>3
  <1>2. CASE row # NoFrame
    <2>1. g \in FrameRecords
      BY <1>2 DEF Publishable
    <2>2. /\ g.row = it.row /\ g.epoch = epoch
          /\ g.kind \in {"row", "history"}
      BY <1>2, <2>1 DEF RowSuits, FrameRecords
    <2>3. /\ w \in Seq(FrameRecords)
          /\ \/ Waiting(main') = w /\ ~main'.open
             \/ Waiting(main') = Append(w, g) /\ main'.open /\ main.open
      BY <1>2, <2>1, PushWaits
    <2> HIDE DEF w, g
    <2>4. CASE Waiting(main') = w /\ ~main'.open
      BY <2>4 DEF RowFollows, MainKept, MainFrame, w
    <2>5. CASE Waiting(main') = Append(w, g) /\ main'.open
      <3>1. /\ Append(w, g) # <<>> /\ Len(Append(w, g)) = Len(w) + 1 /\ Len(w) \in Nat
            /\ Append(w, g)[Len(w) + 1] = g
            /\ DOMAIN w = 1..Len(w) /\ DOMAIN Append(w, g) = 1..(Len(w) + 1)
            /\ \A i \in 1..Len(w) : Append(w, g)[i] = w[i]
        BY <2>1, <2>3
      <3>2. LastRow' = item'.row
        BY <2>2, <2>5, <3>1 DEF LastRow
      <3>3. MainKept'
        <4>1. MainFrame(g)
          BY <2>2 DEF MainFrame
        <4>2. \A i \in 1..Len(w) : MainFrame(w[i])
          BY <3>1 DEF MainKept, w
        <4>3. \A i \in DOMAIN Append(w, g) : MainFrame(Append(w, g)[i])
          BY <3>1, <4>1, <4>2
        <4> QED
          BY <2>5, <4>3 DEF MainKept, MainFrame
      <3> QED
        BY <3>2, <3>3 DEF RowFollows
    <2> QED
      BY <2>3, <2>4, <2>5
  <1> QED
    BY <1>1, <1>2

\* What fits goes on to fit: the item's past does not change.
LEMMA FitsLater ==
  ASSUME NEW m \in Nat, NEW n \in Nat, n >= m, NEW lg, NEW lh,
         \A k \in 0..m : lh[k] = lg[k],
         NEW b, NEW w, NEW v, NEW i, v[i] = w[i], Prev(b, v, i) = Prev(b, w, i),
         Known(b, i) => Prev(b, w, i) \in 0..m, Fits(lg, m, b, w, i)
  PROVE  Fits(lh, n, b, v, i)
  <1> DEFINE f == w[i]
             p == Prev(b, w, i)
  <1>1. /\ f.kind \in DetailKinds /\ f.epoch = epoch /\ f.seq \in 0..m
        /\ f.kind = "body" => f.out = lg[f.seq]
    BY DEF Fits
  <1>2. lh[f.seq] = lg[f.seq] /\ f.seq \in 0..n
    BY <1>1
  <1>3. Known(b, i) => Follows(lh, b, v, i)
    <2> SUFFICES ASSUME Known(b, i) PROVE Follows(lh, b, v, i)
      OBVIOUS
    <2>1. lh[p] = lg[p]
      OBVIOUS
    <2>2. Follows(lg, b, w, i)
      BY DEF Fits
    <2> QED
      BY <1>2, <2>1, <2>2 DEF Follows
  <1> QED
    BY <1>1, <1>2, <1>3 DEF Fits

\* What a frame builds on has been.
LEMMA PrevIsPast ==
  ASSUME Holds, NEW w \in Seq(FrameRecords), Chained(body, w),
         NEW i \in 1..(Len(w) + 1), Known(body, i)
  PROVE  Prev(body, w, i) \in 0..seq
  <1>1. CASE i = 1
    BY <1>1 DEF Prev, Known, Holds
  <1>2. CASE i # 1
    <2>1. i - 1 \in DOMAIN w
      BY <1>2
    <2> QED
      BY <1>2, <2>1 DEF Chained, Fits, Prev
  <1> QED
    BY <1>1, <1>2

\* The frames that wait say how the item got from what the page has to what it
\* is, before the step and, one more or not, after it.
LEMMA BodiesPublished ==
  ASSUME Typed, ItemKept, StreamKept, NEW it, NEW row, NEW f,
         Publication(it, row, f)
  PROVE  StreamKept'
  <1> DEFINE w == Waiting(detail)
             g == [f EXCEPT !.seq = seq']
  <1>1. ServiceTyped /\ SubTyped(detail) /\ PageTyped
    BY DEF Typed
  <1>2. /\ seq \in Nat /\ seq' \in Nat /\ seq' >= seq
        /\ f # NoFrame => seq' > seq
        /\ item' = it /\ \A k \in 0..seq : log'[k] = log[k]
        /\ log'[seq'] = it.out
    BY <1>1, BecomesLogged DEF Publication, ServiceTyped
  <1>3. detail' = IF ToDetail(f) THEN Push(detail, g) ELSE detail
    BY <1>1, BecomesSends DEF Publication
  <1>4. UNCHANGED <<epoch, page, body, es>> /\ it.held
    BY DEF Publication, browser
  <1>5. SUFFICES ASSUME Fresh
        PROVE  Holds' /\ Chained(body, Waiting(detail))' /\ Synced(body, Waiting(detail))'
    BY <1>4 DEF StreamKept, Fresh
  <1>6. Holds /\ Chained(body, w) /\ Synced(body, w)
    BY <1>5 DEF StreamKept
  <1>7. Holds'
    BY <1>2, <1>4, <1>6 DEF Holds, Present
  <1>8. w \in Seq(FrameRecords) /\ Len(w) \in Nat /\ DOMAIN w = 1..Len(w)
    BY <1>1 DEF SubTyped, Subscribers, Frames, Waiting
  <1> DEFINE n == Len(w) + 1
  <1> HIDE DEF w
  <1>9. \A i \in 1..n : Known(body, i) => Prev(body, w, i) \in 0..seq
    BY <1>6, <1>8, PrevIsPast
  <1>10. \A i \in 1..Len(w) : Fits(log', seq', body, w, i)
    <2> SUFFICES ASSUME NEW i \in 1..Len(w) PROVE Fits(log', seq', body, w, i)
      OBVIOUS
    <2>1. Fits(log, seq, body, w, i)
      BY <1>6, <1>8 DEF Chained
    <2>2. Known(body, i) => Prev(body, w, i) \in 0..seq
      BY <1>8, <1>9
    <2> QED
      BY <1>2, <2>1, <2>2, FitsLater
  <1>11. CASE Waiting(detail') = w /\ (detail'.open => detail' = detail /\ ~ToDetail(f))
    <2>1. Chained(body, Waiting(detail))'
      BY <1>4, <1>8, <1>10, <1>11 DEF Chained, Fits
    <2>2. Synced(body, Waiting(detail))'
      <3> SUFFICES ASSUME detail'.open, detail'.watch
                   PROVE  /\ item'.held
                          /\ Exact' /\ Known(body, n) => log'[Prev(body, w, n)] = item'.out
        BY <1>4, <1>11 DEF Synced
      <3>1. detail.open /\ detail.watch /\ ~ToDetail(f)
        BY <1>11
      <3>2. f.kind = "none"
        BY <3>1 DEF Publication, BodySuits, ToDetail
      <3>3. Exact' => Exact /\ it.out = item.out
        BY <1>2, <3>2 DEF Publication, BodySuits, Exact, ExactAt
      <3>4. Exact /\ Known(body, n) => log[Prev(body, w, n)] = item.out
        BY <1>6, <3>1 DEF Synced
      <3> QED
        BY <1>2, <1>4, <1>8, <1>9, <3>3, <3>4
    <2> QED
      BY <1>7, <2>1, <2>2
  <1>12. CASE /\ Waiting(detail') = Append(w, g) /\ g \in FrameRecords
              /\ detail.open /\ detail'.watch = detail.watch /\ ToDetail(f)
    <2> DEFINE v == Append(w, g)
    <2>1. /\ DOMAIN v = 1..n /\ Len(v) = n /\ v[n] = g
          /\ \A i \in 1..Len(w) : v[i] = w[i]
      BY <1>8, <1>12
    <2>2. /\ g.kind = f.kind /\ g.epoch = epoch /\ g.seq = seq' /\ g.out = f.out
          /\ f # NoFrame /\ f.kind \in DetailKinds /\ f.kind # "ready"
      <3>1. f # NoFrame
        BY <1>12 DEF ToDetail, NoFrame, Frame
      <3> QED
        BY <1>2, <1>12, <3>1
           DEF Publication, BodySuits, ToDetail, DetailKinds, FrameRecords
    <2> HIDE DEF v, g
    <2>3. \A i \in 1..n : Prev(body, v, i) = Prev(body, w, i)
      BY <1>8, <2>1 DEF Prev
    <2>4. \A i \in 1..Len(w) : Fits(log', seq', body, v, i)
      <3> SUFFICES ASSUME NEW i \in 1..Len(w) PROVE Fits(log', seq', body, v, i)
        OBVIOUS
      <3>1. i \in 1..n /\ Fits(log, seq, body, w, i)
        BY <1>6, <1>8 DEF Chained
      <3>2. Known(body, i) => Prev(body, w, i) \in 0..seq
        BY <1>9, <3>1
      <3> QED
        BY <1>2, <2>1, <2>3, <3>1, <3>2, FitsLater
    <2>5. Known(body, n) => Follows(log', body, v, n)
      <3> SUFFICES ASSUME Known(body, n) PROVE Follows(log', body, v, n)
        OBVIOUS
      <3> DEFINE p == Prev(body, w, n)
      <3>1. p \in 0..seq /\ log'[p] = log[p] /\ p < seq'
        BY <1>2, <1>8, <1>9, <2>2
      <3>2. f.kind \in {"delta", "current"} =>
              /\ Exact /\ log[p] = item.out
              /\ f.kind = "delta" => it.out = item.out \o f.out
              /\ f.kind = "current" => it.out = item.out
        BY <1>6, <1>12 DEF Synced, Publication, BodySuits, Exact, ExactAt, ToDetail
      <3>3. v[n] = g /\ Prev(body, v, n) = p
        BY <1>8, <2>1, <2>3
      <3> HIDE DEF p
      <3>4. p <= g.seq /\ p < g.seq
        BY <1>2, <2>2, <3>1
      <3>5. g.kind = "delta" => log'[g.seq] = log'[p] \o g.out
        BY <1>2, <2>2, <3>1, <3>2
      <3>6. g.kind = "current" => log'[g.seq] = log'[p]
        BY <1>2, <2>2, <3>1, <3>2
      <3>7. g.kind # "ready"
        BY <2>2
      <3> QED
        BY <3>3, <3>4, <3>5, <3>6, <3>7 DEF Follows
    <2>6. Fits(log', seq', body, v, n)
      <3>1. f.kind = "body" => f.out = it.out
        BY DEF Publication, BodySuits
      <3> QED
        BY <1>2, <2>1, <2>2, <2>5, <3>1 DEF Fits
    <2>7. Chained(body, Waiting(detail))'
      BY <1>4, <1>8, <1>12, <2>1, <2>4, <2>6 DEF Chained, Fits, v
    <2>8. Synced(body, Waiting(detail))'
      <3>1. Prev(body, v, n + 1) = seq'
        BY <1>8, <2>1, <2>2 DEF Prev
      <3> QED
        BY <1>2, <1>4, <1>12, <2>1, <3>1 DEF Synced, v
    <2> QED
      BY <1>7, <2>7, <2>8
  <1>13. \/ Waiting(detail') = w /\ (detail'.open => detail' = detail /\ ~ToDetail(f))
         \/ /\ Waiting(detail') = Append(w, g) /\ g \in FrameRecords
            /\ detail.open /\ detail'.watch = detail.watch /\ ToDetail(f)
    <2>1. CASE ToDetail(f)
      <3>1. g \in FrameRecords
        BY <1>2, <2>1 DEF Publication, Publishable, ToDetail, NoFrame, Frame
      <3> HIDE DEF g
      <3>2. /\ Push(detail, g).watch = detail.watch
            /\ \/ Waiting(Push(detail, g)) = Waiting(detail) /\ ~Push(detail, g).open
               \/ /\ Waiting(Push(detail, g)) = Append(Waiting(detail), g)
                  /\ detail.open
        BY <1>1, <3>1, PushWaits
      <3>3. detail' = Push(detail, g)
        BY <1>3, <2>1
      <3> QED
        BY <2>1, <3>1, <3>2, <3>3 DEF w
    <2>2. CASE ~ToDetail(f)
      BY <1>3, <2>2 DEF w
    <2> QED
      BY <2>1, <2>2
  <1> QED
    BY <1>11, <1>12, <1>13

LEMMA PublicationKeeps ==
  ASSUME Inv, NEW it, NEW row, NEW f, Publication(it, row, f)
  PROVE  Inv'
  <1>1. /\ ServiceTyped /\ PageTyped /\ SubTyped(main) /\ SubTyped(detail)
        /\ Typed /\ ItemKept /\ RowFollows /\ MainKept /\ StreamKept
    BY DEF Typed, Inv
  <1>2. /\ it \in Items /\ Becomes(it, row, f) /\ (item.held \/ it # item)
        /\ Publishable(row) /\ Publishable(f) /\ RowSuits(it, row)
        /\ UNCHANGED <<epoch, browser>>
    BY DEF Publication
  <1>3. /\ seq' \in Nat /\ item' = it /\ marked' \in 0..seq'
        /\ log' \in [0..seq' -> Changes]
        /\ \A k \in marked'..seq' : log'[k] = it.out
    BY <1>1, <1>2, BecomesLogged
  <1>4. ServiceTyped'
    BY <1>1, <1>2, <1>3 DEF ServiceTyped, Publication, SpentTyped
  <1>5. PageTyped'
    BY <1>1, <1>2 DEF PageTyped, browser
  <1>6. SubTyped(main') /\ SubTyped(detail')
    BY <1>1, <1>2, <1>3, BecomesTyped
  <1>7. Typed'
    <2>1. SubTyped(main)' /\ SubTyped(detail)'
      BY <1>6 DEF SubTyped, Subscribers, Frames, FrameRecords
    <2> QED
      BY <1>4, <1>5, <2>1 DEF Typed
  <1>8. ItemKept'
    BY <1>3 DEF ItemKept, Publication
  <1>9. RowFollows' /\ MainKept'
    <2>1. PICK r \in Nat : main' = IF row = NoFrame THEN main
                                  ELSE Push(main, [row EXCEPT !.seq = r])
      BY <1>1, <1>2, BecomesSends
    <2>2. epoch \in Nat /\ UNCHANGED <<epoch, up, page>>
      BY <1>1, <1>2 DEF ServiceTyped, browser
    <2> QED
      BY <1>1, <1>2, <1>3, <2>1, <2>2, RowsPublished
  <1>10. StreamKept'
    BY <1>1, BodiesPublished
  <1> QED
    BY <1>7, <1>8, <1>9, <1>10 DEF Inv

-----------------------------------------------------------------------------
(* The other steps of the service.                                         *)

LEMMA StaleTimerKeeps ==
  ASSUME Inv, TimerFires, ~item.held
  PROVE  Inv'
  <1>1. /\ ServiceTyped /\ PageTyped /\ SubTyped(main) /\ SubTyped(detail)
        /\ Typed /\ ItemKept /\ RowFollows /\ MainKept /\ StreamKept
    BY DEF Typed, Inv
  <1>2. /\ pace' = NoPace /\ NoPace \in Paces
        /\ UNCHANGED <<seq, item, marked, log, main, detail, epoch, browser, spent>>
    BY <1>1, NoneTyped DEF TimerFires
  <1>3. Typed'
    <2>1. ServiceTyped' /\ PageTyped'
      BY <1>1, <1>2 DEF ServiceTyped, PageTyped, browser
    <2>2. SubTyped(main)' /\ SubTyped(detail)'
      BY <1>1, <1>2 DEF SubTyped, Subscribers, Frames, FrameRecords
    <2> QED
      BY <2>1, <2>2 DEF Typed
  <1>4. ItemKept'
    BY <1>1, <1>2 DEF ItemKept, NoPace
  <1>5. RowFollows' /\ MainKept'
    BY <1>1, <1>2 DEF RowFollows, MainKept, MainFrame, LastRow, RowDue, browser
  <1>6. StreamKept'
    <2>1. detail.open /\ detail.watch => ~Fresh
      BY <1>1 DEF StreamKept, Synced
    <2> QED
      BY <1>1, <1>2, <2>1
         DEF StreamKept, Fresh, Holds, Chained, Fits, Follows, Synced, browser
  <1> QED
    BY <1>3, <1>4, <1>5, <1>6 DEF Inv

LEMMA TrimKeeps ==
  ASSUME Inv, Trim
  PROVE  Inv'
  <1> DEFINE g == [Frame("trimmed") EXCEPT !.seq = seq + 1]
             pushed == Push(detail, g)
             w == Waiting(detail)
             v == Waiting(detail')
  <1>1. /\ ServiceTyped /\ PageTyped /\ SubTyped(main) /\ SubTyped(detail)
        /\ Typed /\ ItemKept /\ RowFollows /\ MainKept /\ StreamKept
    BY DEF Typed, Inv
  <1>2. /\ item' = NoItem /\ marked' = 0 /\ seq' = seq + 1 /\ pace' = pace
        /\ main' = Push(main, g) /\ detail' = [pushed EXCEPT !.watch = FALSE]
        /\ log' = [k \in 0..(seq + 1) |-> IF k < seq + 1 THEN log[k] ELSE <<>>]
        /\ UNCHANGED <<epoch, browser>> /\ SpentTyped'
        /\ spent'.changes \in Nat
    BY <1>1, ChangingSpends
       DEF Trim, Logged, NoItem, SpentTyped, Changing, Spend, ServiceTyped
  <1>3. /\ seq \in Nat /\ epoch \in Nat /\ g \in FrameRecords /\ g.row = 0
        /\ g.epoch = epoch /\ g.kind = "trimmed" /\ g.seq = seq + 1
    <2>1. /\ seq \in Nat /\ epoch \in Nat /\ NoItem \in Items /\ <<>> \in Changes
          /\ 0 \in Rows
      BY <1>1, NoneTyped DEF ServiceTyped, Rows
    <2>2. g \in FrameRecords
      BY <2>1 DEF Frame, FrameRecords
    <2>3. g.row = 0 /\ g.epoch = epoch /\ g.kind = "trimmed" /\ g.seq = seq + 1
      BY DEF Frame
    <2> QED
      BY <2>1, <2>2, <2>3
  <1>4. ServiceTyped'
    <2>1. NoItem \in Items /\ <<>> \in Changes
      BY <1>1, NoneTyped
    <2>2. log' \in [0..seq' -> Changes]
      BY <1>1, <1>2, <2>1 DEF ServiceTyped
    <2> QED
      BY <1>1, <1>2, <2>1, <2>2 DEF ServiceTyped, SpentTyped
  <1> HIDE DEF g
  <1>5. SubTyped(main') /\ SubTyped(detail')
    <2>1. SubTyped(main') /\ SubTyped(pushed)
      BY <1>1, <1>2, <1>3, PushTyped
    <2> QED
      BY <1>2, <2>1 DEF SubTyped, Subscribers
  <1>6. Typed'
    <2>1. SubTyped(main)' /\ SubTyped(detail)'
      BY <1>5 DEF SubTyped, Subscribers, Frames, FrameRecords
    <2>2. PageTyped'
      BY <1>1, <1>2 DEF PageTyped, browser
    <2> QED
      BY <1>4, <2>1, <2>2 DEF Typed
  <1>7. ItemKept'
    BY <1>1, <1>2 DEF ItemKept, NoItem
  <1>8. /\ \/ Waiting(main') = Waiting(main) /\ ~main'.open
           \/ Waiting(main') = Append(Waiting(main), g) /\ main'.open
        /\ Waiting(main) \in Seq(FrameRecords)
        /\ \/ Waiting(pushed) = w /\ ~pushed.open
           \/ Waiting(pushed) = Append(w, g)
        /\ w \in Seq(FrameRecords)
    BY <1>1, <1>2, <1>3, PushWaits
  <1>9. RowFollows'
    BY <1>2, <1>3, <1>8 DEF RowFollows, LastRow, NoItem
  <1>10. MainKept'
    <2> DEFINE u == Waiting(main)
    <2>1. page' = page /\ page.epoch <= epoch /\ epoch' = epoch
      BY <1>1, <1>2 DEF MainKept, browser
    <2>2. \A i \in DOMAIN u : MainFrame(u[i])
      BY <1>1 DEF MainKept
    <2>3. Waiting(main') = u \/ Waiting(main') = Append(u, g)
      BY <1>8
    <2> HIDE DEF u
    <2>4. \A i \in DOMAIN Append(u, g) : MainFrame(Append(u, g)[i])
      <3>1. MainFrame(g)
        BY <1>3 DEF MainFrame
      <3> QED
        BY <1>3, <1>8, <2>2, <3>1, OneMore DEF u
    <2>5. \A i \in DOMAIN Waiting(main') : MainFrame(Waiting(main')[i])
      BY <2>2, <2>3, <2>4
    <2> QED
      BY <2>1, <2>5 DEF MainKept, MainFrame
  <1>11. v = w \/ v = Append(w, g)
    BY <1>2, <1>5, <1>8, PushTyped, <1>1, <1>3 DEF Waiting, SubTyped, Subscribers
  <1>12. StreamKept'
    <2> SUFFICES ASSUME Fresh
                 PROVE  Holds' /\ Chained(body, Waiting(detail))'
                        /\ Synced(body, Waiting(detail))'
      BY <1>2 DEF StreamKept, Fresh, browser
    <2>1. Holds /\ Chained(body, w)
      BY <1>1 DEF StreamKept
    <2>2. \A k \in 0..seq : log'[k] = log[k]
      BY <1>1, <1>2 DEF ServiceTyped
    <2>3. Holds'
      BY <1>2, <1>3, <2>1, <2>2 DEF Holds, Present, browser
    <2>4. Synced(body, Waiting(detail))'
      BY <1>1, <1>2, <1>3, PushTyped DEF Synced, SubTyped, Subscribers
    <2>5. \A i \in 1..(Len(w) + 1) : Known(body, i) => Prev(body, w, i) \in 0..seq
      BY <1>8, <2>1, PrevIsPast
    <2>6. /\ Len(w) \in Nat /\ DOMAIN w = 1..Len(w) /\ w \in Seq(FrameRecords)
      BY <1>8
    <2> HIDE DEF w, v
    <2>7. ASSUME NEW u \in {w, Append(w, g)}, NEW i \in 1..Len(w)
          PROVE  Fits(log', seq', body, u, i)
      <3>1. u[i] = w[i] /\ Prev(body, u, i) = Prev(body, w, i)
        <4>1. CASE u = Append(w, g)
          <5>1. \A k \in 1..Len(w) : u[k] = w[k]
            BY <1>3, <2>6, <4>1, OneMore
          <5>2. i # 1 => i - 1 \in 1..Len(w)
            BY <2>6
          <5> QED
            BY <5>1, <5>2 DEF Prev
        <4> QED
          BY <4>1
      <3>2. Fits(log, seq, body, w, i) /\ (Known(body, i) => Prev(body, w, i) \in 0..seq)
        BY <2>1, <2>5, <2>6 DEF Chained
      <3>3. seq \in Nat /\ seq' \in Nat /\ seq' >= seq
        BY <1>2, <1>3
      <3> QED
        BY <2>2, <3>1, <3>2, <3>3, FitsLater
    <2>8. Fits(log', seq', body, Append(w, g), Len(w) + 1)
      <3>1. Append(w, g)[Len(w) + 1] = g
        BY <1>3, <2>6, OneMore
      <3>2. Prev(body, Append(w, g), Len(w) + 1) = Prev(body, w, Len(w) + 1)
        <4>1. Len(w) + 1 # 1 => Len(w) \in 1..Len(w)
          BY <2>6
        <4>2. \A k \in 1..Len(w) : Append(w, g)[k] = w[k]
          BY <1>3, <2>6, OneMore
        <4> DEFINE j == Len(w) + 1
        <4>3. j # 1 => Append(w, g)[j - 1] = w[j - 1]
          BY <2>6, <4>1, <4>2
        <4> HIDE DEF j
        <4>4. Prev(body, Append(w, g), j) = Prev(body, w, j)
          BY <4>3 DEF Prev
        <4> QED
          BY <4>4 DEF j
      <3>3. Known(body, Len(w) + 1) => Prev(body, w, Len(w) + 1) \in 0..seq
        BY <2>5, <2>6
      <3> QED
        <4> DEFINE p == Prev(body, w, Len(w) + 1)
                   i == Len(w) + 1
        <4>1. Known(body, i) => p <= g.seq
          BY <1>3, <3>3
        <4> HIDE DEF p
        <4>2. Known(body, i) => Follows(log', body, Append(w, g), i)
          BY <1>3, <3>1, <3>2, <4>1 DEF Follows, p
        <4> QED
          BY <1>2, <1>3, <3>1, <4>2 DEF Fits, DetailKinds
    <2>9. \A i \in DOMAIN v : Fits(log', seq', body, v, i)
      <3>1. CASE v = w
        BY <2>6, <2>7, <3>1
      <3>2. CASE v = Append(w, g)
        <4>1. DOMAIN v = 1..(Len(w) + 1)
          BY <1>3, <2>6, <3>2, OneMore
        <4> QED
          BY <2>6, <2>7, <2>8, <3>2, <4>1
      <3> QED
        BY <1>11, <3>1, <3>2
    <2>10. Chained(body, Waiting(detail))'
      BY <1>2, <2>9 DEF Chained, Fits, v, browser
    <2> QED
      BY <2>3, <2>4, <2>10
  <1> QED
    BY <1>6, <1>7, <1>9, <1>10, <1>12 DEF Inv

LEMMA RestartKeeps ==
  ASSUME Inv, Restart
  PROVE  Inv'
  <1>1. /\ ServiceTyped /\ PageTyped /\ SubTyped(main) /\ SubTyped(detail)
        /\ MainKept
    BY DEF Typed, Inv
  <1>2. /\ epoch' = epoch + 1 /\ seq' = 0 /\ item' = NoItem /\ marked' = 0
        /\ pace' = NoPace /\ log' = [k \in {0} |-> <<>>]
        /\ main' = [main EXCEPT !.open = FALSE]
        /\ detail' = [detail EXCEPT !.open = FALSE]
        /\ UNCHANGED browser
        /\ spent' = [spent EXCEPT !.events = @ + 1] /\ spent.events < MaxEvents
    BY DEF Restart, Spend, NoItem
  <1>3. /\ NoItem \in Items /\ NoPace \in Paces /\ <<>> \in Changes
        /\ epoch \in Nat /\ MaxEvents \in Nat /\ MaxChanges \in Nat
        /\ spent \in [changes : 0..MaxChanges, events : 0..MaxEvents]
    BY <1>1, NoneTyped, EventStreamConstants DEF ServiceTyped
  <1>4. Typed'
    <2>1. log' \in [0..seq' -> Changes]
      BY <1>2, <1>3
    <2>2. ServiceTyped'
      BY <1>2, <1>3, <2>1 DEF ServiceTyped
    <2>3. PageTyped'
      BY <1>1, <1>2 DEF PageTyped, browser
    <2>4. SubTyped(main)' /\ SubTyped(detail)'
      BY <1>1, <1>2 DEF SubTyped, Subscribers, Frames, FrameRecords
    <2> QED
      BY <2>2, <2>3, <2>4 DEF Typed
  <1>5. ItemKept'
    BY <1>2, <1>3 DEF ItemKept, NoItem, NoPace
  <1>6. RowFollows'
    BY <1>1, <1>2 DEF RowFollows, SubTyped, Subscribers
  <1>7. MainKept'
    <2>1. Waiting(main') = Waiting(main) /\ page' = page
      BY <1>1, <1>2 DEF Waiting, SubTyped, Subscribers, browser
    <2>2. page.epoch \in Nat
      BY <1>1 DEF PageTyped, PageRecords
    <2>3. \A i \in DOMAIN Waiting(main) : Waiting(main)[i].epoch \in Nat
      <3>1. Waiting(main) \in Seq(FrameRecords)
        BY <1>1 DEF SubTyped, Subscribers, Waiting, Frames
      <3>2. \A i \in DOMAIN Waiting(main) : Waiting(main)[i] \in FrameRecords
        BY <3>1
      <3> QED
        BY <3>2 DEF FrameRecords
    <2> QED
      BY <1>1, <1>2, <1>3, <2>1, <2>2, <2>3 DEF MainKept, MainFrame
  <1>8. StreamKept'
    <2>1. page'.epoch <= epoch /\ page'.epoch \in Nat
      BY <1>1, <1>2 DEF MainKept, PageTyped, PageRecords, browser
    <2> QED
      BY <1>2, <1>3, <2>1 DEF StreamKept, Fresh
  <1> QED
    BY <1>4, <1>5, <1>6, <1>7, <1>8 DEF Inv

-----------------------------------------------------------------------------
(* The page: what it does with what it is sent.                            *)

SpentKept == SpentTyped' /\ spent'.changes = spent.changes

LEMMA SpentStays ==
  ASSUME ServiceTyped, \/ Spend("events", MaxEvents) \/ UNCHANGED spent
  PROVE  SpentKept
  BY EventStreamConstants DEF ServiceTyped, Spend, SpentKept, SpentTyped

LEMMA ServiceStays ==
  ASSUME ServiceTyped, ItemKept, UNCHANGED service, SpentKept
  PROVE  ServiceTyped' /\ ItemKept'
  <1>1. ServiceTyped'
    BY DEF ServiceTyped, service, SpentKept, SpentTyped
  <1>2. ItemKept'
    BY DEF ItemKept, service, SpentKept
  <1> QED
    BY <1>1, <1>2

LEMMA RowsStay ==
  ASSUME RowFollows, MainKept, UNCHANGED <<service, main, up, page>>
  PROVE  RowFollows' /\ MainKept'
  BY DEF RowFollows, LastRow, RowDue, MainKept, MainFrame, Waiting, service

\* A body is as it was, or gone.
Keeps(b, c) ==
  c.has => /\ b.has /\ (Present(b) => Present(c))
           /\ c.seq = b.seq /\ c.out = b.out

Asked == es'.phase = "asking" /\ body'.has => es'.covered = body'.seq

\* The page keeps its body, and the detail stream is as it was or is closed.
LEMMA StreamStays ==
  ASSUME Typed, StreamKept, UNCHANGED service, page'.epoch = page.epoch,
         Keeps(body, body'), Fresh => Asked, detail' \in {detail, Gone}
  PROVE  StreamKept'
  <1>1. SUFFICES ASSUME Fresh
                 PROVE  Holds' /\ Chained(body, Waiting(detail))'
                        /\ Synced(body, Waiting(detail))'
    BY DEF StreamKept, Fresh, service
  <1>2. Holds /\ Chained(body, Waiting(detail)) /\ Synced(body, Waiting(detail))
    BY <1>1 DEF StreamKept
  <1>3. UNCHANGED <<epoch, seq, item, pace, log>>
    BY DEF service
  <1>4. Holds'
    BY <1>1, <1>2, <1>3 DEF Holds, Keeps, Asked, Present
  <1>5. CASE detail' = Gone
    <2>1. Waiting(detail') = <<>> /\ ~detail'.open
      BY <1>5 DEF Gone, Waiting
    <2> QED
      BY <1>4, <2>1 DEF Chained, Synced
  <1>6. CASE detail' = detail
    <2> DEFINE w == Waiting(detail)
    <2>1. \A i : Known(body', i) => /\ Known(body, i)
                                    /\ Prev(body', w, i) = Prev(body, w, i)
      BY DEF Keeps, Known, Prev
    <2> HIDE DEF w
    <2>2. \A i \in DOMAIN w : Fits(log, seq, body', w, i)
      <3> SUFFICES ASSUME NEW i \in DOMAIN w PROVE Fits(log, seq, body', w, i)
        OBVIOUS
      <3>1. Fits(log, seq, body, w, i)
        BY <1>2 DEF Chained, w
      <3> QED
        BY <2>1, <3>1 DEF Fits, Follows
    <2>3. Chained(body, Waiting(detail))'
      BY <1>3, <1>6, <2>2 DEF Chained, Fits, w
    <2>4. Synced(body, Waiting(detail))'
      BY <1>2, <1>3, <1>6, <2>1 DEF Synced, Exact, w
    <2> QED
      BY <1>4, <2>3, <2>4
  <1> QED
    BY <1>5, <1>6

\* The page starts anew.
LEMMA StreamAnew ==
  ASSUME ~body'.has, detail' = Gone
  PROVE  StreamKept'
  <1>1. Waiting(detail') = <<>> /\ ~detail'.open
    BY DEF Gone, Waiting
  <1> QED
    BY <1>1 DEF StreamKept, Holds, Chained, Synced

LEMMA TypedAfter ==
  ASSUME ServiceTyped', PageTyped', SubTyped(main'), SubTyped(detail')
  PROVE  Typed'
  BY DEF Typed, SubTyped, Subscribers, Frames, FrameRecords

\* A step of the page, which leaves the service and its subscriber alone.
LEMMA PageStepKeeps ==
  ASSUME Inv, UNCHANGED service, SpentKept, PageTyped',
         SubTyped(main'), RowFollows', MainKept',
         detail' \in {detail, Gone}, StreamKept'
  PROVE  Inv'
  <1>1. ServiceTyped' /\ ItemKept'
    BY ServiceStays DEF Inv, Typed
  <1>2. SubTyped(detail')
    BY NoneTyped DEF Inv, Typed
  <1>3. Typed'
    BY <1>1, <1>2, TypedAfter
  <1> QED
    BY <1>1, <1>3 DEF Inv

LEMMA MainOpensKeeps ==
  ASSUME Inv, MainOpens
  PROVE  Inv'
  <1> DEFINE f == [Frame("snapshot") EXCEPT !.seq = seq, !.row = item.row]
  <1>1. /\ ServiceTyped /\ PageTyped /\ SubTyped(main) /\ SubTyped(detail)
        /\ Typed /\ MainKept /\ StreamKept
    BY DEF Typed, Inv
  <1>2. /\ up' = "on" /\ main' = [Gone EXCEPT !.open = TRUE, !.first = <<f>>]
        /\ UNCHANGED <<service, detail, es, page, card, body, spent>>
    BY DEF MainOpens
  <1>3. f \in FrameRecords /\ f.row = item.row /\ f.epoch = epoch /\ f.kind = "snapshot"
    <2>1. /\ epoch \in Nat /\ seq \in Nat /\ item.row \in Rows /\ <<>> \in Changes
          /\ epoch \in Nat
      BY <1>1, NoneTyped DEF ServiceTyped, Items
    <2> QED
      BY <2>1 DEF Frame, FrameRecords
  <1> HIDE DEF f
  <1>4. /\ SubTyped(main') /\ Waiting(main') = <<f>>
        /\ <<f>> # <<>> /\ Len(<<f>>) = 1 /\ DOMAIN <<f>> = {1}
        /\ <<f>>[1] = f
    <2>1. main' = [open |-> TRUE, watch |-> FALSE, first |-> <<f>>, queue |-> <<>>]
      BY <1>2 DEF Gone
    <2>2. <<f>> \in Seq(FrameRecords) /\ <<>> \in Seq(FrameRecords)
      BY <1>3
    <2>3. <<f>> \o <<>> = <<f>>
      BY <2>2
    <2>4. SubTyped(main')
      BY <2>1, <2>2, EventStreamConstants DEF SubTyped, Subscribers, Frames
    <2> QED
      BY <2>1, <2>3, <2>4 DEF Waiting
  <1>5. RowFollows'
    BY <1>2, <1>3, <1>4 DEF RowFollows, LastRow, service
  <1>6. MainKept'
    <2>1. epoch \in Nat /\ page.epoch <= epoch /\ epoch' = epoch /\ page' = page
      BY <1>1, <1>2 DEF ServiceTyped, MainKept, service
    <2> QED
      BY <1>3, <1>4, <2>1 DEF MainKept, MainFrame
  <1>7. PageTyped'
    BY <1>1, <1>2 DEF PageTyped
  <1>8. StreamKept'
    <2>1. Keeps(body, body')
      BY <1>2 DEF Keeps, Present
    <2>2. Fresh => Asked
      BY <1>1, <1>2 DEF StreamKept, Holds, Asked
    <2> QED
      BY <1>1, <1>2, <2>1, <2>2, StreamStays
  <1>9. SpentKept
    BY <1>1, <1>2, SpentStays
  <1> QED
    BY <1>2, <1>4, <1>5, <1>6, <1>7, <1>8, <1>9, PageStepKeeps

\* What is sent first on a detail stream is built on what the page said it has.
LEMMA DetailOpensKeeps ==
  ASSUME Inv, DetailOpens
  PROVE  Inv'
  <1> DEFINE a == IF ~item.held THEN Frame("unavailable")
                  ELSE IF Current(es) THEN Frame("current") ELSE Body(item)
             f == [a EXCEPT !.seq = seq]
             g == [Frame("ready") EXCEPT !.seq = seq]
             w == <<f, g>>
  <1>1. /\ ServiceTyped /\ PageTyped /\ SubTyped(main)
        /\ ItemKept /\ RowFollows /\ MainKept /\ StreamKept
    BY DEF Typed, Inv
  <1>2. /\ es.phase = "asking" /\ es' = [es EXCEPT !.phase = "on"]
        /\ detail' = [open |-> TRUE, watch |-> item.held, queue |-> <<>>, first |-> w]
        /\ UNCHANGED <<service, main, up, page, card, body, spent>>
    BY DEF DetailOpens
  <1>3. /\ seq \in Nat /\ epoch \in Nat /\ item \in Items /\ item.out \in Changes
        /\ marked \in 0..seq
        /\ <<>> \in Changes /\ 0 \in Rows /\ item.held \in BOOLEAN
    BY <1>1, NoneTyped DEF ServiceTyped, Items, Rows
  <1>4. /\ f \in FrameRecords /\ f.seq = seq /\ f.epoch = epoch
        /\ f.kind = IF ~item.held THEN "unavailable"
                    ELSE IF Current(es) THEN "current" ELSE "body"
        /\ f.kind = "body" => f.out = item.out
    <2>1. a = [kind |-> IF ~item.held THEN "unavailable"
                        ELSE IF Current(es) THEN "current" ELSE "body",
               seq |-> 0, epoch |-> epoch, row |-> 0,
               out |-> IF a.kind = "body" THEN item.out ELSE <<>>]
      BY DEF Frame, Body
    <2> HIDE DEF a
    <2> QED
      BY <1>3, <2>1 DEF FrameRecords
  <1>5. g \in FrameRecords /\ g.seq = seq /\ g.epoch = epoch /\ g.kind = "ready"
    BY <1>3 DEF Frame, FrameRecords
  <1> HIDE DEF a, f, g
  <1>6. w \in Seq(FrameRecords) /\ w \o <<>> = w
    BY <1>4, <1>5
  <1>12. Len(w) = 2 /\ DOMAIN w = {1, 2} /\ w[1] = f /\ w[2] = g
    OBVIOUS
  <1>13. f.kind \in {"unavailable", "current", "body"} /\ seq <= seq
    BY <1>3, <1>4
  <1> HIDE DEF w
  <1>7. Waiting(detail') = w
    BY <1>2, <1>6 DEF Waiting
  <1>8. SubTyped(detail')
    <2>1. Len(<<>>) = 0 /\ Queue \in Nat /\ <<>> \in Seq(FrameRecords)
      BY EventStreamConstants
    <2> QED
      BY <1>2, <1>3, <1>6, <2>1 DEF SubTyped, Subscribers, Frames
  <1>9. ServiceTyped' /\ ItemKept' /\ RowFollows' /\ MainKept'
    BY <1>1, <1>2, SpentStays, ServiceStays, RowsStay
  <1>10. Typed'
    <2>1. PageTyped'
      BY <1>1, <1>2 DEF PageTyped, EsRecords
    <2> QED
      BY <1>1, <1>2, <1>8, <1>9, <2>1, TypedAfter
  <1>11. StreamKept'
    <2> SUFFICES ASSUME Fresh
                 PROVE  Holds' /\ Chained(body, Waiting(detail))'
                        /\ Synced(body, Waiting(detail))'
      BY <1>2 DEF StreamKept, Fresh, service
    <2>1. Holds
      BY <1>1 DEF StreamKept
    <2>2. item.held => log[seq] = item.out
      BY <1>1, <1>3 DEF ItemKept
    <2>3. Holds'
      BY <1>2, <2>1 DEF Holds, Present, service
    <2>4. Fits(log, seq, body, w, 1)
      <3>1. body.has => body.seq \in 0..seq
        BY <2>1 DEF Holds
      <3>2. f.kind = "current" /\ body.has => log[seq] = log[body.seq]
        <4> SUFFICES ASSUME f.kind = "current", body.has
                     PROVE  log[seq] = log[body.seq]
          OBVIOUS
        <4>1. item.held /\ Current(es) /\ es.covered = body.seq
          BY <1>2, <1>4, <2>1 DEF Holds
        <4>2. body.seq \in marked..seq
          BY <1>3, <3>1, <4>1 DEF Current
        <4> QED
          BY <1>1, <2>2, <4>1, <4>2 DEF ItemKept
      <3>3. body.has => Follows(log, body, w, 1)
        <4>1. Prev(body, w, 1) = body.seq
          BY DEF Prev
        <4>2. body.has => body.seq <= seq
          BY <1>3, <3>1
        <4> QED
          BY <1>4, <1>12, <1>13, <3>2, <4>1, <4>2 DEF Follows
      <3> QED
        BY <1>3, <1>4, <1>12, <1>13, <2>2, <3>3 DEF Fits, Known, DetailKinds
    <2>5. Fits(log, seq, body, w, 2)
      <3>1. Prev(body, w, 2) = seq
        BY <1>4, <1>12 DEF Prev
      <3>2. Follows(log, body, w, 2)
        BY <1>5, <1>12, <1>13, <3>1 DEF Follows
      <3> QED
        BY <1>3, <1>5, <1>12, <3>2 DEF Fits, DetailKinds
    <2>6. Chained(body, Waiting(detail))'
      <3>1. \A i \in DOMAIN w : Fits(log, seq, body, w, i)
        BY <1>12, <2>4, <2>5
      <3> QED
        BY <1>2, <1>7, <3>1 DEF Chained, Fits, service
    <2>7. Synced(body, Waiting(detail))'
      <3>1. Prev(body, w, 3) = seq
        BY <1>5, <1>12 DEF Prev
      <3>2. item.held => log[Prev(body, w, Len(w) + 1)] = item.out
        BY <1>12, <2>2, <3>1
      <3>3. /\ log' = log /\ item' = item /\ body' = body
            /\ Waiting(detail') = w /\ detail'.watch = item.held
        BY <1>2, <1>7 DEF service
      <3> QED
        BY <3>2, <3>3 DEF Synced
    <2> QED
      BY <2>3, <2>6, <2>7
  <1> QED
    BY <1>9, <1>10, <1>11 DEF Inv

\* A new detail stream: the page keeps its body, or lets it go, and asks for
\* what has changed since.
LEMMA StreamMakes ==
  ASSUME NEW b \in BodyRecords, NEW pg \in PageRecords, NEW listed \in BOOLEAN,
         Stream(b, pg, listed)
  PROVE  /\ detail' = Gone /\ body' \in BodyRecords /\ es' \in EsRecords
         /\ Keeps(b, body') /\ Asked
  <1> DEFINE at == Interested(b, listed)
             now == Invalidated(at, pg.floor)
  <1>1. /\ detail' = Gone /\ body' = IF pg.live THEN now ELSE b
        /\ es' = IF pg.live /\ listed THEN Asking(now, pg, 0) ELSE Idle
    BY DEF Stream
  <1>2. at \in BodyRecords /\ Keeps(b, at)
    <2>1. CASE listed
      <3>1. at = [b EXCEPT !.status = Refreshed(b)]
        BY <2>1 DEF Interested
      <3>2. Refreshed(b) \in {"refreshing", "loading"}
        BY DEF Refreshed
      <3> HIDE DEF at
      <3> QED
        BY <3>1, <3>2 DEF BodyRecords, Statuses, Keeps, Present
    <2>2. CASE ~listed /\ b.status = "unavailable"
      BY <2>2 DEF Interested, Keeps
    <2>3. CASE ~listed /\ b.status # "unavailable"
      <3>1. at = NoBody
        BY <2>3 DEF Interested
      <3> QED
        BY <3>1 DEF NoBody, BodyRecords, Statuses, Keeps, Changes
    <2> QED
      BY <2>1, <2>2, <2>3
  <1> HIDE DEF at
  <1>3. now \in BodyRecords /\ Keeps(at, now)
    <2>1. pg.floor \in Nat \cup {None}
      BY DEF PageRecords
    <2>2. CASE ~Present(at) \/ pg.floor <= at.floor
      <3>1. now = at
        BY <2>2 DEF Invalidated
      <3> QED
        BY <1>2, <3>1 DEF Keeps
    <2>3. CASE ~(~Present(at) \/ pg.floor <= at.floor)
      <3> DEFINE status == IF at.seq >= pg.floor THEN "loaded" ELSE Refreshed(at)
      <3>1. now = [at EXCEPT !.floor = pg.floor, !.status = status]
        BY <2>3 DEF Invalidated
      <3>2. status \in {"loaded", "refreshing", "loading"}
        BY DEF Refreshed
      <3> HIDE DEF now, status
      <3> QED
        BY <1>2, <2>1, <3>1, <3>2 DEF BodyRecords, Statuses, Keeps, Present
    <2> QED
      BY <2>2, <2>3
  <1> HIDE DEF now
  <1>4. Keeps(b, now) /\ Keeps(b, b)
    BY <1>2, <1>3 DEF Keeps
  <1>5. es' \in EsRecords
    <2>1. 0 \in 0..Attempts
      BY EventStreamConstants
    <2>2. Idle \in EsRecords
      BY <2>1 DEF Idle, EsRecords
    <2>3. Asking(now, pg, 0) \in EsRecords
      BY <1>3, <2>1 DEF Asking, EsRecords, BodyRecords, PageRecords
    <2> QED
      BY <1>1, <2>2, <2>3
  <1>6. Asked
    BY <1>1 DEF Asked, Asking, Idle
  <1> QED
    BY <1>1, <1>3, <1>4, <1>5, <1>6

\* Once the head is taken, the last that waits is the last that waited.
LEMMA TakenLast ==
  ASSUME NEW w \in Seq(FrameRecords), w # <<>>
  PROVE  /\ Head(w) = w[1] /\ 1 \in DOMAIN w
         /\ Tail(w) \in Seq(FrameRecords) /\ Len(Tail(w)) = Len(w) - 1
         /\ Len(w) \in Nat /\ Len(w) > 0
         /\ \A i \in DOMAIN Tail(w) : i + 1 \in DOMAIN w /\ Tail(w)[i] = w[i + 1]
         /\ Tail(w) = <<>> <=> Len(w) = 1
         /\ Tail(w) # <<>> => Tail(w)[Len(Tail(w))] = w[Len(w)]
  <1> DEFINE v == Tail(w)
  <1>1. Len(w) \in Nat /\ Len(w) > 0 /\ Head(w) = w[1] /\ DOMAIN w = 1..Len(w)
    OBVIOUS
  <1>2. v \in Seq(FrameRecords) /\ Len(v) = Len(w) - 1
    BY <1>1
  <1>3. DOMAIN v = 1..(Len(w) - 1) /\ \A i \in 1..(Len(w) - 1) : v[i] = w[i + 1]
    <2>1. \A i \in 1..(Len(w) - 1) : v[i] = w[i + 1]
      BY <1>1
    <2>2. DOMAIN v = 1..Len(v)
      BY <1>2
    <2> QED
      BY <1>2, <2>1, <2>2
  <1> HIDE DEF v
  <1>4. v = <<>> <=> Len(v) = 0
    <2>1. v # <<>> => Len(v) # 0
      <3>1. v \in Seq(FrameRecords) /\ Len(v) \in Nat
        BY <1>2
      <3>2. DOMAIN v = 1..Len(v)
        BY <3>1
      <3>3. Len(v) = 0 => v = <<>>
        BY <3>1, <3>2
      <3> QED
        BY <3>3
    <2> QED
      BY <2>1
  <1>5. v = <<>> <=> Len(w) = 1
    BY <1>1, <1>2, <1>4
  <1>6. v # <<>> => v[Len(v)] = w[Len(w)]
    <2> SUFFICES ASSUME v # <<>> PROVE v[Len(v)] = w[Len(w)]
      OBVIOUS
    <2>1. Len(v) \in 1..(Len(w) - 1) /\ Len(v) + 1 = Len(w)
      BY <1>1, <1>2, <1>5
    <2> QED
      BY <1>3, <2>1
  <1>7. \A i \in DOMAIN v : i + 1 \in DOMAIN w /\ v[i] = w[i + 1]
    BY <1>1, <1>3
  <1> QED
    BY <1>1, <1>2, <1>5, <1>6, <1>7, SMTT(30) DEF v

LEMMA CardsTyped ==
  ASSUME NEW c \in CardRecords
  PROVE  /\ Renewed(c) \in CardRecords /\ Unmounted(c) \in CardRecords
         /\ [Renewed(c) EXCEPT !.blocked = FALSE, !.tick = TRUE] \in CardRecords
         /\ [Unmounted(c) EXCEPT !.blocked = FALSE, !.tick = TRUE] \in CardRecords
  BY ZenonT(60) DEF Renewed, Unmounted, CardRecords

LEMMA ReceiveMainKeeps ==
  ASSUME Inv, ReceiveMain
  PROVE  Inv'
  <1> DEFINE w == Waiting(main)
             f == Head(w)
  <1>1. /\ Typed /\ ServiceTyped /\ PageTyped /\ SubTyped(main)
        /\ RowFollows /\ MainKept /\ StreamKept
    BY DEF Typed, Inv
  <1>2. /\ up = "on" /\ w # <<>> /\ main' = Taken(main)
        /\ UNCHANGED <<service, up, spent>>
    BY DEF ReceiveMain
  <1>3. /\ SubTyped(main') /\ f \in FrameRecords
        /\ Waiting(main') = Tail(w) /\ main'.open = main.open
    BY <1>1, <1>2, TakenTyped
  <1>4. w \in Seq(FrameRecords)
    BY <1>1 DEF SubTyped, Subscribers, Frames, Waiting
  <1>5. \/ f.kind \in {"snapshot", "history"} /\ Replace(f)
        \/ /\ f.kind = "row"
           /\ page' = [page EXCEPT !.row = f.row, !.floor = f.seq]
           /\ body' = Invalidated(body, f.seq)
           /\ UNCHANGED <<detail, es, card>>
        \/ /\ f.kind = "trimmed" /\ f.row = 0
           /\ page' = [page EXCEPT !.row = 0, !.floor = None]
           /\ card' = Unmounted(card)
           /\ UNCHANGED <<detail, es, body>>
    <2>1. MainFrame(f)
      BY <1>1, <1>2, <1>4, TakenLast DEF MainKept
    <2> QED
      BY <2>1 DEF ReceiveMain, MainFrame
  <1>6. MainFrame(f) /\ \A i \in DOMAIN Tail(w) : MainFrame(Tail(w)[i])
    BY <1>1, <1>2, <1>4, TakenLast DEF MainKept
  <1> HIDE DEF f
  <1>7. /\ page' \in PageRecords /\ page'.row = f.row
        /\ page'.epoch \in {page.epoch, f.epoch}
        /\ f.kind # "snapshot" => page'.epoch = page.epoch
    <2>1. /\ page \in PageRecords /\ f.row \in Rows /\ f.seq \in Nat /\ 0 \in Rows
          /\ f.epoch \in Nat
      BY <1>1, <1>3 DEF PageTyped, FrameRecords, Rows
    <2>2. CASE Replace(f)
      BY <2>1, <2>2 DEF Replace, PageRecords
    <2>3. CASE ~Replace(f)
      BY <1>5, <2>1, <2>3 DEF PageRecords
    <2> QED
      BY <2>2, <2>3
  <1>8. RowFollows'
    <2>1. LastRow' = LastRow
      BY <1>2, <1>3, <1>4, <1>7, TakenLast DEF LastRow, f
    <2> QED
      BY <1>1, <1>2, <1>3, <2>1 DEF RowFollows, RowDue, service
  <1>9. MainKept'
    <2>1. page'.epoch <= epoch
      BY <1>1, <1>6, <1>7 DEF MainKept, MainFrame
    <2> QED
      BY <1>2, <1>3, <1>6, <2>1 DEF MainKept, MainFrame, service
  <1>10. SpentKept
    BY <1>1, <1>2, SpentStays
  <1>11. /\ card' \in CardRecords /\ es' \in EsRecords /\ body' \in BodyRecords
         /\ detail' \in {detail, Gone} /\ StreamKept'
    <2>1. CASE Replace(f)
      <3>1. NoBody \in BodyRecords /\ card \in CardRecords
        BY <1>1, NoneTyped DEF PageTyped
      <3>2. Stream(NoBody, page', card.listed)
        BY <2>1 DEF Replace
      <3>3. card' \in CardRecords
        <4>1. \/ card' = [Unmounted(card) EXCEPT !.blocked = FALSE, !.tick = TRUE]
              \/ card' = [Renewed(card) EXCEPT !.blocked = FALSE, !.tick = TRUE]
          BY <2>1 DEF Replace
        <4> QED
          BY <3>1, <4>1, CardsTyped
      <3>4. /\ detail' = Gone /\ body' \in BodyRecords /\ es' \in EsRecords
            /\ Keeps(NoBody, body')
        <4>1. card.listed \in BOOLEAN
          BY <3>1 DEF CardRecords
        <4> QED
          BY <1>7, <3>1, <3>2, <4>1, StreamMakes
      <3>5. ~body'.has
        BY <3>4 DEF Keeps, NoBody
      <3> QED
        BY <3>3, <3>4, <3>5, StreamAnew
    <2>2. CASE ~Replace(f)
      <3>1. /\ page'.epoch = page.epoch /\ detail' = detail /\ es' = es
            /\ card' \in {card, Unmounted(card)}
            /\ body' = body \/ body' = Invalidated(body, f.seq)
        BY <1>5, <1>7, <2>2
      <3>2. body' \in BodyRecords /\ Keeps(body, body')
        <4>1. body \in BodyRecords /\ f.seq \in Nat
          BY <1>1, <1>3 DEF PageTyped, FrameRecords
        <4>2. CASE body' = body
          BY <4>1, <4>2 DEF Keeps
        <4>3. CASE body' = Invalidated(body, f.seq) /\ body' # body
          <5> DEFINE status == IF body.seq >= f.seq THEN "loaded" ELSE Refreshed(body)
          <5>1. body' = [body EXCEPT !.floor = f.seq, !.status = status]
            BY <4>3 DEF Invalidated
          <5>2. status \in {"loaded", "refreshing", "loading"}
            BY DEF Refreshed
          <5> HIDE DEF status
          <5> QED
            BY <4>1, <5>1, <5>2 DEF BodyRecords, Statuses, Keeps, Present
        <4> QED
          BY <3>1, <4>2, <4>3
      <3>3. Fresh => Asked
        BY <1>1, <3>1, <3>2 DEF StreamKept, Holds, Asked, Keeps
      <3>4. card' \in CardRecords /\ es' \in EsRecords
        BY <1>1, <3>1, CardsTyped DEF PageTyped
      <3>5. StreamKept'
        BY <1>1, <1>2, <3>1, <3>2, <3>3, StreamStays
      <3> QED
        BY <3>1, <3>2, <3>4, <3>5
    <2> QED
      BY <2>1, <2>2
  <1>12. PageTyped'
    BY <1>1, <1>2, <1>7, <1>11 DEF PageTyped
  <1> QED
    BY <1>2, <1>3, <1>8, <1>9, <1>10, <1>11, <1>12, PageStepKeeps

\* The main connection is lost: the body is kept, and asked for anew once the
\* page is live again.
LEMMA MainLostKeeps ==
  ASSUME Inv, MainLost
  PROVE  Inv'
  <1>1. /\ Typed /\ ServiceTyped /\ PageTyped /\ MainKept /\ StreamKept
    BY DEF Typed, Inv
  <1>2. /\ up' = "asking" /\ main' = Gone
        /\ page' = [page EXCEPT !.live = FALSE] /\ card' = Renewed(card)
        /\ Stream(body, page', card.listed) /\ UNCHANGED service
    BY DEF MainLost
  <1>3. SpentKept
    BY <1>1, SpentStays DEF MainLost, Ends
  <1>4. /\ page' \in PageRecords /\ page'.epoch = page.epoch
        /\ body \in BodyRecords /\ card \in CardRecords /\ card.listed \in BOOLEAN
    BY <1>1, <1>2 DEF PageTyped, PageRecords, CardRecords
  <1>5. /\ detail' = Gone /\ body' \in BodyRecords /\ es' \in EsRecords
        /\ Keeps(body, body') /\ Asked
    BY <1>2, <1>4, StreamMakes
  <1>6. PageTyped'
    BY <1>2, <1>4, <1>5, CardsTyped DEF PageTyped
  <1>7. SubTyped(main')
    BY <1>1, <1>2, NoneTyped
  <1>8. RowFollows'
    BY <1>2 DEF RowFollows
  <1>9. MainKept'
    <2>1. Waiting(main') = <<>>
      BY <1>2 DEF Waiting, Gone
    <2> QED
      BY <1>1, <1>2, <1>4, <2>1 DEF MainKept, service
  <1>10. StreamKept'
    BY <1>1, <1>2, <1>4, <1>5, StreamStays
  <1> QED
    BY <1>2, <1>3, <1>5, <1>6, <1>7, <1>8, <1>9, <1>10, PageStepKeeps

\* A step of the page that only the detail stream and the card know of.
LEMMA DetailStepKeeps ==
  ASSUME Inv, UNCHANGED <<service, main, up, page>>, SpentKept,
         es' \in EsRecords, card' \in CardRecords, body' \in BodyRecords,
         detail' \in {detail, Gone}, Keeps(body, body'), Fresh => Asked
  PROVE  Inv'
  <1>1. /\ Typed /\ ServiceTyped /\ PageTyped /\ SubTyped(main)
        /\ RowFollows /\ MainKept /\ StreamKept
    BY DEF Typed, Inv
  <1>2. RowFollows' /\ MainKept'
    BY <1>1, RowsStay
  <1>3. PageTyped'
    BY <1>1 DEF PageTyped
  <1>4. StreamKept'
    BY <1>1, StreamStays
  <1> QED
    BY <1>1, <1>2, <1>3, <1>4, PageStepKeeps

\* The detail stream failed: the body is kept.
LEMMA FailedKeeps ==
  ASSUME NEW b \in BodyRecords, NEW terminal \in BOOLEAN
  PROVE  Failed(b, terminal) \in BodyRecords /\ Keeps(b, Failed(b, terminal))
  <1> DEFINE status == IF terminal THEN "error" ELSE Refreshed(b)
  <1>1. CASE Present(b)
    <2>1. Failed(b, terminal) = [b EXCEPT !.status = status]
      BY <1>1 DEF Failed
    <2>2. status \in {"error", "refreshing", "loading"}
      BY DEF Refreshed
    <2> HIDE DEF status
    <2> QED
      BY <2>1, <2>2 DEF BodyRecords, Statuses, Keeps, Present
  <1>2. CASE ~Present(b)
    BY <1>2 DEF Failed, Keeps
  <1> QED
    BY <1>1, <1>2

LEMMA DetailLostKeeps ==
  ASSUME Inv, DetailLost
  PROVE  Inv'
  <1> DEFINE over == es.tries >= Attempts
  <1>1. ServiceTyped /\ PageTyped
    BY DEF Typed, Inv
  <1>2. /\ detail' = Gone /\ body' = Failed(body, over)
        /\ es' = IF over THEN [es EXCEPT !.phase = "failed"]
                 ELSE [es EXCEPT !.phase = "waiting", !.tries = @ + 1]
        /\ UNCHANGED <<service, main, up, page, card>>
    BY DEF DetailLost
  <1>3. SpentKept
    BY <1>1, SpentStays DEF DetailLost, Ends
  <1>4. body' \in BodyRecords /\ Keeps(body, body')
    <2>1. over \in BOOLEAN /\ body \in BodyRecords
      BY <1>1 DEF PageTyped
    <2> QED
      BY <1>2, <2>1, FailedKeeps
  <1>5. es' \in EsRecords /\ es'.phase # "asking"
    <2>1. es \in EsRecords /\ es.tries \in 0..Attempts /\ Attempts \in Nat
      BY <1>1, EventStreamConstants DEF PageTyped, EsRecords
    <2>2. CASE over
      BY <1>2, <2>1, <2>2 DEF EsRecords
    <2>3. CASE ~over
      <3>1. es.tries + 1 \in 0..Attempts
        BY <2>1, <2>3
      <3>2. es' = [es EXCEPT !.phase = "waiting", !.tries = es.tries + 1]
        BY <1>2, <2>3
      <3> QED
        BY <2>1, <3>1, <3>2 DEF EsRecords
    <2> QED
      BY <2>2, <2>3
  <1>6. card' \in CardRecords
    BY <1>1, <1>2 DEF PageTyped
  <1> QED
    BY <1>2, <1>3, <1>4, <1>5, <1>6, DetailStepKeeps DEF Asked

LEMMA DetailRetriesKeeps ==
  ASSUME Inv, DetailRetries
  PROVE  Inv'
  <1>1. ServiceTyped /\ PageTyped
    BY DEF Typed, Inv
  <1>2. /\ es' = Asking(body, page, es.tries)
        /\ UNCHANGED <<service, main, detail, up, page, card, body, spent>>
    BY DEF DetailRetries
  <1>3. SpentKept
    BY <1>1, <1>2, SpentStays
  <1>4. /\ body' \in BodyRecords /\ Keeps(body, body') /\ card' \in CardRecords
    BY <1>1, <1>2 DEF PageTyped, Keeps
  <1>5. es' \in EsRecords
    BY <1>1, <1>2 DEF PageTyped, Asking, EsRecords, BodyRecords, PageRecords
  <1>6. Asked
    BY <1>2 DEF Asked, Asking
  <1> QED
    BY <1>2, <1>3, <1>4, <1>5, <1>6, DetailStepKeeps

\* What a frame makes of a body that has reached what the frame builds on.
LEMMA ReduceFits ==
  ASSUME ServiceTyped, NEW b \in BodyRecords, NEW w \in Seq(FrameRecords), w # <<>>,
         b.has => Present(b) /\ b.seq \in 0..seq /\ b.out = log[b.seq],
         Fits(log, seq, b, w, 1)
  PROVE  LET f == w[1]
             c == Reduce(b, f)
         IN c.has => /\ Present(c) /\ c.seq = f.seq /\ c.out = log[f.seq]
                     /\ f.seq \in 0..seq
  <1> DEFINE f == w[1]
             c == Reduce(b, f)
  <1>1. /\ f.kind \in DetailKinds /\ f.seq \in 0..seq
        /\ f.kind = "body" => f.out = log[f.seq]
        /\ b.has => /\ b.seq <= f.seq
                    /\ f.kind = "delta" => b.seq < f.seq /\ log[f.seq] = log[b.seq] \o f.out
                    /\ f.kind = "current" => log[f.seq] = log[b.seq]
                    /\ f.kind = "ready" => f.seq = b.seq
    BY DEF Fits, Known, Follows, Prev
  <1>2. b.seq \in Nat \cup {None} /\ b.has \in BOOLEAN /\ f.seq \in Nat /\ seq \in Nat
    BY <1>1 DEF BodyRecords, ServiceTyped
  <1> HIDE DEF f
  <1> SUFFICES ASSUME c.has PROVE Present(c) /\ c.seq = f.seq /\ c.out = log[f.seq]
    BY <1>1 DEF f
  <1>3. CASE f.kind = "body"
    <2>1. CASE Present(b) /\ f.seq >= b.seq
      <3>1. c = Reached([b EXCEPT !.has = TRUE, !.out = f.out], f.seq)
        BY <1>3, <2>1 DEF Reduce
      <3>2. c.seq = f.seq /\ c.out = f.out /\ c.status \in {"loaded", "refreshing"}
        BY <3>1 DEF Reached, BodyRecords
      <3> QED
        BY <1>1, <1>3, <3>2 DEF Present
    <2>2. CASE ~(Present(b) /\ f.seq >= b.seq)
      <3>1. c = b
        BY <1>3, <2>2 DEF Reduce
      <3> QED
        BY <1>1, <1>2, <2>2, <3>1
    <2> QED
      BY <2>1, <2>2
  <1>4. CASE f.kind = "delta"
    <2>1. CASE b.has
      <3>1. f.seq > b.seq
        BY <1>1, <1>2, <1>4, <2>1
      <3>2. c = Reached([b EXCEPT !.out = b.out \o f.out], f.seq)
        BY <1>4, <2>1, <3>1 DEF Reduce
      <3>3. c.seq = f.seq /\ c.out = b.out \o f.out
            /\ c.status \in {"loaded", "refreshing"}
        BY <3>2 DEF Reached, BodyRecords
      <3> QED
        BY <1>1, <1>4, <2>1, <3>3 DEF Present
    <2>2. CASE ~b.has
      BY <1>4, <2>2 DEF Reduce
    <2> QED
      BY <2>1, <2>2
  <1>5. CASE f.kind = "current"
    <2>1. CASE b.has
      <3>1. f.seq >= b.seq
        BY <1>1, <1>2, <2>1
      <3>2. c = Reached(b, f.seq)
        BY <1>5, <2>1, <3>1 DEF Reduce
      <3>3. c.seq = f.seq /\ c.out = b.out /\ c.status \in {"loaded", "refreshing"}
        BY <3>2 DEF Reached, BodyRecords
      <3> QED
        BY <1>1, <1>5, <2>1, <3>3 DEF Present
    <2>2. CASE ~b.has
      BY <1>5, <2>2 DEF Reduce
    <2> QED
      BY <2>1, <2>2
  <1>6. CASE f.kind \in {"unavailable", "trimmed"}
    <2>1. CASE Present(b)
      <3>1. c = Unavailable(f)
        BY <1>6, <2>1 DEF Reduce
      <3> QED
        BY <3>1 DEF Unavailable, NoBody
    <2>2. CASE ~Present(b)
      <3>1. c = b
        BY <1>6, <2>2 DEF Reduce
      <3> QED
        BY <2>2, <3>1
    <2> QED
      BY <2>1, <2>2
  <1>7. CASE f.kind = "reset"
    BY <1>7 DEF Reduce, NoBody
  <1>8. CASE f.kind = "ready"
    <2>1. c = b
      BY <1>8 DEF Reduce
    <2> QED
      BY <1>1, <1>2, <1>8, <2>1
  <1> QED
    BY <1>1, <1>3, <1>4, <1>5, <1>6, <1>7, <1>8 DEF DetailKinds

LEMMA ReduceTyped ==
  ASSUME NEW b \in BodyRecords, NEW f \in FrameRecords
  PROVE  Reduce(b, f) \in BodyRecords
  <1>1. f.out \in Changes /\ b.out \in Changes /\ f.seq \in Nat
    BY DEF BodyRecords, FrameRecords
  <1>2. b.out \o f.out \in Changes
    BY <1>1 DEF Changes
  <1>3. NoBody \in BodyRecords /\ Unavailable(f) \in BodyRecords
    <2>1. <<>> \in Changes
      BY DEF Changes
    <2>2. Unavailable(f) = [status |-> "unavailable", seq |-> f.seq,
                            floor |-> f.seq, has |-> FALSE, out |-> <<>>]
      <3> DEFINE n == f.seq
      <3> HIDE DEF n
      <3>1. Unavailable(f) = [NoBody EXCEPT !.status = "unavailable", !.seq = n,
                                            !.floor = n]
        BY DEF Unavailable, n
      <3> QED
        BY <3>1 DEF NoBody, n
    <2>3. NoBody \in BodyRecords
      BY <2>1 DEF NoBody, BodyRecords, Statuses
    <2> QED
      BY <1>1, <2>1, <2>2, <2>3 DEF BodyRecords, Statuses
  <1>4. ASSUME NEW d \in BodyRecords
        PROVE  Reached(d, f.seq) \in BodyRecords
    <2> DEFINE status == IF f.seq >= d.floor THEN "loaded" ELSE "refreshing"
    <2>1. Reached(d, f.seq) = [d EXCEPT !.seq = f.seq, !.status = status]
      BY DEF Reached
    <2>2. status \in {"loaded", "refreshing"}
      OBVIOUS
    <2> HIDE DEF status
    <2>3. status \in Statuses
      BY <2>2 DEF Statuses
    <2> QED
      BY <1>1, <2>1, <2>3 DEF BodyRecords
  <1>5. /\ [b EXCEPT !.has = TRUE, !.out = f.out] \in BodyRecords
        /\ [b EXCEPT !.out = b.out \o f.out] \in BodyRecords
    BY <1>1, <1>2 DEF BodyRecords
  <1>6. \/ Reduce(b, f) \in {NoBody, Unavailable(f), b}
        \/ Reduce(b, f) = Reached([b EXCEPT !.has = TRUE, !.out = f.out], f.seq)
        \/ Reduce(b, f) = Reached([b EXCEPT !.out = b.out \o f.out], f.seq)
        \/ Reduce(b, f) = Reached(b, f.seq)
    BY DEF Reduce
  <1> QED
    BY <1>3, <1>4, <1>5, <1>6

\* The page takes the head: what it then has is what the next frame builds on.
LEMMA TakenKeeps ==
  ASSUME Typed, StreamKept, Waiting(detail) # <<>>, Fresh,
         UNCHANGED <<service, page>>,
         body' = Reduce(body, Head(Waiting(detail))),
         detail' = Taken(detail), es'.phase # "asking"
  PROVE  StreamKept'
  <1> DEFINE w == Waiting(detail)
             v == Tail(w)
             f == w[1]
  <1>1. ServiceTyped /\ SubTyped(detail) /\ body \in BodyRecords
    BY DEF Typed, PageTyped
  <1>2. Holds /\ Chained(body, w) /\ Synced(body, w)
    BY DEF StreamKept
  <1>3. /\ Waiting(detail') = v
        /\ detail'.open = detail.open /\ detail'.watch = detail.watch
    BY <1>1, TakenTyped
  <1>4. w \in Seq(FrameRecords) /\ w # <<>>
    BY <1>1 DEF SubTyped, Subscribers, Frames, Waiting
  <1>5. UNCHANGED <<epoch, seq, item, pace, log>>
    BY DEF service
  <1> HIDE DEF w
  <1>6. /\ Head(w) = f /\ 1 \in DOMAIN w /\ Len(v) = Len(w) - 1 /\ Len(w) \in Nat
        /\ v \in Seq(FrameRecords)
        /\ \A i \in DOMAIN v : i + 1 \in DOMAIN w /\ v[i] = w[i + 1]
    BY <1>4, TakenLast
  <1>7. Fits(log, seq, body, w, 1)
    BY <1>2, <1>6 DEF Chained
  <1>8. body'.has => /\ body'.status # "absent" /\ body'.seq = f.seq
                     /\ body'.out = log[f.seq] /\ f.seq \in 0..seq
    <2>1. body.has => Present(body) /\ body.seq \in 0..seq /\ body.out = log[body.seq]
      BY <1>2 DEF Holds
    <2>2. body' = Reduce(body, f)
      BY <1>6 DEF w
    <2> QED
      BY <1>1, <1>4, <1>7, <2>1, <2>2, ReduceFits DEF Present
  <1>9. Holds'
    BY <1>5, <1>8 DEF Holds, Present
  <1> HIDE DEF v
  <1>10. DOMAIN v = 1..Len(v) /\ Len(v) \in Nat
    BY <1>6
  <1>11. ASSUME NEW i \in 1..(Len(v) + 1), Known(body', i)
         PROVE  Prev(body', v, i) = Prev(body, w, i + 1) /\ Known(body, i + 1)
    <2>1. CASE i = 1
      BY <1>8, <1>11, <2>1 DEF Known, Prev
    <2>2. CASE i # 1
      <3>1. i - 1 \in DOMAIN v
        BY <1>10, <2>2
      <3>2. v[i - 1] = w[i]
        BY <1>6, <3>1
      <3> QED
        BY <2>2, <3>2 DEF Known, Prev
    <2> QED
      BY <2>1, <2>2
  <1>12. ASSUME NEW i \in DOMAIN v
         PROVE  Fits(log, seq, body', v, i)
    <2>1. i + 1 \in DOMAIN w /\ v[i] = w[i + 1] /\ i \in 1..(Len(v) + 1)
      BY <1>6, <1>10
    <2>2. Fits(log, seq, body, w, i + 1)
      BY <1>2, <2>1 DEF Chained
    <2>3. Known(body', i) =>
            Prev(body', v, i) = Prev(body, w, i + 1) /\ Known(body, i + 1)
      BY <1>11, <2>1
    <2>4. Known(body', i) => Follows(log, body', v, i)
      BY <2>1, <2>2, <2>3 DEF Fits, Follows
    <2> QED
      BY <2>1, <2>2, <2>4 DEF Fits
  <1>13. Chained(body, Waiting(detail))'
    BY <1>3, <1>5, <1>12 DEF Chained, Fits
  <1>14. Synced(body, Waiting(detail))'
    <2>1. Len(v) + 1 \in 1..(Len(v) + 1) /\ Len(v) + 1 + 1 = Len(w) + 1
      BY <1>6, <1>10
    <2>2. Known(body', Len(v) + 1) =>
            /\ Prev(body', v, Len(v) + 1) = Prev(body, w, Len(w) + 1)
            /\ Known(body, Len(w) + 1)
      BY <1>11, <2>1
    <2> QED
      BY <1>2, <1>3, <1>5, <2>2 DEF Synced, Exact
  <1> QED
    BY <1>9, <1>13, <1>14 DEF StreamKept

LEMMA ReceiveDetailKeeps ==
  ASSUME Inv, ReceiveDetail
  PROVE  Inv'
  <1> DEFINE w == Waiting(detail)
             f == Head(w)
             c == [card EXCEPT !.tick = TRUE,
                               !.blocked = \/ f.kind = "unavailable" \/ card.open
                                           \/ card.fading \/ @]
  <1>1. /\ Typed /\ ServiceTyped /\ PageTyped /\ SubTyped(main) /\ SubTyped(detail)
        /\ RowFollows /\ MainKept /\ StreamKept
    BY DEF Typed, Inv
  <1>2. /\ w # <<>> /\ es.phase = "on" /\ UNCHANGED <<service, main, up, page, spent>>
    BY DEF ReceiveDetail
  <1>3. /\ f \in FrameRecords /\ SubTyped(Taken(detail))
        /\ body \in BodyRecords /\ card \in CardRecords /\ es \in EsRecords
        /\ Idle \in EsRecords /\ SubTyped(Gone) /\ Gone \in {detail, Gone}
    BY <1>1, <1>2, TakenTyped, NoneTyped DEF PageTyped
  <1>4. SpentKept /\ ServiceTyped' /\ ItemKept'
    <2>1. SpentKept
      BY <1>1, <1>2, SpentStays
    <2> QED
      BY <1>1, <1>2, <2>1, ServiceStays DEF Inv
  <1>5. RowFollows' /\ MainKept'
    BY <1>1, <1>2, RowsStay
  <1>6. CASE f.epoch # page.epoch \/ f.kind = "reset"
    <2>1. /\ es' = Idle /\ detail' = Gone
          /\ body' \in {Failed(body, TRUE), NoBody} /\ card' \in {card, c}
      <3>1. CASE f.epoch # page.epoch
        BY <3>1 DEF ReceiveDetail
      <3>2. CASE f.epoch = page.epoch /\ f.kind = "reset"
        <4>1. body' = Reduce(body, f) /\ es' = Idle /\ detail' = Gone /\ card' = card
          BY <3>2 DEF ReceiveDetail
        <4> HIDE DEF f, c
        <4>2. Reduce(body, f) = NoBody
          BY <3>2 DEF Reduce
        <4> QED
          BY <4>1, <4>2
      <3> QED
        BY <1>6, <3>1, <3>2
    <2>2. body' \in BodyRecords /\ Keeps(body, body')
      <3>1. Failed(body, TRUE) \in BodyRecords /\ Keeps(body, Failed(body, TRUE))
        BY <1>3, FailedKeeps
      <3>2. NoBody \in BodyRecords /\ Keeps(body, NoBody)
        BY <1>1, NoneTyped DEF Keeps, NoBody
      <3> QED
        BY <2>1, <3>1, <3>2
    <2>3. Asked
      BY <2>1 DEF Asked, Idle
    <2>4. card' \in CardRecords
      <3>1. c \in CardRecords
        BY <1>3 DEF CardRecords
      <3> QED
        BY <1>3, <2>1, <3>1
    <2> QED
      BY <1>2, <1>3, <1>4, <2>1, <2>2, <2>3, <2>4, DetailStepKeeps
  <1>7. CASE ~(f.epoch # page.epoch \/ f.kind = "reset")
    <2>1. /\ body' = Reduce(body, f) /\ detail' = Taken(detail)
          /\ es' = [es EXCEPT !.tries = IF f.kind = "ready" THEN 0 ELSE @]
          /\ card' \in {card, c}
      BY <1>7 DEF ReceiveDetail
    <2>2. es' \in EsRecords /\ es'.phase = "on"
      <3>1. 0 \in 0..Attempts
        BY EventStreamConstants
      <3> QED
        BY <1>2, <1>3, <2>1, <3>1 DEF EsRecords
    <2>3. card' \in CardRecords
      <3>1. c \in CardRecords
        BY <1>3 DEF CardRecords
      <3> QED
        BY <1>3, <2>1, <3>1
    <2> HIDE DEF c, f
    <2>4. PageTyped'
      <3>1. body' \in BodyRecords
        BY <1>3, <2>1, ReduceTyped
      <3> QED
        BY <1>1, <1>2, <2>2, <2>3, <3>1 DEF PageTyped
    <2>5. Typed'
      <3>1. SubTyped(main') /\ SubTyped(detail')
        BY <1>1, <1>2, <1>3, <2>1
      <3> QED
        BY <1>4, <2>4, <3>1, TypedAfter
    <2>6. StreamKept'
      <3>1. CASE Fresh
        BY <1>1, <1>2, <2>1, <2>2, <3>1, TakenKeeps DEF f
      <3>2. CASE ~Fresh
        BY <1>2, <3>2 DEF StreamKept, Fresh, service
      <3> QED
        BY <3>1, <3>2
    <2> QED
      BY <1>4, <1>5, <2>5, <2>6 DEF Inv
  <1> QED
    BY <1>6, <1>7

\* What the owner does with the card, and what it comes to.
LEMMA CardKeeps ==
  ASSUME Inv, OpenCard \/ CloseCard \/ Release \/ RetryCard \/ Tick \/ OtherCard
  PROVE  Inv'
  <1>1. /\ ServiceTyped /\ PageTyped /\ StreamKept /\ body \in BodyRecords
        /\ card \in CardRecords /\ es \in EsRecords /\ page \in PageRecords
        /\ NoBody \in BodyRecords /\ detail \in {detail, Gone}
    BY NoneTyped DEF Typed, Inv, PageTyped
  <1>2. SpentKept /\ UNCHANGED <<service, main, up, page>>
    <2>1. Spend("events", MaxEvents) \/ UNCHANGED spent
      BY DEF OpenCard, CloseCard, Release, RetryCard, Tick, OtherCard
    <2>2. UNCHANGED <<service, main, up, page>>
      BY DEF OpenCard, CloseCard, Release, RetryCard, Tick, OtherCard
    <2> QED
      BY <1>1, <2>1, <2>2, SpentStays
  <1>3. card' \in CardRecords
    <2>1. /\ [card EXCEPT !.open = TRUE, !.blocked = FALSE, !.tick = TRUE]
                \in CardRecords
          /\ [card EXCEPT !.open = FALSE, !.fading = TRUE] \in CardRecords
          /\ [card EXCEPT !.fading = FALSE, !.tick = TRUE,
                          !.blocked = @ /\ card.open] \in CardRecords
          /\ [card EXCEPT !.blocked = FALSE, !.retry = TRUE, !.tick = TRUE]
                \in CardRecords
          /\ [card EXCEPT !.tick = FALSE, !.retry = FALSE, !.listed = Wanted]
                \in CardRecords
      BY <1>1 DEF CardRecords, Wanted
    <2> QED
      BY <2>1 DEF OpenCard, CloseCard, Release, RetryCard, Tick, OtherCard
  <1>4. \/ UNCHANGED <<detail, es>> /\ body' \in {body, NoBody}
        \/ Stream(body, page, Wanted)
    <2>1. CASE OpenCard \/ CloseCard \/ RetryCard
      BY <2>1 DEF OpenCard, CloseCard, RetryCard
    <2>2. CASE Release
      BY <2>2 DEF Release
    <2>3. CASE Tick
      <3>1. Stream(body, page, Wanted) \/ UNCHANGED <<detail, es, body>>
        BY <2>3, Zenon DEF Tick
      <3> QED
        BY <3>1
    <2>4. CASE OtherCard
      BY <2>4 DEF OtherCard
    <2> QED
      BY <2>1, <2>2, <2>3, <2>4
  <1>5. CASE UNCHANGED <<detail, es>> /\ body' \in {body, NoBody}
    <2>1. body' \in BodyRecords /\ Keeps(body, body')
      <3>1. Keeps(body, body) /\ Keeps(body, NoBody)
        BY DEF Keeps, NoBody
      <3> QED
        BY <1>1, <1>5, <3>1
    <2>2. Fresh => Asked
      BY <1>1, <1>5 DEF StreamKept, Holds, Asked, NoBody
    <2> QED
      BY <1>1, <1>2, <1>3, <1>5, <2>1, <2>2, DetailStepKeeps
  <1>6. CASE Stream(body, page, Wanted)
    <2>1. Wanted \in BOOLEAN
      BY <1>1 DEF Wanted, CardRecords
    <2>2. /\ detail' = Gone /\ body' \in BodyRecords /\ es' \in EsRecords
          /\ Keeps(body, body') /\ Asked
      BY <1>1, <1>6, <2>1, StreamMakes
    <2> QED
      BY <1>2, <1>3, <2>2, DetailStepKeeps
  <1> QED
    BY <1>4, <1>5, <1>6

-----------------------------------------------------------------------------

LEMMA InvInit ==
  ASSUME Init
  PROVE  Inv
  <1>1. /\ epoch = 0 /\ spent = [changes |-> 0, events |-> 0]
        /\ main = Gone /\ detail = Gone /\ up = "asking" /\ es = Idle
        /\ page = [epoch |-> 0, row |-> 0, floor |-> None, live |-> FALSE]
        /\ card = [open |-> FALSE, fading |-> FALSE, blocked |-> FALSE,
                   listed |-> FALSE, tick |-> FALSE, retry |-> FALSE]
        /\ body = NoBody
    BY DEF Init
  <1>2. MaxChanges \in Nat /\ MaxEvents \in Nat /\ Attempts \in Nat /\ Queue \in Nat
    BY EventStreamConstants
  <1>3. 1 \in Numbers /\ 0 \in Rows /\ 1 \in Rows
    BY <1>2 DEF Numbers, Rows
  <1>4. <<>> \in Changes /\ <<1>> \in Changes
    BY <1>3 DEF Changes
  <1>5. ServiceTyped /\ ItemKept
    <2>1. CASE /\ item = NoItem /\ seq = 0 /\ marked = 0 /\ pace = NoPace
               /\ log = [k \in {0} |-> <<>>]
      <3>1. item \in Items /\ pace \in Paces /\ log \in [0..0 -> Changes]
        BY <1>3, <1>4, <2>1 DEF NoItem, Items, NoPace, Paces
      <3> QED
        BY <1>1, <1>2, <2>1, <3>1 DEF ServiceTyped, ItemKept, NoItem, NoPace
    <2>2. CASE /\ item = Old /\ seq = 1 /\ marked = 1
               /\ pace = [NoPace EXCEPT !.on = TRUE, !.at = TRUE, !.rowAt = TRUE]
               /\ log = [k \in 0..1 |-> IF k = 0 THEN <<>> ELSE Old.out]
      <3>1. item \in Items /\ pace \in Paces
        BY <1>3, <1>4, <2>2 DEF Old, Items, NoPace, Paces
      <3>2. Old.out = <<1>> /\ Old.held /\ Old.row = 1 /\ Old.kind = "tool"
        BY DEF Old
      <3>3. log \in [0..1 -> Changes] /\ \A n \in 1..1 : log[n] = item.out
        BY <1>4, <2>2, <3>2
      <3>4. ServiceTyped
        BY <1>1, <1>2, <2>2, <3>1, <3>3 DEF ServiceTyped
      <3>5. ItemKept
        BY <1>1, <2>2, <3>2, <3>3 DEF ItemKept, NoPace
      <3> QED
        BY <3>4, <3>5
    <2> QED
      BY <2>1, <2>2 DEF Init
  <1>6. PageTyped
    <2>1. body \in BodyRecords /\ es \in EsRecords
      BY <1>1, <1>5, NoneTyped
    <2> QED
      BY <1>1, <1>3, <2>1 DEF PageTyped, PageRecords, CardRecords
  <1>7. SubTyped(main) /\ SubTyped(detail) /\ Waiting(Gone) = <<>>
    BY <1>1, <1>5, NoneTyped DEF Waiting, Gone
  <1>8. RowFollows /\ MainKept
    BY <1>1, <1>7 DEF RowFollows, MainKept
  <1>9. StreamKept
    BY <1>1, <1>7 DEF StreamKept, Holds, Chained, Synced, NoBody, Gone
  <1> QED
    BY <1>5, <1>6, <1>7, <1>8, <1>9 DEF Inv, Typed

LEMMA InvStutters ==
  ASSUME Inv, UNCHANGED vars
  PROVE  Inv'
  <1>1. /\ ServiceTyped /\ PageTyped /\ StreamKept /\ Typed
    BY DEF Inv, Typed
  <1>2. UNCHANGED <<service, main, up, page, detail, es, body, card, spent>>
    BY DEF vars, browser
  <1>3. /\ SpentKept /\ es' \in EsRecords /\ card' \in CardRecords
        /\ body' \in BodyRecords /\ Keeps(body, body') /\ detail' \in {detail, Gone}
    BY <1>1, <1>2, SpentStays DEF PageTyped, Keeps
  <1>4. Fresh => Asked
    BY <1>1, <1>2 DEF StreamKept, Holds, Asked
  <1> QED
    BY <1>2, <1>3, <1>4, DetailStepKeeps

LEMMA InvNext ==
  ASSUME Inv, Next
  PROVE  Inv'
  <1>1. Typed /\ ItemKept
    BY DEF Inv
  <1>2. ASSUME \E it, row, f : Publication(it, row, f)
        PROVE  Inv'
    BY <1>2, PublicationKeeps
  <1>3. CASE Provider
    <2>1. CASE \E kind \in Kinds : Appear(kind)
      BY <1>1, <1>2, <2>1, AppearPublishes
    <2>2. CASE Progress
      BY <1>1, <1>2, <2>2, ProgressPublishes
    <2>3. CASE Complete
      BY <1>1, <1>2, <2>3, CompletePublishes
    <2>4. CASE Correct
      BY <1>1, <1>2, <2>4, CorrectPublishes
    <2>5. CASE Think
      BY <1>1, <1>2, <2>5, ThinkPublishes
    <2>6. CASE Output
      BY <1>1, <1>2, <2>6, OutputPublishes
    <2>7. CASE HistoryRead
      BY <1>1, <1>2, <2>7, HistoryPublishes
    <2>8. CASE Trim
      BY <2>8, TrimKeeps
    <2> QED
      BY <1>3, <2>1, <2>2, <2>3, <2>4, <2>5, <2>6, <2>7, <2>8 DEF Provider
  <1>4. CASE TimerFires
    <2>1. CASE item.held
      BY <1>1, <1>2, <1>4, <2>1, TimerPublishes
    <2>2. CASE ~item.held
      BY <1>4, <2>2, StaleTimerKeeps
    <2> QED
      BY <2>1, <2>2
  <1>5. CASE Restart
    BY <1>5, RestartKeeps
  <1>6. CASE Connections
    BY <1>6, MainOpensKeeps, DetailOpensKeeps, MainLostKeeps, DetailLostKeeps,
       DetailRetriesKeeps DEF Connections
  <1>7. CASE Page
    BY <1>7, ReceiveMainKeeps, ReceiveDetailKeeps, CardKeeps DEF Page
  <1>8. CASE Owner
    BY <1>8, CardKeeps DEF Owner
  <1> QED
    BY <1>3, <1>4, <1>5, <1>6, <1>7, <1>8 DEF Next

THEOREM InvHolds == Spec => []Inv
  <1>1. Init => Inv
    BY InvInit
  <1>2. Inv /\ [Next]_vars => Inv'
    BY InvNext, InvStutters
  <1> QED
    BY <1>1, <1>2, PTL DEF Spec

\* Every variable has its type, and no subscriber's queue grows beyond its
\* bound.
THEOREM TypeCorrect == Spec => []TypeOK
  <1>1. Inv => TypeOK
    BY TypeParts DEF Inv
  <1> QED
    BY <1>1, InvHolds, PTL

\* What the page holds of a body at a number is what the item was then.
THEOREM BodyShownWas == Spec => []BodyIsAsOf
  <1>1. Inv => BodyIsAsOf
    BY DEF Inv, StreamKept, Fresh, Holds, BodyIsAsOf
  <1> QED
    BY <1>1, InvHolds, PTL

\* When nothing is on its way and no output is held back, the page shows the
\* item's row.
THEOREM RowShownIs == Spec => []RowIsRight
  <1>1. Inv => RowIsRight
    BY DEF Inv, RowFollows, LastRow, RowDue, RowIsRight, Quiet, Drained
  <1> QED
    BY <1>1, InvHolds, PTL
=============================================================================

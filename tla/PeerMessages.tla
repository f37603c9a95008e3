---------------------------- MODULE PeerMessages ----------------------------
(***************************************************************************)
(* Messages between two Threads (uam_send): a message waits in the         *)
(* receiver's queue, starts a turn there, and the turn's final reply goes  *)
(* back into the sender's queue.  The owner decides about the pair, and an *)
(* allowance covers a number of deliveries.                                *)
(*                                                                         *)
(* book is what Manager keeps of the pair (store.WebMessagePair).  A pair  *)
(* that was reset or dropped leaves prompts behind that carry its old ID.  *)
(* Each action is one section of m.mu.  Of a Thread's own life only what   *)
(* moves a message is here; the module Thread has the rest.                *)
(***************************************************************************)
EXTENDS Naturals, Sequences, FiniteSets, SequencesExt

CONSTANTS
  Threads,     \* the two Threads of the pair
  Msgs,        \* message IDs
  None,
  Limit,       \* pairLimit: the deliveries one allowance covers
  MaxOneWay,   \* maxPeerOneWay: messages of a Thread that wait or run
  MaxWaiting,  \* maxPeerWaiting: messages that wait in all queues
  MaxQueue,    \* maxQueue
  Keep,        \* store.MaxPairMessages: messages the pair remembers
  MaxPairs,    \* bound: how often the pair is created
  MaxAllow,    \* bound: how often the owner allows
  MaxRevokes,  \* bound: how often the owner takes the permission back
  MaxDecisions \* bound: the allowances, the revocations and the tangled
               \* messages together

ASSUME PeerConstants ==
  /\ Limit \in Nat \ {0, 1}
  /\ \A n \in {MaxOneWay, MaxWaiting, MaxQueue, Keep} : n \in Nat \ {0}
  /\ {MaxPairs, MaxAllow, MaxRevokes, MaxDecisions} \subseteq Nat
  /\ \E a, b \in Threads : a # b /\ Threads = {a, b}
  /\ None \notin Threads \cup Msgs

VARIABLES
  on,        \* settings.ThreadMessages
  book,      \* the pair in m.pairs and its messages
  stage,     \* StageActive or StageSettled
  alone,     \* one of the two is unattended: nobody decides its requests
  queue,     \* s.queue
  paused,    \* s.queuePaused
  base,      \* s.base: ready or working
  conv,      \* s.conv is not nil
  kick,      \* a drain waits for s.op
  send,      \* the send that holds s.op
  arm,       \* s.peerArm
  turn,      \* s.peerTurn
  live,      \* the turn the provider runs, by the prompt that started it
  floating,  \* prompts with an uncertain outcome the provider may take
  answers,   \* history: how many replies were sent to a message
  tangled,   \* history: messages refused after a turn had begun as theirs
  revokes    \* bound: the revocations so far

policy == <<on, alone, revokes>>
threadVars == <<stage, queue, paused, base, conv, kick, send, arm, turn>>
provVars == <<live, floating>>
history == <<answers, tangled>>
vars == <<policy, book, threadVars, provVars, history>>

Other(t) == CHOOSE u \in Threads : u # t

\* A prompt of the pair (store.TurnPeer), and none.
Prompt(m, pair, reply) == [msg |-> m, pair |-> pair, reply |-> reply]
IsPeer(p) == p.msg # None
NoPrompt == Prompt(None, 0, TRUE)
Prompts == [msg : Msgs \cup {None}, pair : 0..MaxPairs, reply : BOOLEAN]

Ongoing == {"queued", "working", "replying"}
Final == {"replied", "stopped", "failed", "interrupted", "cancelled",
          "declined", "undelivered"}
\* none: not sent yet; gone: no longer in the pair's list.
Statuses == Ongoing \cup Final \cup {"held", "none", "gone"}
SendSteps == {"idle", "taken", "checked", "sent", "took", "rejected", "busy"}

Book == [id : 0..MaxPairs, state : {"none", "pending", "allowed", "denied"},
         linked : BOOLEAN, used : 0..Limit, allowance : 0..MaxAllow,
         held : Msgs \cup {None}, list : Seq(Msgs),
         msg : [Msgs -> [status : Statuses, from : Threads,
                         allowance : 0..MaxAllow]]]

TypeOK ==
  /\ {on, alone} \subseteq BOOLEAN /\ book \in Book
  /\ stage \in [Threads -> {"active", "settled"}]
  /\ queue \in [Threads -> Seq(Prompts)]
  /\ base \in [Threads -> {"ready", "working"}]
  /\ {paused, conv, kick} \subseteq [Threads -> BOOLEAN]
  /\ send \in [Threads -> [at : SendSteps, what : Prompts, moved : BOOLEAN]]
  /\ {arm, turn} \subseteq [Threads -> Prompts]
  /\ live \in [Threads -> Prompts]
  /\ floating \in [Threads -> SUBSET Prompts]
  /\ answers \in [Msgs -> 0..2] /\ revokes \in 0..MaxRevokes
  /\ tangled \subseteq Msgs

Idle == [at |-> "idle", what |-> NoPrompt, moved |-> FALSE]
\* A turn no prompt of the pair started: the owner's or the provider's.
OwnTurn == Prompt(None, 0, FALSE)

\* m.pairs holds no pair of the two Threads; id stays the last one's.
Dropped(b) ==
  [b EXCEPT !.state = "none", !.linked = FALSE, !.used = 0, !.allowance = 0,
            !.held = None, !.list = <<>>,
            !.msg = [m \in Msgs |-> IF b.msg[m].status = "none" THEN b.msg[m]
                                    ELSE [b.msg[m] EXCEPT !.status = "gone",
                                                          !.allowance = 0]]]

Init ==
  /\ on = TRUE
  /\ \E f \in Threads :
       book = [id |-> 0, state |-> "none", linked |-> FALSE, used |-> 0,
               allowance |-> 0, held |-> None, list |-> <<>>,
               msg |-> [m \in Msgs |->
                          [status |-> "none", from |-> f, allowance |-> 0]]]
  /\ stage = [t \in Threads |-> "active"]
  /\ alone = FALSE /\ revokes = 0
  /\ queue = [t \in Threads |-> <<>>] /\ paused = [t \in Threads |-> FALSE]
  /\ base = [t \in Threads |-> "ready"] /\ conv = [t \in Threads |-> TRUE]
  /\ kick = [t \in Threads |-> FALSE] /\ send = [t \in Threads |-> Idle]
  /\ arm = [t \in Threads |-> NoPrompt] /\ turn = [t \in Threads |-> NoPrompt]
  /\ live = [t \in Threads |-> NoPrompt] /\ floating = [t \in Threads |-> {}]
  /\ answers = [m \in Msgs |-> 0] /\ tangled = {}

-----------------------------------------------------------------------------
(* The pair's record.                                                      *)

Busy(t) == base[t] = "working"
AllActive == \A t \in Threads : stage[t] = "active"

\* pairBlockedLocked: why the pair may not deliver now.
Blocked(p) ==
  \/ ~on \/ book.id # p.pair \/ book.state # "allowed"
  \/ ~AllActive
  \/ ~book.linked /\ alone

Listed(b, p) == b.id = p.pair /\ b.state # "none" /\ p.msg \in ToSet(b.list)

RefundAny(b, m) ==
  CASE b.msg[m].status = "queued" -> 2
    [] b.msg[m].status \in {"working", "replying"} -> 1
    [] OTHER -> 0
\* What a message gives back as it ends; one of an earlier allowance nothing.
Refund(b, m) ==
  IF b.msg[m].allowance # b.allowance THEN 0
  ELSE CASE b.msg[m].status = "queued" -> 2
         [] b.msg[m].status \in {"working", "replying"} -> 1
         [] OTHER -> 0

Back(b, m) == IF Refund(b, m) > b.used THEN 0 ELSE b.used - Refund(b, m)

\* peerEndLocked: what did not happen goes back to the allowance.
Ended(b, p, status) ==
  IF Listed(b, p)
  THEN [b EXCEPT !.used = Back(b, p.msg), !.msg[p.msg].status = status]
  ELSE b

\* The same for a set of listed messages, one after the other.
AllEnded(b, ended, status) ==
  LET Gives(n) == Cardinality({m \in ended : Refund(b, m) = n})
      back == 2 * Gives(2) + Gives(1)
  IN  [b EXCEPT !.used = IF back > @ THEN 0 ELSE @ - back,
                !.msg = [m \in Msgs |-> IF m \in ended
                                       THEN [b.msg[m] EXCEPT !.status = status]
                                       ELSE b.msg[m]]]

\* peerStatusLocked
Moved(b, p, status) ==
  IF Listed(b, p) THEN [b EXCEPT !.msg[p.msg].status = status] ELSE b

Failure(p) == IF p.reply THEN "undelivered" ELSE "failed"

\* appendPeerMessage forgets the oldest.
Listing(b, m, t, status, allowance) ==
  LET all == Append(b.list, m)
      over == Len(all) > Keep
  IN  [b EXCEPT !.list = IF over THEN Tail(all) ELSE all,
                !.msg = [x \in Msgs |->
                   IF x = m THEN [status |-> status, from |-> t,
                                  allowance |-> allowance]
                   ELSE IF over /\ x = Head(all)
                        THEN [b.msg[x] EXCEPT !.status = "gone"]
                        ELSE b.msg[x]]]

\* peerRoomLocked, but for the receiver's spending limit, which may be reached
\* or set anew at any time: where it matters the answer is free.
Room(b, from, to) ==
  /\ Len(queue[to]) < MaxQueue
  /\ Cardinality({m \in Msgs : /\ b.msg[m].status \in {"queued", "working"}
                               /\ b.msg[m].from = from}) < MaxOneWay
  /\ Cardinality({m \in Msgs : b.msg[m].status = "queued"}) < MaxWaiting

\* enqueuePeerLocked
Enqueued(t, p) ==
  /\ queue' = [queue EXCEPT ![t] = Append(@, p)]
  /\ kick' = [kick EXCEPT ![t] = @ \/ (~Busy(t) /\ ~paused[t])]

-----------------------------------------------------------------------------
(* The sender's agent: sendMessage.  A call whose ID a listed message has   *)
(* is answered with that message and changes nothing; a message no longer   *)
(* listed is sent anew, as another one.  So does a full set of pairs        *)
(* (store.MaxMessagePairs) only refuse.                                     *)

Send(t, m) ==
  LET b == IF book.state # "none" THEN book
           ELSE [book EXCEPT !.id = @ + 1, !.state = "pending"]
      holds == \/ b.state = "pending"
               \/ ~b.linked /\ alone
               \/ b.used + 2 > Limit
  IN  /\ conv[t] /\ book.msg[m].status = "none"
      /\ on /\ AllActive
      /\ b.id <= MaxPairs /\ b.state # "denied" /\ b.held = None
      /\ \/ /\ holds
            /\ book' = [Listing(b, m, t, "held", 0) EXCEPT !.held = m]
            /\ UNCHANGED <<queue, kick>>
         \/ /\ ~holds /\ Room(b, t, Other(t))
            /\ book' = [Listing(b, m, t, "queued", b.allowance)
                          EXCEPT !.used = @ + 2]
            /\ Enqueued(Other(t), Prompt(m, b.id, FALSE))
      /\ UNCHANGED <<policy, stage, paused, base, conv, send, arm, turn,
                     provVars, history>>

-----------------------------------------------------------------------------
(* The owner: MessagePairAction, the switch, modes, stages, the queue.     *)

Bounded == book.allowance + revokes + Cardinality(tangled) < MaxDecisions

\* A new allowance; messages of earlier ones finish on theirs.
AllowedOnTop(link) ==
  [book EXCEPT !.state = "allowed", !.linked = @ \/ link,
               !.allowance = @ + 1, !.held = None]
NewlyAllowed(link) ==
  [book EXCEPT !.state = "allowed", !.linked = @ \/ link, !.used = 0,
               !.allowance = @ + 1, !.held = None]

Allow(link, reached) ==
  LET m == book.held
      from == book.msg[m].from
      b == NewlyAllowed(link)
      goes == Room(book, from, Other(from)) /\ ~reached /\ AllActive
  IN  /\ Bounded /\ on /\ m # None /\ book.allowance < MaxAllow
      /\ alone => book.linked \/ link
      /\ book' = IF goes
                 THEN [b EXCEPT !.used = @ + 2, !.msg[m].status = "queued",
                                !.msg[m].allowance = b.allowance]
                 ELSE [b EXCEPT !.msg[m].status = "undelivered"]
      /\ IF goes THEN Enqueued(Other(from), Prompt(m, b.id, FALSE))
                 ELSE UNCHANGED <<queue, kick>>
      /\ UNCHANGED <<policy, stage, paused, base, conv, send, arm, turn,
                     provVars, history>>

Revokes == Bounded /\ revokes < MaxRevokes /\ revokes' = revokes + 1

Deny ==
  /\ Revokes /\ book.state \in {"pending", "allowed"}
  /\ book' = IF book.held = None THEN [book EXCEPT !.state = "denied"]
             ELSE [book EXCEPT !.state = "denied", !.held = None,
                               !.msg[book.held].status = "declined"]
  /\ UNCHANGED <<on, alone, threadVars, provVars, history>>

Reset ==
  /\ Revokes /\ book.state # "none"
  /\ book' = Dropped(book)
  /\ UNCHANGED <<on, alone, threadVars, provVars, history>>

\* The switch in Settings.
Switch ==
  /\ on' = ~on
  /\ IF on THEN Revokes ELSE UNCHANGED revokes
  /\ UNCHANGED <<book, alone, threadVars, provVars, history>>

SetMode ==
  /\ alone' = ~alone
  /\ IF alone THEN UNCHANGED revokes ELSE Revokes
  /\ UNCHANGED <<on, book, threadVars, provVars, history>>

GoneTurn(b, t) ==
  IF IsPeer(turn[t]) /\ ~turn[t].reply THEN Ended(b, turn[t], "interrupted")
  ELSE b
\* What a Thread whose conversation ends loses (peerGoneLocked).
Gone(b, t) ==
  LET p == IF IsPeer(turn[t]) THEN turn[t] ELSE arm[t]
  IN  IF IsPeer(p) /\ ~p.reply THEN Ended(b, p, "interrupted") ELSE b

Disconnected(t) ==
  /\ conv' = [conv EXCEPT ![t] = FALSE]
  /\ arm' = [arm EXCEPT ![t] = NoPrompt]
  /\ turn' = [turn EXCEPT ![t] = NoPrompt]
  /\ live' = [live EXCEPT ![t] = NoPrompt]
  /\ floating' = [floating EXCEPT ![t] = {}]

\* restageLocked: an open conversation is closed, the allowance ends.
Settle(t) ==
  /\ Revokes /\ stage[t] = "active" /\ ~Busy(t) /\ queue[t] = <<>>
  /\ send[t].at = "idle"
  /\ stage' = [stage EXCEPT ![t] = "settled"]
  /\ LET b == IF conv[t] THEN Gone(book, t) ELSE book
     IN  book' = IF b.state = "denied" THEN b ELSE Dropped(b)
  /\ IF conv[t] THEN Disconnected(t) ELSE UNCHANGED <<conv, arm, turn,
                                                      provVars>>
  /\ UNCHANGED <<on, alone, queue, paused, base, kick, send, history>>

Reopen(t) ==
  /\ stage[t] = "settled"
  /\ stage' = [stage EXCEPT ![t] = "active"]
  /\ UNCHANGED <<policy, book, queue, paused, base, conv, kick, send, arm,
                 turn, provVars, history>>

CancelQueued(t, i) ==
  /\ stage[t] = "active"
  /\ queue' = [queue EXCEPT ![t] = RemoveAt(@, i)]
  /\ book' = IF IsPeer(queue[t][i]) THEN Ended(book, queue[t][i], "cancelled")
             ELSE book
  /\ paused' = [paused EXCEPT ![t] = @ /\ Len(queue[t]) > 1]
  /\ UNCHANGED <<policy, stage, base, conv, kick, send, arm, turn, provVars,
                 history>>

ClearQueue(t) ==
  /\ stage[t] = "active" /\ queue[t] # <<>>
  /\ queue' = [queue EXCEPT ![t] = <<>>]
  /\ LET peers == {p \in ToSet(queue[t]) : IsPeer(p) /\ Listed(book, p)}
     IN  book' = AllEnded(book, {p.msg : p \in peers}, "cancelled")
  /\ paused' = [paused EXCEPT ![t] = FALSE]
  /\ UNCHANGED <<policy, stage, base, conv, kick, send, arm, turn, provVars,
                 history>>

ResumeQueue(t) ==
  /\ stage[t] = "active" /\ paused[t]
  /\ paused' = [paused EXCEPT ![t] = FALSE]
  /\ kick' = [kick EXCEPT ![t] = @ \/ ~Busy(t)]
  /\ UNCHANGED <<policy, book, stage, queue, base, conv, send, arm, turn,
                 provVars, history>>

OwnerStep ==
  \/ \E link, reached \in BOOLEAN : Allow(link, reached)
  \/ Deny \/ Reset \/ Switch \/ SetMode
  \/ \E t \in Threads :
       \/ Settle(t) \/ Reopen(t)
       \/ \E i \in DOMAIN queue[t] : CancelQueued(t, i)
       \/ ClearQueue(t) \/ ResumeQueue(t)

-----------------------------------------------------------------------------
(* The drain, with the part of send that starts a turn.                    *)

Goto(t, step) == send' = [send EXCEPT ![t].at = step]
Kicked(t) == kick' = [kick EXCEPT ![t] = @ \/ (queue[t] # <<>> /\ ~paused[t])]

DrainTakes(t, reached) ==
  /\ kick[t] /\ send[t].at = "idle"
  /\ kick' = [kick EXCEPT ![t] = FALSE]
  /\ IF queue[t] = <<>> \/ paused[t] \/ Busy(t) \/ reached
     THEN UNCHANGED <<queue, send>>
     ELSE /\ queue' = [queue EXCEPT ![t] = Tail(@)]
          /\ send' = [send EXCEPT ![t] = [Idle EXCEPT !.at = "taken",
                                                      !.what = Head(queue[t])]]
  /\ UNCHANGED <<policy, book, stage, paused, base, conv, arm, turn, provVars,
                 history>>

\* The message is dropped, and the queue goes on.
Drops(t) ==
  LET p == send[t].what
  IN  /\ book' = Ended(book, p, Failure(p))
      /\ send' = [send EXCEPT ![t] = Idle]
      /\ Kicked(t)
      /\ UNCHANGED <<policy, stage, queue, paused, base, conv, arm, turn,
                     provVars, history>>

DrainChecks(t) ==
  /\ send[t].at = "taken"
  /\ IF IsPeer(send[t].what) /\ Blocked(send[t].what)
     THEN Drops(t)
     ELSE /\ Goto(t, "checked")
          /\ UNCHANGED <<policy, book, stage, queue, paused, base, conv, kick,
                         arm, turn, provVars, history>>

\* The conversation opens, when it is not open.
Opens(t) ==
  /\ send[t].at = "checked" /\ ~conv[t]
  /\ conv' = [conv EXCEPT ![t] = TRUE]
  /\ UNCHANGED <<policy, book, stage, queue, paused, base, kick, send, arm,
                 turn, provVars, history>>

Pauses(t) == paused' = [paused EXCEPT ![t] = @ \/ queue[t] # <<>>]

\* It does not open, or was lost since.
Unopened(t) ==
  /\ send[t].at = "checked" /\ ~conv[t]
  /\ Goto(t, "rejected") /\ Pauses(t)
  /\ UNCHANGED <<policy, book, stage, queue, base, conv, kick, arm, turn,
                 provVars, history>>

TurnRuns(t) ==
  /\ send[t].at = "checked" /\ conv[t] /\ Busy(t)
  /\ Goto(t, "busy")
  /\ UNCHANGED <<policy, book, stage, queue, paused, base, conv, kick, arm,
                 turn, provVars, history>>

NotRevoked(p) == FALSE
Revoked(p) == IsPeer(p) /\ Blocked(p)

\* The delivery's commit point: the turn is armed, and an arm left behind by
\* an uncertain send is ended.
Commits(t) ==
  LET p == send[t].what
  IN  /\ send[t].at = "checked" /\ conv[t] /\ ~Busy(t)
      /\ IF Revoked(p)
         THEN Drops(t)
         ELSE /\ book' = IF IsPeer(arm[t])
                         THEN Ended(book, arm[t], Failure(arm[t])) ELSE book
              /\ arm' = [arm EXCEPT ![t] = IF IsPeer(p) THEN p ELSE NoPrompt]
              /\ base' = [base EXCEPT ![t] = "working"]
              /\ Goto(t, "sent")
              /\ UNCHANGED <<policy, stage, queue, paused, conv, kick, turn,
                             provVars, history>>

\* applyTurnLocked: the turn that begins is the armed message's.
Begins(t, p) ==
  /\ live' = [live EXCEPT ![t] = p]
  /\ base' = [base EXCEPT ![t] = "working"]
  /\ turn' = [turn EXCEPT ![t] = IF IsPeer(arm[t]) THEN arm[t] ELSE @]
  /\ arm' = [arm EXCEPT ![t] = NoPrompt]
  /\ book' = IF IsPeer(arm[t])
             THEN Moved(book, arm[t],
                        IF arm[t].reply THEN "replied" ELSE "working")
             ELSE book

\* The provider takes the prompt; its turn begins before the answer comes.
Accepts(t) ==
  /\ send[t].at = "sent" /\ conv[t] /\ live[t] = NoPrompt
  /\ Begins(t, send[t].what)
  /\ send' = [send EXCEPT ![t].at = "took"]
  /\ UNCHANGED <<policy, stage, queue, paused, conv, kick, floating, history>>

\* It takes the prompt while another turn runs, and may start its turn later.
AcceptsLater(t) ==
  /\ send[t].at = "sent" /\ conv[t] /\ live[t] # NoPrompt
  /\ Goto(t, "took")
  /\ floating' = [floating EXCEPT ![t] = @ \cup {send[t].what}]
  /\ UNCHANGED <<policy, book, stage, queue, paused, base, conv, kick, arm, turn,
                 live, history>>

\* A prompt that was not accepted pauses the queue (recordSubmission).  The
\* turn state that the send replaced comes back, unless a turn moved it.
Restored(t) ==
  base' = IF send[t].moved THEN base ELSE [base EXCEPT ![t] = "ready"]
Disarmed(t) ==
  arm' = IF arm[t] = send[t].what THEN [arm EXCEPT ![t] = NoPrompt] ELSE arm

\* The provider was busy with a turn that began since the commit, or refuses
\* the prompt.  That turn took the arm.
Refuses(t) ==
  /\ send[t].at = "sent"
  /\ Restored(t) /\ Disarmed(t)
  /\ send[t].moved => Bounded
  /\ tangled' = IF send[t].moved /\ IsPeer(send[t].what)
                THEN tangled \cup {send[t].what.msg} ELSE tangled
  /\ \/ send[t].moved /\ conv[t] /\ Goto(t, "busy") /\ UNCHANGED paused
     \/ Goto(t, "rejected") /\ Pauses(t)
  /\ UNCHANGED <<policy, book, stage, queue, conv, kick, turn, provVars,
                 answers>>

UncertainResends(t) ==
  /\ send[t].at = "sent"
  /\ Restored(t)
  /\ Goto(t, "busy") /\ Pauses(t)
  /\ floating' = [floating EXCEPT ![t] = IF conv[t] THEN @ \cup {send[t].what}
                                         ELSE @]
  /\ UNCHANGED <<policy, book, stage, queue, conv, kick, arm, turn, live,
                 history>>

\* The answer is lost: never resubmit.
Uncertain(t) ==
  /\ send[t].at = "sent"
  /\ Restored(t)
  /\ Goto(t, "took") /\ Pauses(t)
  /\ floating' = [floating EXCEPT ![t] = IF conv[t] THEN @ \cup {send[t].what}
                                         ELSE @]
  /\ UNCHANGED <<policy, book, stage, queue, conv, kick, arm, turn, live,
                 history>>

\* The end of the drain.  Of a busy Thread the head goes back to the front.
DrainEnds(t) ==
  LET p == send[t].what
  IN  /\ send[t].at \in {"took", "rejected", "busy"}
      /\ send' = [send EXCEPT ![t] = Idle]
      /\ book' = IF send[t].at = "rejected" /\ IsPeer(p)
                 THEN Ended(book, p, Failure(p)) ELSE book
      /\ queue' = IF send[t].at = "busy" THEN [queue EXCEPT ![t] = <<p>> \o @]
                  ELSE queue
      /\ UNCHANGED <<policy, stage, paused, base, conv, kick, arm, turn,
                     provVars, history>>

DrainStep(t) ==
  \/ \E reached \in BOOLEAN : DrainTakes(t, reached)
  \/ DrainChecks(t) \/ Opens(t) \/ Unopened(t) \/ TurnRuns(t)
  \/ Commits(t) \/ Accepts(t) \/ AcceptsLater(t) \/ Refuses(t) \/ Uncertain(t)
  \/ DrainEnds(t)

-----------------------------------------------------------------------------
(* The provider's own steps.                                               *)

\* A send in flight learns that a turn event came.
Marks(t) == send' = [send EXCEPT ![t].moved = (send[t].at = "sent")]

LateTurn(t) ==
  \E p \in floating[t] :
    /\ conv[t] /\ live[t] = NoPrompt
    /\ Begins(t, p)
    /\ Marks(t)
    /\ floating' = [floating EXCEPT ![t] = @ \ {p}]
    /\ UNCHANGED <<policy, stage, queue, paused, conv, kick, history>>

OwnTurnBegins(t) ==
  /\ conv[t] /\ live[t] = NoPrompt
  /\ Begins(t, OwnTurn)
  /\ Marks(t)
  /\ UNCHANGED <<policy, stage, queue, paused, conv, kick, floating, history>>

\* replyLocked, at the end of a completed turn.
Replies(t, p) ==
  LET to == Other(t)
  IN  IF Blocked(p) \/ Len(queue[to]) >= MaxQueue
      THEN /\ book' = Ended(book, p, "undelivered")
           /\ UNCHANGED <<queue, answers>>
           /\ kick' = [kick EXCEPT ![t] = @ \/ (queue[t] # <<>> /\ ~paused[t])]
      ELSE /\ book' = Moved(book, p, "replying")
           /\ queue' = [queue EXCEPT
                          ![to] = Append(@, [p EXCEPT !.reply = TRUE])]
           /\ kick' = [kick EXCEPT ![t] = @ \/ (queue[t] # <<>> /\ ~paused[t]),
                                   ![to] = @ \/ (~Busy(to) /\ ~paused[to])]
           /\ answers' = [answers EXCEPT ![p.msg] = IF @ < 2 THEN @ + 1 ELSE @]

TurnEnds(t, how) ==
  LET p == IF IsPeer(turn[t]) THEN turn[t] ELSE arm[t]
  IN  /\ live[t] # NoPrompt
      /\ live' = [live EXCEPT ![t] = NoPrompt]
      /\ base' = [base EXCEPT ![t] = "ready"]
      /\ turn' = [turn EXCEPT ![t] = NoPrompt]
      /\ arm' = [arm EXCEPT ![t] = NoPrompt]
      /\ Marks(t)
      /\ \/ /\ how = "completed" /\ IsPeer(p) /\ ~p.reply
            /\ Replies(t, p)
            /\ UNCHANGED paused
         \/ /\ how = "completed" /\ (~IsPeer(p) \/ p.reply)
            /\ Kicked(t)
            /\ UNCHANGED <<book, queue, paused, answers>>
         \/ /\ how \in {"stopped", "failed"}
            /\ book' = IF IsPeer(p) /\ ~p.reply THEN Ended(book, p, how)
                       ELSE book
            /\ Pauses(t)
            /\ UNCHANGED <<queue, kick, answers>>
      /\ UNCHANGED <<policy, stage, conv, floating, tangled>>

\* The runtime exits, or the owner closes the conversation.  The Thread is ready
\* whether or not a send in flight restores its state, which is not marked.
Exits(t) ==
  /\ conv[t]
  /\ Disconnected(t)
  /\ book' = Gone(book, t)
  /\ base' = [base EXCEPT ![t] = "ready"]
  /\ Pauses(t)
  /\ UNCHANGED <<policy, stage, queue, kick, send, history>>

\* Shutdown and the next Start: queues are lost, the pairs are kept, and
\* loadPairsLocked ends what was on its way.
Restart ==
  /\ book' = AllEnded(book, {m \in ToSet(book.list) :
                                book.msg[m].status \in Ongoing}, "interrupted")
  /\ queue' = [t \in Threads |-> <<>>] /\ paused' = [t \in Threads |-> FALSE]
  /\ base' = [t \in Threads |-> "ready"] /\ conv' = [t \in Threads |-> FALSE]
  /\ kick' = [t \in Threads |-> FALSE] /\ send' = [t \in Threads |-> Idle]
  /\ arm' = [t \in Threads |-> NoPrompt]
  /\ turn' = [t \in Threads |-> NoPrompt]
  /\ live' = [t \in Threads |-> NoPrompt]
  /\ floating' = [t \in Threads |-> {}]
  /\ UNCHANGED <<policy, stage, history>>

ProviderStep(t) ==
  \/ LateTurn(t) \/ OwnTurnBegins(t) \/ Exits(t)
  \/ \E how \in {"completed", "stopped", "failed"} : TurnEnds(t, how)

Next ==
  \/ OwnerStep \/ Restart
  \/ \E t \in Threads : \/ \E m \in Msgs : Send(t, m)
                        \/ DrainStep(t) \/ ProviderStep(t)

Spec == Init /\ [][Next]_vars

-----------------------------------------------------------------------------
(* Properties.                                                             *)

\* Where the prompt p of a message is: in the queue of the Thread t that is
\* to get it, on its way to the provider, or armed by an uncertain send.
InQueue(t, p) == {i \in DOMAIN queue[t] : queue[t][i] = p}
OnWay(t, p) == send[t].what = p /\ send[t].at \notin {"idle", "took"}
Waits(t, p) == InQueue(t, p) # {} \/ OnWay(t, p) \/ arm[t] = p

\* It may still start a turn.  An answer that is lost with the conversation
\* leaves the send waiting, and starts none.
MayRun(t, p) ==
  \/ InQueue(t, p) # {} \/ arm[t] = p \/ turn[t] = p
  \/ send[t].what = p /\ send[t].at \in {"taken", "checked", "busy"}

\* What the pair shows of a message is where it is: a queued message, or a
\* reply that is being returned, waits exactly once; an answered one is the
\* running turn of its receiver; a held one is the one the owner decides on.
StatusIsTrue ==
  \A m \in ToSet(book.list) \ tangled :
    LET from == book.msg[m].from
        p == Prompt(m, book.id, FALSE)
        r == Prompt(m, book.id, TRUE)
    IN  /\ book.msg[m].status = "queued" => Waits(Other(from), p)
        /\ book.msg[m].status = "working" => turn[Other(from)] = p
        /\ (book.msg[m].status = "held") <=> (book.held = m)
        /\ book.msg[m].status \in Final =>
             /\ ~MayRun(Other(from), p)
             /\ book.msg[m].status # "replied" => ~MayRun(from, r)

\* A reply that is being returned waits, is being sent or is armed: "a turn
\* that starts is the message's; the next send, the conversation's end or a
\* restart ends it otherwise" (manager.go:4052).
ReplyingIsReal ==
  \A m \in ToSet(book.list) :
    book.msg[m].status = "replying" =>
      Waits(book.msg[m].from, Prompt(m, book.id, TRUE))

\* The deliveries of the current allowance, made and to be made, are counted,
\* unless a tangled message of this allowance gave back what it still uses.
Owed(b) == {m \in ToSet(b.list) :
              /\ b.msg[m].allowance = b.allowance
              /\ b.msg[m].status \in Ongoing \cup {"replied"}}
Clean(b) == \A m \in tangled : b.msg[m].allowance # b.allowance
UsedCoversDeliveries ==
  book.state = "allowed" /\ Clean(book) =>
    2 * Cardinality(Owed(book)) <= book.used

\* A prompt of the pair reaches the provider only while the owner's decision,
\* the switch, the stages and the modes allow it (docs/web.md:1345).
RevokedIsNotSent ==
  [][\A t \in Threads :
       send[t].at # "sent" /\ send'[t].at = "sent" /\ IsPeer(send[t].what)
         => ~Blocked(send[t].what)]_vars

\* A message is answered once (messages.go:22), whatever turns the provider
\* starts during its sends, unless it is tangled.
AnsweredOnce == \A m \in Msgs : m \in tangled \/ answers[m] <= 1

=============================================================================

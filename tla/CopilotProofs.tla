--------------------------- MODULE CopilotProofs ----------------------------
(***************************************************************************)
(* What a conversation of the Copilot adapter keeps for every number of    *)
(* prompts, steers and Stops.  A turn is shown exactly while the CLI runs  *)
(* one, because the last event on its way that starts or ends a turn tells *)
(* the CLI's state: TurnInv.  A Stop that overtook a prompt aborts again   *)
(* when its turn runs, because its check is of that prompt only: StopInv.  *)
(* The lemmas ...Fields say what a section of the conversation's mutex     *)
(* changes, ...Does what an action does, so that no invariant has to open  *)
(* the conversation's record.                                              *)
(***************************************************************************)
EXTENDS CopilotTurns, TLAPS, SequenceTheorems

-----------------------------------------------------------------------------
(* What a section of conversation.mu leaves as it was.                     *)

\* What a section of the conversation leaves to Stop and the calls.
Kept(x, y) == /\ y.closed = x.closed /\ y.sending = x.sending
              /\ y.stopping = x.stopping /\ y.watch = x.watch

\* It leaves the turn as it was.
Same(x, y) ==
  /\ Kept(x, y)
  /\ y.running = x.running /\ y.fgIdle = x.fgIdle /\ y.idles = x.idles
  /\ y.sawIdle = x.sawIdle /\ y.unmoved = x.unmoved
  /\ y.shown = x.shown /\ y.turnSeen = x.turnSeen

\* It starts a turn, or goes on with the one that runs.
Starts(x, y) ==
  /\ Kept(x, y)
  /\ y.running /\ ~y.fgIdle /\ y.idles = x.idles /\ y.sawIdle = x.sawIdle
  /\ x.closed \/ y.shown = "working"

\* It ends the turn.
Over(x, y) ==
  /\ Kept(x, y)
  /\ ~y.running /\ y.fgIdle /\ y.idles = x.idles + 1
  /\ y.sawIdle = x.sawIdle /\ y.unmoved = (x.sending = 0)
  /\ ~y.resending /\ ~y.timer /\ ~y.aborting
  /\ x.closed \/ y.shown = "ready"

\* A report of a turn's state moves no turn.
LEMMA ShowsFields ==
  ASSUME NEW x \in Conversation, NEW state \in {"ready", "working"}
  PROVE  LET y == Shows(x, state)
         IN  /\ y \in Conversation /\ Kept(x, y)
             /\ y.running = x.running /\ y.fgIdle = x.fgIdle
             /\ y.idles = x.idles /\ y.sawIdle = x.sawIdle
             /\ y.unmoved = x.unmoved /\ y.timer = x.timer
             /\ y.aborting = x.aborting /\ y.resending = x.resending
             /\ x.closed \/ y.shown = state
  <1>1. (op = "send") \in BOOLEAN
    OBVIOUS
  <1>2. CASE x.closed
    BY <1>2 DEF Shows, Kept
  <1>3. CASE ~x.closed
    <2>1. Shows(x, state)
            = [x EXCEPT !.shown = state, !.turnSeen = op = "send"]
      BY <1>3 DEF Shows
    <2> QED BY <1>1, <2>1 DEF Conversation, Kept
  <1> QED BY <1>2, <1>3

\* turnStartedLocked.
LEMMA StartedFields ==
  ASSUME NEW x \in Conversation
  PROVE  LET y == Started(x)
         IN  /\ y \in Conversation /\ Starts(x, y)
             /\ y.unmoved = x.unmoved /\ y.timer = x.timer
             /\ y.aborting = x.aborting /\ y.resending = x.resending
  <1> DEFINE z == Shows(x, "working")
  <1>1. /\ z \in Conversation /\ Kept(x, z)
        /\ z.idles = x.idles /\ z.sawIdle = x.sawIdle
        /\ z.unmoved = x.unmoved /\ z.timer = x.timer
        /\ z.aborting = x.aborting /\ z.resending = x.resending
        /\ x.closed \/ z.shown = "working"
    BY ShowsFields
  <1>2. Started(x) = [z EXCEPT !.fgIdle = FALSE, !.running = TRUE]
    BY DEF Started
  <1> HIDE DEF z
  <1>3. Started(x) \in Conversation
    BY <1>1, <1>2 DEF Conversation
  <1>4. /\ Kept(z, Started(x))
        /\ Started(x).running /\ ~Started(x).fgIdle
        /\ Started(x).idles = z.idles /\ Started(x).sawIdle = z.sawIdle
        /\ Started(x).unmoved = z.unmoved /\ Started(x).timer = z.timer
        /\ Started(x).aborting = z.aborting
        /\ Started(x).resending = z.resending /\ Started(x).shown = z.shown
    BY <1>1, <1>2 DEF Conversation, Kept
  <1> QED BY <1>1, <1>3, <1>4 DEF Kept, Starts

\* The steers' fate is no part of the turn.
LEMMA UndeliveredFields ==
  ASSUME NEW x \in Conversation, NEW state \in Ends
  PROVE  LET y == Undelivered(x, state)
         IN  /\ y \in Conversation /\ Same(x, y)
             /\ y.timer = x.timer /\ y.aborting = x.aborting
             /\ y.resending = x.resending
  <1> DEFINE told(s) ==
               x.steer[s].told \/ (x.steer[s].known /\ state # "completed")
             new == [s \in Steers |->
                       IF s \in x.steers
                       THEN [x.steer[s] EXCEPT !.state = state,
                                               !.told = told(s)]
                       ELSE x.steer[s]]
  <1>1. new \in [Steers -> Steer]
    <2>1. ASSUME NEW s \in Steers PROVE new[s] \in Steer
      <3>1. x.steer[s] \in Steer
        BY DEF Conversation
      <3>2. told(s) \in BOOLEAN
        BY <3>1 DEF Steer
      <3> HIDE DEF told
      <3> QED BY <3>1, <3>2 DEF Steer
    <2> QED BY <2>1
  <1>2. Undelivered(x, state) = [x EXCEPT !.steers = {}, !.steer = new]
    BY DEF Undelivered
  <1> HIDE DEF new
  <1> QED BY <1>1, <1>2 DEF Same, Kept, Conversation

\* The end of a turn: its watches and its retry are over.
LEMMA TurnOverFields ==
  ASSUME NEW x \in Conversation, NEW state \in Ends
  PROVE  TurnOver(x, state) \in Conversation /\ Over(x, TurnOver(x, state))
  <1> DEFINE o == StallOver(x)
             e == [o EXCEPT !.fgIdle = TRUE, !.running = FALSE,
                            !.idles = x.idles + 1, !.turnErr = FALSE,
                            !.unmoved = x.sending = 0]
             u == Undelivered(e, state)
  <1>1. /\ o \in Conversation /\ Kept(x, o) /\ o.sawIdle = x.sawIdle
        /\ o.idles = x.idles /\ ~o.timer /\ ~o.aborting /\ ~o.resending
    BY DEF StallOver, Kept, Conversation
  <1>2. TurnOver(x, state) = Shows(u, "ready")
    BY <1>1 DEF TurnOver
  <1> HIDE DEF o
  <1>3. x.idles + 1 \in Nat /\ (x.sending = 0) \in BOOLEAN
    BY DEF Conversation
  <1>4. e \in Conversation
    BY <1>1, <1>3 DEF Conversation
  <1>5. /\ Kept(o, e) /\ ~e.running /\ e.fgIdle
        /\ e.idles = x.idles + 1 /\ e.sawIdle = o.sawIdle
        /\ e.unmoved = (x.sending = 0)
        /\ ~e.timer /\ ~e.aborting /\ ~e.resending
    BY <1>1 DEF Kept, Conversation
  <1> HIDE DEF e
  <1>6. /\ u \in Conversation /\ Same(e, u)
        /\ ~u.timer /\ ~u.aborting /\ ~u.resending
    BY <1>4, <1>5, UndeliveredFields
  <1> HIDE DEF u
  <1> DEFINE y == Shows(u, "ready")
  <1>7. /\ y \in Conversation /\ Kept(u, y)
        /\ y.running = u.running /\ y.fgIdle = u.fgIdle
        /\ y.idles = u.idles /\ y.sawIdle = u.sawIdle
        /\ y.unmoved = u.unmoved /\ y.timer = u.timer
        /\ y.aborting = u.aborting /\ y.resending = u.resending
        /\ u.closed \/ y.shown = "ready"
    BY <1>6, ShowsFields
  <1> HIDE DEF y
  <1> QED BY <1>1, <1>2, <1>5, <1>6, <1>7 DEF Over, Same, Kept, y

\* What an idle makes of the conversation.
LEMMA FinishedFields ==
  ASSUME NEW x \in Conversation, NEW aborted \in BOOLEAN
  PROVE  LET y == Finished(x, aborted)
         IN  /\ y \in Conversation
             /\ \/ x.fgIdle /\ ~Resends(x, aborted) /\ y = x
                \/ /\ Resends(x, aborted) /\ Same(x, y) /\ y.resending
                   /\ y.timer = x.timer /\ y.aborting = x.aborting
                \/ /\ ~Resends(x, aborted) /\ x.aborting /\ x.resending
                   /\ y = x
                \/ ~Resends(x, aborted) /\ Over(x, y)
  <1>1. CASE x.fgIdle
    BY <1>1 DEF Finished, Resends
  <1>2. CASE ~x.fgIdle /\ Resends(x, aborted)
    <2> DEFINE r == [x EXCEPT !.resending = TRUE]
    <2>1. /\ r \in Conversation /\ Same(x, r) /\ r.resending
          /\ r.timer = x.timer /\ r.aborting = x.aborting
      BY DEF Same, Kept, Conversation
    <2>2. Finished(x, aborted) = Undelivered(r, "cancelled")
      BY <1>2 DEF Finished
    <2> HIDE DEF r
    <2>3. /\ Undelivered(r, "cancelled") \in Conversation
          /\ Same(r, Undelivered(r, "cancelled"))
          /\ Undelivered(r, "cancelled").timer = r.timer
          /\ Undelivered(r, "cancelled").aborting = r.aborting
          /\ Undelivered(r, "cancelled").resending = r.resending
      BY <2>1, UndeliveredFields DEF Ends
    <2> QED BY <1>2, <2>1, <2>2, <2>3 DEF Same, Kept
  <1>3. CASE ~x.fgIdle /\ ~Resends(x, aborted) /\ Continues(x, aborted)
    BY <1>3 DEF Finished, Resends, Continues
  <1>4. CASE /\ ~x.fgIdle /\ ~Resends(x, aborted)
             /\ ~Continues(x, aborted)
    <2>1. EndState(x, aborted) \in Ends
      BY DEF EndState, Ends
    <2>2. Finished(x, aborted) = TurnOver(x, EndState(x, aborted))
      BY <1>4 DEF Finished
    <2> QED BY <1>4, <2>1, <2>2, TurnOverFields
  <1> QED BY <1>1, <1>2, <1>3, <1>4

\* What a change of the watches leaves of each.
Watches(x, y) ==
  \A k \in Stops : /\ y.watch[k].idles = x.watch[k].idles
                   /\ y.watch[k].upto = x.watch[k].upto
                   /\ y.watch[k].send => x.watch[k].send

\* A change of one check.
LEMMA WatchChanges ==
  ASSUME NEW x \in Conversation, NEW k \in Stops,
         NEW w \in Watch, w.idles = x.watch[k].idles,
         w.upto = x.watch[k].upto, w.send => x.watch[k].send
  PROVE  LET y == [x EXCEPT !.watch[k] = w]
         IN  y \in Conversation /\ Watches(x, y)
  <1>1. x.watch \in [Stops -> Watch]
    BY DEF Conversation
  <1>2. [x.watch EXCEPT ![k] = w] \in [Stops -> Watch]
    BY <1>1
  <1>3. [x EXCEPT !.watch[k] = w]
          = [x EXCEPT !.watch = [x.watch EXCEPT ![k] = w]]
    OBVIOUS
  <1> DEFINE f == [x.watch EXCEPT ![k] = w]
  <1>4. \A j \in Stops : f[j] = IF j = k THEN w ELSE x.watch[j]
    BY <1>1
  <1> HIDE DEF f
  <1>5. [x EXCEPT !.watch = f] \in Conversation
    BY <1>2 DEF Conversation, f
  <1>6. [x EXCEPT !.watch = f].watch = f
    BY DEF Conversation
  <1> QED BY <1>3, <1>4, <1>5, <1>6 DEF Watches, f

\* sendEndedLocked drops the check of a send without a turn.
LEMMA SendOverFields ==
  ASSUME NEW x \in Conversation
  PROVE  LET y == SendOver(x)
         IN  /\ y \in Conversation /\ Watches(x, y)
             /\ y.closed = x.closed /\ y.sending = 0
             /\ y.running = x.running /\ y.fgIdle = x.fgIdle
             /\ y.idles = x.idles /\ y.sawIdle = x.sawIdle
             /\ y.unmoved /\ y.shown = x.shown
             /\ y.timer = x.timer /\ y.aborting = x.aborting
             /\ y.resending = x.resending
             /\ y.stopping = IF x.running THEN x.stopping ELSE 0
             /\ x.running => y.watch = x.watch
  <1> DEFINE z == [x EXCEPT !.sending = 0, !.unmoved = TRUE]
  <1>1. 0 \in 0..1 /\ 0 \in 0..MaxStops
    BY CopilotConstants
  <1>2. z \in Conversation
    BY <1>1 DEF Conversation
  <1>3. /\ z.closed = x.closed /\ z.sending = 0
        /\ z.running = x.running /\ z.fgIdle = x.fgIdle
        /\ z.idles = x.idles /\ z.sawIdle = x.sawIdle
        /\ z.unmoved /\ z.shown = x.shown
        /\ z.timer = x.timer /\ z.aborting = x.aborting
        /\ z.resending = x.resending
        /\ z.stopping = x.stopping /\ z.watch = x.watch
    BY DEF Conversation
  <1>4. SendOver(x) =
          IF z.stopping # 0 /\ ~z.running
          THEN [z EXCEPT !.watch[z.stopping].ended = TRUE, !.stopping = 0]
          ELSE z
    BY DEF SendOver
  <1> HIDE DEF z
  <1>5. CASE ~(z.stopping # 0 /\ ~z.running)
    BY <1>2, <1>3, <1>4, <1>5 DEF Watches
  <1>6. CASE z.stopping # 0 /\ ~z.running
    <2>1. PICK k \in Stops : k = z.stopping
      BY <1>2, <1>6 DEF Conversation, Stops
    <2> DEFINE w == [z.watch[k] EXCEPT !.ended = TRUE]
               v == [z EXCEPT !.watch[k] = w]
    <2>2. /\ w \in Watch /\ w.idles = z.watch[k].idles
          /\ w.upto = z.watch[k].upto /\ w.send = z.watch[k].send
      <3>1. z.watch[k] \in Watch
        BY <1>2 DEF Conversation
      <3> QED BY <3>1 DEF Watch
    <2>3. SendOver(x) = [v EXCEPT !.stopping = 0]
      BY <1>2, <1>4, <1>6, <2>1
    <2>4. v \in Conversation /\ Watches(z, v)
      BY <1>2, <2>2, WatchChanges
    <2>5. /\ v.closed = z.closed /\ v.sending = z.sending
          /\ v.running = z.running /\ v.fgIdle = z.fgIdle
          /\ v.idles = z.idles /\ v.sawIdle = z.sawIdle
          /\ v.unmoved = z.unmoved /\ v.shown = z.shown
          /\ v.timer = z.timer /\ v.aborting = z.aborting
          /\ v.resending = z.resending
      BY <1>2 DEF Conversation
    <2> HIDE DEF v
    <2>6. /\ SendOver(x) \in Conversation
          /\ SendOver(x).watch = v.watch /\ SendOver(x).stopping = 0
          /\ SendOver(x).closed = v.closed /\ SendOver(x).sending = v.sending
          /\ SendOver(x).running = v.running
          /\ SendOver(x).fgIdle = v.fgIdle
          /\ SendOver(x).idles = v.idles /\ SendOver(x).sawIdle = v.sawIdle
          /\ SendOver(x).unmoved = v.unmoved /\ SendOver(x).shown = v.shown
          /\ SendOver(x).timer = v.timer
          /\ SendOver(x).aborting = v.aborting
          /\ SendOver(x).resending = v.resending
      BY <1>1, <2>3, <2>4 DEF Conversation
    <2> QED BY <1>3, <1>6, <2>4, <2>5, <2>6 DEF Watches
  <1> QED BY <1>5, <1>6

-----------------------------------------------------------------------------
(* What each action leaves of the conversation.                            *)

\* All but what a turn's start changes.
Running(x, y) ==
  /\ y.running = x.running /\ y.fgIdle = x.fgIdle /\ y.shown = x.shown
  /\ y.turnSeen = x.turnSeen

\* A send begins.
LEMMA SendBeginsDoes ==
  ASSUME TypeOK, SendBegins
  PROVE  /\ c' \in Conversation
         /\ c'.closed = c.closed /\ c'.sending = c.sending
         /\ c'.shown = "working"
         /\ ~c'.turnSeen /\ c'.stopping = c.stopping /\ c'.watch = c.watch
         /\ c'.running = c.running /\ c'.fgIdle = c.fgIdle
         /\ c'.idles = c.idles /\ c'.sawIdle = c.sawIdle
         /\ c'.unmoved = c.unmoved /\ c'.timer = c.timer
         /\ c'.aborting = c.aborting /\ c'.resending = c.resending
  <1>1. c \in Conversation
    BY DEF TypeOK
  <1>2. c' = [c EXCEPT !.shown = "working", !.turnSeen = FALSE]
    BY DEF SendBegins
  <1> QED BY <1>1, <1>2 DEF Conversation

\* A send that failed shows what was shown before it.
LEMMA RestoredFields ==
  ASSUME NEW x \in Conversation
  PROVE  LET y == Restored(x)
         IN  /\ y \in Conversation
             /\ y.closed = x.closed /\ y.sending = x.sending
             /\ y.running = x.running /\ y.fgIdle = x.fgIdle
             /\ y.idles = x.idles /\ y.sawIdle = x.sawIdle
             /\ y.unmoved = x.unmoved /\ y.timer = x.timer
             /\ y.aborting = x.aborting /\ y.resending = x.resending
             /\ y.stopping = x.stopping /\ y.watch = x.watch
             /\ y.shown = IF c.turnSeen THEN x.shown ELSE "ready"
  <1> DEFINE state == IF c.turnSeen THEN x.shown ELSE "ready"
  <1>1. state \in {"ready", "working"}
    BY DEF Conversation
  <1>2. Restored(x) = [x EXCEPT !.shown = state, !.turnSeen = FALSE]
    BY DEF Restored, Conversation
  <1> HIDE DEF state
  <1> QED BY <1>1, <1>2 DEF Conversation, state

\* The adapter takes the send or refuses it.
LEMMA SendCallsDoes ==
  ASSUME TypeOK, NEW p \in Prompts, SendCalls(p)
  PROVE  /\ c' \in Conversation
         /\ c'.closed = c.closed /\ c'.running = c.running
         /\ c'.fgIdle = c.fgIdle /\ c'.idles = c.idles
         /\ c'.sawIdle = c.sawIdle /\ c'.unmoved = c.unmoved
         /\ c'.timer = c.timer /\ c'.aborting = c.aborting
         /\ c'.resending = c.resending
         /\ c'.stopping = c.stopping /\ c'.watch = c.watch
         /\ \/ /\ c.closed \/ c.running
               /\ prompts' = [prompts EXCEPT ![p] = "failed"]
               /\ op' = "none" /\ c'.sending = c.sending
            \/ /\ ~c.closed /\ ~c.running
               /\ prompts' = [prompts EXCEPT ![p] = "wire"]
               /\ op' = op /\ c'.sending = 1
               /\ c'.shown = c.shown /\ c'.turnSeen = c.turnSeen
  <1>1. c \in Conversation /\ 1 \in 0..1
    BY DEF TypeOK
  <1>2. CASE c.closed \/ c.running
    <2>1. /\ c' = Restored(c) /\ op' = "none"
          /\ prompts' = [prompts EXCEPT ![p] = "failed"]
      BY <1>2 DEF SendCalls
    <2> QED BY <1>1, <1>2, <2>1, RestoredFields
  <1>3. CASE ~c.closed /\ ~c.running
    <2>1. /\ c' = [c EXCEPT !.sending = 1] /\ op' = op
          /\ prompts' = [prompts EXCEPT ![p] = "wire"]
      BY <1>3 DEF SendCalls
    <2> QED BY <1>1, <1>3, <2>1 DEF Conversation
  <1> QED BY <1>2, <1>3

\* Its answer starts the turn, unless an event moved it.
LEMMA SendAnsweredDoes ==
  ASSUME TypeOK, NEW p \in Prompts, SendAnswered(p)
  PROVE  /\ c' \in Conversation /\ Watches(c, c')
         /\ c'.closed = c.closed /\ c'.sending = c.sending
         /\ c'.stopping = c.stopping /\ c'.idles = c.idles
         /\ c'.sawIdle = c.sawIdle /\ c'.unmoved = c.unmoved
         /\ c'.timer = c.timer /\ c'.aborting = c.aborting
         /\ c'.resending = c.resending
         /\ c.unmoved => c'.running /\ ~c'.fgIdle
                         /\ (c.closed \/ c'.shown = "working")
         /\ ~c.unmoved => Running(c, c')
         /\ c'.running /\ StopPending(c') => ~c'.watch[c'.stopping].send
         /\ aborts' \in Nat
  <1> DEFINE x == IF AnswerStarts(c) THEN Started(c) ELSE c
  <1>1. c \in Conversation
    BY DEF TypeOK
  <1>2. /\ x \in Conversation /\ Kept(c, x) /\ x.idles = c.idles
        /\ x.sawIdle = c.sawIdle /\ x.unmoved = c.unmoved
        /\ x.timer = c.timer /\ x.aborting = c.aborting
        /\ x.resending = c.resending
        /\ c.unmoved => x.running /\ ~x.fgIdle
                        /\ (c.closed \/ x.shown = "working")
        /\ ~c.unmoved => Running(c, x)
    BY <1>1, StartedFields DEF AnswerStarts, Starts, Running, Kept
  <1>3. /\ c' = IF Overtaken(x)
                THEN [x EXCEPT !.watch[x.stopping].send = FALSE]
                ELSE x
        /\ aborts' = aborts + IF Overtaken(x) THEN 1 ELSE 0
    BY DEF SendAnswered
  <1> HIDE DEF x
  <1>4. aborts' \in Nat
    BY <1>3 DEF TypeOK
  <1>5. CASE ~Overtaken(x)
    <2>1. c' = x
      BY <1>3, <1>5
    <2> QED
      BY <1>2, <1>4, <1>5, <2>1 DEF Watches, Kept, Overtaken, StopPending
  <1>6. CASE Overtaken(x)
    <2>1. PICK k \in Stops : k = x.stopping
      BY <1>2, <1>6 DEF Overtaken, Conversation, Stops
    <2> DEFINE w == [x.watch[k] EXCEPT !.send = FALSE]
               v == [x EXCEPT !.watch[k] = w]
    <2>2. /\ w \in Watch /\ w.idles = x.watch[k].idles
          /\ w.upto = x.watch[k].upto /\ ~w.send
      <3>1. x.watch[k] \in Watch
        BY <1>2 DEF Conversation
      <3> QED BY <3>1 DEF Watch
    <2>3. c' = v
      BY <1>2, <1>3, <1>6, <2>1
    <2>4. v \in Conversation /\ Watches(x, v)
      <3> HIDE DEF w
      <3> QED BY <1>2, <2>2, WatchChanges
    <2>5. /\ v.closed = x.closed /\ v.sending = x.sending
          /\ v.stopping = x.stopping /\ v.idles = x.idles
          /\ v.sawIdle = x.sawIdle /\ v.unmoved = x.unmoved
          /\ v.timer = x.timer /\ v.aborting = x.aborting
          /\ v.resending = x.resending /\ Running(x, v)
      BY <1>2 DEF Conversation, Running
    <2>6. ~v.watch[k].send
      <3>1. k \in DOMAIN x.watch /\ x \in Conversation
        BY <1>2 DEF Conversation
      <3>2. v.watch = [x.watch EXCEPT ![k] = w]
        BY <3>1 DEF Conversation
      <3> QED BY <2>2, <3>1, <3>2
    <2> HIDE DEF v
    <2> QED
      BY <1>2, <1>4, <2>1, <2>3, <2>4, <2>5, <2>6
      DEF Watches, Kept, Running
  <1> QED BY <1>5, <1>6

\* It returns or fails.
LEMMA SendEndsDoes ==
  ASSUME TypeOK, NEW p \in Prompts, SendReturns(p) \/ SendFails(p)
  PROVE  /\ c' \in Conversation /\ Watches(c, c')
         /\ c'.closed = c.closed /\ c'.sending = 0
         /\ c'.running = c.running /\ c'.fgIdle = c.fgIdle
         /\ c'.idles = c.idles /\ c'.sawIdle = c.sawIdle
         /\ c'.unmoved
         /\ c'.timer = c.timer /\ c'.aborting = c.aborting
         /\ c'.resending = c.resending
         /\ c'.stopping = IF c.running THEN c.stopping ELSE 0
         /\ c.running => c'.watch = c.watch
         /\ c'.shown = IF SendReturns(p) \/ c.turnSeen THEN c.shown
                       ELSE "ready"
  <1>1. c \in Conversation
    BY DEF TypeOK
  <1> DEFINE x == SendOver(c)
  <1>2. /\ x \in Conversation /\ Watches(c, x)
        /\ x.closed = c.closed /\ x.sending = 0
        /\ x.running = c.running /\ x.fgIdle = c.fgIdle
        /\ x.idles = c.idles /\ x.sawIdle = c.sawIdle
        /\ x.unmoved /\ x.shown = c.shown
        /\ x.timer = c.timer /\ x.aborting = c.aborting
        /\ x.resending = c.resending
        /\ x.stopping = IF c.running THEN c.stopping ELSE 0
        /\ c.running => x.watch = c.watch
    BY <1>1, SendOverFields
  <1>3. SendReturns(p) => c' = [x EXCEPT !.turnSeen = FALSE]
    BY DEF SendReturns
  <1>4. SendFails(p) => c' = Restored(x)
    BY DEF SendFails
  <1>5. ~(SendReturns(p) /\ SendFails(p))
    BY DEF SendReturns, SendFails
  <1> HIDE DEF x
  <1>6. CASE SendReturns(p)
    <2>1. c' = [x EXCEPT !.turnSeen = FALSE]
      BY <1>3, <1>6
    <2>2. /\ c' \in Conversation /\ c'.watch = x.watch
          /\ c'.closed = x.closed /\ c'.sending = x.sending
          /\ c'.running = x.running /\ c'.fgIdle = x.fgIdle
          /\ c'.idles = x.idles /\ c'.sawIdle = x.sawIdle
          /\ c'.unmoved = x.unmoved /\ c'.shown = x.shown
          /\ c'.timer = x.timer /\ c'.aborting = x.aborting
          /\ c'.resending = x.resending /\ c'.stopping = x.stopping
      BY <1>2, <2>1 DEF Conversation
    <2> QED BY <1>2, <1>6, <2>2 DEF Watches
  <1>7. CASE SendFails(p)
    <2>1. /\ c' \in Conversation /\ c'.watch = x.watch
          /\ c'.closed = x.closed /\ c'.sending = x.sending
          /\ c'.running = x.running /\ c'.fgIdle = x.fgIdle
          /\ c'.idles = x.idles /\ c'.sawIdle = x.sawIdle
          /\ c'.unmoved = x.unmoved
          /\ c'.shown = IF c.turnSeen THEN x.shown ELSE "ready"
          /\ c'.timer = x.timer /\ c'.aborting = x.aborting
          /\ c'.resending = x.resending /\ c'.stopping = x.stopping
      BY <1>2, <1>4, <1>7, RestoredFields
    <2> QED BY <1>2, <1>5, <1>7, <2>1 DEF Watches
  <1> QED BY <1>6, <1>7

\* A steer leaves the turn.
LEMMA SteerDoes ==
  ASSUME TypeOK, NEW s \in Steers,
         SteerBegins(s) \/ SteerAnswered(s) \/ SteerFails(s)
  PROVE  /\ c' \in Conversation /\ Same(c, c')
         /\ c'.timer = c.timer /\ c'.aborting = c.aborting
         /\ c'.resending = c.resending
  <1>1. c \in Conversation
    BY DEF TypeOK
  <1>2. CASE SteerBegins(s)
    <2>1. c' = [c EXCEPT !.steers = c.steers \cup {s}]
      BY <1>2 DEF SteerBegins
    <2>2. c.steers \cup {s} \in SUBSET Steers
      BY <1>1 DEF Conversation
    <2> QED BY <1>1, <2>1, <2>2 DEF Conversation, Same, Kept
  <1>3. CASE c' = Withdrawn(c, s)
    <2>1. c' = [c EXCEPT !.seen = {}, !.steers = c.steers \ {s}]
      BY <1>3 DEF Withdrawn
    <2>2. c.steers \ {s} \in SUBSET Steers
      BY <1>1 DEF Conversation
    <2> QED BY <1>1, <2>1, <2>2 DEF Conversation, Same, Kept
  <1>4. CASE SteerAnswered(s) /\ c' # Withdrawn(c, s)
    <2> DEFINE told == c.steer[s].state \in {"failed", "cancelled"}
               t == [c.steer[s] EXCEPT !.known = TRUE, !.state = "none",
                                       !.told = told]
               f == [c.steer EXCEPT ![s] = t]
    <2>1. told \in BOOLEAN
      OBVIOUS
    <2>2. f \in [Steers -> Steer]
      <3>1. c.steer[s] \in Steer /\ c.steer \in [Steers -> Steer]
        BY <1>1 DEF Conversation
      <3> HIDE DEF told
      <3>2. t \in Steer
        BY <2>1, <3>1 DEF Steer
      <3> HIDE DEF t
      <3> QED BY <3>1, <3>2
    <2>3. c' = [c EXCEPT !.seen = {}, !.steer = f]
      BY <1>4 DEF SteerAnswered
    <2> HIDE DEF f
    <2> QED BY <1>1, <2>2, <2>3 DEF Conversation, Same, Kept
  <1> QED BY <1>2, <1>3, <1>4 DEF SteerAnswered, SteerFails

\* A Stop arms a check, or leaves the conversation.
LEMMA StopBeginsDoes ==
  ASSUME TypeOK, StopBegins
  PROVE  /\ c' \in Conversation
         /\ c'.closed = c.closed /\ c'.sending = c.sending
         /\ Running(c, c') /\ c'.idles = c.idles /\ c'.sawIdle = c.sawIdle
         /\ c'.unmoved = c.unmoved /\ c'.timer = c.timer
         /\ c'.aborting = c.aborting /\ c'.resending = c.resending
         /\ ~NeedsWatch(c) => c' = c
         /\ NeedsWatch(c) =>
              /\ c'.stopping \in Stops
              /\ \A k \in Stops \ {c'.stopping} : c'.watch[k] = c.watch[k]
              /\ c'.watch[c'.stopping] = FreshWatch(c)
  <1>1. c \in Conversation
    BY DEF TypeOK
  <1>2. CASE ~NeedsWatch(c)
    BY <1>1, <1>2 DEF StopBegins, Watched, Running
  <1>3. CASE NeedsWatch(c)
    <2>1. \E k \in Stops : c.watch[k].at = "none"
      BY <1>3 DEF StopBegins
    <2>2. UnusedWatch \in Stops
      BY <2>1 DEF UnusedWatch
    <2> DEFINE k == UnusedWatch
               w == FreshWatch(c)
               f == [c.watch EXCEPT ![k] = w]
    <2>3. w \in Watch
      BY <1>1 DEF FreshWatch, Watch, Conversation, TypeOK
    <2>4. c' = [c EXCEPT !.watch = f, !.stopping = k]
      BY <1>1, <1>3 DEF StopBegins, Watched
    <2> HIDE DEF k, w
    <2>5. k \in Stops /\ k \in 0..MaxStops
      BY <2>2 DEF Stops, k
    <2>6. /\ f \in [Stops -> Watch] /\ f[k] = w
          /\ \A j \in Stops \ {k} : f[j] = c.watch[j]
      BY <1>1, <2>3, <2>5 DEF Conversation
    <2> HIDE DEF f
    <2>7. /\ c' \in Conversation /\ c'.watch = f /\ c'.stopping = k
          /\ c'.closed = c.closed /\ c'.sending = c.sending
          /\ Running(c, c') /\ c'.idles = c.idles /\ c'.sawIdle = c.sawIdle
          /\ c'.unmoved = c.unmoved /\ c'.timer = c.timer
          /\ c'.aborting = c.aborting /\ c'.resending = c.resending
      BY <1>1, <2>4, <2>5, <2>6 DEF Conversation, Running
    <2> QED BY <1>3, <2>5, <2>6, <2>7 DEF k, w
  <1> QED BY <1>2, <1>3

\* A check that is over.
LEMMA OverIsWatch ==
  OverWatch \in Watch /\ ~OverWatch.send /\ OverWatch.idles = 0
  <1>1. 0 \in 0..MaxPrompts
    BY CopilotConstants
  <1> QED BY <1>1 DEF OverWatch, NoWatch, Watch

\* The grace is over.
LEMMA StopUnconfirmedDoes ==
  ASSUME TypeOK, NEW k \in Stops, StopUnconfirmed(k)
  PROVE  /\ c' \in Conversation
         /\ c'.closed = c.closed /\ c'.sending = c.sending
         /\ Running(c, c') /\ c'.idles = c.idles /\ c'.sawIdle = c.sawIdle
         /\ c'.unmoved = c.unmoved /\ c'.timer = c.timer
         /\ c'.aborting = c.aborting /\ c'.resending = c.resending
         /\ c'.stopping \in {0, c.stopping} \ {k}
         /\ \A j \in Stops \ {k} : c'.watch[j] = c.watch[j]
         /\ \/ ~c'.watch[k].send /\ c'.watch[k].idles = 0
            \/ /\ c'.watch[k].idles = c.watch[k].idles
               /\ c'.watch[k].upto = c.watch[k].upto
               /\ c'.watch[k].send = c.watch[k].send
  <1>1. c \in Conversation
    BY DEF TypeOK
  <1> DEFINE pinging == [c.watch[k] EXCEPT !.at = "pinging"]
             w == IF StopEnded(c, k) THEN OverWatch ELSE pinging
             f == [c.watch EXCEPT ![k] = w]
             now == IF c.stopping = k THEN 0 ELSE c.stopping
  <1>2. /\ pinging \in Watch /\ pinging.idles = c.watch[k].idles
        /\ pinging.upto = c.watch[k].upto /\ pinging.send = c.watch[k].send
    <2>1. c.watch[k] \in Watch
      BY <1>1 DEF Conversation
    <2> QED BY <2>1 DEF Watch
  <1>3. c' = [c EXCEPT !.stopping = now, !.watch = f]
    BY <1>1 DEF StopUnconfirmed
  <1> HIDE DEF pinging
  <1>4. /\ w \in Watch
        /\ \/ ~w.send /\ w.idles = 0
           \/ /\ w.idles = c.watch[k].idles /\ w.upto = c.watch[k].upto
              /\ w.send = c.watch[k].send
    BY <1>2, OverIsWatch
  <1> HIDE DEF w
  <1>5. /\ f \in [Stops -> Watch] /\ f[k] = w
        /\ \A j \in Stops \ {k} : f[j] = c.watch[j]
    BY <1>1, <1>4 DEF Conversation
  <1>6. 0 \in 0..MaxStops /\ now \in {0, c.stopping} \ {k}
    BY CopilotConstants DEF Stops
  <1> HIDE DEF f, now
  <1>7. /\ c' \in Conversation /\ c'.watch = f /\ c'.stopping = now
        /\ c'.closed = c.closed /\ c'.sending = c.sending
        /\ Running(c, c') /\ c'.idles = c.idles /\ c'.sawIdle = c.sawIdle
        /\ c'.unmoved = c.unmoved /\ c'.timer = c.timer
        /\ c'.aborting = c.aborting /\ c'.resending = c.resending
    BY <1>1, <1>3, <1>5, <1>6 DEF Conversation, Running
  <1> QED BY <1>4, <1>5, <1>6, <1>7

\* The ping is over: the conversation ends, or only the check.
LEMMA DetachDoes ==
  ASSUME TypeOK, NEW k \in Stops, Detach(k)
  PROVE  /\ c' \in Conversation
         /\ c'.sending = c.sending /\ c'.stopping = c.stopping
         /\ c'.timer \/ c'.aborting => c'.running
         /\ c'.fgIdle /\ c'.running => c.fgIdle /\ c.running
         /\ c'.sawIdle = c.sawIdle
         /\ c'.unmoved = c.unmoved \/ c'.unmoved = (c.sending = 0)
         /\ c.idles <= c'.idles
         /\ c'.running => c'.idles = c.idles /\ c.running
         /\ \A j \in Stops \ {k} : c'.watch[j] = c.watch[j]
         /\ ~c'.watch[k].send /\ c'.watch[k].idles = 0
         /\ \/ c'.closed
            \/ /\ Running(c, c') /\ c'.idles = c.idles /\ ~c.closed
               /\ c'.unmoved = c.unmoved /\ c'.resending = c.resending
               /\ retry' = retry
         /\ retry' \in {retry, "wire"}
  <1>1. c \in Conversation /\ (c.timer \/ c.aborting => c.running)
    BY DEF TypeOK
  <1> DEFINE x == [c EXCEPT !.watch[k] = OverWatch]
             y == [x EXCEPT !.fgIdle = FALSE]
             z == Finished(y, TRUE)
  <1>2. /\ x \in Conversation /\ ~x.watch[k].send /\ x.watch[k].idles = 0
        /\ \A j \in Stops \ {k} : x.watch[j] = c.watch[j]
        /\ x.closed = c.closed /\ x.sending = c.sending /\ Running(c, x)
        /\ x.idles = c.idles /\ x.sawIdle = c.sawIdle
        /\ x.unmoved = c.unmoved /\ x.timer = c.timer
        /\ x.aborting = c.aborting /\ x.resending = c.resending
        /\ x.stopping = c.stopping
    <2> DEFINE f == [c.watch EXCEPT ![k] = OverWatch]
    <2>1. x = [c EXCEPT !.watch = f]
      BY <1>1
    <2>2. /\ f \in [Stops -> Watch] /\ f[k] = OverWatch
          /\ \A j \in Stops \ {k} : f[j] = c.watch[j]
      BY <1>1, OverIsWatch DEF Conversation
    <2> HIDE DEF f, x
    <2>3. /\ x \in Conversation /\ x.watch = f
          /\ x.closed = c.closed /\ x.sending = c.sending /\ Running(c, x)
          /\ x.idles = c.idles /\ x.sawIdle = c.sawIdle
          /\ x.unmoved = c.unmoved /\ x.timer = c.timer
          /\ x.aborting = c.aborting /\ x.resending = c.resending
          /\ x.stopping = c.stopping
      BY <1>1, <2>1, <2>2 DEF Conversation, Running
    <2> QED BY <2>2, <2>3, OverIsWatch
  <1>3. IF StopEnded(c, k) THEN c' = x /\ retry' = retry
        ELSE c' = Ended(z, TRUE) /\ SendsRetry(y, TRUE)
    BY DEF Detach
  <1>4. CASE StopEnded(c, k)
    <2>1. c.idles \in Nat
      BY <1>1 DEF Conversation
    <2>2. c' = x /\ retry' = retry
      BY <1>3, <1>4
    <2> HIDE DEF x
    <2> QED BY <1>1, <1>2, <2>1, <2>2 DEF Running
  <1>5. CASE ~StopEnded(c, k)
    <2> HIDE DEF x
    <2>1. /\ y \in Conversation /\ Kept(x, y) /\ ~y.fgIdle
          /\ y.running = x.running /\ y.idles = x.idles
          /\ y.sawIdle = x.sawIdle /\ y.unmoved = x.unmoved
          /\ y.timer = x.timer /\ y.aborting = x.aborting
      BY <1>2 DEF Conversation, Kept
    <2> HIDE DEF y
    <2>2. /\ z \in Conversation
          /\ \/ z = y
             \/ Same(y, z) /\ z.timer = y.timer /\ z.aborting = y.aborting
             \/ Over(y, z)
      BY <2>1, FinishedFields
    <2> HIDE DEF z
    <2>3. /\ c' \in Conversation /\ c'.closed /\ c'.sending = z.sending
          /\ c'.stopping = z.stopping /\ c'.watch = z.watch
          /\ c'.running = z.running /\ c'.fgIdle = z.fgIdle
          /\ c'.idles = z.idles /\ c'.sawIdle = z.sawIdle
          /\ c'.unmoved = z.unmoved /\ c'.timer = z.timer
          /\ c'.aborting = z.aborting
      <3>1. CASE z.closed
        BY <1>3, <1>5, <2>2, <3>1 DEF Ended
      <3>2. CASE ~z.closed
        <4>1. c' = [z EXCEPT !.closed = TRUE]
          BY <1>3, <1>5, <2>2, <3>2 DEF Ended, Conversation
        <4> QED BY <2>2, <4>1 DEF Conversation
      <3> QED BY <3>1, <3>2
    <2>4. retry' \in {retry, "wire"}
      BY <1>3, <1>5 DEF SendsRetry
    <2>5. y.idles \in Nat
      BY <2>1 DEF Conversation
    <2>6. CASE z = y \/ Same(y, z)
      BY <1>1, <1>2, <2>1, <2>2, <2>3, <2>4, <2>5, <2>6
      DEF Same, Over, Kept, Running
    <2>7. CASE Over(y, z)
      <3>1. c'.idles = c.idles + 1 /\ c.idles \in Nat
        BY <1>2, <2>1, <2>3, <2>5, <2>7 DEF Over
      <3>2. ~c'.running /\ ~c'.timer /\ ~c'.aborting /\ c'.closed
        BY <2>3, <2>7 DEF Over
      <3>3. c'.sending = c.sending /\ c'.unmoved = (c.sending = 0)
        BY <1>2, <2>1, <2>3, <2>7 DEF Over, Kept
      <3>4. /\ c'.stopping = c.stopping /\ c'.watch = x.watch
            /\ c'.sawIdle = c.sawIdle
        BY <1>2, <2>1, <2>3, <2>7 DEF Over, Kept
      <3> QED BY <1>2, <2>3, <2>4, <3>1, <3>2, <3>3, <3>4
    <2> QED BY <2>2, <2>6, <2>7
  <1> QED BY <1>4, <1>5

\* A conversation that ends keeps its fields.
LEMMA ClosesDoes ==
  ASSUME TypeOK, Exits \/ Close
  PROVE  /\ c' \in Conversation /\ c'.closed /\ c'.sending = c.sending
         /\ c'.stopping = c.stopping /\ c'.watch = c.watch
         /\ c'.running = c.running /\ c'.fgIdle = c.fgIdle
         /\ c'.idles = c.idles /\ c'.sawIdle = c.sawIdle
         /\ c'.unmoved = c.unmoved /\ c'.timer = c.timer
         /\ c'.aborting = c.aborting
  <1>1. c \in Conversation
    BY DEF TypeOK
  <1>2. CASE Exits
    <2>1. c' = [c EXCEPT !.closed = TRUE, !.shown = "ready"]
      BY <1>2 DEF Exits, Ended
    <2> QED BY <1>1, <2>1 DEF Conversation
  <1>3. CASE Close
    <2>1. c' = [c EXCEPT !.closed = TRUE]
      BY <1>3 DEF Close
    <2> QED BY <1>1, <2>1 DEF Conversation
  <1> QED BY <1>2, <1>3

\* A stall is found, or its abort fails.
LEMMA StallDoes ==
  ASSUME TypeOK, CheckStall \/ AbortFails
  PROVE  /\ c' \in Conversation /\ Same(c, c') /\ c'.resending = c.resending
         /\ c'.timer \/ c'.aborting => c'.running
  <1>1. c \in Conversation /\ (c.timer \/ c.aborting => c.running)
    BY DEF TypeOK
  <1>2. CASE CheckStall
    <2>1. c.running
      BY <1>2 DEF CheckStall
    <2>2. (~c.retried) \in BOOLEAN
      OBVIOUS
    <2>3. c' = [c EXCEPT !.timer = FALSE, !.aborting = ~c.retried,
                         !.retried = TRUE]
      BY <1>2 DEF CheckStall
    <2> QED BY <1>1, <2>1, <2>2, <2>3 DEF Conversation, Same, Kept
  <1>3. CASE AbortFails
    <2> DEFINE timer == c.timer \/ (~c.closed /\ c.running)
    <2>1. timer \in BOOLEAN /\ (timer => c.running)
      BY <1>1 DEF Conversation
    <2>2. c' = [c EXCEPT !.aborting = FALSE, !.timer = timer]
      BY <1>1, <1>3 DEF AbortFails, Conversation
    <2> HIDE DEF timer
    <2> QED BY <1>1, <2>1, <2>2 DEF Conversation, Same, Kept
  <1> QED BY <1>2, <1>3

\* The continuation fails: it ends the turn that waited for it.
LEMMA RetryFailsDoes ==
  ASSUME TypeOK, RetryFails
  PROVE  /\ c' \in Conversation /\ Kept(c, c') /\ ~c'.resending
         /\ c'.timer \/ c'.aborting => c'.running
         /\ \/ Same(c, c')
            \/ Over(c, c')
  <1>1. c \in Conversation /\ (c.timer \/ c.aborting => c.running)
    BY DEF TypeOK
  <1>2. CASE ~c.resending
    BY <1>1, <1>2 DEF RetryFails, Same, Kept
  <1>3. CASE c.resending
    <2> DEFINE x == [c EXCEPT !.aborting = FALSE, !.resending = FALSE]
    <2>1. /\ x \in Conversation /\ Same(c, x) /\ x.timer = c.timer
          /\ ~x.aborting /\ ~x.resending
      BY <1>1 DEF Conversation, Same, Kept
    <2>2. c' = Finished(x, TRUE)
      BY <1>3 DEF RetryFails
    <2> HIDE DEF x
    <2>3. ~Resends(x, TRUE)
      BY <2>1 DEF Resends, Continues
    <2>4. c' \in Conversation /\ (c' = x \/ Over(x, c'))
      BY <2>1, <2>2, <2>3, FinishedFields
    <2> QED BY <1>1, <2>1, <2>4 DEF Same, Over, Kept
  <1> QED BY <1>2, <1>3

-----------------------------------------------------------------------------
(* The events.                                                             *)

\* What the event on the way may be.
LEMMA EventKinds ==
  ASSUME NEW ev \in Event
  PROVE  /\ ev[1] \in {"start", "continuation", "error", "idle", "session",
                       "user"}
         /\ ev[1] \in {"idle", "session"} => ev[2] \in BOOLEAN
         /\ ev[1] = "user" => ev[2] \in Steers /\ ev[3] \in BOOLEAN
  BY DEF Event

\* The first event.
LEMMA HeadIsEvent ==
  ASSUME TypeOK, OnEvent
  PROVE  /\ Head(events) \in Event /\ events' \in Seq(Event)
         /\ Head(events) = events[1] /\ ~c.closed
         /\ Len(events) \in Nat \ {0} /\ Len(events') = Len(events) - 1
         /\ \A i \in 1 .. Len(events') : events'[i] = events[i + 1]
  BY DEF TypeOK, OnEvent

\* A model call starts.
LEMMA StartDoes ==
  ASSUME TypeOK, ~c.closed, c' = OnStart(c)
  PROVE  /\ c' \in Conversation /\ Starts(c, c')
         /\ c'.unmoved = (c.sending = 0) /\ c'.resending = c.resending
  <1> DEFINE none == c.sending = 0
             x == [c EXCEPT !.waiting = TRUE, !.timer = TRUE, !.unmoved = none]
  <1>1. c \in Conversation /\ none \in BOOLEAN
    BY DEF TypeOK
  <1>2. c' = Started(x)
    BY DEF OnStart
  <1> HIDE DEF none
  <1>3. /\ x \in Conversation /\ Kept(c, x) /\ x.idles = c.idles
        /\ x.sawIdle = c.sawIdle /\ x.unmoved = none
        /\ x.resending = c.resending
    BY <1>1 DEF Conversation, Kept
  <1> HIDE DEF x
  <1>4. /\ c' \in Conversation /\ Starts(x, c') /\ c'.unmoved = x.unmoved
        /\ c'.resending = x.resending
    BY <1>2, <1>3, StartedFields
  <1> QED BY <1>3, <1>4 DEF Starts, Kept, none

\* A message of the user is delivered.
LEMMA UserDoes ==
  ASSUME TypeOK, ~c.closed, NEW s \in Steers, NEW idle \in BOOLEAN,
         c' = OnUser(c, s, idle)
  PROVE  /\ c' \in Conversation /\ c'.unmoved = c.unmoved
         /\ c'.resending = c.resending
         /\ c'.timer \/ c'.aborting => c'.running
         /\ IF idle THEN Starts(c, c') ELSE Same(c, c')
  <1> DEFINE steers == IF c.steer[s].known THEN c.steers \ {s} ELSE c.steers
             seen == IF op = "steer" THEN c.seen \cup {s} ELSE c.seen
             f == [c.steer EXCEPT ![s].used = TRUE]
             y == [c EXCEPT !.steers = steers, !.seen = seen, !.steer = f]
  <1>1. c \in Conversation /\ (c.timer \/ c.aborting => c.running)
    BY DEF TypeOK
  <1>2. steers \in SUBSET Steers /\ seen \in SUBSET Steers
    BY <1>1 DEF Conversation
  <1>3. f \in [Steers -> Steer]
    <2>1. c.steer[s] \in Steer /\ c.steer \in [Steers -> Steer]
      BY <1>1 DEF Conversation
    <2>2. [c.steer[s] EXCEPT !.used = TRUE] \in Steer
      BY <2>1 DEF Steer
    <2> QED BY <2>1, <2>2
  <1>4. c' = IF idle THEN Started(y) ELSE y
    BY <1>1 DEF OnUser
  <1> HIDE DEF steers, seen, f
  <1>5. /\ y \in Conversation /\ Same(c, y) /\ y.timer = c.timer
        /\ y.aborting = c.aborting /\ y.resending = c.resending
    BY <1>1, <1>2, <1>3 DEF Conversation, Same, Kept
  <1> HIDE DEF y
  <1>6. CASE idle
    <2>1. /\ c' \in Conversation /\ Starts(y, c') /\ c'.unmoved = y.unmoved
          /\ c'.resending = y.resending
      BY <1>4, <1>5, <1>6, StartedFields
    <2> QED BY <1>5, <1>6, <2>1 DEF Starts, Same, Kept
  <1>7. CASE ~idle
    BY <1>1, <1>4, <1>5, <1>7 DEF Same
  <1> QED BY <1>6, <1>7

\* The continuation of a stalled request arrives.
LEMMA ContinuationDoes ==
  ASSUME TypeOK, ~c.closed, c' = OnContinuation(c)
  PROVE  /\ c' \in Conversation /\ Starts(c, c')
         /\ c'.unmoved = c.unmoved /\ ~c'.resending
  <1> DEFINE x == [c EXCEPT !.aborting = FALSE, !.resending = FALSE]
  <1>1. c \in Conversation
    BY DEF TypeOK
  <1>2. c' = Started(x)
    BY DEF OnContinuation
  <1>3. x \in Conversation /\ Same(c, x) /\ ~x.resending
    BY <1>1 DEF Conversation, Same, Kept
  <1> HIDE DEF x
  <1>4. /\ c' \in Conversation /\ Starts(x, c') /\ c'.unmoved = x.unmoved
        /\ c'.resending = x.resending
    BY <1>2, <1>3, StartedFields
  <1> QED BY <1>3, <1>4 DEF Starts, Same, Kept

\* An idle: one that the CLI's kind of idle makes the conversation pass over,
\* one that comes when no turn runs or while its continuation is on its way,
\* one that sends a continuation, and one that ends the turn.
LEMMA IdleDoes ==
  ASSUME TypeOK, ~c.closed, NEW ev \in Event, ev[1] \in {"idle", "session"},
         c' = OnIdle(c, ev),
         IF IdleEnds(c, ev) THEN SendsRetry(c, ev[2]) ELSE UNCHANGED retry
  PROVE  /\ c' \in Conversation /\ Kept(c, c')
         /\ c'.sawIdle = (c.sawIdle \/ ev[1] = "idle")
         /\ c'.timer \/ c'.aborting => c'.running
         /\ \/ /\ retry' = retry /\ Running(c, c') /\ c'.idles = c.idles
               /\ c'.unmoved = c.unmoved /\ c'.resending = c.resending
               /\ ~IdleEnds(c, ev) \/ c.fgIdle \/ c.resending
            \/ /\ retry' = "wire" /\ Running(c, c') /\ c'.idles = c.idles
               /\ c'.unmoved = c.unmoved
            \/ /\ retry' = retry /\ IdleEnds(c, ev)
               /\ ~c'.running /\ c'.fgIdle
               /\ c'.idles = c.idles + 1 /\ c'.unmoved = (c.sending = 0)
               /\ ~c'.resending /\ c'.shown = "ready"
  <1> DEFINE saw == c.sawIdle \/ ev[1] = "idle"
             y == [c EXCEPT !.waiting = FALSE, !.sawIdle = saw]
  <1>1. c \in Conversation /\ (c.timer \/ c.aborting => c.running)
    BY DEF TypeOK
  <1>2. ev[2] \in BOOLEAN /\ saw \in BOOLEAN
    BY EventKinds
  <1>3. c' = IF IdleEnds(c, ev) THEN Finished(y, ev[2]) ELSE y
    BY <1>1 DEF OnIdle, Conversation
  <1> HIDE DEF saw
  <1>4. /\ y \in Conversation /\ Kept(c, y) /\ Running(c, y)
        /\ y.idles = c.idles /\ y.sawIdle = saw /\ y.unmoved = c.unmoved
        /\ y.timer = c.timer /\ y.aborting = c.aborting
        /\ y.resending = c.resending
    BY <1>1, <1>2 DEF Conversation, Kept, Running
  <1> HIDE DEF y
  <1>5. Resends(c, ev[2]) <=> Resends(y, ev[2])
    BY <1>4 DEF Resends, Continues, StopPending, Kept, Running
  <1>6. CASE ~IdleEnds(c, ev)
    BY <1>1, <1>3, <1>4, <1>6 DEF saw, Kept, Running
  <1>7. CASE IdleEnds(c, ev)
    <2>1. retry' = IF Resends(y, ev[2]) THEN "wire" ELSE retry
      BY <1>5, <1>7 DEF SendsRetry
    <2>2. /\ c' \in Conversation
          /\ \/ y.fgIdle /\ ~Resends(y, ev[2]) /\ c' = y
             \/ /\ Resends(y, ev[2]) /\ Same(y, c') /\ c'.resending
                /\ c'.timer = y.timer /\ c'.aborting = y.aborting
             \/ ~Resends(y, ev[2]) /\ y.aborting /\ y.resending /\ c' = y
             \/ ~Resends(y, ev[2]) /\ Over(y, c')
      BY <1>2, <1>3, <1>4, <1>7, FinishedFields
    <2>3. CASE ~Resends(y, ev[2]) /\ c' = y /\ (y.fgIdle \/ y.resending)
      BY <1>1, <1>4, <2>1, <2>3 DEF saw, Kept, Running
    <2>4. CASE /\ Resends(y, ev[2]) /\ Same(y, c')
               /\ c'.timer = y.timer /\ c'.aborting = y.aborting
      BY <1>1, <1>4, <2>1, <2>2, <2>4 DEF saw, Same, Kept, Running
    <2>5. CASE ~Resends(y, ev[2]) /\ Over(y, c')
      BY <1>1, <1>4, <1>7, <2>1, <2>2, <2>5 DEF saw, Over, Kept, Running
    <2> QED BY <2>2, <2>3, <2>4, <2>5
  <1> QED BY <1>6, <1>7

\* An event of any kind.
LEMMA EventDoes ==
  ASSUME TypeOK, OnEvent
  PROVE  /\ c' \in Conversation /\ (c'.timer \/ c'.aborting => c'.running)
         /\ retry' \in {retry, "wire"}
  <1> DEFINE ev == Head(events)
  <1>1. /\ ev \in Event /\ ~c.closed
        /\ c \in Conversation /\ (c.timer \/ c.aborting => c.running)
    BY HeadIsEvent DEF TypeOK
  <1>2. /\ ev[1] \in {"start", "continuation", "error", "idle", "session",
                      "user"}
        /\ ev[1] \in {"idle", "session"} => ev[2] \in BOOLEAN
        /\ ev[1] = "user" => ev[2] \in Steers /\ ev[3] \in BOOLEAN
    BY <1>1, EventKinds
  <1>3. /\ ev[1] = "start" => c' = OnStart(c)
        /\ ev[1] = "user" => c' = OnUser(c, ev[2], ev[3])
        /\ ev[1] = "continuation" => c' = OnContinuation(c)
        /\ ev[1] = "error" => c' = [c EXCEPT !.turnErr = TRUE]
        /\ ev[1] \in {"idle", "session"} =>
             /\ c' = OnIdle(c, ev)
             /\ IF IdleEnds(c, ev) THEN SendsRetry(c, ev[2])
                ELSE UNCHANGED retry
        /\ ev[1] \notin {"idle", "session"} => UNCHANGED retry
    BY DEF OnEvent
  <1> HIDE DEF ev
  <1>4. CASE ev[1] = "start"
    BY <1>1, <1>3, <1>4, StartDoes DEF Starts
  <1>5. CASE ev[1] = "user"
    BY <1>1, <1>2, <1>3, <1>5, UserDoes DEF Starts
  <1>6. CASE ev[1] = "continuation"
    BY <1>1, <1>3, <1>6, ContinuationDoes DEF Starts
  <1>7. CASE ev[1] = "error"
    BY <1>1, <1>3, <1>7 DEF Conversation
  <1>8. CASE ev[1] \in {"idle", "session"}
    BY <1>1, <1>3, <1>8, IdleDoes
  <1> QED BY <1>2, <1>4, <1>5, <1>6, <1>7, <1>8

-----------------------------------------------------------------------------
(* The invariant.                                                          *)

\* The events that start a turn and the one that ends it.
StartsTurn(ev) ==
  ev[1] \in {"start", "continuation"} \/ (ev[1] = "user" /\ ev[3])
EndsTurn(ev) == ev[1] = IF OldCLI THEN "session" ELSE "idle"
Turning(ev) == StartsTurn(ev) \/ EndsTurn(ev)

\* The last event on its way that starts or ends a turn says what the CLI does,
\* and with none on its way the conversation knows it.  While a continuation
\* has not reached the CLI, and after one that failed, it may be wrong.
EventsTell ==
  ~c.closed /\ retry \notin {"wire", "failed"} =>
    /\ \A i \in 1 .. Len(events) :
         /\ Turning(events[i])
         /\ \A j \in i + 1 .. Len(events) : ~Turning(events[j])
         => (StartsTurn(events[i]) <=> Runs)
    /\ (\A i \in 1 .. Len(events) : ~Turning(events[i]))
         => (c.running <=> Runs)

\* A turn that waits for its continuation will see it, or the call fail.
ResendIsSeen ==
  ~c.closed /\ c.resending =>
    retry = "wire" \/ \E i \in 1 .. Len(events) : events[i][1] = "continuation"

\* Until it moves the turn, a prompt that the CLI took has its start on the
\* way.
TakenIsSeen ==
  ~c.closed /\ c.unmoved => \A p \in Prompts : prompts[p] = "in" =>
    \E i \in 1 .. Len(events) : events[i][1] = "start"

\* A CLI with the assistant's idle sends it before the session's.
IdlesFit ==
  IF OldCLI
  THEN ~c.sawIdle /\ \A i \in 1 .. Len(events) : events[i][1] # "idle"
  ELSE ~c.closed => \A i \in 1 .. Len(events) : events[i][1] = "session" =>
         c.sawIdle \/ \E j \in 1 .. i - 1 : events[j][1] = "idle"

\* An idle agent runs no turn.
IdleRunsNone == c.fgIdle => ~c.running

\* One call at a time holds s.op, and it is the last prompt's.
OpsFit ==
  /\ \A p \in Prompts : p > sent => prompts[p] = "new"
  /\ \A p \in Prompts : prompts[p] \in {"begun", "wire", "in", "returned"} =>
       p = sent /\ op = "send"
  /\ op = "send" =>
       /\ sent \in Prompts
       /\ prompts[sent] \in {"begun", "wire", "in", "returned"}
       /\ c.sending = 1 <=> prompts[sent] # "begun"
  /\ c.sending = 1 => op = "send"
  /\ \A s \in Steers : calls[s] \in {"wire", "in"} => op = "steer"
  /\ \A s, t \in Steers :
       calls[s] \in {"wire", "in"} /\ calls[t] \in {"wire", "in"} => s = t
  /\ c.sending = 0 => c.unmoved

TurnInv == /\ TypeOK /\ OpsFit /\ IdleRunsNone /\ IdlesFit
           /\ ResendIsSeen /\ TakenIsSeen /\ EventsTell

\* The prompt on its way has shown a turn that no event has moved yet.
Pending ==
  c.sending = 1 /\ c.unmoved /\ prompts[sent] \in {"wire", "in"}

\* The Manager has shown the turn of a prompt it hands to the adapter.
Begun == sent \in Prompts /\ prompts[sent] = "begun"

\* A turn is shown while one runs or a prompt is on its way.
ShownFits ==
  ~c.closed /\ c.shown = "working" /\ ~c.running =>
    (Pending \/ Begun) /\ ~c.turnSeen

\* A Stop that found no turn counts as pending only for the prompt on its way.
WatchFits ==
  /\ \A k \in Stops : c.watch[k].idles <= c.idles
                      /\ (c.watch[k].send => c.watch[k].upto \in Prompts)
  /\ ~c.closed /\ StopPending(c) /\ c.watch[c.stopping].send /\ ~c.running =>
       Pending /\ c.watch[c.stopping].upto = sent

StopInv == ShownFits /\ WatchFits /\ OvertakenIsAborted

-----------------------------------------------------------------------------
(* Types.                                                                  *)

\* The events the CLI sends.
LEMMA EventsAre ==
  /\ <<"start">> \in Event /\ <<"continuation">> \in Event
  /\ <<"error">> \in Event
  /\ \A s \in Steers, idle \in BOOLEAN : <<"user", s, idle>> \in Event
  /\ \A aborted \in BOOLEAN : <<"idle", aborted>> \in Event
                              /\ <<"session", aborted>> \in Event
  BY DEF Event

\* What the CLI emits at a turn's end.
LEMMA EndsAre ==
  ASSUME NEW aborted \in BOOLEAN
  PROVE  /\ EndEvents(aborted) \in Seq(Event)
         /\ (<<<<"error">>>> \o EndEvents(aborted)) \in Seq(Event)
  BY EventsAre DEF EndEvents

\* An end's last events, errors before them.
EndShape(es) ==
  \E n \in Nat :
    /\ n = Len(es) /\ n >= 1
    /\ IF OldCLI
       THEN /\ es[n][1] = "session"
            /\ \A k \in 1 .. n : es[k][1] # "idle"
       ELSE /\ n >= 2 /\ es[n - 1][1] = "idle" /\ es[n][1] = "session"
            /\ \A k \in 1 .. n - 2 : es[k][1] = "error"

\* Both kinds of an end have that shape.
LEMMA EndShapes ==
  ASSUME NEW aborted \in BOOLEAN
  PROVE  /\ EndShape(EndEvents(aborted))
         /\ EndShape(<<<<"error">>>> \o EndEvents(aborted))
  <1> DEFINE idle == <<"idle", aborted>>
             session == <<"session", aborted>>
             error == <<"error">>
             end == EndEvents(aborted)
             es == <<error>> \o end
  <1>1. /\ OldCLI => end = <<session>>
        /\ ~OldCLI => end = <<idle, session>>
    BY DEF EndEvents
  <1>2. error[1] = "error" /\ idle[1] = "idle" /\ session[1] = "session"
    OBVIOUS
  <1>3. <<error>> \in Seq(Event) /\ end \in Seq(Event) /\ Len(<<error>>) = 1
    BY EventsAre, EndsAre
  <1>4. <<error>>[1] = error
    OBVIOUS
  <1> HIDE DEF error, idle, session, end
  <1>5. /\ Len(es) = 1 + Len(end)
        /\ \A i \in 1 .. 1 + Len(end) :
             es[i] = IF i <= 1 THEN <<error>>[i] ELSE end[i - 1]
    BY <1>3, ConcatProperties
  <1> HIDE DEF es
  <1>6. /\ \A k \in 1 .. 1 : k = 1
        /\ \A k \in 1 .. 2 - 2 : FALSE
    OBVIOUS
  <1>7. EndShape(end)
    <2>1. CASE OldCLI
      BY <1>1, <1>2, <1>6, <2>1 DEF EndShape
    <2>2. CASE ~OldCLI
      BY <1>1, <1>2, <1>6, <2>2 DEF EndShape
    <2> QED BY <2>1, <2>2
  <1>8. EndShape(es)
    <2>1. PICK n \in Nat :
            /\ n = Len(end) /\ n >= 1
            /\ IF OldCLI
               THEN /\ end[n][1] = "session"
                    /\ \A k \in 1 .. n : end[k][1] # "idle"
               ELSE /\ n >= 2 /\ end[n - 1][1] = "idle"
                    /\ end[n][1] = "session"
                    /\ \A k \in 1 .. n - 2 : end[k][1] = "error"
      BY <1>7 DEF EndShape
    <2>2. PICK m \in Nat : m = n + 1
      OBVIOUS
    <2>3. m = Len(es) /\ es[1] = error
      BY <1>4, <1>5, <2>1, <2>2
    <2>4. \A i \in 2 .. m : i - 1 \in 1 .. n /\ es[i] = end[i - 1]
      BY <1>5, <2>1, <2>2
    <2>5. CASE OldCLI
      <3>1. es[m][1] = "session" /\ \A k \in 1 .. m : es[k][1] # "idle"
        BY <1>2, <2>1, <2>2, <2>3, <2>4, <2>5
      <3> QED BY <2>2, <2>3, <2>5, <3>1 DEF EndShape
    <2>6. CASE ~OldCLI
      <3>1. es[m - 1][1] = "idle" /\ es[m][1] = "session"
        BY <2>1, <2>2, <2>4, <2>6
      <3>2. \A k \in 1 .. m - 2 : es[k][1] = "error"
        <4>1. ASSUME NEW k \in 1 .. m - 2, k # 1
              PROVE  k \in 2 .. m /\ k - 1 \in 1 .. n - 2
          BY <2>1, <2>2, <2>6, <4>1
        <4> QED BY <1>2, <2>1, <2>3, <2>4, <2>6, <4>1
      <3>3. m >= 2
        BY <2>1, <2>2
      <3> QED BY <2>2, <2>3, <2>6, <3>1, <3>2, <3>3 DEF EndShape
    <2> QED BY <2>5, <2>6
  <1> QED BY <1>7, <1>8 DEF es, end, error

\* The queue is bounded.
LEMMA EmitsTyped ==
  ASSUME TypeOK, NEW es \in Seq(Event), Emits(es)
  PROVE  events' \in Seq(Event) /\ Len(events') <= MaxEvents
  BY DEF TypeOK, Emits

\* What the queue holds then: its events, and after them the new ones.
LEMMA EmitsAppends ==
  ASSUME TypeOK, NEW es \in Seq(Event), Emits(es)
  PROVE  /\ Len(events') = Len(events) + Len(es)
         /\ \A i \in 1 .. Len(events) + Len(es) : events'[i] =
              IF i <= Len(events) THEN events[i] ELSE es[i - Len(events)]
  <1>1. events \in Seq(Event) /\ events' = events \o es
    BY DEF Emits, TypeOK
  <1>2. /\ Len(events \o es) = Len(events) + Len(es)
        /\ \A i \in 1 .. Len(events) + Len(es) : (events \o es)[i] =
             IF i <= Len(events) THEN events[i] ELSE es[i - Len(events)]
    BY <1>1, ConcatProperties
  <1> QED BY <1>1, <1>2

\* The initial conversation.
LEMMA InitTyped == Init => TypeOK
  <1>1. SUFFICES ASSUME Init PROVE TypeOK
    OBVIOUS
  <1>2. /\ 0 \in 0..1 /\ 0 \in 0..MaxStops /\ 0 \in 0..MaxPrompts
        /\ 0 <= MaxEvents
    BY CopilotConstants
  <1>3. NoWatch \in Watch /\ NewSteer \in Steer
    BY <1>2 DEF NoWatch, Watch, NewSteer, Steer
  <1>4. /\ [k \in Stops |-> NoWatch] \in [Stops -> Watch]
        /\ [s \in Steers |-> NewSteer] \in [Steers -> Steer]
    BY <1>3
  <1>5. c \in Conversation /\ ~c.timer /\ ~c.aborting
    <2> DEFINE w == [k \in Stops |-> NoWatch]
               t == [s \in Steers |-> NewSteer]
    <2>1. c = [closed |-> FALSE, running |-> FALSE, fgIdle |-> FALSE,
               idles |-> 0, sending |-> 0, sawIdle |-> FALSE,
               turnErr |-> FALSE, unmoved |-> TRUE, stopping |-> 0,
               watch |-> w, steers |-> {}, steer |-> t, seen |-> {},
               timer |-> FALSE, waiting |-> FALSE, aborting |-> FALSE,
               resending |-> FALSE, retried |-> FALSE, shown |-> "ready",
               turnSeen |-> FALSE]
      BY <1>1 DEF Init
    <2> HIDE DEF w, t
    <2> QED BY <1>2, <1>4, <2>1 DEF Conversation, w, t
  <1>6. /\ prompts \in [Prompts -> {"new", "begun", "wire", "in", "returned",
                                    "took", "unsure", "failed"}]
        /\ calls \in [Steers -> {"new", "wire", "in", "done"}]
        /\ cli \in [run : {"idle", "running"}, steers : SUBSET Steers]
    BY <1>1 DEF Init
  <1>7. /\ sent \in 0..MaxPrompts
        /\ op \in {"none", "send", "steer", "stop"}
        /\ aborts \in Nat /\ stalled \in BOOLEAN
        /\ retry \in {"none", "wire", "in", "failed"} /\ stopped \in Nat
    BY <1>1, <1>2 DEF Init
  <1>8. events \in Seq(Event) /\ Len(events) <= MaxEvents
    <2>1. events = <<>>
      BY <1>1 DEF Init
    <2> QED BY <1>2, <2>1
  <1> QED BY <1>5, <1>6, <1>7, <1>8 DEF TypeOK

\* The conversation's type apart, each variable's is seen in its assignment.
LEMMA NextTyped == TypeOK /\ [Next]_vars => TypeOK'
  <1> SUFFICES ASSUME TypeOK, [Next]_vars PROVE TypeOK'
    OBVIOUS
  <1> DEFINE Conv == c' \in Conversation
                     /\ (c'.timer \/ c'.aborting => c'.running)
             Rest == /\ prompts' \in [Prompts -> {"new", "begun", "wire",
                                   "in", "returned", "took", "unsure", "failed"}]
                     /\ sent' \in 0..MaxPrompts
                     /\ calls' \in [Steers -> {"new", "wire", "in", "done"}]
                     /\ op' \in {"none", "send", "steer", "stop"}
                     /\ cli' \in [run : {"idle", "running"},
                                  steers : SUBSET Steers]
                     /\ aborts' \in Nat /\ stalled' \in BOOLEAN
                     /\ retry' \in {"none", "wire", "in", "failed"}
                     /\ stopped' \in Nat
             Queue == events' \in Seq(Event) /\ Len(events') <= MaxEvents
  <1>1. c \in Conversation /\ (c.timer \/ c.aborting => c.running)
    BY DEF TypeOK
  <1>2. c.idles \in Nat
    BY <1>1 DEF Conversation
  <1>3. SUFFICES Conv /\ Rest /\ Queue
    BY DEF TypeOK
  <1> HIDE DEF Conv, Rest, Queue
  <1>4. UNCHANGED events => Queue
    BY DEF TypeOK, Queue
  <1>5. UNCHANGED c => Conv
    BY DEF TypeOK, Conv
  <1>6. CASE SendBegins
    <2>1. sent + 1 \in Prompts /\ sent + 1 \in 0..MaxPrompts
      BY <1>6, CopilotConstants DEF SendBegins, TypeOK, Prompts
    <2>2. Rest
      BY <1>6, <2>1 DEF SendBegins, TypeOK, Rest, wire
    <2> QED
      BY <1>1, <1>4, <1>6, <2>2, SendBeginsDoes DEF SendBegins, Conv, wire
  <1>21. CASE \E p \in Prompts : SendCalls(p)
    <2>1. PICK p \in Prompts : SendCalls(p)
      BY <1>21
    <2>2. Conv
      BY <1>1, <2>1, SendCallsDoes DEF Conv
    <2>3. Rest
      BY <2>1 DEF SendCalls, TypeOK, Rest, wire
    <2> QED BY <1>4, <2>1, <2>2, <2>3 DEF SendCalls, wire
  <1>7. CASE \E p \in Prompts : SendAnswered(p)
    <2>1. PICK p \in Prompts : SendAnswered(p)
      BY <1>7
    <2>2. aborts' \in Nat /\ Conv
      BY <1>1, <2>1, SendAnsweredDoes DEF Conv, Running
    <2>3. Rest
      BY <2>1, <2>2 DEF SendAnswered, TypeOK, Rest
    <2> QED BY <1>4, <2>1, <2>2, <2>3 DEF SendAnswered
  <1>8. CASE \E p \in Prompts : SendReturns(p) \/ SendFails(p)
    <2>1. PICK p \in Prompts : SendReturns(p) \/ SendFails(p)
      BY <1>8
    <2>2. Conv
      BY <1>1, <2>1, SendEndsDoes DEF Conv
    <2>3. Rest
      BY <2>1 DEF SendReturns, SendFails, TypeOK, Rest, wire
    <2> QED BY <1>4, <2>1, <2>2, <2>3 DEF SendReturns, SendFails, wire
  <1>9. CASE \E s \in Steers : \/ SteerBegins(s) \/ SteerAnswered(s)
                               \/ SteerFails(s)
    <2>1. PICK s \in Steers :
            SteerBegins(s) \/ SteerAnswered(s) \/ SteerFails(s)
      BY <1>9
    <2>2. Conv
      BY <1>1, <2>1, SteerDoes DEF Conv, Same
    <2>3. Rest
      BY <2>1 DEF SteerBegins, SteerAnswered, SteerFails, TypeOK, Rest, wire
    <2> QED
      BY <1>4, <2>1, <2>2, <2>3 DEF SteerBegins, SteerAnswered, SteerFails, wire
  <1>10. CASE StopBegins
    <2>1. Conv
      BY <1>1, <1>10, StopBeginsDoes DEF Conv, Running
    <2>2. Rest
      BY <1>2, <1>10 DEF StopBegins, TypeOK, Rest
    <2> QED BY <1>4, <1>10, <2>1, <2>2 DEF StopBegins
  <1>11. CASE StopReturns
    BY <1>4, <1>5, <1>11 DEF StopReturns, TypeOK, Rest, wire
  <1>12. CASE \E k \in Stops : StopUnconfirmed(k)
    <2>1. PICK k \in Stops : StopUnconfirmed(k)
      BY <1>12
    <2>2. Conv
      BY <1>1, <2>1, StopUnconfirmedDoes DEF Conv, Running
    <2>3. Rest
      BY <2>1 DEF StopUnconfirmed, TypeOK, Rest, wire
    <2> QED BY <1>4, <2>1, <2>2, <2>3 DEF StopUnconfirmed, wire
  <1>13. CASE \E k \in Stops : Detach(k)
    <2>1. PICK k \in Stops : Detach(k)
      BY <1>13
    <2>2. Conv /\ retry' \in {retry, "wire"}
      BY <2>1, DetachDoes DEF Conv
    <2>3. Rest
      BY <2>1, <2>2 DEF Detach, TypeOK, Rest
    <2> QED BY <1>4, <2>1, <2>2, <2>3 DEF Detach
  <1>14. CASE Exits \/ Close
    <2>1. Conv
      BY <1>1, <1>14, ClosesDoes DEF Conv
    <2>2. Rest
      BY <1>14 DEF Exits, Close, TypeOK, Rest, wire
    <2> QED BY <1>4, <1>14, <2>1, <2>2 DEF Exits, Close, wire
  <1>15. CASE CheckStall \/ AbortFails
    <2>1. Conv
      BY <1>15, StallDoes DEF Conv
    <2>2. Rest
      BY <1>15 DEF CheckStall, AbortFails, TypeOK, Rest
    <2> QED BY <1>4, <1>15, <2>1, <2>2 DEF CheckStall, AbortFails
  <1>16. CASE RetryReturns
    BY <1>4, <1>5, <1>16 DEF RetryReturns, TypeOK, Rest, uam
  <1>17. CASE RetryFails
    <2>1. Conv
      BY <1>17, RetryFailsDoes DEF Conv
    <2>2. Rest
      BY <1>17 DEF RetryFails, TypeOK, Rest
    <2> QED BY <1>4, <1>17, <2>1, <2>2 DEF RetryFails
  <1>18. CASE OnEvent
    <2>1. Conv /\ retry' \in {retry, "wire"}
      BY <1>18, EventDoes DEF Conv
    <2>2. Rest
      BY <1>18, <2>1 DEF OnEvent, TypeOK, Rest
    <2>3. Queue
      <3>1. Len(events) <= MaxEvents /\ MaxEvents \in Nat
        BY CopilotConstants DEF TypeOK
      <3>2. /\ events' \in Seq(Event) /\ Len(events) \in Nat
            /\ Len(events') = Len(events) - 1
        BY <1>18, HeadIsEvent
      <3> QED BY <3>1, <3>2 DEF Queue
    <2> QED BY <2>1, <2>2, <2>3
  <1>19. CASE CLI
    <2>1. Conv
      BY <1>5, <1>19
      DEF CLI, TakesPrompt, TakesSteer, NextCall, TurnEnds, TakesAbort,
          TakesRetry, uam
    <2>2. Rest
      <3>1. CASE (\E p \in Prompts : TakesPrompt(p)) \/ TakesRetry
        BY <3>1 DEF TakesPrompt, TakesRetry, uam, TypeOK, Rest
      <3>2. CASE \E s \in Steers : TakesSteer(s)
        BY <3>2 DEF TakesSteer, TypeOK, Rest
      <3>3. CASE NextCall
        BY <3>3 DEF NextCall, uam, TypeOK, Rest
      <3>4. CASE TurnEnds
        BY <3>4 DEF TurnEnds, uam, TypeOK, Rest
      <3>5. CASE TakesAbort
        <4>1. /\ aborts \in Nat /\ stalled \in BOOLEAN
              /\ cli \in [run : {"idle", "running"}, steers : SUBSET Steers]
          BY DEF TypeOK
        <4>2. /\ \/ aborts > 0 /\ aborts' = aborts - 1 /\ UNCHANGED stalled
                 \/ stalled /\ stalled' = FALSE /\ UNCHANGED aborts
              /\ cli' \in {[run |-> "idle", steers |-> {}], cli}
              /\ UNCHANGED <<prompts, sent, calls, op, retry, stopped>>
          BY <3>5 DEF TakesAbort, uam
        <4>3. aborts' \in Nat /\ stalled' \in BOOLEAN
          <5>1. CASE aborts > 0 /\ aborts' = aborts - 1 /\ UNCHANGED stalled
            <6>1. aborts \in Nat /\ aborts > 0 /\ aborts' = aborts - 1
              BY <4>1, <5>1
            <6> QED BY <4>1, <5>1, <6>1
          <5>2. CASE stalled' = FALSE /\ UNCHANGED aborts
            BY <4>1, <5>2
          <5> QED BY <4>2, <5>1, <5>2
        <4>4. cli' \in [run : {"idle", "running"}, steers : SUBSET Steers]
          BY <4>1, <4>2
        <4> QED BY <4>2, <4>3, <4>4 DEF TypeOK, Rest
      <3> QED BY <1>19, <3>1, <3>2, <3>3, <3>4, <3>5 DEF CLI
    <2>3. UNCHANGED events \/ \E es \in Seq(Event) : Emits(es)
      <3>1. \A a, b \in Event : <<a>> \in Seq(Event) /\ <<a, b>> \in Seq(Event)
        OBVIOUS
      <3>2. /\ <<<<"start">>>> \in Seq(Event)
            /\ <<<<"continuation">>, <<"start">>>> \in Seq(Event)
            /\ \A s \in Steers :
                 /\ <<<<"user", s, TRUE>>, <<"start">>>> \in Seq(Event)
                 /\ <<<<"user", s, FALSE>>>> \in Seq(Event)
        BY <3>1, EventsAre
      <3>3. CASE \/ \E p \in Prompts : TakesPrompt(p)
                 \/ \E s \in Steers : TakesSteer(s)
                 \/ NextCall \/ TakesRetry
        BY <3>2, <3>3 DEF TakesPrompt, TakesSteer, NextCall, TakesRetry, TypeOK
      <3>4. CASE TurnEnds \/ TakesAbort
        BY <3>4, EndsAre DEF TurnEnds, TakesAbort
      <3> QED BY <1>19, <3>3, <3>4 DEF CLI
    <2>4. Queue
      BY <1>4, <2>3, EmitsTyped DEF Queue
    <2> QED BY <2>1, <2>2, <2>4
  <1>20. CASE UNCHANGED vars
    BY <1>4, <1>5, <1>20 DEF vars, uam, wire, TypeOK, Rest
  <1> QED
    BY <1>6, <1>7, <1>8, <1>9, <1>10, <1>11, <1>12, <1>13, <1>14, <1>15,
       <1>16, <1>17, <1>18, <1>19, <1>20, <1>21 DEF Next

\* Every variable of a conversation keeps its type, and a watch for a stall or
\* its abort belongs to a turn that runs.
THEOREM TypeCorrect == Spec => []TypeOK
  BY InitTyped, NextTyped, PTL DEF Spec

-----------------------------------------------------------------------------
(* The queue of events.                                                    *)

\* The queue does not tell: the continuation is not there, or was refused.
Elsewhere == retry \in {"wire", "failed"}

\* A step that leaves the queue and the CLI.
LEMMA QueueKept ==
  ASSUME TurnInv, UNCHANGED <<events, cli>>,
         c.closed => c'.closed, c'.sawIdle = c.sawIdle,
         \/ c'.closed \/ retry' = "wire" \/ ~c'.resending
         \/ c.resending /\ (retry' = retry \/ retry # "wire"),
         \/ c'.closed \/ Elsewhere'
         \/ /\ ~Elsewhere
            /\ \/ c'.running = c.running
               \/ \E i \in 1 .. Len(events) : Turning(events[i])
  PROVE  IdlesFit' /\ ResendIsSeen' /\ EventsTell'
  <1>1. IdlesFit'
    BY DEF TurnInv, IdlesFit
  <1>2. ResendIsSeen'
    BY DEF TurnInv, ResendIsSeen
  <1>3. EventsTell'
    BY DEF TurnInv, EventsTell, Elsewhere, Runs
  <1> QED BY <1>1, <1>2, <1>3

\* The prompts the CLI took.
LEMMA TakenKept ==
  ASSUME TurnInv, UNCHANGED events, c.closed => c'.closed,
         \A p \in Prompts : prompts'[p] = "in" =>
           prompts[p] = "in" /\ (c'.closed \/ (c'.unmoved => c.unmoved))
  PROVE  TakenIsSeen'
  BY DEF TurnInv, TakenIsSeen

\* What the CLI emits goes behind what is on its way.
LEMMA EmitsKeeps ==
  ASSUME TurnInv, UNCHANGED c, NEW n \in Nat, NEW es \in Seq(Event),
         Len(es) = n, Emits(es),
         IF OldCLI THEN \A k \in 1 .. n : es[k][1] # "idle"
         ELSE \A k \in 1 .. n : es[k][1] = "session" =>
                \E j \in 1 .. k - 1 : es[j][1] = "idle",
         retry' = retry \/ \E k \in 1 .. n : es[k][1] = "continuation",
         prompts' = prompts \/ \E k \in 1 .. n : es[k][1] = "start",
         \/ \E k \in 1 .. n : /\ Turning(es[k])
                              /\ \A j \in k + 1 .. n : ~Turning(es[j])
                              /\ StartsTurn(es[k]) <=> Runs'
         \/ /\ \A k \in 1 .. n : ~Turning(es[k])
            /\ cli'.run = cli.run /\ retry' = retry
  PROVE  IdlesFit' /\ ResendIsSeen' /\ TakenIsSeen' /\ EventsTell'
  <1>1. PICK m \in Nat : m = Len(events)
    BY DEF TurnInv, TypeOK
  <1>2. /\ Len(events') = m + n
        /\ \A i \in 1 .. m : events'[i] = events[i]
        /\ \A i \in 1 .. n : events'[m + i] = es[i]
    <2>1. \A i \in 1 .. n : m + i \in 1 .. m + n /\ ~(m + i <= m)
                            /\ (m + i) - m = i
      OBVIOUS
    <2>2. /\ Len(events') = m + n
          /\ \A i \in 1 .. m + n :
               events'[i] = IF i <= m THEN events[i] ELSE es[i - m]
      BY <1>1, EmitsAppends DEF TurnInv
    <2> QED BY <2>1, <2>2
  <1>3. \A i \in 1 .. m + n : i \notin 1 .. m => i - m \in 1 .. n
                                                 /\ events'[i] = es[i - m]
    <2>1. ASSUME NEW i \in 1 .. m + n, i \notin 1 .. m
          PROVE  i - m \in 1 .. n /\ i = m + (i - m)
      BY <2>1
    <2> QED BY <1>2, <2>1
  <1>4. IdlesFit'
    <2>1. CASE OldCLI
      BY <1>1, <1>2, <1>3, <2>1 DEF TurnInv, IdlesFit
    <2>2. CASE ~OldCLI
      <3>1. SUFFICES ASSUME ~c.closed, NEW i \in 1 .. m + n,
                            events'[i][1] = "session"
                     PROVE  \/ c.sawIdle
                            \/ \E j \in 1 .. i - 1 : events'[j][1] = "idle"
        BY <1>2, <2>2 DEF IdlesFit
      <3>2. CASE i \in 1 .. m
        <4>1. c.sawIdle \/ \E j \in 1 .. i - 1 : events[j][1] = "idle"
          BY <1>1, <1>2, <2>2, <3>1, <3>2 DEF TurnInv, IdlesFit
        <4>2. \A j \in 1 .. i - 1 : j \in 1 .. m
          BY <3>2
        <4> QED BY <1>2, <4>1, <4>2
      <3>3. CASE i \notin 1 .. m
        <4>1. PICK j \in 1 .. (i - m) - 1 : es[j][1] = "idle"
          BY <1>3, <2>2, <3>1, <3>3
        <4>2. m + j \in 1 .. i - 1 /\ events'[m + j][1] = "idle"
          <5>1. j \in 1 .. n
            BY <1>3, <3>3, <4>1
          <5> QED BY <1>2, <3>3, <4>1, <5>1
        <4> QED BY <4>2
      <3> QED BY <3>2, <3>3
    <2> QED BY <2>1, <2>2
  <1>5. \A k \in 1 .. n : m + k \in 1 .. m + n
    OBVIOUS
  <1>6. ResendIsSeen'
    BY <1>1, <1>2, <1>5 DEF TurnInv, ResendIsSeen
  <1>7. TakenIsSeen'
    BY <1>1, <1>2, <1>5 DEF TurnInv, TakenIsSeen
  <1>8. EventsTell'
    <2>1. CASE \E k \in 1 .. n : /\ Turning(es[k])
                                 /\ \A j \in k + 1 .. n : ~Turning(es[j])
                                 /\ StartsTurn(es[k]) <=> Runs'
      <3>1. PICK k \in 1 .. n : /\ Turning(es[k])
                                /\ \A j \in k + 1 .. n : ~Turning(es[j])
                                /\ StartsTurn(es[k]) <=> Runs'
        BY <2>1
      <3>2. m + k \in 1 .. m + n /\ Turning(events'[m + k])
        BY <1>2, <1>5, <3>1
      <3>3. ASSUME NEW i \in 1 .. m + n, Turning(events'[i]),
                   \A j \in i + 1 .. m + n : ~Turning(events'[j])
            PROVE  StartsTurn(events'[i]) <=> Runs'
        <4>1. ~(m + k \in i + 1 .. m + n)
          BY <3>2, <3>3
        <4>2. i \notin 1 .. m /\ i - m \in k .. n
          BY <4>1
        <4>3. events'[i] = es[i - m] /\ i - m \notin k + 1 .. n
          BY <1>3, <3>1, <3>3, <4>2
        <4>4. i - m = k
          BY <4>2, <4>3
        <4> QED BY <3>1, <4>3, <4>4
      <3> QED BY <1>2, <3>2, <3>3 DEF EventsTell
    <2>2. CASE /\ \A k \in 1 .. n : ~Turning(es[k])
               /\ cli'.run = cli.run /\ retry' = retry
      <3>1. SUFFICES ASSUME ~c.closed, retry \notin {"wire", "failed"}
                     PROVE  EventsTell'
        BY <2>2 DEF EventsTell
      <3>2. /\ \A i \in 1 .. m :
                 /\ Turning(events[i])
                 /\ \A j \in i + 1 .. m : ~Turning(events[j])
                 => (StartsTurn(events[i]) <=> Runs)
            /\ (\A i \in 1 .. m : ~Turning(events[i])) => (c.running <=> Runs)
        BY <1>1, <3>1 DEF TurnInv, EventsTell
      <3>3. \A i \in 1 .. m + n : Turning(events'[i]) =>
              i \in 1 .. m /\ events'[i] = events[i]
        BY <1>2, <1>3, <2>2
      <3>4. Runs' = Runs
        BY <2>2 DEF Runs
      <3>5. ASSUME NEW i \in 1 .. m + n, Turning(events'[i]),
                   \A j \in i + 1 .. m + n : ~Turning(events'[j])
            PROVE  StartsTurn(events'[i]) <=> Runs
        <4>1. i \in 1 .. m /\ events'[i] = events[i]
          BY <3>3, <3>5
        <4>2. \A j \in i + 1 .. m : ~Turning(events[j])
          BY <1>2, <3>5, <4>1
        <4> QED BY <3>2, <3>5, <4>1, <4>2
      <3>6. (\A i \in 1 .. m + n : ~Turning(events'[i]))
              => (\A i \in 1 .. m : ~Turning(events[i]))
        BY <1>2
      <3> QED BY <1>2, <3>2, <3>4, <3>5, <3>6 DEF EventsTell
    <2> QED BY <2>1, <2>2
  <1> QED BY <1>4, <1>6, <1>7, <1>8

\* The conversation handles the first event.
LEMMA TailKeeps ==
  ASSUME TurnInv, ~c.closed, UNCHANGED <<cli, prompts>>,
         NEW n \in Nat, Len(events) = n + 1, Len(events') = n,
         \A i \in 1 .. n : events'[i] = events[i + 1],
         c'.sawIdle = (c.sawIdle \/ events[1][1] = "idle"),
         \/ retry' = "wire" \/ ~c'.resending
         \/ c.resending /\ retry' = retry /\ events[1][1] # "continuation",
         \/ ~c'.unmoved \/ (\A p \in Prompts : prompts[p] # "in")
         \/ c.unmoved /\ events[1][1] # "start",
         \/ retry' = "wire"
         \/ /\ retry' = retry
            /\ StartsTurn(events[1]) => c'.running
            /\ EndsTurn(events[1]) =>
                 Elsewhere \/ ~c'.running \/ \E i \in 1 .. n : Turning(events'[i])
            /\ ~Turning(events[1]) => c'.running = c.running
  PROVE  IdlesFit' /\ ResendIsSeen' /\ TakenIsSeen' /\ EventsTell'
  <1>1. 1 \in 1 .. n + 1 /\ \A i \in 1 .. n : i + 1 \in 1 .. n + 1
    OBVIOUS
  <1>2. \A i \in 1 .. n + 1 : i # 1 => i - 1 \in 1 .. n
                                       /\ events[i] = events'[i - 1]
    <2>1. ASSUME NEW i \in 1 .. n + 1, i # 1
          PROVE  i - 1 \in 1 .. n /\ i = (i - 1) + 1
      BY <2>1
    <2> QED BY <2>1
  <1>3. IdlesFit'
    <2>1. CASE OldCLI
      BY <1>1, <2>1 DEF TurnInv, IdlesFit
    <2>2. CASE ~OldCLI
      <3>1. SUFFICES ASSUME NEW i \in 1 .. n, events'[i][1] = "session"
                     PROVE  \/ c'.sawIdle
                            \/ \E j \in 1 .. i - 1 : events'[j][1] = "idle"
        BY <2>2 DEF IdlesFit
      <3>2. \/ c.sawIdle
            \/ \E j \in 1 .. (i + 1) - 1 : events[j][1] = "idle"
        BY <1>1, <2>2, <3>1 DEF TurnInv, IdlesFit
      <3>3. CASE c.sawIdle
        BY <3>3
      <3>4. ASSUME NEW j \in 1 .. i, events[j][1] = "idle", j # 1
            PROVE  j - 1 \in 1 .. i - 1 /\ events'[j - 1][1] = "idle"
        BY <1>2, <3>4
      <3>5. (i + 1) - 1 = i
        OBVIOUS
      <3>6. events[1][1] = "idle" => c'.sawIdle
        OBVIOUS
      <3> QED BY <3>2, <3>3, <3>4, <3>5, <3>6
    <2> QED BY <2>1, <2>2
  <1>4. ResendIsSeen'
    <2>1. CASE retry' = "wire" \/ ~c'.resending
      BY <2>1 DEF ResendIsSeen
    <2>2. CASE c.resending /\ retry' = retry /\ events[1][1] # "continuation"
      <3>1. CASE retry = "wire"
        BY <2>2, <3>1 DEF ResendIsSeen
      <3>2. CASE retry # "wire"
        <4>1. PICK i \in 1 .. n + 1 : events[i][1] = "continuation"
          BY <2>2, <3>2 DEF TurnInv, ResendIsSeen
        <4> QED BY <1>2, <2>2, <4>1 DEF ResendIsSeen
      <3> QED BY <3>1, <3>2
    <2> QED BY <2>1, <2>2
  <1>5. TakenIsSeen'
    <2>1. SUFFICES ASSUME c.unmoved, events[1][1] # "start",
                          NEW p \in Prompts, prompts[p] = "in"
                   PROVE  \E i \in 1 .. n : events'[i][1] = "start"
      BY DEF TakenIsSeen
    <2>2. PICK i \in 1 .. n + 1 : events[i][1] = "start"
      BY <2>1 DEF TurnInv, TakenIsSeen
    <2> QED BY <1>2, <2>1, <2>2
  <1>6. EventsTell'
    <2>1. SUFFICES ASSUME retry' = retry, ~Elsewhere
                   PROVE  EventsTell'
      BY DEF EventsTell, Elsewhere
    <2>2. /\ \A i \in 1 .. n + 1 :
               /\ Turning(events[i])
               /\ \A j \in i + 1 .. n + 1 : ~Turning(events[j])
               => (StartsTurn(events[i]) <=> Runs)
          /\ (\A i \in 1 .. n + 1 : ~Turning(events[i]))
               => (c.running <=> Runs)
      BY <2>1 DEF TurnInv, EventsTell, Elsewhere
    <2>3. ASSUME NEW i \in 1 .. n, Turning(events'[i]),
                 \A j \in i + 1 .. n : ~Turning(events'[j])
          PROVE  StartsTurn(events'[i]) <=> Runs
      <3>1. ASSUME NEW j \in (i + 1) + 1 .. n + 1 PROVE ~Turning(events[j])
        <4>1. j # 1 /\ j - 1 \in i + 1 .. n
          OBVIOUS
        <4> QED BY <1>2, <2>3, <4>1
      <3> QED BY <1>1, <2>2, <2>3, <3>1
    <2>4. ASSUME \A i \in 1 .. n : ~Turning(events'[i])
          PROVE  c'.running <=> Runs
      <3>1. \A i \in 1 .. n + 1 : i # 1 => ~Turning(events[i])
        BY <1>2, <2>4
      <3>2. CASE Turning(events[1])
        <4>1. StartsTurn(events[1]) <=> Runs
          BY <1>1, <2>2, <3>1, <3>2
        <4>2. /\ StartsTurn(events[1]) => c'.running
              /\ EndsTurn(events[1]) => ~c'.running
          BY <2>1, <2>4 DEF Elsewhere
        <4>3. ~(StartsTurn(events[1]) /\ EndsTurn(events[1]))
          BY DEF StartsTurn, EndsTurn
        <4> QED BY <3>2, <4>1, <4>2, <4>3 DEF Turning
      <3>3. CASE ~Turning(events[1])
        BY <2>1, <2>2, <3>1, <3>3 DEF Elsewhere
      <3> QED BY <3>2, <3>3
    <2>5. Runs' = Runs
      BY DEF Runs
    <2> QED BY <2>3, <2>4, <2>5 DEF EventsTell
  <1> QED BY <1>3, <1>4, <1>5, <1>6

-----------------------------------------------------------------------------
(* Each action keeps the turn's part of the invariant.                     *)

\* No turn runs at first.
LEMMA InitTurn == Init => TurnInv
  <1>1. SUFFICES ASSUME Init PROVE TurnInv
    OBVIOUS
  <1>2. TypeOK
    BY <1>1, InitTyped
  <1>3. /\ events = <<>> /\ op = "none" /\ sent = 0 /\ cli.run = "idle"
        /\ \A p \in Prompts : prompts[p] = "new"
        /\ \A s \in Steers : calls[s] = "new"
    BY <1>1 DEF Init
  <1>4. /\ ~c.running /\ ~c.fgIdle /\ ~c.resending /\ ~c.sawIdle
        /\ c.sending = 0 /\ c.unmoved
    BY <1>1 DEF Init
  <1>5. Len(events) = 0
    BY <1>3
  <1>6. OpsFit
    BY <1>3, <1>4 DEF OpsFit
  <1>7. IdleRunsNone /\ IdlesFit /\ ResendIsSeen /\ TakenIsSeen
    BY <1>3, <1>4, <1>5 DEF IdleRunsNone, IdlesFit, ResendIsSeen, TakenIsSeen
  <1>8. EventsTell
    BY <1>3, <1>4, <1>5 DEF EventsTell, Runs
  <1> QED BY <1>2, <1>6, <1>7, <1>8 DEF TurnInv

\* The steps of the three calls, of Stop and of its check.
LEMMA CallsKeepTurn ==
  ASSUME TurnInv, TypeOK', UNCHANGED <<events, cli>>,
         \/ SendBegins \/ StopBegins \/ StopReturns
         \/ \E p \in Prompts : \/ SendCalls(p) \/ SendAnswered(p)
                               \/ SendReturns(p) \/ SendFails(p)
         \/ \E s \in Steers : \/ SteerBegins(s) \/ SteerAnswered(s)
                              \/ SteerFails(s)
         \/ \E k \in Stops : StopUnconfirmed(k)
  PROVE  TurnInv'
  <1>1. /\ TypeOK /\ OpsFit /\ IdleRunsNone /\ TakenIsSeen
        /\ c \in Conversation /\ c.sending \in 0..1 /\ sent \in Nat
        /\ prompts \in [Prompts -> {"new", "begun", "wire", "in", "returned",
                                    "took", "unsure", "failed"}]
        /\ calls \in [Steers -> {"new", "wire", "in", "done"}]
    BY DEF TurnInv, TypeOK, Conversation
  <1>2. SUFFICES /\ OpsFit' /\ IdleRunsNone' /\ IdlesFit' /\ ResendIsSeen'
                 /\ TakenIsSeen' /\ EventsTell'
    BY DEF TurnInv
  <1>3. CASE SendBegins
    <2>1. /\ c'.closed = c.closed /\ c'.sending = c.sending
          /\ c'.running = c.running /\ c'.fgIdle = c.fgIdle
          /\ c'.sawIdle = c.sawIdle /\ c'.unmoved = c.unmoved
          /\ c'.resending = c.resending
      BY <1>1, <1>3, SendBeginsDoes
    <2>2. /\ retry' = retry /\ calls' = calls /\ op = "none" /\ op' = "send"
          /\ sent' = sent + 1 /\ sent < MaxPrompts
          /\ prompts' = [prompts EXCEPT ![sent + 1] = "begun"]
      BY <1>3 DEF SendBegins, wire
    <2>3. OpsFit' /\ IdleRunsNone'
      <3>1. sent + 1 \in Prompts
        BY <1>1, <2>2, CopilotConstants DEF Prompts
      <3>2. \A p \in Prompts :
              prompts'[p] = IF p = sent + 1 THEN "begun" ELSE prompts[p]
        BY <1>1, <2>2
      <3>3. \A p \in Prompts : p > sent + 1 => p > sent /\ p # sent + 1
        BY <1>1 DEF Prompts
      <3> QED
        BY <1>1, <2>1, <2>2, <3>1, <3>2, <3>3 DEF OpsFit, IdleRunsNone
    <2>4. TakenIsSeen'
      BY <1>1, <2>1, <2>2, TakenKept
    <2> QED BY <2>1, <2>2, <2>3, <2>4, QueueKept DEF Elsewhere
  <1>8. CASE \E p \in Prompts : SendCalls(p)
    <2>1. PICK p \in Prompts : SendCalls(p)
      BY <1>8
    <2>2. /\ c'.closed = c.closed /\ c'.running = c.running
          /\ c'.fgIdle = c.fgIdle /\ c'.sawIdle = c.sawIdle
          /\ c'.unmoved = c.unmoved /\ c'.resending = c.resending
          /\ \/ /\ prompts' = [prompts EXCEPT ![p] = "failed"]
                /\ op' = "none" /\ c'.sending = c.sending
             \/ /\ prompts' = [prompts EXCEPT ![p] = "wire"]
                /\ op' = op /\ c'.sending = 1
      BY <1>1, <2>1, SendCallsDoes
    <2>3. /\ retry' = retry /\ calls' = calls /\ sent' = sent
          /\ prompts[p] = "begun"
      BY <2>1 DEF SendCalls, wire
    <2>4. /\ p = sent /\ op = "send" /\ c.sending = 0 /\ c.unmoved
          /\ \A s \in Steers : calls[s] \notin {"wire", "in"}
      BY <1>1, <2>3 DEF OpsFit
    <2>5. \A q \in Prompts : prompts'[q] =
            IF q = p THEN IF op' = "none" THEN "failed" ELSE "wire"
            ELSE prompts[q]
      BY <1>1, <2>2, <2>4
    <2>6. OpsFit' /\ IdleRunsNone'
      BY <1>1, <2>2, <2>3, <2>4, <2>5 DEF OpsFit, IdleRunsNone
    <2>7. TakenIsSeen'
      BY <2>2, <2>5, TakenKept
    <2> QED BY <2>2, <2>3, <2>6, <2>7, QueueKept DEF Elsewhere
  <1>4. CASE \E p \in Prompts : SendAnswered(p)
    <2>1. PICK p \in Prompts : SendAnswered(p)
      BY <1>4
    <2>2. /\ c'.closed = c.closed /\ c'.sending = c.sending
          /\ c'.sawIdle = c.sawIdle /\ c'.unmoved = c.unmoved
          /\ c'.resending = c.resending
          /\ c.unmoved => c'.running /\ ~c'.fgIdle
          /\ ~c.unmoved => c'.running = c.running /\ c'.fgIdle = c.fgIdle
      BY <1>1, <2>1, SendAnsweredDoes DEF Running
    <2>3. /\ retry' = retry /\ calls' = calls /\ op' = op /\ sent' = sent
          /\ prompts[p] = "in"
          /\ prompts' = [prompts EXCEPT ![p] = "returned"]
      BY <2>1 DEF SendAnswered
    <2>4. \A q \in Prompts :
            prompts'[q] = IF q = p THEN "returned" ELSE prompts[q]
      BY <1>1, <2>3
    <2>5. OpsFit' /\ IdleRunsNone'
      BY <1>1, <2>2, <2>3, <2>4 DEF OpsFit, IdleRunsNone
    <2>6. TakenIsSeen'
      BY <2>2, <2>4, TakenKept
    <2>7. ~c.closed /\ c.unmoved =>
            \E i \in 1 .. Len(events) : Turning(events[i])
      BY <1>1, <2>3 DEF TakenIsSeen, Turning, StartsTurn
    <2> QED BY <2>2, <2>3, <2>5, <2>6, <2>7, QueueKept DEF Elsewhere
  <1>5. CASE \E p \in Prompts : SendReturns(p) \/ SendFails(p)
    <2>1. PICK p \in Prompts : SendReturns(p) \/ SendFails(p)
      BY <1>5
    <2>2. /\ c'.closed = c.closed /\ c'.sending = 0
          /\ c'.running = c.running /\ c'.fgIdle = c.fgIdle
          /\ c'.sawIdle = c.sawIdle /\ c'.unmoved
          /\ c'.resending = c.resending
      BY <1>1, <2>1, SendEndsDoes
    <2>3. /\ retry' = retry /\ calls' = calls /\ op' = "none" /\ sent' = sent
          /\ prompts[p] \in {"wire", "in", "returned"}
          /\ \A q \in Prompts \ {p} : prompts'[q] = prompts[q]
          /\ prompts'[p] \in {"took", "unsure", "failed"}
      BY <1>1, <2>1 DEF SendReturns, SendFails, wire
    <2>4. \A q \in Prompts :
            prompts'[q] \notin {"begun", "wire", "in", "returned"}
      BY <1>1, <2>3 DEF OpsFit
    <2>5. OpsFit' /\ IdleRunsNone'
      BY <1>1, <2>2, <2>3, <2>4 DEF OpsFit, IdleRunsNone
    <2>6. TakenIsSeen'
      BY <2>4 DEF TakenIsSeen
    <2> QED BY <2>2, <2>3, <2>5, <2>6, QueueKept DEF Elsewhere
  <1>6. CASE \E s \in Steers : \/ SteerBegins(s) \/ SteerAnswered(s)
                               \/ SteerFails(s)
    <2>1. PICK s \in Steers :
            SteerBegins(s) \/ SteerAnswered(s) \/ SteerFails(s)
      BY <1>6
    <2>2. Same(c, c') /\ c'.resending = c.resending
      BY <1>1, <2>1, SteerDoes
    <2>3. /\ retry' = retry /\ prompts' = prompts /\ sent' = sent
          /\ op \in {"none", "steer"} \/ calls[s] \in {"wire", "in"}
          /\ \A t \in Steers \ {s} : calls'[t] = calls[t]
          /\ \/ op = "none" /\ op' = "steer"
             \/ op' = "none" /\ calls[s] \in {"wire", "in"} /\ calls'[s] = "done"
      BY <1>1, <2>1 DEF SteerBegins, SteerAnswered, SteerFails, wire
    <2>4. /\ \A t \in Steers : calls[t] \in {"wire", "in"} => op = "steer"
          /\ calls[s] \in {"wire", "in"} =>
               \A t \in Steers \ {s} : calls[t] \notin {"wire", "in"}
      BY <1>1 DEF OpsFit
    <2>5. OpsFit' /\ IdleRunsNone'
      <3>1. CASE op = "none" /\ op' = "steer"
        BY <1>1, <2>2, <2>3, <3>1 DEF OpsFit, IdleRunsNone, Same, Kept
      <3>2. CASE /\ op' = "none" /\ op = "steer"
                 /\ calls[s] \in {"wire", "in"} /\ calls'[s] = "done"
        <4>1. \A t \in Steers : calls'[t] \notin {"wire", "in"}
          BY <2>3, <2>4, <3>2
        <4> QED
          BY <1>1, <2>2, <2>3, <3>2, <4>1 DEF OpsFit, IdleRunsNone, Same, Kept
      <3> QED BY <2>3, <2>4, <3>1, <3>2
    <2>6. TakenIsSeen'
      BY <2>2, <2>3, TakenKept DEF Same, Kept
    <2> QED BY <2>2, <2>3, <2>5, <2>6, QueueKept DEF Elsewhere, Same, Kept
  <1>7. CASE StopBegins \/ StopReturns \/ \E k \in Stops : StopUnconfirmed(k)
    <2>1. /\ c'.closed = c.closed /\ c'.sending = c.sending
          /\ Running(c, c') /\ c'.sawIdle = c.sawIdle
          /\ c'.unmoved = c.unmoved /\ c'.resending = c.resending
      BY <1>1, <1>7, StopBeginsDoes, StopUnconfirmedDoes
      DEF StopReturns, Running
    <2>2. /\ retry' = retry /\ prompts' = prompts /\ sent' = sent
          /\ calls' = calls
          /\ \/ op' = op
             \/ op = "none" /\ op' = "stop"
             \/ op = "stop" /\ op' = "none"
      BY <1>7 DEF StopBegins, StopReturns, StopUnconfirmed, wire
    <2>3. OpsFit' /\ IdleRunsNone'
      BY <1>1, <2>1, <2>2 DEF OpsFit, IdleRunsNone, Running
    <2>4. TakenIsSeen'
      BY <2>1, <2>2, TakenKept
    <2> QED BY <2>1, <2>2, <2>3, <2>4, QueueKept DEF Elsewhere, Running
  <1> QED BY <1>3, <1>4, <1>5, <1>6, <1>7, <1>8

\* The steps of the retry, of the check's end and of an exit.
LEMMA OthersKeepTurn ==
  ASSUME TurnInv, TypeOK', UNCHANGED <<events, cli>>,
         \/ Exits \/ Close \/ CheckStall \/ AbortFails
         \/ RetryReturns \/ RetryFails
         \/ \E k \in Stops : Detach(k)
  PROVE  TurnInv'
  <1>1. /\ TypeOK /\ OpsFit /\ IdleRunsNone
        /\ c \in Conversation /\ c.sending \in 0..1
    BY DEF TurnInv, TypeOK, Conversation
  <1>2. /\ UNCHANGED <<prompts, sent, calls, op>>
        /\ retry' \in {retry, "wire", "none", "failed"}
    BY <1>1, DetachDoes
    DEF Exits, Close, CheckStall, AbortFails, RetryReturns, RetryFails, Detach,
        wire, uam
  <1>3. SUFFICES /\ c'.sending = c.sending
                 /\ c'.unmoved = c.unmoved \/ c'.unmoved = (c.sending = 0)
                 /\ c'.fgIdle /\ c'.running => c.fgIdle /\ c.running
                 /\ c.closed => c'.closed
                 /\ c'.sawIdle = c.sawIdle
                 /\ \/ c'.closed \/ retry' = "wire" \/ ~c'.resending
                    \/ c.resending /\ (retry' = retry \/ retry # "wire")
                 /\ \/ c'.closed \/ Elsewhere'
                    \/ ~Elsewhere /\ c'.running = c.running
    <2>1. OpsFit' /\ IdleRunsNone'
      BY <1>1, <1>2, <1>3 DEF OpsFit, IdleRunsNone
    <2>2. IdlesFit' /\ ResendIsSeen' /\ EventsTell'
      BY <1>3, QueueKept
    <2>3. c'.unmoved => c.unmoved \/ c.sending = 0
      BY <1>3
    <2>4. c.sending = 0 => c.unmoved
      BY <1>1 DEF OpsFit
    <2>5. TakenIsSeen'
      BY <1>2, <1>3, <2>3, <2>4, TakenKept
    <2> QED BY <2>1, <2>2, <2>5 DEF TurnInv
  <1>4. CASE Exits \/ Close
    BY <1>1, <1>4, ClosesDoes
  <1>5. CASE CheckStall \/ AbortFails
    <2>1. retry' = retry
      BY <1>5 DEF CheckStall, AbortFails
    <2> QED BY <1>1, <1>5, <2>1, StallDoes DEF Same, Kept, Elsewhere
  <1>6. CASE RetryReturns
    BY <1>6 DEF RetryReturns, uam, Elsewhere
  <1>7. CASE RetryFails
    <2>1. retry' = "failed"
      BY <1>7 DEF RetryFails
    <2> QED
      BY <1>1, <1>7, <2>1, RetryFailsDoes DEF Same, Over, Kept, Elsewhere
  <1>8. CASE \E k \in Stops : Detach(k)
    <2>1. PICK k \in Stops : Detach(k)
      BY <1>8
    <2> QED BY <1>1, <2>1, DetachDoes DEF Running, Elsewhere
  <1> QED BY <1>4, <1>5, <1>6, <1>7, <1>8

\* The conversation handles an event.
LEMMA EventKeepsTurn ==
  ASSUME TurnInv, TypeOK', OnEvent
  PROVE  TurnInv'
  <1>1. /\ TypeOK /\ OpsFit /\ IdleRunsNone /\ IdlesFit /\ ResendIsSeen
        /\ c \in Conversation /\ c.sending \in 0..1
        /\ c.sawIdle \in BOOLEAN
    BY DEF TurnInv, TypeOK, Conversation
  <1>2. UNCHANGED <<prompts, sent, calls, op, cli>>
    BY DEF OnEvent
  <1> DEFINE ev == Head(events)
             n == Len(events')
  <1>3. /\ ev \in Event /\ ev = events[1] /\ ~c.closed
        /\ n \in Nat /\ Len(events) = n + 1
        /\ \A i \in 1 .. n : events'[i] = events[i + 1]
    BY <1>1, HeadIsEvent
  <1>4. /\ ev[1] \in {"start", "continuation", "error", "idle", "session",
                      "user"}
        /\ ev[1] = "user" => ev[2] \in Steers /\ ev[3] \in BOOLEAN
    BY <1>3, EventKinds
  <1>5. /\ ev[1] = "start" => c' = OnStart(c)
        /\ ev[1] = "user" => c' = OnUser(c, ev[2], ev[3])
        /\ ev[1] = "continuation" => c' = OnContinuation(c)
        /\ ev[1] = "error" => c' = [c EXCEPT !.turnErr = TRUE]
        /\ ev[1] \in {"idle", "session"} =>
             /\ c' = OnIdle(c, ev)
             /\ IF IdleEnds(c, ev) THEN SendsRetry(c, ev[2])
                ELSE UNCHANGED retry
        /\ ev[1] \notin {"idle", "session"} => UNCHANGED retry
    BY DEF OnEvent
  <1>6. ev[1] # "user" =>
          (StartsTurn(ev) <=> ev[1] \in {"start", "continuation"})
    BY DEF StartsTurn
  <1>7. EndsTurn(ev) <=> ev[1] = IF OldCLI THEN "session" ELSE "idle"
    BY DEF EndsTurn
  <1>8. \A p \in Prompts : prompts[p] = "in" => c.sending = 1
    BY <1>1 DEF OpsFit
  <1> HIDE DEF ev, n
  <1>9. SUFFICES /\ c'.sending = c.sending
                 /\ c'.sending = 0 => c'.unmoved
                 /\ c'.fgIdle => ~c'.running
                 /\ c'.sawIdle = (c.sawIdle \/ ev[1] = "idle")
                 /\ \/ retry' = "wire" \/ ~c'.resending
                    \/ c.resending /\ retry' = retry /\ ev[1] # "continuation"
                 /\ \/ ~c'.unmoved \/ (\A p \in Prompts : prompts[p] # "in")
                    \/ c.unmoved /\ ev[1] # "start"
                 /\ \/ retry' = "wire"
                    \/ /\ retry' = retry
                       /\ StartsTurn(ev) => c'.running
                       /\ EndsTurn(ev) =>
                            \/ Elsewhere \/ ~c'.running
                            \/ \E i \in 1 .. n : Turning(events'[i])
                       /\ ~Turning(ev) => c'.running = c.running
    <2>1. OpsFit' /\ IdleRunsNone'
      BY <1>1, <1>2, <1>9 DEF OpsFit, IdleRunsNone
    <2>2. IdlesFit' /\ ResendIsSeen' /\ TakenIsSeen' /\ EventsTell'
      BY <1>2, <1>3, <1>9, TailKeeps DEF n
    <2> QED BY <2>1, <2>2 DEF TurnInv
  <1>10. c.sending = 0 => c.unmoved
    BY <1>1 DEF OpsFit
  <1>11. CASE ev[1] = "start"
    <2>1. /\ Starts(c, c') /\ c'.unmoved = (c.sending = 0)
          /\ c'.resending = c.resending
      BY <1>1, <1>3, <1>5, <1>11, StartDoes
    <2>2. c'.unmoved <=> c.sending = 0
      BY <2>1
    <2>3. ~c'.unmoved \/ \A p \in Prompts : prompts[p] # "in"
      BY <1>8, <2>2
    <2>4. /\ c'.sending = c.sending /\ c'.running /\ ~c'.fgIdle
          /\ c'.sawIdle = c.sawIdle /\ c'.resending = c.resending
      BY <2>1 DEF Starts, Kept
    <2> QED
      BY <1>1, <1>5, <1>6, <1>7, <1>11, <2>2, <2>3, <2>4 DEF Turning
  <1>12. CASE ev[1] = "continuation"
    <2>1. Starts(c, c') /\ c'.unmoved = c.unmoved /\ ~c'.resending
      BY <1>1, <1>3, <1>5, <1>12, ContinuationDoes
    <2> QED
      BY <1>1, <1>5, <1>6, <1>7, <1>10, <1>12, <2>1 DEF Starts, Kept, Turning
  <1>13. CASE ev[1] = "user"
    <2>1. /\ c'.unmoved = c.unmoved /\ c'.resending = c.resending
          /\ IF ev[3] THEN Starts(c, c') ELSE Same(c, c')
      BY <1>1, <1>3, <1>4, <1>5, <1>13, UserDoes
    <2>2. StartsTurn(ev) <=> ev[3]
      BY <1>13 DEF StartsTurn
    <2>3. CASE ev[3]
      <3>1. Starts(c, c') /\ StartsTurn(ev)
        BY <2>1, <2>2, <2>3
      <3>2. c'.unmoved = c.unmoved /\ c'.resending = c.resending
        BY <2>1
      <3> QED
        BY <1>1, <1>5, <1>7, <1>10, <1>13, <3>1, <3>2 DEF Starts, Kept, Turning
    <2>4. CASE ~ev[3]
      BY <1>1, <1>5, <1>7, <1>10, <1>13, <2>1, <2>2, <2>4
      DEF Same, Kept, Turning, IdleRunsNone
    <2> QED BY <2>3, <2>4
  <1>14. CASE ev[1] = "error"
    <2>1. Same(c, c') /\ c'.resending = c.resending
      BY <1>1, <1>5, <1>14 DEF Conversation, Same, Kept
    <2> QED
      BY <1>1, <1>5, <1>6, <1>7, <1>10, <1>14, <2>1
      DEF Same, Kept, Turning, IdleRunsNone
  <1>15. CASE ev[1] \in {"idle", "session"}
    <2>1. /\ Kept(c, c') /\ c'.sawIdle = (c.sawIdle \/ ev[1] = "idle")
          /\ \/ /\ retry' = retry /\ Running(c, c') /\ c'.idles = c.idles
                /\ c'.unmoved = c.unmoved /\ c'.resending = c.resending
                /\ ~IdleEnds(c, ev) \/ c.fgIdle \/ c.resending
             \/ /\ retry' = "wire" /\ Running(c, c') /\ c'.idles = c.idles
                /\ c'.unmoved = c.unmoved
             \/ /\ retry' = retry /\ IdleEnds(c, ev)
                /\ ~c'.running /\ c'.fgIdle
                /\ c'.idles = c.idles + 1 /\ c'.unmoved = (c.sending = 0)
                /\ ~c'.resending /\ c'.shown = "ready"
      BY <1>1, <1>3, <1>5, <1>15, IdleDoes
    <2>2. ~StartsTurn(ev)
      BY <1>6, <1>15
    \* The idle that a CLI of this kind ends a turn with is never passed over.
    <2>3. EndsTurn(ev) => IdleEnds(c, ev)
      BY <1>1, <1>7 DEF IdleEnds, IdlesFit
    <2>4. ~EndsTurn(ev) => ~IdleEnds(c, ev)
      <3>1. 1 \in 1 .. n + 1
        BY <1>3
      <3>2. CASE OldCLI
        BY <1>1, <1>3, <1>7, <1>15, <3>1, <3>2 DEF IdlesFit
      <3>3. CASE ~OldCLI /\ ev[1] = "session"
        <4>1. c.sawIdle \/ \E j \in 1 .. 1 - 1 : events[j][1] = "idle"
          BY <1>1, <1>3, <3>1, <3>3 DEF IdlesFit
        <4> QED BY <3>3, <4>1 DEF IdleEnds
      <3> QED BY <1>7, <1>15, <3>2, <3>3
    <2>5. c.resending =>
            retry = "wire" \/ \E i \in 1 .. n : Turning(events'[i])
      <3>1. SUFFICES ASSUME c.resending, retry # "wire"
                     PROVE  \E i \in 1 .. n : Turning(events'[i])
        OBVIOUS
      <3>2. PICK i \in 1 .. n + 1 : events[i][1] = "continuation"
        BY <1>1, <1>3, <3>1 DEF ResendIsSeen
      <3>3. i # 1
        BY <1>3, <1>15, <3>2
      <3>4. i - 1 \in 1 .. n /\ i = (i - 1) + 1
        BY <1>3, <3>3
      <3>5. events'[i - 1] = events[i]
        BY <1>3, <3>4
      <3> QED BY <3>2, <3>4, <3>5 DEF Turning, StartsTurn
    <2>6. CASE /\ retry' = retry /\ Running(c, c')
               /\ c'.unmoved = c.unmoved /\ c'.resending = c.resending
               /\ ~IdleEnds(c, ev) \/ c.fgIdle \/ c.resending
      BY <1>1, <1>10, <1>15, <2>1, <2>2, <2>3, <2>4, <2>5, <2>6
      DEF Kept, Running, Turning, IdleRunsNone, Elsewhere
    <2>7. CASE retry' = "wire" /\ Running(c, c') /\ c'.unmoved = c.unmoved
      BY <1>1, <1>10, <1>15, <2>1, <2>7 DEF Kept, Running, IdleRunsNone
    <2>8. CASE /\ retry' = retry /\ ~c'.running /\ c'.fgIdle
               /\ c'.unmoved = (c.sending = 0) /\ ~c'.resending
               /\ IdleEnds(c, ev)
      <3>1. c'.unmoved <=> c.sending = 0
        BY <2>8
      <3>2. ~c'.unmoved \/ \A p \in Prompts : prompts[p] # "in"
        BY <1>8, <3>1
      <3>3. EndsTurn(ev) /\ c'.sending = c.sending
        BY <2>1, <2>4, <2>8 DEF Kept
      <3> QED BY <1>15, <2>1, <2>2, <2>8, <3>1, <3>2, <3>3 DEF Turning
    <2> QED BY <2>1, <2>6, <2>7, <2>8
  <1> QED BY <1>4, <1>11, <1>12, <1>13, <1>14, <1>15

\* The CLI takes a step.
LEMMA CLIKeepsTurn ==
  ASSUME TurnInv, TypeOK', CLI
  PROVE  TurnInv'
  <1>1. /\ TypeOK /\ OpsFit /\ IdleRunsNone /\ c' = c /\ ~c.closed
        /\ UNCHANGED <<sent, op>> /\ events \in Seq(Event)
        /\ prompts \in [Prompts -> {"new", "begun", "wire", "in", "returned",
                                    "took", "unsure", "failed"}]
        /\ calls \in [Steers -> {"new", "wire", "in", "done"}]
    BY DEF TurnInv, TypeOK, CLI, TakesPrompt, TakesSteer, NextCall, TurnEnds,
           TakesAbort, TakesRetry, uam
  <1>2. OpsFit' /\ IdleRunsNone'
    <2>1. CASE \E p \in Prompts : TakesPrompt(p)
      <3>1. PICK p \in Prompts : TakesPrompt(p)
        BY <2>1
      <3>2. /\ prompts[p] = "wire" /\ calls' = calls
            /\ \A q \in Prompts :
                 prompts'[q] = IF q = p THEN "in" ELSE prompts[q]
        BY <1>1, <3>1 DEF TakesPrompt
      <3> QED BY <1>1, <3>2 DEF OpsFit, IdleRunsNone
    <2>2. CASE \E s \in Steers : TakesSteer(s)
      <3>1. PICK s \in Steers : TakesSteer(s)
        BY <2>2
      <3>2. /\ calls[s] = "wire" /\ prompts' = prompts
            /\ \A t \in Steers :
                 calls'[t] = IF t = s THEN "in" ELSE calls[t]
        BY <1>1, <3>1 DEF TakesSteer
      <3> QED BY <1>1, <3>2 DEF OpsFit, IdleRunsNone
    <2>3. CASE NextCall \/ TurnEnds \/ TakesAbort \/ TakesRetry
      <3>1. prompts' = prompts /\ calls' = calls
        BY <2>3 DEF NextCall, TurnEnds, TakesAbort, TakesRetry, uam
      <3> QED BY <1>1, <3>1 DEF OpsFit, IdleRunsNone
    <2> QED BY <2>1, <2>2, <2>3 DEF CLI
  <1>3. SUFFICES IdlesFit' /\ ResendIsSeen' /\ TakenIsSeen' /\ EventsTell'
    BY <1>2 DEF TurnInv
  \* Nothing is emitted.
  <1>4. CASE UNCHANGED <<events, prompts, retry>> /\ cli'.run = cli.run
    <2>1. IdlesFit' /\ ResendIsSeen' /\ TakenIsSeen'
      BY <1>1, <1>4 DEF TurnInv, IdlesFit, ResendIsSeen, TakenIsSeen
    <2>2. EventsTell'
      BY <1>1, <1>4 DEF TurnInv, EventsTell, Runs
    <2> QED BY <2>1, <2>2
  <1>5. \A a, b \in Event : /\ <<a>> \in Seq(Event) /\ Len(<<a>>) = 1
                            /\ <<a, b>> \in Seq(Event) /\ Len(<<a, b>>) = 2
    OBVIOUS
  \* A turn starts, or goes on.
  <1>6. ASSUME Emits(<<<<"start">>>>), Runs', retry' = retry
        PROVE  IdlesFit' /\ ResendIsSeen' /\ TakenIsSeen' /\ EventsTell'
    <2> DEFINE es == <<<<"start">>>>
    <2>1. /\ es \in Seq(Event) /\ Len(es) = 1 /\ es[1][1] = "start"
          /\ StartsTurn(es[1])
      BY <1>5, EventsAre DEF StartsTurn
    <2>2. /\ \A k \in 1 .. 1 : k = 1
          /\ 1 \in 1 .. 1 /\ \A j \in 1 + 1 .. 1 : FALSE
      OBVIOUS
    <2> HIDE DEF es
    <2> QED BY <1>1, <1>6, <2>1, <2>2, EmitsKeeps DEF Turning, es
  <1>7. ASSUME NEW first \in Event, Emits(<<first, <<"start">>>>), Runs',
               \/ first[1] = "user" /\ retry' = retry
               \/ first[1] = "continuation", prompts' = prompts
        PROVE  IdlesFit' /\ ResendIsSeen' /\ TakenIsSeen' /\ EventsTell'
    <2> DEFINE es == <<first, <<"start">>>>
    <2>1. /\ es \in Seq(Event) /\ Len(es) = 2
          /\ es[1] = first /\ es[2][1] = "start" /\ StartsTurn(es[2])
      BY <1>5, EventsAre DEF StartsTurn
    <2>2. /\ \A k \in 1 .. 2 : k = 1 \/ k = 2
          /\ 1 \in 1 .. 2 /\ 2 \in 1 .. 2 /\ \A j \in 2 + 1 .. 2 : FALSE
      OBVIOUS
    <2> HIDE DEF es
    <2>3. \A k \in 1 .. 2 : es[k][1] # "idle" /\ es[k][1] # "session"
      BY <1>7, <2>1, <2>2
    <2>4. retry' = retry \/ \E k \in 1 .. 2 : es[k][1] = "continuation"
      BY <1>7, <2>1, <2>2
    <2>5. \E k \in 1 .. 2 : /\ Turning(es[k])
                            /\ \A j \in k + 1 .. 2 : ~Turning(es[j])
                            /\ StartsTurn(es[k]) <=> Runs'
      BY <1>7, <2>1, <2>2 DEF Turning
    <2>6. Emits(es)
      BY <1>7 DEF es
    <2>7. IF OldCLI THEN \A k \in 1 .. 2 : es[k][1] # "idle"
          ELSE \A k \in 1 .. 2 : es[k][1] = "session" =>
                 \E j \in 1 .. k - 1 : es[j][1] = "idle"
      BY <2>3
    <2>8. prompts' = prompts \/ \E k \in 1 .. 2 : es[k][1] = "start"
      BY <2>1, <2>2
    <2> QED BY <1>1, <2>1, <2>4, <2>5, <2>6, <2>7, <2>8, EmitsKeeps
  <1>8. ASSUME NEW s \in Steers, Emits(<<<<"user", s, FALSE>>>>),
               cli'.run = cli.run, retry' = retry, prompts' = prompts
        PROVE  IdlesFit' /\ ResendIsSeen' /\ TakenIsSeen' /\ EventsTell'
    <2> DEFINE es == <<<<"user", s, FALSE>>>>
    <2>1. /\ es \in Seq(Event) /\ Len(es) = 1 /\ es[1][1] = "user"
          /\ ~Turning(es[1])
      BY <1>5, EventsAre DEF Turning, StartsTurn, EndsTurn
    <2>2. \A k \in 1 .. 1 : k = 1
      OBVIOUS
    <2> HIDE DEF es
    <2> QED BY <1>1, <1>8, <2>1, <2>2, EmitsKeeps DEF es
  \* A turn ends.
  <1>9. ASSUME NEW aborted \in BOOLEAN, NEW es, ~Runs',
               es \in {EndEvents(aborted), <<<<"error">>>> \o EndEvents(aborted)},
               Emits(es), retry' = retry, prompts' = prompts
        PROVE  IdlesFit' /\ ResendIsSeen' /\ TakenIsSeen' /\ EventsTell'
    <2>1. es \in Seq(Event)
      BY <1>9, EndsAre
    <2>2. EndShape(es)
      <3>1. es \in {EndEvents(aborted), <<<<"error">>>> \o EndEvents(aborted)}
        BY <1>9
      <3> QED BY <3>1, EndShapes, Zenon
    <2>3. PICK n \in Nat :
            /\ n = Len(es) /\ n >= 1
            /\ IF OldCLI
               THEN /\ es[n][1] = "session"
                    /\ \A k \in 1 .. n : es[k][1] # "idle"
               ELSE /\ n >= 2 /\ es[n - 1][1] = "idle" /\ es[n][1] = "session"
                    /\ \A k \in 1 .. n - 2 : es[k][1] = "error"
      BY <2>2 DEF EndShape
    <2>4. CASE OldCLI
      <3>1. /\ Turning(es[n]) /\ ~StartsTurn(es[n]) /\ n \in 1 .. n
            /\ \A j \in n + 1 .. n : FALSE
        BY <2>3, <2>4 DEF Turning, StartsTurn, EndsTurn
      <3> QED BY <1>1, <1>9, <2>1, <2>3, <2>4, <3>1, EmitsKeeps
    <2>5. CASE ~OldCLI
      <3>1. /\ n - 1 \in 1 .. n /\ \A j \in (n - 1) + 1 .. n : j = n
            /\ \A k \in 1 .. n : k = n \/ k = n - 1 \/ k \in 1 .. n - 2
            /\ n - 1 \in 1 .. n - 1
        BY <2>3, <2>5
      <3>2. /\ Turning(es[n - 1]) /\ ~StartsTurn(es[n - 1])
            /\ ~Turning(es[n])
        BY <2>3, <2>5 DEF Turning, StartsTurn, EndsTurn
      <3>3. \A k \in 1 .. n : es[k][1] = "session" =>
              \E j \in 1 .. k - 1 : es[j][1] = "idle"
        BY <2>3, <2>5, <3>1
      <3>4. \E k \in 1 .. n : /\ Turning(es[k])
                              /\ \A j \in k + 1 .. n : ~Turning(es[j])
                              /\ StartsTurn(es[k]) <=> Runs'
        BY <1>9, <3>1, <3>2
      <3> QED BY <1>1, <1>9, <2>1, <2>3, <2>5, <3>3, <3>4, EmitsKeeps
    <2> QED BY <2>4, <2>5
  <1>10. CASE \E p \in Prompts : TakesPrompt(p)
    BY <1>1, <1>6, <1>10 DEF TakesPrompt, TypeOK, Runs
  <1>11. CASE \E s \in Steers : TakesSteer(s)
    <2>1. PICK s \in Steers : TakesSteer(s)
      BY <1>11
    <2>2. /\ prompts' = prompts /\ retry' = retry
          /\ cli \in [run : {"idle", "running"}, steers : SUBSET Steers]
      BY <1>1, <2>1 DEF TakesSteer, TypeOK
    <2>3. CASE /\ Runs /\ cli' = [cli EXCEPT !.steers = @ \cup {s}]
               /\ UNCHANGED events
      BY <1>4, <2>2, <2>3
    <2>4. CASE /\ cli' = [cli EXCEPT !.run = "running"]
               /\ Emits(<<<<"user", s, TRUE>>, <<"start">>>>)
      <3>1. <<"user", s, TRUE>> \in Event /\ <<"user", s, TRUE>>[1] = "user"
        BY <2>1, EventsAre
      <3>2. Runs'
        BY <2>2, <2>4 DEF Runs
      <3> QED BY <1>7, <2>2, <2>4, <3>1, <3>2
    <2> QED BY <2>1, <2>3, <2>4 DEF TakesSteer
  <1>12. CASE NextCall
    <2>1. /\ Runs /\ prompts' = prompts /\ retry' = retry
          /\ cli \in [run : {"idle", "running"}, steers : SUBSET Steers]
          /\ \/ Emits(<<<<"start">>>>) /\ cli' = cli
             \/ \E s \in cli.steers : /\ Emits(<<<<"user", s, FALSE>>>>)
                                      /\ cli' = [cli EXCEPT !.steers = @ \ {s}]
      BY <1>1, <1>12 DEF NextCall, TypeOK, uam
    <2>2. CASE Emits(<<<<"start">>>>) /\ cli' = cli
      BY <1>6, <2>1, <2>2 DEF Runs
    <2>3. CASE \E s \in cli.steers : /\ Emits(<<<<"user", s, FALSE>>>>)
                                     /\ cli' = [cli EXCEPT !.steers = @ \ {s}]
      <3>1. PICK s \in Steers : /\ Emits(<<<<"user", s, FALSE>>>>)
                                /\ cli' = [cli EXCEPT !.steers = @ \ {s}]
        BY <2>1, <2>3
      <3>2. cli'.run = cli.run
        BY <2>1, <3>1
      <3> QED BY <1>8, <2>1, <3>1, <3>2
    <2> QED BY <2>1, <2>2, <2>3
  <1>13. CASE TurnEnds
    <2>1. /\ prompts' = prompts /\ retry' = retry
          /\ cli' = [run |-> "idle", steers |-> {}]
          /\ \E es \in {EndEvents(FALSE), <<<<"error">>>> \o EndEvents(FALSE)} :
               Emits(es)
      BY <1>13 DEF TurnEnds, uam
    <2>2. ~Runs'
      BY <2>1 DEF Runs
    <2> QED BY <1>9, <2>1, <2>2
  <1>14. CASE TakesAbort
    <2>1. /\ prompts' = prompts /\ retry' = retry
          /\ \/ /\ cli' = [run |-> "idle", steers |-> {}]
                /\ \E es \in {EndEvents(TRUE), <<<<"error">>>> \o EndEvents(TRUE)} :
                     Emits(es)
             \/ UNCHANGED <<cli, events>>
      BY <1>14 DEF TakesAbort, uam
    <2>2. CASE UNCHANGED <<cli, events>>
      BY <1>4, <2>1, <2>2
    <2>3. CASE /\ cli' = [run |-> "idle", steers |-> {}]
               /\ \E es \in {EndEvents(TRUE), <<<<"error">>>> \o EndEvents(TRUE)} :
                    Emits(es)
      <3>1. ~Runs'
        BY <2>3 DEF Runs
      <3> QED BY <1>9, <2>1, <2>3, <3>1
    <2> QED BY <2>1, <2>2, <2>3
  <1>15. CASE TakesRetry
    <2>1. /\ prompts' = prompts /\ cli' = [cli EXCEPT !.run = "running"]
          /\ Emits(<<<<"continuation">>, <<"start">>>>)
          /\ cli \in [run : {"idle", "running"}, steers : SUBSET Steers]
      BY <1>1, <1>15 DEF TakesRetry, TypeOK, uam
    <2>2. /\ <<"continuation">> \in Event
          /\ <<"continuation">>[1] = "continuation"
      BY EventsAre
    <2>3. Runs'
      BY <2>1 DEF Runs
    <2> QED BY <1>7, <2>1, <2>2, <2>3
  <1> QED
    BY <1>10, <1>11, <1>12, <1>13, <1>14, <1>15 DEF CLI

\* Every step keeps what is known of the turn.
LEMMA NextTurn == TurnInv /\ [Next]_vars => TurnInv'
  <1>1. SUFFICES ASSUME TurnInv, [Next]_vars PROVE TurnInv'
    OBVIOUS
  <1>2. TypeOK'
    BY <1>1, NextTyped DEF TurnInv
  <1>3. CASE \/ SendBegins \/ StopBegins \/ StopReturns
             \/ \E p \in Prompts : \/ SendCalls(p) \/ SendAnswered(p)
                                   \/ SendReturns(p) \/ SendFails(p)
             \/ \E s \in Steers : \/ SteerBegins(s) \/ SteerAnswered(s)
                                  \/ SteerFails(s)
             \/ \E k \in Stops : StopUnconfirmed(k)
    <2>1. UNCHANGED <<events, cli>>
      BY <1>3 DEF SendBegins, SendCalls, SendAnswered, SendReturns,
                  SendFails, SteerBegins, SteerAnswered, SteerFails, StopBegins,
                  StopReturns, StopUnconfirmed, wire
    <2> QED BY <1>1, <1>2, <1>3, <2>1, CallsKeepTurn
  <1>4. CASE \/ Exits \/ Close \/ CheckStall \/ AbortFails
             \/ RetryReturns \/ RetryFails
             \/ \E k \in Stops : Detach(k)
    <2>1. UNCHANGED <<events, cli>>
      BY <1>4 DEF Exits, Close, CheckStall, AbortFails, RetryReturns,
                  RetryFails, Detach, wire
    <2> QED BY <1>1, <1>2, <1>4, <2>1, OthersKeepTurn
  <1>5. CASE UNCHANGED vars
    BY <1>1, <1>5
    DEF vars, uam, wire, TurnInv, TypeOK, OpsFit, IdleRunsNone, IdlesFit,
        ResendIsSeen, TakenIsSeen, EventsTell, Runs
  <1> QED
    BY <1>1, <1>2, <1>3, <1>4, <1>5, EventKeepsTurn, CLIKeepsTurn DEF Next

\* The conversation knows what the CLI does, or an event or call on its way
\* will tell it: the inductive invariant of the turns.
THEOREM TurnsInductive == Spec => []TurnInv
  BY InitTurn, NextTurn, PTL DEF Spec

\* Once every call has returned and every event was handled, the conversation
\* runs a turn exactly when the CLI does (web.go: send, onEvent; stall.go:
\* continueStalledLocked).
THEOREM ShownTurnIsReal == Spec => []TurnIsReal
  <1>1. TurnInv => TurnIsReal
    <2>1. SUFFICES ASSUME TurnInv, Settled
                   PROVE  c.running <=> cli.run = "running"
      BY DEF TurnIsReal
    <2>2. Len(events) = 0
      BY <2>1 DEF Settled
    <2> QED BY <2>1, <2>2 DEF TurnInv, EventsTell, Settled, Runs
  <1> QED BY <1>1, TurnsInductive, PTL

-----------------------------------------------------------------------------
(* Each action keeps the Stop's part of the invariant.                     *)

\* The check that counts as pending is of a prompt on its way, or of a turn.
LEMMA OvertakenMeans ==
  ASSUME TurnInv, StopInv, StopPending(c), c.watch[c.stopping].send
  PROVE  /\ c.stopping \in Stops
         /\ c.watch[c.stopping].upto \in Prompts
         /\ c.running =>
              prompts[c.watch[c.stopping].upto] \notin {"returned", "took"}
         /\ ~c.closed /\ ~c.running =>
              Pending /\ c.watch[c.stopping].upto = sent
  <1>1. c.stopping \in Stops
    BY DEF TurnInv, TypeOK, Conversation, StopPending, Stops
  <1> QED BY <1>1 DEF StopInv, WatchFits, OvertakenIsAborted

\* A step that leaves the pending check as it is, or drops it.
LEMMA WatchKept ==
  ASSUME TurnInv, StopInv, TypeOK', c.closed => c'.closed,
         \A k \in Stops : /\ c'.watch[k].idles <= c'.idles
                          /\ c'.watch[k].send => c'.watch[k].upto \in Prompts,
         /\ StopPending(c') /\ c'.watch[c'.stopping].send
         /\ c'.running \/ ~c'.closed
         => /\ StopPending(c) /\ c.watch[c.stopping].send
            /\ c'.watch[c'.stopping].upto = c.watch[c.stopping].upto
            /\ c'.running <=> c.running
            /\ c'.running \/ (Pending => Pending' /\ sent' = sent)
            /\ c'.running => \A p \in Prompts :
                 prompts'[p] \in {"returned", "took"} =>
                   prompts[p] \in {"returned", "took"}
  PROVE  WatchFits' /\ OvertakenIsAborted'
  <1>1. /\ StopPending(c') /\ c'.watch[c'.stopping].send
        /\ c'.running \/ ~c'.closed
        => /\ c.watch[c.stopping].upto \in Prompts
           /\ c.running =>
                prompts[c.watch[c.stopping].upto] \notin {"returned", "took"}
           /\ ~c.closed /\ ~c.running =>
                Pending /\ c.watch[c.stopping].upto = sent
    BY OvertakenMeans
  <1>2. WatchFits'
    BY <1>1 DEF WatchFits
  <1>3. OvertakenIsAborted'
    BY <1>1 DEF OvertakenIsAborted
  <1> QED BY <1>2, <1>3

\* A step that does not move the turn, the watches or the prompts.
LEMMA StopKept ==
  ASSUME TurnInv, StopInv, TypeOK', c.closed => c'.closed,
         c'.sending = c.sending, c'.stopping = c.stopping,
         c'.watch = c.watch, c'.idles = c.idles, c'.running = c.running,
         \/ c'.closed
         \/ c'.shown = c.shown /\ c'.turnSeen = c.turnSeen
            /\ c'.unmoved = c.unmoved,
         UNCHANGED sent,
         \A p \in Prompts : \/ prompts'[p] = prompts[p]
                            \/ prompts[p] = "wire" /\ prompts'[p] = "in"
  PROVE  StopInv'
  <1>1. StopPending(c') <=> StopPending(c)
    BY DEF StopPending
  <1>2. Pending => c.sending = 1 /\ sent \in Prompts
    BY DEF TurnInv, OpsFit, Pending
  <1>3. c'.closed \/ (Pending => Pending')
    BY <1>2 DEF Pending
  <1>4. ShownFits'
    <2>1. Begun => Begun'
      BY DEF Begun
    <2> QED BY <1>3, <2>1 DEF StopInv, ShownFits
  <1>5. \A k \in Stops : /\ c'.watch[k].idles <= c'.idles
                         /\ c'.watch[k].send => c'.watch[k].upto \in Prompts
    BY DEF StopInv, WatchFits
  <1>6. WatchFits'
    BY <1>1, <1>3, <1>5 DEF StopInv, WatchFits
  <1>7. OvertakenIsAborted'
    <2>1. SUFFICES ASSUME StopPending(c), c.watch[c.stopping].send, c.running
                   PROVE  prompts'[c.watch[c.stopping].upto]
                            \notin {"returned", "took"}
      BY <1>1 DEF OvertakenIsAborted
    <2>2. /\ c.watch[c.stopping].upto \in Prompts
          /\ prompts[c.watch[c.stopping].upto] \notin {"returned", "took"}
      BY <2>1, OvertakenMeans
    <2> QED BY <2>2
  <1> QED BY <1>4, <1>6, <1>7 DEF StopInv

\* A turn that starts keeps what a Stop that overtook its prompt waits for.
LEMMA StartKeepsStop ==
  ASSUME TurnInv, StopInv, TypeOK', ~c.closed, Starts(c, c'),
         UNCHANGED prompts
  PROVE  StopInv'
  <1>1. ShownFits'
    BY DEF Starts, ShownFits
  <1>2. c.stopping \in 0..MaxStops /\ c.closed = c'.closed
    BY DEF TurnInv, TypeOK, Conversation, Starts, Kept
  <1>3. StopPending(c') <=> StopPending(c)
    BY DEF StopPending, Starts, Kept
  <1>4. WatchFits'
    BY DEF StopInv, WatchFits, Starts, Kept
  <1>5. OvertakenIsAborted'
    <2>1. SUFFICES ASSUME StopPending(c), c.watch[c.stopping].send
                   PROVE  prompts[c.watch[c.stopping].upto]
                            \notin {"returned", "took"}
      BY <1>3 DEF OvertakenIsAborted, Starts, Kept
    <2>2. CASE c.running
      BY <2>1, <2>2, OvertakenMeans
    <2>3. CASE ~c.running
      BY <2>1, <2>3, OvertakenMeans DEF Pending
    <2> QED BY <2>2, <2>3
  <1> QED BY <1>1, <1>4, <1>5 DEF StopInv

\* A turn that ends leaves no check of it pending.
LEMMA OverKeepsStop ==
  ASSUME TurnInv, StopInv, TypeOK', ~c'.running, c.idles < c'.idles,
         \A k \in Stops : /\ c'.watch[k].idles <= c.idles
                          /\ c'.watch[k].send => c'.watch[k].upto \in Prompts,
         c'.closed \/ c'.shown = "ready"
  PROVE  StopInv'
  <1>1. c \in Conversation /\ c' \in Conversation
    BY DEF TurnInv, TypeOK
  <1>2. /\ c.idles \in Nat /\ c'.idles \in Nat /\ c'.stopping \in 0..MaxStops
        /\ \A k \in Stops : c'.watch[k].idles \in Nat
    BY <1>1 DEF Conversation, Watch
  <1>3. \A k \in Stops : /\ c'.watch[k].idles <= c'.idles
                         /\ c'.watch[k].idles # c'.idles
    BY <1>2
  <1>4. ~StopPending(c')
    BY <1>2, <1>3 DEF StopPending, Stops
  <1> QED
    BY <1>3, <1>4 DEF StopInv, ShownFits, WatchFits, OvertakenIsAborted

\* No check is armed at first.
LEMMA InitStop == Init => StopInv
  <1>1. SUFFICES ASSUME Init PROVE StopInv
    OBVIOUS
  <1>2. /\ c.shown = "ready" /\ c.stopping = 0 /\ c.idles = 0
        /\ c.watch = [k \in Stops |-> NoWatch]
    BY <1>1 DEF Init
  <1>3. \A k \in Stops : c.watch[k].idles = 0 /\ ~c.watch[k].send
    BY <1>2 DEF NoWatch
  <1>4. ~StopPending(c)
    BY <1>2 DEF StopPending
  <1> QED
    BY <1>2, <1>3, <1>4
    DEF StopInv, ShownFits, WatchFits, OvertakenIsAborted

\* A prompt's send.
LEMMA SendKeepsStop ==
  ASSUME TurnInv, StopInv, TypeOK',
         \/ SendBegins
         \/ \E p \in Prompts : \/ SendCalls(p) \/ SendAnswered(p)
                               \/ SendReturns(p) \/ SendFails(p)
  PROVE  StopInv'
  <1>1. /\ TypeOK /\ OpsFit /\ ShownFits /\ c \in Conversation
        /\ c.sending \in 0..1 /\ sent \in Nat
        /\ prompts \in [Prompts -> {"new", "begun", "wire", "in", "returned",
                                    "took", "unsure", "failed"}]
        /\ c.stopping \in {0} \cup Stops
    BY DEF TurnInv, StopInv, TypeOK, Conversation, Stops
  <1>2. \A k \in Stops : /\ c.watch[k].idles <= c.idles
                         /\ c.watch[k].send => c.watch[k].upto \in Prompts
    BY DEF StopInv, WatchFits
  <1>3. CASE SendBegins
    <2>1. /\ c'.closed = c.closed /\ ~c'.turnSeen
          /\ c'.stopping = c.stopping /\ c'.watch = c.watch
          /\ c'.running = c.running /\ c'.idles = c.idles
          /\ c'.unmoved = c.unmoved
      BY <1>1, <1>3, SendBeginsDoes
    <2>2. /\ op = "none" /\ ~c.closed
          /\ sent' = sent + 1 /\ sent + 1 \in Prompts
          /\ prompts' = [prompts EXCEPT ![sent + 1] = "begun"]
      BY <1>1, <1>3, CopilotConstants DEF SendBegins, Prompts
    <2>3. c.sending = 0
      BY <1>1, <2>2 DEF OpsFit
    <2>4. prompts'[sent'] = "begun"
      BY <1>1, <2>2
    <2>5. ShownFits'
      BY <2>1, <2>2, <2>4 DEF ShownFits, Begun
    <2>6. StopPending(c') => StopPending(c)
      BY <2>1 DEF StopPending
    <2>7. StopPending(c) /\ c.watch[c.stopping].send => c.running
      BY <2>2, <2>3, OvertakenMeans DEF Pending
    <2>8. \A p \in Prompts : prompts'[p] \in {"returned", "took"} =>
            prompts[p] \in {"returned", "took"}
      BY <1>1, <2>2
    <2>9. WatchFits' /\ OvertakenIsAborted'
      BY <1>2, <2>1, <2>6, <2>7, <2>8, WatchKept
    <2> QED BY <2>5, <2>9 DEF StopInv
  <1>6. CASE \E p \in Prompts : SendCalls(p)
    <2>1. PICK p \in Prompts : SendCalls(p)
      BY <1>6
    <2>2. /\ c'.closed = c.closed /\ c'.running = c.running
          /\ c'.idles = c.idles /\ c'.unmoved = c.unmoved
          /\ c'.stopping = c.stopping /\ c'.watch = c.watch
          /\ \/ /\ c.closed \/ c.running
                /\ prompts' = [prompts EXCEPT ![p] = "failed"]
             \/ /\ ~c.closed /\ ~c.running
                /\ prompts' = [prompts EXCEPT ![p] = "wire"]
                /\ c'.sending = 1
                /\ c'.shown = c.shown /\ c'.turnSeen = c.turnSeen
      BY <1>1, <2>1, SendCallsDoes
    <2>3. sent' = sent /\ prompts[p] = "begun"
      BY <2>1 DEF SendCalls
    <2>4. p = sent /\ c.sending = 0 /\ c.unmoved
      BY <1>1, <2>3 DEF OpsFit
    <2>5. ShownFits'
      BY <1>1, <2>2, <2>3, <2>4 DEF ShownFits, Pending
    <2>6. StopPending(c') <=> StopPending(c)
      BY <2>2 DEF StopPending
    <2>7. StopPending(c) /\ c.watch[c.stopping].send =>
            c.closed \/ c.running
      BY <2>4, OvertakenMeans DEF Pending
    <2>8. \A q \in Prompts : prompts'[q] \in {"returned", "took"} =>
            prompts[q] \in {"returned", "took"}
      BY <1>1, <2>2
    <2>9. WatchFits' /\ OvertakenIsAborted'
      BY <1>2, <2>2, <2>6, <2>7, <2>8, WatchKept
    <2> QED BY <2>5, <2>9 DEF StopInv
  <1>4. CASE \E p \in Prompts : SendAnswered(p)
    <2>1. PICK p \in Prompts : SendAnswered(p)
      BY <1>4
    <2>2. /\ Watches(c, c') /\ c'.closed = c.closed
          /\ c'.stopping = c.stopping /\ c'.idles = c.idles
          /\ c.unmoved => c'.running
          /\ ~c.unmoved => Running(c, c')
          /\ c'.running /\ StopPending(c') => ~c'.watch[c'.stopping].send
      BY <1>1, <2>1, SendAnsweredDoes
    <2>3. ShownFits'
      <3>1. ~Begun
        BY <1>1, <2>1 DEF OpsFit, Begun, SendAnswered
      <3> QED BY <1>1, <2>2, <3>1 DEF ShownFits, Pending, Running
    <2>4. \A k \in Stops : /\ c'.watch[k].idles <= c'.idles
                           /\ c'.watch[k].send => c'.watch[k].upto \in Prompts
      BY <1>2, <2>2 DEF Watches
    <2>5. ASSUME StopPending(c'), c'.watch[c'.stopping].send
          PROVE  /\ StopPending(c) /\ c.watch[c.stopping].send
                 /\ c'.watch[c'.stopping].upto = c.watch[c.stopping].upto
                 /\ ~c'.running /\ ~c.running /\ ~Pending
      <3>1. c.stopping \in Stops
        BY <1>1, <2>2, <2>5 DEF StopPending
      <3>2. /\ StopPending(c) /\ c.watch[c.stopping].send
            /\ c'.watch[c'.stopping].upto = c.watch[c.stopping].upto
        BY <2>2, <2>5, <3>1 DEF Watches, StopPending
      <3> QED BY <2>2, <2>5, <3>2 DEF Pending, Running
    <2>6. WatchFits' /\ OvertakenIsAborted'
      BY <2>2, <2>4, <2>5, WatchKept
    <2> QED BY <2>3, <2>6 DEF StopInv
  <1>5. CASE \E p \in Prompts : SendReturns(p) \/ SendFails(p)
    <2>1. PICK p \in Prompts : SendReturns(p) \/ SendFails(p)
      BY <1>5
    <2>2. /\ Watches(c, c') /\ c'.closed = c.closed
          /\ c'.running = c.running /\ c'.idles = c.idles
          /\ c'.stopping = IF c.running THEN c.stopping ELSE 0
          /\ c.running => c'.watch = c.watch
          /\ c'.shown = IF SendReturns(p) \/ c.turnSeen THEN c.shown
                        ELSE "ready"
      BY <1>1, <2>1, SendEndsDoes
    <2>3. /\ SendReturns(p) => prompts[p] = "returned" /\ prompts'[p] = "took"
          /\ SendFails(p) => prompts'[p] \in {"unsure", "failed"}
          /\ \A q \in Prompts \ {p} : prompts'[q] = prompts[q]
      BY <1>1, <2>1 DEF SendReturns, SendFails
    <2>5. ShownFits'
      <3>1. p = sent
        BY <1>1, <2>1 DEF OpsFit, SendReturns, SendFails
      <3> QED BY <1>1, <2>1, <2>2, <2>3, <3>1 DEF ShownFits, Pending, Begun,
                                                  SendReturns, SendFails
    <2>6. \A k \in Stops : /\ c'.watch[k].idles <= c'.idles
                           /\ c'.watch[k].send => c'.watch[k].upto \in Prompts
      BY <1>2, <2>2 DEF Watches
    <2>7. StopPending(c') =>
            c.running /\ StopPending(c) /\ c'.stopping = c.stopping
      BY <2>2 DEF StopPending
    <2>8. \A q \in Prompts : prompts'[q] \in {"returned", "took"} =>
            prompts[q] \in {"returned", "took"}
      BY <2>1, <2>3
    <2>9. WatchFits' /\ OvertakenIsAborted'
      BY <2>2, <2>6, <2>7, <2>8, WatchKept
    <2> QED BY <2>5, <2>9 DEF StopInv
  <1> QED BY <1>3, <1>4, <1>5, <1>6

\* Stop, its grace and its end.
LEMMA StopKeepsStop ==
  ASSUME TurnInv, StopInv, TypeOK',
         StopBegins \/ \E k \in Stops : StopUnconfirmed(k) \/ Detach(k)
  PROVE  StopInv'
  <1>1. /\ TypeOK /\ OpsFit /\ ShownFits /\ c \in Conversation
        /\ c.sending \in 0..1 /\ c.idles \in Nat
        /\ c.stopping \in {0} \cup Stops
    BY DEF TurnInv, StopInv, TypeOK, Conversation, Stops
  <1>2. \A k \in Stops : /\ c.watch[k].idles <= c.idles
                         /\ c.watch[k].send => c.watch[k].upto \in Prompts
                         /\ c.watch[k].idles \in Nat
    BY <1>1 DEF StopInv, WatchFits, Conversation, Watch
  <1>3. UNCHANGED <<prompts, sent>>
    BY DEF StopBegins, StopUnconfirmed, Detach
  <1>4. CASE StopBegins /\ ~NeedsWatch(c)
    <2>1. c' = c
      BY <1>1, <1>4, StopBeginsDoes
    <2> QED BY <1>3, <2>1, StopKept
  <1>5. CASE StopBegins /\ NeedsWatch(c)
    <2>1. /\ c'.closed = c.closed /\ c'.sending = c.sending
          /\ Running(c, c') /\ c'.idles = c.idles /\ c'.unmoved = c.unmoved
          /\ c'.stopping \in Stops
          /\ \A k \in Stops \ {c'.stopping} : c'.watch[k] = c.watch[k]
          /\ c'.watch[c'.stopping] = FreshWatch(c)
      BY <1>1, <1>5, StopBeginsDoes
    <2>2. ~c.closed /\ c.shown = "working"
      BY <1>5 DEF StopBegins
    <2>3. /\ c'.watch[c'.stopping].idles = c.idles
          /\ c'.watch[c'.stopping].send => ~c.running
          /\ c'.watch[c'.stopping].upto = sent
      <3>1. /\ FreshWatch(c).idles = c.idles
            /\ FreshWatch(c).send => ~c.running
            /\ FreshWatch(c).upto = sent
        BY DEF FreshWatch
      <3> QED BY <2>1, <3>1
    <2>4. Pending => Pending' /\ sent \in Prompts
      BY <1>1, <1>3, <2>1 DEF Pending, OpsFit
    <2>5. ~c.running => Pending
      <3>1. c.sending = 1 \/ c.running
        BY <1>1, <1>5 DEF NeedsWatch, InFlight
      <3>2. c.sending = 1 => ~Begun
        BY <1>1 DEF OpsFit, Begun
      <3> QED BY <1>1, <2>2, <3>1, <3>2 DEF ShownFits
    <2>6. ShownFits'
      BY <1>1, <1>3, <2>1, <2>4 DEF ShownFits, Begun, Running
    <2>7. \A k \in Stops : /\ c'.watch[k].idles <= c'.idles
                           /\ c'.watch[k].send => c'.watch[k].upto \in Prompts
      <3>1. \A k \in Stops \ {c'.stopping} :
              /\ c'.watch[k].idles <= c'.idles
              /\ c'.watch[k].send => c'.watch[k].upto \in Prompts
        BY <1>2, <2>1
      <3>2. /\ c'.watch[c'.stopping].idles <= c'.idles
            /\ c'.watch[c'.stopping].send =>
                 c'.watch[c'.stopping].upto \in Prompts
        BY <1>1, <2>1, <2>3, <2>4, <2>5
      <3> QED BY <3>1, <3>2
    <2>8. WatchFits'
      BY <1>3, <2>1, <2>3, <2>4, <2>5, <2>7 DEF WatchFits, Running
    <2>9. OvertakenIsAborted'
      BY <2>1, <2>3 DEF OvertakenIsAborted, Running
    <2> QED BY <2>6, <2>8, <2>9 DEF StopInv
  <1>6. CASE \E k \in Stops : StopUnconfirmed(k)
    <2>1. PICK k \in Stops : StopUnconfirmed(k)
      BY <1>6
    <2>2. /\ c'.closed = c.closed /\ c'.sending = c.sending
          /\ Running(c, c') /\ c'.idles = c.idles /\ c'.unmoved = c.unmoved
          /\ c'.stopping \in {0, c.stopping} \ {k}
          /\ \A j \in Stops \ {k} : c'.watch[j] = c.watch[j]
          /\ \/ ~c'.watch[k].send /\ c'.watch[k].idles = 0
             \/ /\ c'.watch[k].idles = c.watch[k].idles
                /\ c'.watch[k].upto = c.watch[k].upto
                /\ c'.watch[k].send = c.watch[k].send
      BY <1>1, <2>1, StopUnconfirmedDoes
    <2>3. Pending => Pending'
      BY <1>3, <2>2 DEF Pending
    <2>4. ShownFits'
      BY <1>1, <1>3, <2>2, <2>3 DEF ShownFits, Begun, Running
    <2>5. \A j \in Stops : /\ c'.watch[j].idles <= c'.idles
                           /\ c'.watch[j].send => c'.watch[j].upto \in Prompts
      BY <1>1, <1>2, <2>2
    <2>6. StopPending(c') => /\ c'.stopping \in Stops \ {k}
                             /\ c'.stopping = c.stopping /\ StopPending(c)
                             /\ c'.watch[c'.stopping] = c.watch[c.stopping]
      BY <1>1, <2>2 DEF StopPending
    <2>7. WatchFits' /\ OvertakenIsAborted'
      BY <1>3, <2>2, <2>3, <2>5, <2>6, WatchKept DEF Running
    <2> QED BY <2>4, <2>7 DEF StopInv
  <1>7. CASE \E k \in Stops : Detach(k)
    <2>1. PICK k \in Stops : Detach(k)
      BY <1>7
    <2>2. /\ c'.sending = c.sending /\ c'.stopping = c.stopping
          /\ c.idles <= c'.idles
          /\ c'.running => c'.idles = c.idles /\ c.running
          /\ \A j \in Stops \ {k} : c'.watch[j] = c.watch[j]
          /\ ~c'.watch[k].send /\ c'.watch[k].idles = 0
          /\ \/ c'.closed
             \/ /\ Running(c, c') /\ c'.idles = c.idles /\ ~c.closed
                /\ c'.unmoved = c.unmoved
      BY <1>1, <2>1, DetachDoes
    <2>3. c'.idles \in Nat
      BY DEF TypeOK, Conversation
    <2>4. c'.closed \/ (Pending => Pending')
      BY <1>3, <2>2 DEF Pending
    <2>5. ShownFits'
      BY <1>1, <1>3, <2>2, <2>4 DEF ShownFits, Begun, Running
    <2>6. \A j \in Stops : /\ c'.watch[j].idles <= c'.idles
                           /\ c'.watch[j].send => c'.watch[j].upto \in Prompts
      BY <1>1, <1>2, <2>2, <2>3
    <2>7. ASSUME StopPending(c'), c'.watch[c'.stopping].send,
                 c'.running \/ ~c'.closed
          PROVE  /\ StopPending(c)
                 /\ c'.running <=> c.running
                 /\ c'.watch[c'.stopping] = c.watch[c.stopping]
      <3>1. c'.idles = c.idles /\ (c'.running <=> c.running)
        BY <2>2, <2>7 DEF Running
      <3>2. c.stopping \in Stops \ {k}
        BY <1>1, <2>2, <2>7 DEF StopPending
      <3> QED BY <2>2, <2>7, <3>1, <3>2 DEF StopPending
    <2>8. WatchFits' /\ OvertakenIsAborted'
      BY <1>3, <2>2, <2>4, <2>6, <2>7, WatchKept
    <2> QED BY <2>5, <2>8 DEF StopInv
  <1> QED BY <1>4, <1>5, <1>6, <1>7

\* An event.
LEMMA EventKeepsStop ==
  ASSUME TurnInv, StopInv, TypeOK', OnEvent
  PROVE  StopInv'
  <1>1. /\ TypeOK /\ c \in Conversation /\ c.idles \in Nat
        /\ UNCHANGED <<prompts, sent>>
    BY DEF TurnInv, TypeOK, Conversation, OnEvent
  <1>2. \A k \in Stops : /\ c.watch[k].idles <= c.idles
                         /\ c.watch[k].send => c.watch[k].upto \in Prompts
    BY DEF StopInv, WatchFits
  <1> DEFINE ev == Head(events)
  <1>3. ev \in Event /\ ~c.closed
    BY <1>1, HeadIsEvent
  <1>4. /\ ev[1] \in {"start", "continuation", "error", "idle", "session",
                      "user"}
        /\ ev[1] = "user" => ev[2] \in Steers /\ ev[3] \in BOOLEAN
    BY <1>3, EventKinds
  <1>5. /\ ev[1] = "start" => c' = OnStart(c)
        /\ ev[1] = "user" => c' = OnUser(c, ev[2], ev[3])
        /\ ev[1] = "continuation" => c' = OnContinuation(c)
        /\ ev[1] = "error" => c' = [c EXCEPT !.turnErr = TRUE]
        /\ ev[1] \in {"idle", "session"} =>
             /\ c' = OnIdle(c, ev)
             /\ IF IdleEnds(c, ev) THEN SendsRetry(c, ev[2])
                ELSE UNCHANGED retry
    BY DEF OnEvent
  <1> HIDE DEF ev
  <1>6. CASE Starts(c, c')
    BY <1>1, <1>3, <1>6, StartKeepsStop
  <1>7. CASE Same(c, c')
    BY <1>1, <1>7, StopKept DEF Same, Kept
  <1>8. CASE ev[1] \in {"start", "continuation"}
    BY <1>1, <1>3, <1>5, <1>6, <1>8, StartDoes, ContinuationDoes
  <1>9. CASE ev[1] = "user"
    BY <1>1, <1>3, <1>4, <1>5, <1>6, <1>7, <1>9, UserDoes
  <1>10. CASE ev[1] = "error"
    <2>1. Same(c, c')
      BY <1>1, <1>5, <1>10 DEF Conversation, Same, Kept
    <2> QED BY <1>7, <2>1
  <1>11. CASE ev[1] \in {"idle", "session"}
    <2>1. /\ Kept(c, c')
          /\ \/ Running(c, c') /\ c'.idles = c.idles /\ c'.unmoved = c.unmoved
             \/ ~c'.running /\ c'.idles = c.idles + 1 /\ c'.shown = "ready"
      BY <1>1, <1>3, <1>5, <1>11, IdleDoes
    <2>2. CASE Running(c, c') /\ c'.idles = c.idles /\ c'.unmoved = c.unmoved
      BY <1>1, <2>1, <2>2, StopKept DEF Kept, Running
    <2>3. CASE ~c'.running /\ c'.idles = c.idles + 1 /\ c'.shown = "ready"
      <3>1. c.idles < c'.idles
        BY <1>1, <2>3
      <3> QED BY <1>2, <2>1, <2>3, <3>1, OverKeepsStop DEF Kept
    <2> QED BY <2>1, <2>2, <2>3
  <1> QED BY <1>4, <1>8, <1>9, <1>10, <1>11

\* The other steps.
LEMMA OthersKeepStop ==
  ASSUME TurnInv, StopInv, TypeOK',
         \/ \E s \in Steers : \/ SteerBegins(s) \/ SteerAnswered(s)
                              \/ SteerFails(s)
         \/ StopReturns \/ Exits \/ Close \/ CheckStall \/ AbortFails
         \/ RetryReturns \/ RetryFails \/ CLI \/ UNCHANGED vars
  PROVE  StopInv'
  <1>1. /\ TypeOK /\ c \in Conversation /\ c.idles \in Nat
    BY DEF TurnInv, TypeOK, Conversation
  <1>2. /\ UNCHANGED sent
        /\ \A p \in Prompts : \/ prompts'[p] = prompts[p]
                              \/ prompts[p] = "wire" /\ prompts'[p] = "in"
    <2>1. CASE CLI
      BY <1>1, <2>1 DEF CLI, TakesPrompt, TakesSteer, NextCall, TurnEnds,
                        TakesAbort, TakesRetry, uam, TypeOK
    <2>2. CASE ~CLI
      BY <2>2 DEF SteerBegins, SteerAnswered, SteerFails, StopReturns, Exits,
                  Close, CheckStall, AbortFails, RetryReturns, RetryFails,
                  wire, uam, vars
    <2> QED BY <2>1, <2>2
  <1>3. CASE Same(c, c')
    BY <1>2, <1>3, StopKept DEF Same, Kept
  <1>4. CASE \E s \in Steers :
               SteerBegins(s) \/ SteerAnswered(s) \/ SteerFails(s)
    BY <1>1, <1>3, <1>4, SteerDoes
  <1>5. CASE StopReturns \/ RetryReturns \/ CLI \/ UNCHANGED vars
    <2>1. c' = c
      BY <1>5 DEF StopReturns, RetryReturns, CLI, TakesPrompt, TakesSteer,
                  NextCall, TurnEnds, TakesAbort, TakesRetry, uam, vars
    <2> QED BY <1>3, <2>1 DEF Same, Kept
  <1>6. CASE Exits \/ Close
    BY <1>1, <1>2, <1>6, ClosesDoes, StopKept
  <1>7. CASE CheckStall \/ AbortFails
    BY <1>1, <1>3, <1>7, StallDoes
  <1>8. CASE RetryFails
    <2>1. Same(c, c') \/ Over(c, c')
      BY <1>1, <1>8, RetryFailsDoes
    <2>2. CASE Over(c, c')
      <3>1. c.idles < c'.idles
        BY <1>1, <2>2 DEF Over
      <3>2. \A k \in Stops : /\ c'.watch[k].idles <= c.idles
                             /\ c'.watch[k].send => c'.watch[k].upto \in Prompts
        BY <2>2 DEF StopInv, WatchFits, Over, Kept
      <3> QED BY <2>2, <3>1, <3>2, OverKeepsStop DEF Over, Kept
    <2> QED BY <1>3, <2>1, <2>2
  <1> QED BY <1>4, <1>5, <1>6, <1>7, <1>8

\* Every step keeps what is known of the Stop.
LEMMA NextStop == TurnInv /\ StopInv /\ [Next]_vars => StopInv'
  <1>1. SUFFICES ASSUME TurnInv, StopInv, [Next]_vars PROVE StopInv'
    OBVIOUS
  <1>2. TypeOK'
    BY <1>1, NextTyped DEF TurnInv
  <1> QED
    BY <1>1, <1>2, SendKeepsStop, StopKeepsStop, EventKeepsStop, OthersKeepStop
    DEF Next

\* A check that counts as pending is of the turn that runs or of the prompt on
\* its way, and that prompt's turn waits for the second abort only until its
\* send is answered (stop.go: watchStopLocked, abortStartedLocked).
THEOREM StopsInductive == Spec => [](TurnInv /\ StopInv)
  BY InitTurn, NextTurn, InitStop, NextStop, PTL DEF Spec

\* A Stop that overtook a prompt aborts once more when its turn runs
\* (stop.go: abortStartedLocked).
THEOREM OvertakenAborts == Spec => []OvertakenIsAborted
  <1>1. StopInv => OvertakenIsAborted
    BY DEF StopInv
  <1> QED BY <1>1, StopsInductive, PTL

=============================================================================
